-------------------------------- MODULE Binder --------------------------------
(* crates/binder: a parsed statement is resolved against a catalog into     *)
(* typed expressions with explicit casts.  Nothing is evaluated and nothing *)
(* is changed; every function below is an operator from syntax to a bound   *)
(* tree or an error.  Names are strings, a number token is its form and its *)
(* magnitude, an optional part is a sequence of length 0 or 1.              *)
EXTENDS Integers, SequencesExt

CONSTANTS
    Tables,        \* the catalog: table name -> table source
    Unreadable,    \* names for which Catalog::get_table reports an error
    Schemas,       \* table source -> sequence of [name, data_type, nullable]
    MAX_DEPTH,     \* 256 in the code
    I32_MAX, I64_MAX, U32_MAX, U64_MAX

ASSUME BinderAssumption ==
    /\ I32_MAX \in Nat /\ I64_MAX \in Nat /\ U32_MAX \in Nat /\ U64_MAX \in Nat
    /\ I32_MAX < I64_MAX /\ MAX_DEPTH \in Nat \ {0}
    /\ \A name \in DOMAIN Tables : Tables[name] \in DOMAIN Schemas
    /\ Unreadable \intersect DOMAIN Tables = {}

-----------------------------------------------------------------------------
(* Syntax trees (parser::Expr) and bound trees (bound::Expr) share a shape: *)
(* kind, a name or symbol, a number, operands, and the parts of a call.     *)
Syntax(k_, s_, n_, args_) ==
    [k |-> k_, s |-> s_, n |-> n_, args |-> args_,
     distinct |-> FALSE, filter |-> <<>>, over |-> <<>>]
Identifier(name) == Syntax("Identifier", name, 0, <<>>)
QualifiedIdentifier(table, column) == Syntax("Qualified", column, 0, <<Identifier(table)>>)
Wildcard == Syntax("Wildcard", "", 0, <<>>)
Null == Syntax("Null", "", 0, <<>>)
Number(form, n) == Syntax("Number", form, n, <<>>)
Unary(op, x) == Syntax("Unary", op, 0, <<x>>)
Binary(x, op, y) == Syntax("Binary", op, 0, <<x, y>>)
IsNull(x, negated) == Syntax("IsNull", "", IF negated THEN 1 ELSE 0, <<x>>)
Alias(x, name) == Syntax("Alias", name, 0, <<x>>)
FunctionCall(name, args_, distinct_, filter_, over_) ==
    [Syntax("FunctionCall", name, 0, args_) EXCEPT
        !.distinct = distinct_, !.filter = filter_, !.over = over_]

(* LogicalType.  The number is a VARCHAR's length limit, 0 without one. *)
T(name) == <<name, 0>>
Textual(t) == t[1] \in {"Text", "Varchar"}

Expr(k_, ty_, nullable_, s_, n_, args_) ==
    [k |-> k_, ty |-> ty_, nullable |-> nullable_, s |-> s_, n |-> n_, rel |-> 0,
     args |-> args_, distinct |-> FALSE, filter |-> <<>>, over |-> <<>>]
BindError(what) == Expr("Error", T("Null"), TRUE, what, 0, <<>>)
Failed(e) == e.k = "Error"
Errors(es) == SelectSeq(es, Failed)
(* The ? operator over several parts: the first error, or the result. *)
Checked(parts, result) == IF Errors(parts) = <<>> THEN result ELSE Errors(parts)[1]

-----------------------------------------------------------------------------
(* Names.  A scope is a sequence of relations [name, table]; the last scope *)
(* is the innermost.  The qualifier "" stands for none.                     *)
ColumnOf(table, i) ==
    LET c == Schemas[table.source][i]
    IN  [Expr("Column", c.data_type, c.nullable, "", i, <<>>) EXCEPT !.rel = table.relation]

RECURSIVE resolve_column(_, _, _)
resolve_column(scopes, qualifier, name) ==
    IF scopes = <<>> THEN BindError("UnknownColumn")
    ELSE LET scope == Last(scopes)
             visible == {r \in DOMAIN scope : qualifier \in {"", scope[r].name}}
             named(r) == LET columns == Schemas[scope[r].table.source]
                         IN  {<<r, i>> : i \in {j \in DOMAIN columns : columns[j].name = name}}
             found == UNION {named(r) : r \in visible}
         IN  IF \/ qualifier # "" /\ Cardinality(visible) > 1
                \/ Cardinality(found) > 1 THEN BindError("AmbiguousColumn")
             ELSE IF found # {}
             THEN LET at == CHOOSE f \in found : TRUE IN ColumnOf(scope[at[1]].table, at[2])
             ELSE IF qualifier # "" /\ visible # {} THEN BindError("UnknownColumn")
             ELSE resolve_column(Front(scopes), qualifier, name)

lookup_table(name) ==
    [relation |-> 0,
     source |-> IF name \in DOMAIN Tables THEN Tables[name] ELSE "",
     error |-> IF name \in Unreadable THEN "Catalog"
               ELSE IF name \notin DOMAIN Tables THEN "UnknownTable" ELSE ""]

-----------------------------------------------------------------------------
(* Types and coercions. *)
integral_types == {T("Int32"), T("Int64"), T("Uint32")}
numeric(t) == t \in integral_types \union {T("Float32"), T("Float64")}

cast(e, target) ==
    IF Failed(e) \/ e.ty = target THEN e
    ELSE Expr("Cast", target, e.nullable, "", 0, <<e>>)

boolean(e) ==
    IF Failed(e) \/ e.ty = T("Boolean") THEN e
    ELSE IF e.ty = T("Null") THEN cast(e, T("Boolean"))
    ELSE BindError("TypeMismatch")

require_numeric(t, integral) ==
    t = T("Null") \/ (numeric(t) /\ (integral => t \in integral_types))

(* None is the type T("None"). *)
numeric_common(left, right) ==
    CASE left = T("Null") /\ right = T("Null") -> T("Int32")
      [] left = T("Null") /\ right # T("Null") -> IF numeric(right) THEN right ELSE T("None")
      [] left # T("Null") /\ right = T("Null") -> IF numeric(left) THEN left ELSE T("None")
      [] OTHER -> IF ~numeric(left) \/ ~numeric(right) THEN T("None")
                  ELSE IF left = right THEN left
                  ELSE IF {left, right} \intersect {T("Float32"), T("Float64")} # {}
                       THEN T("Float64") ELSE T("Int64")

comparison_common(left, right) ==
    LET l == IF left = T("Null") THEN right ELSE left
        r == IF right = T("Null") THEN left ELSE right
    IN  CASE l = T("Null") /\ r = T("Null") -> T("Text")
          [] l = T("Boolean") /\ r = T("Boolean") -> T("Boolean")
          [] Textual(l) /\ Textual(r) -> T("Text")
          [] OTHER -> numeric_common(l, r)

assignment(e, target) ==
    IF \/ Failed(e)
       \/ e.ty \in {target, T("Null")}
       \/ numeric(e.ty) /\ numeric(target)
       \/ Textual(e.ty) /\ Textual(target)
    THEN cast(e, target)
    ELSE BindError("IncompatibleTypes")

value(ty_, n_) == Expr("Literal", ty_, ty_ = T("Null"), "", n_, <<>>)

(* A signed token is inferred as a whole.  Malformed tokens and infinite    *)
(* reals are forms of their own.                                            *)
number(token, negative) ==
    LET n == IF negative THEN -token.n ELSE token.n
    IN  IF token.s \in {"malformed", "infinite"} THEN BindError("InvalidNumber")
        ELSE IF token.s = "real" THEN value(T("Float64"), n)
        ELSE IF n \notin -(I64_MAX + 1)..I64_MAX THEN BindError("InvalidNumber")
        ELSE value(T(IF n \in -(I32_MAX + 1)..I32_MAX THEN "Int32" ELSE "Int64"), n)

unary(op, x) ==
    LET y == IF x.ty = T("Null") THEN cast(x, T("Int32")) ELSE x
        operand == IF Failed(x) THEN x
                   ELSE IF op = "NOT" THEN boolean(x)
                   ELSE IF ~require_numeric(y.ty, FALSE) THEN BindError("TypeMismatch")
                   ELSE IF op = "-" /\ y.ty = T("Uint32") THEN cast(y, T("Int64"))
                   ELSE y
    IN  Checked(<<operand>>, Expr("Unary", operand.ty, operand.nullable, op, 0, <<operand>>))

binary(op, x, y) ==
    LET integral == op = "%"
        target == IF op \in {"+", "-", "*", "/", "%"} THEN numeric_common(x.ty, y.ty)
                  ELSE comparison_common(x.ty, y.ty)
        operands ==
            CASE op \in {"AND", "OR"} -> <<boolean(x), boolean(y)>>
              [] op \in {"+", "-", "*", "/", "%"} ->
                     IF require_numeric(x.ty, integral) /\ require_numeric(y.ty, integral)
                     THEN <<cast(x, target), cast(y, target)>>
                     ELSE <<BindError("TypeMismatch")>>
              [] OTHER -> IF target = T("None") THEN <<BindError("IncompatibleTypes")>>
                          ELSE <<cast(x, target), cast(y, target)>>
        result == IF op \in {"+", "-", "*", "/", "%"} THEN target ELSE T("Boolean")
    IN  Checked(<<x, y>> \o operands,
                Expr("Binary", result, operands[1].nullable \/ operands[2].nullable, op, 0, operands))

-----------------------------------------------------------------------------
(* Window frames: [units, start, end], a bound being a category and an      *)
(* offset token (-1: not a row of digits).                                  *)
category ==
    [UnboundedPreceding |-> 0, Preceding |-> 1, CurrentRow |-> 2,
     Following |-> 3, UnboundedFollowing |-> 4]

frame(given, ordered) ==
    LET f == given[1]
        offsets == SelectSeq(<<f.start, f.end>>, LAMBDA b : b[1] \in {"Preceding", "Following"})
    IN  IF given = <<>>
        THEN [units |-> "Range", start |-> <<"UnboundedPreceding", 0>>,
              end |-> <<IF ordered THEN "CurrentRow" ELSE "UnboundedFollowing", 0>>]
        ELSE IF \/ \E i \in DOMAIN offsets : f.units = "Range" \/ offsets[i][2] \notin 0..U64_MAX
                \/ f.start[1] = "UnboundedFollowing"
                \/ f.end[1] = "UnboundedPreceding"
                \/ category[f.start[1]] > category[f.end[1]]
        THEN [f EXCEPT !.units = "Error"]
        ELSE f

(* The direction is not asked for the default place of NULL. *)
order_nulls_last(e, o) ==
    [expr |-> e, direction |-> o.direction, nulls |-> IF o.nulls # "Default" THEN o.nulls ELSE "Last"]

order(e, o) ==
    [expr |-> e, direction |-> o.direction,
     nulls |-> IF o.nulls # "Default" THEN o.nulls
               ELSE IF o.direction = "Ascending" THEN "Last" ELSE "First"]

Aggregates == {"count", "sum", "avg", "min", "max"}
Rankings == {"row_number", "rank", "dense_rank"}

call_error(e, star, aggregates, windows) ==
    IF e.s \notin Aggregates \union Rankings THEN "UnknownFunction"
    ELSE IF \/ e.over # <<>> /\ (~windows \/ e.distinct)
            \/ e.over = <<>> /\ (e.s \in Rankings \/ ~aggregates)
            \/ e.s \in Aggregates /\ (Len(e.args) # 1 \/ (star /\ (e.s # "count" \/ e.distinct)))
            \/ e.s \in Rankings /\ (e.args # <<>> \/ e.distinct \/ e.filter # <<>>)
    THEN "InvalidFunction"
    ELSE ""

(* The type an aggregate computes in; its argument is cast to it. *)
aggregate_type(function, t) ==
    IF function \in {"min", "max"} THEN IF t = T("Null") THEN T("Text") ELSE t
    ELSE IF ~require_numeric(t, FALSE) THEN T("None")
    ELSE T(IF function = "avg" \/ t \in {T("Float32"), T("Float64")} THEN "Float64" ELSE "Int64")

RECURSIVE bind_expr_inner(_, _, _, _, _)
(* Operands of a window see group output, so they may hold aggregates. *)
bind_call(e, scopes, depth, aggregates, windows) ==
    LET star == Len(e.args) = 1 /\ e.args[1].k = "Wildcard"
        bind(x) == bind_expr_inner(x, scopes, depth + 1, e.over # <<>>, FALSE)
        each(xs) == [i \in DOMAIN xs |-> bind(xs[i])]
        given == IF star THEN <<>> ELSE each(e.args)
        filter_ == [i \in DOMAIN e.filter |-> boolean(bind(e.filter[i]))]
        counts == e.s \in Rankings \union {"count"}
        target == IF counts THEN T("Int64") ELSE aggregate_type(e.s, given[1].ty)
        args_ == IF counts THEN given
                 ELSE IF target = T("None") THEN <<BindError("TypeMismatch")>>
                 ELSE <<cast(given[1], target)>>
        spec == e.over[1]
        ordered == [i \in DOMAIN spec.order_by |-> order(bind(spec.order_by[i].expr), spec.order_by[i])]
        over_ == IF e.over = <<>> THEN <<>>
                 ELSE <<[partition_by |-> each(spec.partition_by), order_by |-> ordered,
                         frame |-> frame(spec.frame, spec.order_by # <<>>)]>>
        over_parts == IF over_ = <<>> THEN <<>>
                      ELSE over_[1].partition_by \o [i \in DOMAIN ordered |-> ordered[i].expr]
                           \o (IF over_[1].frame.units = "Error"
                               THEN <<BindError("InvalidWindowFrame")>> ELSE <<>>)
    IN  IF call_error(e, star, aggregates, windows) # ""
        THEN BindError(call_error(e, star, aggregates, windows))
        ELSE Checked(given \o filter_ \o args_ \o over_parts,
                     [Expr(IF e.over = <<>> THEN "Aggregate" ELSE "Window", target, ~counts,
                           e.s, 0, args_)
                        EXCEPT !.distinct = e.distinct, !.filter = filter_, !.over = over_])

bind_expr_inner(e, scopes, depth, aggregates, windows) ==
    LET bind(x) == bind_expr_inner(x, scopes, depth + 1, aggregates, windows)
    IN  IF depth >= MAX_DEPTH THEN BindError("ExpressionTooDeep")
        ELSE CASE e.k = "Alias" -> BindError("InvalidStatement")
               [] e.k = "FunctionCall" -> bind_call(e, scopes, depth, aggregates, windows)
               [] e.k = "Identifier" -> resolve_column(scopes, "", e.s)
               [] e.k = "Qualified" -> resolve_column(scopes, e.args[1].s, e.s)
               [] e.k = "Wildcard" -> BindError("InvalidWildcard")
               [] e.k = "Null" -> value(T("Null"), 0)
               [] e.k = "Boolean" -> value(T("Boolean"), e.n)
               [] e.k = "String" -> value(T("Text"), e.n)
               [] e.k = "Number" -> number(e, FALSE)
               [] e.k = "Unary" -> IF e.s = "-" /\ e.args[1].k = "Number" THEN number(e.args[1], TRUE)
                                   ELSE unary(e.s, bind(e.args[1]))
               [] e.k = "Binary" -> binary(e.s, bind(e.args[1]), bind(e.args[2]))
               [] e.k = "IsNull" -> LET x == bind(e.args[1])
                                    IN  Checked(<<x>>, Expr("IsNull", T("Boolean"), FALSE, "", e.n, <<x>>))

bind_expr(e, scopes) == bind_expr_inner(e, scopes, 0, FALSE, FALSE)

-----------------------------------------------------------------------------
(* Grouping. *)
OverParts(e) ==
    IF e.over = <<>> THEN <<>>
    ELSE e.over[1].partition_by
         \o [i \in DOMAIN e.over[1].order_by |-> e.over[1].order_by[i].expr]

children(e) == IF e.k = "Aggregate" THEN <<>> ELSE e.args \o e.filter \o OverParts(e)

RECURSIVE contains_aggregate(_)
contains_aggregate(e) ==
    e.k = "Aggregate" \/ \E i \in DOMAIN children(e) : contains_aggregate(children(e)[i])

(* Columns are looked for at the root of an expression only. *)
validate_grouped_shallow(e, groups) == e \in ToSet(groups) \/ e.k # "Column"

RECURSIVE validate_grouped(_, _)
validate_grouped(e, groups) ==
    \/ e \in ToSet(groups) \/ e.k = "Aggregate"
    \/ e.k # "Column" /\ \A i \in DOMAIN children(e) : validate_grouped(children(e)[i], groups)

-----------------------------------------------------------------------------
(* Statements.  A bound statement is a record of its kind; an error has the *)
(* kind "Error".                                                            *)
StatementError(what) == [kind |-> "Error", error |-> what]
CheckedStatement(parts, result) ==
    IF Errors(parts) = <<>> THEN result ELSE StatementError(Errors(parts)[1].s)

named(e, scopes) ==
    LET aliased == e.k = "Alias"
        x == IF aliased THEN e.args[1] ELSE e
    IN  [name |-> CASE aliased -> e.s
                    [] x.k \in {"Identifier", "Qualified"} -> x.s
                    [] OTHER -> "?column?",
         expr |-> bind_expr_inner(x, scopes, IF aliased THEN 1 ELSE 0, TRUE, TRUE)]

bind_projection(projection, table, scopes) ==
    IF Len(projection) = 1 /\ projection[1].k = "Wildcard"
    THEN IF table = <<>> THEN <<[name |-> "", expr |-> BindError("InvalidWildcard")]>>
         ELSE [i \in DOMAIN Schemas[table[1].source] |->
                  [name |-> Schemas[table[1].source][i].name, expr |-> ColumnOf(table[1], i)]]
    ELSE [i \in DOMAIN projection |-> named(projection[i], scopes)]

(* ORDER BY: an output name, an ordinal, or an expression. *)
bind_order(o, projection, scopes) ==
    LET e == o.expr
        matches == SelectSeq(projection, LAMBDA p : p.name = e.s)
        bound == bind_expr_inner(e, scopes, 0, TRUE, TRUE)
    IN  order(CASE e.k = "Identifier" /\ Len(matches) = 1 -> matches[1].expr
                [] e.k = "Identifier" /\ Len(matches) > 1 -> BindError("AmbiguousColumn")
                [] e.k = "Number" /\ e.s = "whole" ->
                       IF e.n \in DOMAIN projection THEN projection[e.n].expr
                       ELSE BindError("InvalidStatement")
                [] OTHER -> bound, o)

(* A SELECT whose parts are bound: the first error, the check of grouped    *)
(* columns, or the statement.                                               *)
checked_select(table, projection, filter, group_by, having, order_by) ==
    LET outputs == [i \in DOMAIN projection |-> projection[i].expr]
        keys == [i \in DOMAIN order_by |-> order_by[i].expr]
        is_aggregate == \/ group_by # <<>> \/ having # <<>>
                        \/ \E e \in ToSet(outputs \o keys) : contains_aggregate(e)
        ungrouped == /\ is_aggregate
                     /\ \E e \in ToSet(outputs \o having \o keys) : ~validate_grouped(e, group_by)
    IN  CheckedStatement(outputs \o filter \o group_by \o having \o keys,
            IF ungrouped THEN StatementError("UngroupedColumn")
            ELSE [kind |-> "Select", source |-> table, projection |-> projection,
                  filter |-> filter, group_by |-> group_by, having |-> having,
                  order_by |-> order_by, is_aggregate |-> is_aggregate])

bind_select(st) ==
    LET table == IF st.from = "" THEN <<>> ELSE <<lookup_table(st.from)>>
        scopes == <<[i \in DOMAIN table |-> [name |-> st.from, table |-> table[i]]]>>
        predicates(xs, aggregates) ==
            [i \in DOMAIN xs |-> boolean(bind_expr_inner(xs[i], scopes, 0, aggregates, FALSE))]
        projection == bind_projection(st.projection, table, scopes)
    IN  IF st.projection = <<>> THEN StatementError("EmptyProjection")
        ELSE IF table # <<>> /\ table[1].error # "" THEN StatementError(table[1].error)
        ELSE checked_select(table, projection, predicates(st.filter, FALSE),
                 [i \in DOMAIN st.group_by |-> bind_expr(st.group_by[i], scopes)],
                 predicates(st.having, TRUE),
                 [i \in DOMAIN st.order_by |-> bind_order(st.order_by[i], projection, scopes)])

(* The one column of that name: its index in a record like an expression's. *)
target(columns, name) ==
    LET at == {i \in DOMAIN columns : columns[i].name = name}
    IN  IF at = {} THEN BindError("UnknownColumn")
        ELSE IF Cardinality(at) > 1 THEN BindError("AmbiguousColumn")
        ELSE Expr("Target", T("Null"), TRUE, "", CHOOSE i \in at : TRUE, <<>>)

(* Targets in the order given; a second use of one is an error. *)
distinct_targets(columns, names) ==
    LET at == [i \in DOMAIN names |-> target(columns, names[i])]
    IN  [i \in DOMAIN at |-> IF ~Failed(at[i]) /\ \E j \in 1..(i - 1) : at[j] = at[i]
                             THEN BindError("DuplicateColumn") ELSE at[i]]

context(name, table) == <<<<[name |-> name, table |-> table]>>>>

(* Rows are put into schema order; a column not named gets a typed NULL. *)
bind_insert(st) ==
    LET table == lookup_table(st.table)
        columns == Schemas[table.source]
        named_targets == distinct_targets(columns, st.columns)
        targets == IF st.columns = <<>> THEN [i \in DOMAIN columns |-> i]
                   ELSE [i \in DOMAIN st.columns |-> named_targets[i].n]
        cell(row, c) ==
            IF c \in ToSet(targets)
            THEN assignment(bind_expr(row[SelectInSeq(targets, LAMBDA t : t = c)], <<>>),
                            columns[c].data_type)
            ELSE assignment(value(T("Null"), 0), columns[c].data_type)
        rows == [r \in DOMAIN st.rows |-> [c \in DOMAIN columns |-> cell(st.rows[r], c)]]
        as_given == [r \in DOMAIN rows |-> [k \in DOMAIN targets |-> rows[r][targets[k]]]]
        problem(row) == IF Len(row) # Len(targets) THEN "RowWidth"
                        ELSE IF row = <<>> THEN "InvalidStatement" ELSE ""
        first == SelectInSeq(st.rows, LAMBDA row : problem(row) # "")
    IN  IF table.error # "" THEN StatementError(table.error)
        ELSE CheckedStatement(named_targets,
                 IF st.rows = <<>> THEN StatementError("InvalidStatement")
                 ELSE IF first # 0 THEN StatementError(problem(st.rows[first]))
                 ELSE CheckedStatement(FlattenSeq(as_given),
                          [kind |-> "Insert", table |-> table, rows |-> rows]))

bind_filter(st, scopes) == [i \in DOMAIN st.filter |-> boolean(bind_expr(st.filter[i], scopes))]

bind_update(st) ==
    LET table == lookup_table(st.table)
        columns == Schemas[table.source]
        scopes == context(st.table, table)
        set == st.assignments
        at == distinct_targets(columns, [i \in DOMAIN set |-> set[i].column])
        new(i) == assignment(bind_expr(set[i].value, scopes), columns[at[i].n].data_type)
        parts == [i \in DOMAIN set |-> Checked(<<at[i]>>, new(i))]
        filter == bind_filter(st, scopes)
    IN  IF table.error # "" THEN StatementError(table.error)
        ELSE IF set = <<>> THEN StatementError("InvalidStatement")
        ELSE CheckedStatement(parts \o filter,
                 [kind |-> "Update", table |-> table, filter |-> filter,
                  assignments |-> [i \in DOMAIN set |-> [column_index |-> at[i].n, value |-> new(i)]]])

bind_delete(st) ==
    LET table == lookup_table(st.table)
        filter == bind_filter(st, context(st.table, table))
    IN  IF table.error # "" THEN StatementError(table.error)
        ELSE CheckedStatement(filter, [kind |-> "Delete", table |-> table, filter |-> filter])

(* Declared types.  A VARCHAR's length token is -2 when absent, -1 when it  *)
(* is not a row of digits.                                                  *)
declared_type(d) ==
    CASE d[1] = "Integer" -> T("Int32")  [] d[1] = "BigInt" -> T("Int64")
      [] d[1] = "Real" -> T("Float32")   [] d[1] = "Double" -> T("Float64")
      [] d[1] \in {"Boolean", "Text"} -> T(d[1])
      [] d[1] = "Varchar" -> IF d[2] = -2 THEN T("Varchar")
                             ELSE IF d[2] \in 1..U32_MAX THEN d ELSE T("None")

bind_create_table(st) ==
    LET columns == st.columns
        key(i) == "PrimaryKey" \in ToSet(columns[i].constraints)
        error(i) ==
            IF \E j \in 1..(i - 1) : columns[j].name = columns[i].name THEN "DuplicateColumn"
            ELSE IF declared_type(columns[i].data_type) = T("None") THEN "InvalidType"
            ELSE IF \/ ~IsInjective(columns[i].constraints)
                    \/ key(i) /\ \E j \in 1..(i - 1) : key(j) THEN "InvalidConstraint"
            ELSE ""
        errors == SelectSeq([i \in DOMAIN columns |-> error(i)], LAMBDA what : what # "")
        constraints_of(i) ==
            LET cs == SelectSeq(columns[i].constraints, LAMBDA c : c # "NotNull")
            IN  [j \in DOMAIN cs |-> <<cs[j], i>>]
    IN  IF st.name = "" \/ columns = <<>> \/ \E i \in DOMAIN columns : columns[i].name = ""
        THEN StatementError("InvalidStatement")
        ELSE IF st.name \in Unreadable THEN StatementError("Catalog")
        ELSE IF st.name \in DOMAIN Tables THEN StatementError("TableAlreadyExists")
        ELSE IF errors # <<>> THEN StatementError(errors[1])
        ELSE [kind |-> "CreateTable", name |-> st.name,
              columns |-> [i \in DOMAIN columns |->
                  [name |-> columns[i].name,
                   data_type |-> declared_type(columns[i].data_type),
                   nullable |-> ToSet(columns[i].constraints)
                                    \intersect {"NotNull", "PrimaryKey"} = {}]],
              constraints |-> FlattenSeq([i \in DOMAIN columns |-> constraints_of(i)])]

bind(st) ==
    CASE st.kind = "Select" -> bind_select(st)
      [] st.kind = "CreateTable" -> bind_create_table(st)
      [] st.kind = "Insert" -> bind_insert(st)
      [] st.kind = "Update" -> bind_update(st)
      [] st.kind = "Delete" -> bind_delete(st)
      [] st.kind \in {"Begin", "Commit", "Rollback"} -> st
=============================================================================
