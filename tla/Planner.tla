-------------------------------- MODULE Planner -------------------------------
(* crates/planner: a bound statement becomes a DataFusion plan, phase by    *)
(* phase, with generated column names.  DataFusion's expressions, schemas   *)
(* and constructors are external; they appear here as far as the planner    *)
(* relies on them: the type and nullability an expression has over a schema *)
(* and the rejection of one that has none.                                  *)
EXTENDS Binder

-----------------------------------------------------------------------------
(* Arrow types, generated columns and the table adapter. *)
arrow_type(ty) == IF Textual(ty) THEN "Utf8" ELSE ty[1]
ctid_type == "FixedSizeBinary"

(* A relation's columns carry its number, generated ones carry -1. *)
Column(q_, name_, n_) == [q |-> q_, name |-> name_, n |-> n_]
from_name(name_, n_) == Column(-1, name_, n_)
column(binding) == Column(binding.rel, "__c", binding.n)
ctid(table) == Column(table.relation, "__ctid", 0)
Field(col_, ty_, nullable_) == [col |-> col_, ty |-> ty_, nullable |-> nullable_]

adapter_schema(table, with_ctid) ==
    LET columns == Schemas[table.source]
    IN  [i \in DOMAIN columns |-> Field(Column(table.relation, "__c", i),
                                        arrow_type(columns[i].data_type), columns[i].nullable)]
        \o (IF with_ctid THEN <<Field(ctid(table), ctid_type, FALSE)>> ELSE <<>>)

-----------------------------------------------------------------------------
(* DataFusion expressions (external). *)
Df(k_, s_, n_, ty_, args_) ==
    [k |-> k_, s |-> s_, n |-> n_, ty |-> ty_, args |-> args_, col |-> from_name("", 0),
     distinct |-> FALSE, filter |-> <<>>, over |-> <<>>]
DfColumn(c) == [Df("Column", "", 0, "", <<>>) EXCEPT !.col = c]
DfError(what) == Df("Error", what, 0, "Error", <<>>)
DfNull == Df("Null", "", 0, "Null", <<>>)

IndexOf(schema, c) == SelectInSeq(schema, LAMBDA f : f.col = c)

RECURSIVE get_type(_, _)
get_type(e, schema) ==
    LET of(i) == get_type(e.args[i], schema)
        all == {of(i) : i \in DOMAIN e.args}
        same == IF Cardinality(all) = 1 THEN of(1) ELSE "Error"
    IN  CASE e.k \in {"Literal", "Null"} -> e.ty
          [] e.k = "Column" -> IF IndexOf(schema, e.col) = 0 THEN "Error"
                               ELSE schema[IndexOf(schema, e.col)].ty
          [] e.k = "Cast" -> IF of(1) = "Error" THEN "Error" ELSE e.ty
          [] e.k = "Negative" -> IF numeric(T(of(1))) THEN of(1) ELSE "Error"
          [] e.k = "Not" -> IF of(1) = "Boolean" THEN "Boolean" ELSE "Error"
          [] e.k = "Binary" -> IF same = "Error" THEN "Error"
                               ELSE IF e.s \in {"+", "-", "*", "/", "%"} THEN same ELSE "Boolean"
          [] e.k \in {"IsNull", "IsNotNull"} -> IF of(1) = "Error" THEN "Error" ELSE "Boolean"
          [] e.k \in {"AggregateFunction", "WindowFunction"} ->
                 IF "Error" \in all THEN "Error"
                 ELSE IF e.s = "count" THEN "Int64" ELSE IF e.s = "avg" THEN "Float64"
                 ELSE IF e.s \in Rankings THEN "UInt64" ELSE of(1)
          [] e.k = "Error" -> "Error"

RECURSIVE is_nullable(_, _)
is_nullable(e, schema) ==
    CASE e.k = "Null" -> TRUE
      [] e.k = "Column" -> schema[IndexOf(schema, e.col)].nullable
      [] e.k \in {"AggregateFunction", "WindowFunction"} -> e.s \notin Rankings \union {"count"}
      [] e.k \in {"IsNull", "IsNotNull"} -> FALSE
      [] OTHER -> \E i \in DOMAIN e.args : is_nullable(e.args[i], schema)

-----------------------------------------------------------------------------
(* DataFusion plan nodes (external), each with its schema.  Expressions are *)
(* aliased: [col, expr].                                                    *)
Node(node_, schema_, exprs_, input_) ==
    [node |-> node_, schema |-> schema_, exprs |-> exprs_, input |-> input_,
     source |-> "", rows |-> <<>>, keys |-> <<>>, groups |-> 0, error |-> "",
     operation |-> [kind |-> "", ctid |-> from_name("", 0), values |-> <<>>, targets |-> <<>>],
     target |-> [relation |-> 0, source |-> ""]]
PlanError(what) == [Node("Error", <<>>, <<>>, <<>>) EXCEPT !.error = what]
Bad(plan) == plan.node = "Error"

Aliased(e, c) == [col |-> c, expr |-> e]
(* What went wrong in lowered expressions over a schema: an error carried   *)
(* by one of them, or an expression DataFusion gives no type.               *)
RECURSIVE LoweringErrors(_)
LoweringErrors(e) ==
    IF e.k = "Error" THEN {e.s}
    ELSE UNION {LoweringErrors(x) : x \in ToSet(e.args \o e.filter)}
         \union UNION {LoweringErrors(x) : x \in
                          UNION {ToSet(o.partition_by) \union {k.expr : k \in ToSet(o.order_by)} :
                                    o \in ToSet(e.over)}}
Problem(es, schema) ==
    LET lowering == UNION {LoweringErrors(e) : e \in ToSet(es)}
    IN  IF lowering # {} THEN CHOOSE w \in lowering : TRUE
        ELSE IF \E e \in ToSet(es) : get_type(e, schema) = "Error" THEN "DataFusion"
        ELSE ""
Fields(aliased, schema) ==
    [i \in DOMAIN aliased |-> Field(aliased[i].col, get_type(aliased[i].expr, schema),
                                    is_nullable(aliased[i].expr, schema))]

(* try_new of a node over an input: kept adds the input's own columns. *)
TryNew(node_, aliased, input, kept) ==
    LET problem == Problem([i \in DOMAIN aliased |-> aliased[i].expr], input.schema)
    IN  IF Bad(input) THEN input
        ELSE IF problem # "" THEN PlanError(problem)
        ELSE Node(node_, (IF kept THEN input.schema ELSE <<>>) \o Fields(aliased, input.schema),
                  aliased, <<input>>)

TryFilter(e, input) ==
    LET problem == Problem(<<e>>, input.schema)
    IN  IF Bad(input) THEN input
        ELSE IF problem # "" THEN PlanError(problem)
        ELSE Node("Filter", input.schema, <<Aliased(e, from_name("", 0))>>, <<input>>)

scan(table, with_ctid) ==
    [Node("TableScan", adapter_schema(table, with_ctid), <<>>, <<>>) EXCEPT !.source = table.source]

-----------------------------------------------------------------------------
(* Lowering. *)
plan_children(e) == e.args \o e.filter \o OverParts(e)

RECURSIVE check_depth(_, _)
check_depth(e, n) ==
    n <= MAX_DEPTH /\ \A i \in DOMAIN plan_children(e) : check_depth(plan_children(e)[i], n + 1)

(* Lower: a schema, whether grouping has happened, and what has already     *)
(* been computed below: pairs of a bound expression and its column.         *)
Lower(schema_, grouped_, mapped_) == [schema |-> schema_, grouped |-> grouped_, mapped |-> mapped_]
raw(schema_) == Lower(schema_, FALSE, <<>>)

lower_literal(e) ==
    IF e.ty = T("Null") THEN DfNull ELSE Df("Literal", "", e.n, arrow_type(e.ty), <<>>)
lower_cast(e, ty_) == Df("Cast", "", 0, arrow_type(ty_), <<e>>)
lower_column(lower, e) ==
    LET at == IndexOf(lower.schema, column(e))
    IN  IF lower.grouped \/ at = 0 THEN DfError("UnknownColumn")
        ELSE IF lower.schema[at].ty # arrow_type(e.ty) THEN DfError("InvalidBound")
        ELSE DfColumn(column(e))

RECURSIVE lower_expr(_, _, _)
lower_expr(lower, e, n) ==
    LET at == SelectInSeq(lower.mapped, LAMBDA m : m[1] = e)
        sub(i) == lower_expr(lower, e.args[i], n + 1)
    IN  IF n > MAX_DEPTH THEN DfError("ExpressionTooDeep")
        ELSE IF at # 0 THEN lower.mapped[at][2]
        ELSE CASE e.k = "Literal" -> lower_literal(e)
               [] e.k = "Column" -> lower_column(lower, e)
               [] e.k = "Unary" -> (CASE e.s = "NOT" -> Df("Not", "", 0, "", <<sub(1)>>)
                                      [] e.s = "+" -> sub(1)
                                      [] e.s = "-" -> Df("Negative", "", 0, "", <<sub(1)>>))
               [] e.k = "Binary" -> Df("Binary", e.s, 0, "", <<sub(1), sub(2)>>)
               [] e.k = "Cast" -> lower_cast(sub(1), e.ty)
               [] e.k = "IsNull" -> Df(IF e.n = 1 THEN "IsNotNull" ELSE "IsNull", "", 0, "", <<sub(1)>>)
               [] e.k \in {"Aggregate", "Window"} -> DfError("InvalidBound")

expressions(lower, es) == [i \in DOMAIN es |-> lower_expr(lower, es[i], 1)]

predicate(lower, es) ==
    [i \in DOMAIN es |-> IF es[i].ty # T("Boolean") THEN DfError("InvalidBound")
                         ELSE lower_expr(lower, es[i], 1)]

lower_order(lower, os) ==
    [i \in DOMAIN os |-> [expr |-> lower_expr(lower, os[i].expr, 1),
                          asc |-> os[i].direction = "Ascending",
                          nulls_first |-> os[i].nulls = "First"]]

where_filter(input, filter) ==
    IF filter = <<>> \/ Bad(input) THEN input
    ELSE IF ~check_depth(filter[1], 1) THEN PlanError("ExpressionTooDeep")
    ELSE TryFilter(predicate(raw(input.schema), filter)[1], input)

RECURSIVE collect(_, _, _)
collect(e, kind, found) ==
    IF e.k = kind THEN IF e \in ToSet(found) THEN found ELSE Append(found, e)
    ELSE FoldLeft(LAMBDA acc, x : collect(x, kind, acc), found, plan_children(e))

CollectAll(es, kind) == FoldLeft(LAMBDA acc, x : collect(x, kind, acc), <<>>, es)

(* COUNT of everything counts a literal. *)
arguments(lower, function, args_) ==
    IF function = "count" /\ args_ = <<>> THEN <<Df("Literal", "", 1, "Int64", <<>>)>>
    ELSE expressions(lower, args_)

-----------------------------------------------------------------------------
(* SELECT: source, WHERE, grouping, HAVING, windows, ORDER BY, projection.  *)
(* A phase is the plan so far and what it has computed.                     *)
Phase(input_, mapped_) == [input |-> input_, mapped |-> mapped_]

(* The column of a computed value, cast where DataFusion's type differs. *)
mapped_value(e, computed, name, schema) ==
    IF get_type(computed, schema) # arrow_type(e.ty) THEN lower_cast(DfColumn(name), e.ty)
    ELSE DfColumn(name)

aggregate_phase(q, aggregates, input) ==
    LET lower == raw(input.schema)
        call(e) == [Df("AggregateFunction", e.s, 0, "", arguments(lower, e.s, e.args)) EXCEPT
                       !.distinct = e.distinct, !.filter = predicate(lower, e.filter)]
        groups == [n \in DOMAIN q.group_by |->
                      Aliased(lower_expr(lower, q.group_by[n], 1), from_name("__group", n))]
        aggs == [n \in DOMAIN aggregates |-> Aliased(call(aggregates[n]), from_name("__agg", n))]
        dummy == Df("AggregateFunction", "count", 0, "", <<Df("Literal", "", 1, "Int64", <<>>)>>)
        computed == IF groups \o aggs = <<>> THEN <<Aliased(dummy, from_name("__dummy_count", 0))>>
                    ELSE groups \o aggs
    IN  Phase([TryNew("Aggregate", computed, input, FALSE) EXCEPT !.groups = Len(groups)],
              [n \in DOMAIN groups |-> <<q.group_by[n], DfColumn(groups[n].col)>>]
              \o [n \in DOMAIN aggs |->
                     <<aggregates[n],
                       mapped_value(aggregates[n], aggs[n].expr, aggs[n].col, input.schema)>>])

having_phase(q, grouped, phase) ==
    LET lower == Lower(phase.input.schema, grouped, phase.mapped)
    IN  IF q.having = <<>> \/ Bad(phase.input) THEN phase
        ELSE [phase EXCEPT !.input = TryFilter(predicate(lower, q.having)[1], phase.input)]

window_call(lower, e) ==
    [Df("WindowFunction", e.s, 0, "", IF e.s \in Aggregates THEN arguments(lower, e.s, e.args)
                                      ELSE expressions(lower, e.args)) EXCEPT
        !.distinct = e.distinct, !.filter = predicate(lower, e.filter),
        !.over = <<[partition_by |-> expressions(lower, e.over[1].partition_by),
                    order_by |-> lower_order(lower, e.over[1].order_by),
                    frame |-> e.over[1].frame]>>]

add_window(phase, e, call, name) ==
    Phase(TryNew("Window", <<Aliased(call, name)>>, phase.input, TRUE),
          Append(phase.mapped, <<e, mapped_value(e, call, name, phase.input.schema)>>))

(* Window operands see the phase before all windows. *)
window_phase(windows, grouped, before) ==
    LET lower == Lower(before.input.schema, grouped, before.mapped)
        add(phase, n) == add_window(phase, windows[n], window_call(lower, windows[n]),
                                    from_name("__window", n))
    IN  FoldLeft(add, before, [n \in DOMAIN windows |-> n])

sort_phase(q, grouped, phase) ==
    LET keys_ == lower_order(Lower(phase.input.schema, grouped, phase.mapped), q.order_by)
        problem == Problem([i \in DOMAIN keys_ |-> keys_[i].expr], phase.input.schema)
    IN  IF q.order_by = <<>> \/ Bad(phase.input) THEN phase.input
        ELSE IF problem # "" THEN PlanError(problem)
        ELSE [Node("Sort", phase.input.schema, <<>>, <<phase.input>>) EXCEPT !.keys = keys_]

Planned(kind_, plan_, output_, command_) ==
    [kind |-> kind_, plan |-> plan_, output |-> output_, command |-> command_]
NoPlan == Node("", <<>>, <<>>, <<>>)
Command(statement) == Planned("Command", NoPlan, <<>>, <<statement>>)
PlannedOrError(kind_, plan_, output_) ==
    IF Bad(plan_) THEN Planned("Error", plan_, <<>>, <<>>) ELSE Planned(kind_, plan_, output_, <<>>)

(* The SQL-visible output: a direct column keeps its origin. *)
output_field(p) ==
    [name |-> p.name, data_type |-> p.expr.ty, nullable |-> p.expr.nullable,
     origin |-> IF p.expr.k = "Column" THEN <<p.expr.rel, p.expr.n>> ELSE <<>>]

projection_phase(outputs, grouped, mapped, input) ==
    LET lower == Lower(input.schema, grouped, mapped)
    IN  TryNew("Projection",
               [n \in DOMAIN outputs |->
                   Aliased(lower_expr(lower, outputs[n], 1), from_name("__output", n))],
               input, FALSE)

(* The phases after WHERE. *)
grouping_phase(q, aggregates, grouped, input) ==
    IF grouped THEN having_phase(q, grouped, aggregate_phase(q, aggregates, input))
    ELSE Phase(input, <<>>)
output_phases(q, outputs, grouped, phase) ==
    projection_phase(outputs, grouped, phase.mapped, sort_phase(q, grouped, phase))

select(q) ==
    LET outputs == [i \in DOMAIN q.projection |-> q.projection[i].expr]
        keys_ == [i \in DOMAIN q.order_by |-> q.order_by[i].expr]
        source_ == IF q.source = <<>> THEN Node("EmptyRelation", <<>>, <<>>, <<>>)
                   ELSE scan(q.source[1], FALSE)
        aggregates == CollectAll(outputs \o q.having \o keys_, "Aggregate")
        grouped == q.group_by # <<>> \/ q.having # <<>> \/ aggregates # <<>>
        windowed == window_phase(CollectAll(outputs \o keys_, "Window"), grouped,
                        grouping_phase(q, aggregates, grouped, where_filter(source_, q.filter)))
    IN  IF \E e \in ToSet(outputs \o q.filter \o q.group_by \o q.having \o keys_) : ~check_depth(e, 1)
        THEN Planned("Error", PlanError("ExpressionTooDeep"), <<>>, <<>>)
        ELSE IF grouped # q.is_aggregate THEN Planned("Error", PlanError("InvalidBound"), <<>>, <<>>)
        ELSE PlannedOrError("Query", output_phases(q, outputs, grouped, windowed),
                            [i \in DOMAIN q.projection |-> output_field(q.projection[i])])

-----------------------------------------------------------------------------
(* The ModifyTable node.  A target is a relation occurrence and a source's  *)
(* identity.                                                                *)
Target(table) == [relation |-> table.relation, source |-> table.source]

RECURSIVE ensure_relational_input(_)
ensure_relational_input(plan) ==
    /\ plan.node \notin {"ModifyTable", "Dml", "Ddl", "Statement", "Copy"}
    /\ \A i \in DOMAIN plan.input : ensure_relational_input(plan.input[i])

validate_value(target_, input, index, c) ==
    /\ index \in DOMAIN Schemas[target_.source]
    /\ IndexOf(input.schema, c) # 0
    /\ input.schema[IndexOf(input.schema, c)].ty = arrow_type(Schemas[target_.source][index].data_type)

validate_ctid(input, c) ==
    /\ IndexOf(input.schema, c) # 0
    /\ LET f == input.schema[IndexOf(input.schema, c)] IN f.ty = ctid_type /\ ~f.nullable

modify_columns(op) ==
    CASE op.kind = "Insert" -> op.values
      [] op.kind = "Update" -> <<op.ctid>> \o op.values
      [] op.kind = "Delete" -> <<op.ctid>>

(* ModifyTable::validate.  For an INSERT the targets are all columns. *)
validate(target_, input, op) ==
    LET values_valid(targets) ==
            \A i \in DOMAIN op.values : validate_value(target_, input, targets[i], op.values[i])
    IN  /\ ensure_relational_input(input)
        /\ op.kind = "Insert" => /\ Len(op.values) = Len(Schemas[target_.source])
                                 /\ values_valid([i \in DOMAIN op.values |-> i])
        /\ op.kind \in {"Update", "Delete"} => validate_ctid(input, op.ctid)
        /\ op.kind = "Update" => /\ op.targets # <<>> /\ IsInjective(op.targets)
                                 /\ values_valid(op.targets)

completion_schema == <<Field(from_name("affected_rows", 0), "Int64", FALSE)>>

modify(target_, input, op) ==
    IF Bad(input) THEN input
    ELSE IF ~validate(target_, input, op) THEN PlanError("DataFusion")
    ELSE [Node("ModifyTable", completion_schema, <<>>, <<input>>) EXCEPT
             !.operation = op, !.target = target_]

Operation(kind_, ctid_, values_, targets_) ==
    [kind |-> kind_, ctid |-> ctid_, values |-> values_, targets |-> targets_]
NoColumn == from_name("", 0)

(* with_exprs_and_inputs: the node again over other columns and inputs. *)
rebuild(plan, exprs, inputs) ==
    LET op == plan.operation
        columns == [i \in DOMAIN exprs |-> exprs[i].col]
    IN  IF \/ Len(inputs) # 1 \/ Len(exprs) # Len(modify_columns(op))
           \/ \E i \in DOMAIN exprs : exprs[i].k # "Column"
        THEN PlanError("DataFusion")
        ELSE modify(plan.target, inputs[1],
                    CASE op.kind = "Insert" -> [op EXCEPT !.values = columns]
                      [] op.kind = "Update" -> [op EXCEPT !.ctid = columns[1], !.values = Tail(columns)]
                      [] op.kind = "Delete" -> [op EXCEPT !.ctid = columns[1]])

(* The positions of the input a ModifyTable needs. *)
necessary_children_exprs(plan) ==
    LET at == {IndexOf(plan.input[1].schema, c) : c \in ToSet(modify_columns(plan.operation))}
    IN  SetToSortSeq(at, <)

-----------------------------------------------------------------------------
(* Planner::plan. *)
plan_insert(st) ==
    LET columns == Schemas[st.table.source]
        cells == FlattenSeq(st.rows)
        lowered == [r \in DOMAIN st.rows |-> expressions(raw(<<>>), st.rows[r])]
        schema_ == [n \in DOMAIN columns |->
                       Field(from_name("__insert", n), arrow_type(columns[n].data_type),
                             \E r \in DOMAIN st.rows : st.rows[r][n].nullable)]
        problem == Problem(FlattenSeq(lowered), <<>>)
        input == IF \E r \in DOMAIN st.rows : Len(st.rows[r]) # Len(columns)
                 THEN PlanError("InvalidBound")
                 ELSE IF \E e \in ToSet(cells) : ~check_depth(e, 1) THEN PlanError("ExpressionTooDeep")
                 ELSE IF \E r \in DOMAIN st.rows, n \in DOMAIN columns :
                             st.rows[r][n].ty # columns[n].data_type THEN PlanError("InvalidBound")
                 ELSE IF problem # "" THEN PlanError(problem)
                 ELSE [Node("Values", schema_, <<>>, <<>>) EXCEPT !.rows = lowered]
    IN  modify(Target(st.table), input,
               Operation("Insert", NoColumn, [n \in DOMAIN schema_ |-> schema_[n].col], <<>>))

plan_update(st) ==
    LET input == where_filter(scan(st.table, TRUE), st.filter)
        columns == Schemas[st.table.source]
        set == st.assignments
        new(n) == Aliased(lower_expr(raw(input.schema), set[n].value, 1), from_name("__new", n))
        invalid == IF \E n \in DOMAIN set : ~check_depth(set[n].value, 1) THEN "ExpressionTooDeep"
                   ELSE IF \E n \in DOMAIN set :
                               \/ set[n].column_index \notin DOMAIN columns
                               \/ columns[set[n].column_index].data_type # set[n].value.ty
                   THEN "InvalidBound" ELSE ""
        projected == TryNew("Projection",
                            <<Aliased(DfColumn(ctid(st.table)), from_name("__ctid", 0))>>
                                \o [n \in DOMAIN set |-> new(n)], input, FALSE)
    IN  IF Bad(input) THEN input
        ELSE IF invalid # "" THEN PlanError(invalid)
        ELSE modify(Target(st.table), projected,
                    Operation("Update", from_name("__ctid", 0),
                              [n \in DOMAIN set |-> from_name("__new", n)],
                              [n \in DOMAIN set |-> set[n].column_index]))

plan_delete(st) ==
    LET c == ctid(st.table)
        input == where_filter(scan(st.table, TRUE), st.filter)
    IN  modify(Target(st.table), TryNew("Projection", <<Aliased(DfColumn(c), c)>>, input, FALSE),
               Operation("Delete", c, <<>>, <<>>))

plan(st) ==
    CASE st.kind = "Select" -> select(st)
      [] st.kind \in {"CreateTable", "Begin", "Commit", "Rollback"} -> Command(st)
      [] st.kind = "Insert" -> PlannedOrError("ModifyTable", plan_insert(st), <<>>)
      [] st.kind = "Update" -> PlannedOrError("ModifyTable", plan_update(st), <<>>)
      [] st.kind = "Delete" -> PlannedOrError("ModifyTable", plan_delete(st), <<>>)

-----------------------------------------------------------------------------
(* The statement boundary around rewriting. *)
insert_root(p) == p.node = "ModifyTable" /\ p.operation.kind = "Insert"

(* DataFusion's own check of a plan (external), which asks an extension     *)
(* node for its check_invariants.                                           *)
RECURSIVE check_invariants(_)
check_invariants(p) ==
    /\ p.node = "ModifyTable" => /\ validate(p.target, p.input[1], p.operation)
                                 /\ p.schema = completion_schema
    /\ \A i \in DOMAIN p.input : check_invariants(p.input[i])

Columns(p) == [i \in DOMAIN p.schema |-> p.schema[i].col]

(* A query's columns are compared, their types and nullability are not. *)
with_optimized_columns(statement, optimized) ==
    IF /\ check_invariants(optimized)
       /\ statement.kind = "Query" => Columns(statement.plan) = Columns(optimized)
       /\ statement.kind = "ModifyTable" => insert_root(statement.plan) /\ insert_root(optimized)
    THEN [statement EXCEPT !.plan = optimized]
    ELSE Planned("Error", PlanError("InvalidBound"), <<>>, <<>>)

with_optimized_plan(statement, optimized) ==
    IF ~check_invariants(optimized) THEN Planned("Error", PlanError("DataFusion"), <<>>, <<>>)
    ELSE IF CASE statement.kind = "Query" ->
                     /\ ensure_relational_input(optimized)
                     /\ Columns(statement.plan) = Columns(optimized)
                     /\ Len(statement.output) = Len(optimized.schema)
                     /\ \A i \in DOMAIN statement.output :
                            LET expected == statement.output[i]
                                actual == optimized.schema[i]
                            IN  /\ arrow_type(expected.data_type) = actual.ty
                                /\ actual.nullable => expected.nullable
              [] statement.kind = "ModifyTable" ->
                     /\ insert_root(statement.plan) /\ insert_root(optimized)
                     /\ statement.plan.target = optimized.target
                     /\ statement.plan.schema = optimized.schema
              [] OTHER -> FALSE
    THEN [statement EXCEPT !.plan = optimized]
    ELSE Planned("Error", PlanError("InvalidBound"), <<>>, <<>>)
=============================================================================
