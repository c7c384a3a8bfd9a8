--------------------------------- MODULE Query --------------------------------
(* The way of one statement: parsed, bound, planned, perhaps rewritten by   *)
(* rules the caller supplies, and executed.  The optimizer and the executor *)
(* hold no state between statements; what they guard is the boundary of the *)
(* statement against rules that are not theirs.                             *)
EXTENDS QueryMeaning

CONSTANTS
    Cases,         \* the statements
    RuleLists,     \* the lists of rules an Optimizer is made with
    MaxPasses      \* Optimizer::max_passes

VARIABLES
    statement,     \* the parsed statement
    rules,         \* the optimizer's rules
    stage,         \* how far the statement has come
    bound,         \* the binder's answer
    planned,       \* the PlannedStatement
    candidate,     \* the plan the rules have made so far
    pass, at,      \* the pass and the next rule of it
    failure        \* why the statement was given up
vars == <<statement, rules, stage, bound, planned, candidate, pass, at, failure>>

Init ==
    /\ statement \in Cases /\ rules \in RuleLists
    /\ stage = "parsed" /\ bound = StatementError("") /\ planned = Command([kind |-> ""])
    /\ candidate = NoPlan /\ pass = 0 /\ at = 0 /\ failure = ""

GiveUp(why) == stage' = "failed" /\ failure' = why

Bind ==
    /\ stage = "parsed"
    /\ bound' = bind(statement)
    /\ IF bound'.kind = "Error" THEN GiveUp("bind") ELSE stage' = "bound" /\ UNCHANGED failure
    /\ UNCHANGED <<statement, rules, planned, candidate, pass, at>>

Plan ==
    /\ stage = "bound"
    /\ planned' = plan(bound)
    /\ IF planned'.kind = "Error" THEN GiveUp("plan") ELSE stage' = "planned" /\ UNCHANGED failure
    /\ UNCHANGED <<statement, rules, bound, candidate, pass, at>>

-----------------------------------------------------------------------------
(* Rules (external): what a rule may make of a plan, good or bad.  A rule   *)
(* that does not apply leaves the plan alone; one that rewrites the input   *)
(* of a modification rebuilds the modification over it.                     *)
Without(s) == SubSeq(s, 1, Len(s) - 1)
Reprojected(p, indices) ==
    TryNew("Projection", [i \in DOMAIN indices |->
                             LET c == p.schema[indices[i]].col IN Aliased(DfColumn(c), c)], p, FALSE)
NullsAs(p, ty(_)) ==
    TryNew("Projection", [i \in DOMAIN p.schema |->
                             Aliased(Df("Cast", "", 0, ty(p.schema[i]), <<DfNull>>), p.schema[i].col)],
           p, FALSE)
Rebuilt(p, input) ==
    LET columns == modify_columns(p.operation)
    IN  rebuild(p, [i \in DOMAIN columns |-> DfColumn(columns[i])], <<input>>)
OutputAs(p, e) == TryNew("Projection", [p.exprs EXCEPT ![1].expr = e], p.input[1], FALSE)
SomeInsert ==
    LET s == CHOOSE t \in DOMAIN Schemas : TRUE
    IN  [Node("ModifyTable", completion_schema, <<>>, <<Node("EmptyRelation", <<>>, <<>>, <<>>)>>)
            EXCEPT !.operation.kind = "Insert", !.target.source = s]

Rewrite(rule, p) ==
    CASE rule = "Keep" -> p
      [] rule = "Fail" -> PlanError("DataFusion")
      [] rule = "DropOutput" /\ p.node = "Projection" ->
             [p EXCEPT !.exprs = Without(@), !.schema = Without(@)]
      [] rule = "RenameOutput" /\ p.node = "Projection" -> [p EXCEPT !.schema[1].col = NoColumn]
      [] rule = "NullOutput" /\ p.node = "Projection" ->
             OutputAs(p, Df("Cast", "", 0, p.schema[1].ty, <<DfNull>>))
      [] rule = "RetypeOutput" /\ p.node = "Projection" ->
             OutputAs(p, Df("Cast", "", 0, "Float32", <<p.exprs[1].expr>>))
      [] rule = "HideInsert" /\ p.node = "Projection" -> [p EXCEPT !.input[1].input = <<SomeInsert>>]
      [] rule = "Retarget" /\ p.node = "ModifyTable" ->
             [p EXCEPT !.target.source = CHOOSE s \in DOMAIN Schemas : s # p.target.source]
      [] rule = "TakeInput" /\ p.node = "ModifyTable" -> p.input[1]
      [] rule = "ReverseInput" /\ p.node = "ModifyTable" ->
             Rebuilt(p, Reprojected(p.input[1], Reverse([i \in DOMAIN p.input[1].schema |-> i])))
      [] rule = "PruneInput" /\ p.node = "ModifyTable" ->
             Rebuilt(p, Reprojected(p.input[1], necessary_children_exprs(p)))
      [] rule = "ChangeInput" /\ p.node = "ModifyTable" ->
             Rebuilt(p, NullsAs(p.input[1], LAMBDA f : f.ty))
      [] rule = "RetypeInput" /\ p.node = "ModifyTable" ->
             Rebuilt(p, NullsAs(p.input[1], LAMBDA f : "Float32"))
      [] rule = "EmptyInput" /\ p.node = "ModifyTable" ->
             Rebuilt(p, TryFilter(Df("Literal", "", 0, "Boolean", <<>>), p.input[1]))
      [] OTHER -> p

-----------------------------------------------------------------------------
(* Optimizer::optimize. *)
ReturnCommand ==
    /\ stage = "planned" /\ planned.kind = "Command"
    /\ stage' = "optimized"
    /\ UNCHANGED <<statement, rules, bound, planned, candidate, pass, at, failure>>

(* Unsupported or malformed statements are rejected before any rule runs. *)
BeginOptimize ==
    /\ stage = "planned" /\ planned.kind # "Command"
    /\ IF with_optimized_plan(planned, planned.plan).kind = "Error"
       THEN GiveUp("boundary") /\ UNCHANGED <<candidate, pass, at>>
       ELSE /\ stage' = "rewriting" /\ candidate' = planned.plan /\ pass' = 1 /\ at' = 1
            /\ UNCHANGED failure
    /\ UNCHANGED <<statement, rules, bound, planned>>

RunRule ==
    /\ stage = "rewriting" /\ at \in DOMAIN rules
    /\ LET rewritten == Rewrite(rules[at], candidate)
       IN  IF Bad(rewritten) THEN GiveUp("rule") /\ UNCHANGED <<candidate, at>>
           ELSE candidate' = rewritten /\ at' = at + 1 /\ UNCHANGED <<stage, failure>>
    /\ UNCHANGED <<statement, rules, bound, planned, pass>>

(* DataFusion also stops early, when a pass changes nothing. *)
NextPass ==
    /\ stage = "rewriting" /\ at = Len(rules) + 1 /\ pass < MaxPasses
    /\ pass' = pass + 1 /\ at' = 1
    /\ UNCHANGED <<statement, rules, stage, bound, planned, candidate, failure>>

EndOptimize ==
    /\ stage = "rewriting" /\ at = Len(rules) + 1
    /\ LET answer == with_optimized_plan(planned, candidate)
       IN  IF answer.kind = "Error" THEN GiveUp("boundary") /\ UNCHANGED planned
           ELSE planned' = answer /\ stage' = "optimized" /\ UNCHANGED failure
    /\ UNCHANGED <<statement, rules, bound, candidate, pass, at>>

-----------------------------------------------------------------------------
(* Executor::execute.  The table adapter has no physical scan provider, so  *)
(* DataFusion's physical planner (external) fails on a scan; it, or the run *)
(* of the physical plan, may fail on any other plan too.                    *)
RECURSIVE Scans(_)
Scans(p) == p.node = "TableScan" \/ \E i \in DOMAIN p.input : Scans(p.input[i])

Execute ==
    /\ stage \in {"planned", "optimized"}
    /\ IF planned.kind # "Query" THEN GiveUp("unsupported")
       ELSE IF with_optimized_plan(planned, planned.plan).kind = "Error" THEN GiveUp("boundary")
       ELSE \/ GiveUp("physical")
            \/ ~Scans(planned.plan) /\ GiveUp("run")
            \/ ~Scans(planned.plan) /\ stage' = "executed" /\ UNCHANGED failure
    /\ UNCHANGED <<statement, rules, bound, planned, candidate, pass, at>>

Next ==
    \/ Bind \/ Plan \/ ReturnCommand \/ BeginOptimize \/ RunRule \/ NextPass \/ EndOptimize
    \/ Execute
Spec == Init /\ [][Next]_vars

-----------------------------------------------------------------------------
(* The rows a query's plan returns have the width, the types and the        *)
(* nullability that its output metadata declares.                           *)
KeepsDeclaration(p, output) ==
    \A row \in ToSet(RowsOf(p)) :
        /\ Len(row) = Len(output)
        /\ \A i \in DOMAIN output : /\ row[i].ty = arrow_type(output[i].data_type)
                                    /\ row[i].v = NullV => output[i].nullable

(* A declaration binds to its columns under their names; PRIMARY KEY and    *)
(* NOT NULL forbid NULL, and there is one primary key at most.              *)
DeclarationKept(declared, command) ==
    /\ [i \in DOMAIN command.columns |-> command.columns[i].name]
           = [i \in DOMAIN declared.columns |-> declared.columns[i].name]
    /\ Cardinality({c.name : c \in ToSet(command.columns)}) = Len(command.columns)
    /\ \A i \in DOMAIN command.columns :
           command.columns[i].nullable <=> ToSet(declared.columns[i].constraints) \subseteq {"Unique"}
    /\ Len(SelectSeq(command.constraints, LAMBDA c : c[1] = "PrimaryKey")) <= 1
    /\ ToSet(command.constraints) =
           UNION {{<<c, i>> : c \in ToSet(declared.columns[i].constraints) \ {"NotNull"}} :
                     i \in DOMAIN declared.columns}

(* Binding and planning keep a statement's meaning, through casts, defaults *)
(* of frames and NULL order, deduplicated aggregates and windows, generated *)
(* columns and phases: a query's plan returns the rows the syntax asks for, *)
(* with one value per group, of the declared types and never NULL where     *)
(* declared otherwise; a modification changes the rows the syntax names     *)
(* (bind_select, validate_grouped, select, bind_insert, bind_update).       *)
PlanFaithful ==
    stage = "planned" =>
        CASE planned.kind = "Query" ->
                 /\ SelectMeaning(statement) = [determined |-> TRUE, rows |-> Plain(RowsOf(planned.plan))]
                 /\ KeepsDeclaration(planned.plan, planned.output)
          [] planned.kind = "ModifyTable" ->
                 /\ Modified(planned.plan) = ModifyMeaning(statement)
                 /\ planned.plan.target.source = Tables[statement.table]
          [] planned.kind = "Command" ->
                 statement.kind = "CreateTable" => DeclarationKept(statement, planned.command[1])

(* Every expression of a bound statement. *)
BoundExpressions ==
    CASE bound.kind = "Select" ->
             {p.expr : p \in ToSet(bound.projection)} \union {o.expr : o \in ToSet(bound.order_by)}
             \union ToSet(bound.filter \o bound.group_by \o bound.having)
      [] bound.kind = "Insert" -> ToSet(FlattenSeq(bound.rows))
      [] bound.kind = "Update" -> {a.value : a \in ToSet(bound.assignments)} \union ToSet(bound.filter)
      [] bound.kind = "Delete" -> ToSet(bound.filter)

(* The height of a bound expression, its filter and window included. *)
RECURSIVE Height(_)
Height(e) == 1 + Max({0} \union {Height(x) : x \in ToSet(e.args \o e.filter \o OverParts(e))})

(* What the binder accepts the planner plans, and what it plans passes its  *)
(* own boundary: every column survives grouping, the flag is_aggregate is   *)
(* right, types and nullability agree with DataFusion's.  The exception is  *)
(* an expression that the binder's casts made higher than the limit: none   *)
(* of them is planned, wherever it stands and however grouping and windows  *)
(* would cut it into phases, and no lower one is refused (validate_grouped, *)
(* Lower::expr, check_depth, with_optimized_plan).                          *)
BoundPlans ==
    /\ failure = "plan" => /\ planned.plan.error = "ExpressionTooDeep"
                           /\ \E e \in BoundExpressions : Height(e) > MAX_DEPTH
    /\ stage = "planned" /\ planned.kind # "Command" =>
           \A e \in BoundExpressions : Height(e) <= MAX_DEPTH
    /\ stage = "planned" /\ (planned.kind = "Query" \/ insert_root(planned.plan)) =>
           with_optimized_plan(planned, planned.plan).kind # "Error"

(* The rows an INSERT plan writes have a value of the right type for every  *)
(* column of the table.                                                     *)
WritesTyped(p) ==
    LET columns == Schemas[p.target.source]
        values == p.operation.values
    IN  /\ Len(values) = Len(columns)
        /\ \A row \in ToSet(RowsOf(p.input[1])), c \in DOMAIN columns :
               row[IndexOf(p.input[1].schema, values[c])].ty = arrow_type(columns[c].data_type)

(* The rules that give an INSERT other rows to write. *)
RowChanging == {"ChangeInput", "EmptyInput"}

(* Whatever the rules do, a query leaves the optimizer and enters execution *)
(* with its declared output and without a modification beneath it, and an   *)
(* INSERT remains an INSERT into its table of rows of the table's types,    *)
(* even of no rows; no rule is run on an UPDATE or a DELETE.  The boundary  *)
(* does not judge the rows themselves: an INSERT writes the statement's     *)
(* rows when no rule replaced them, however the rules reordered and pruned  *)
(* the columns of its input (Optimizer::optimize, Executor::execute,        *)
(* PlannedStatement::with_optimized_plan, ModifyTable::rebuild).            *)
BoundaryHolds ==
    /\ stage \in {"rewriting", "optimized"} /\ planned.kind = "ModifyTable" =>
           statement.kind = "Insert"
    /\ stage = "executed" => planned.kind = "Query"
    /\ stage \in {"optimized", "executed"} =>
           CASE planned.kind = "Query" -> /\ ensure_relational_input(planned.plan)
                                          /\ KeepsDeclaration(planned.plan, planned.output)
             [] planned.kind = "ModifyTable" ->
                    /\ insert_root(planned.plan)
                    /\ planned.plan.target.source = Tables[statement.table]
                    /\ WritesTyped(planned.plan)
                    /\ ToSet(rules) \intersect RowChanging = {} =>
                           Modified(planned.plan) = ModifyMeaning(statement)
             [] planned.kind = "Command" -> planned = plan(bound)
=============================================================================
