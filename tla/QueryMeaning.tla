----------------------------- MODULE QueryMeaning -----------------------------
(* What statements and plans mean over small tables.  SQL's operators,      *)
(* aggregates and windows are defined once over plain values; the meaning   *)
(* of a statement follows its syntax, the meaning of a plan follows         *)
(* DataFusion's nodes with typed values.  Values are integers; NullV is     *)
(* NULL, truth is 1.                                                        *)
EXTENDS Planner

CONSTANT Contents    \* table source -> sequence of rows in schema order

NullV == 99
OverflowV == 98    \* a value its type cannot hold: the statement fails when it gets there
Truth(b) == IF b THEN 1 ELSE 0

(* A value put into a type.  Integers have a range; the reals of the model  *)
(* are whole, and Arrow's strings have no length limit.                     *)
Converted(ty, v) ==
    LET range == CASE ty = "Int32" -> -(I32_MAX + 1)..I32_MAX
                   [] ty = "Int64" -> -(I64_MAX + 1)..I64_MAX
                   [] ty = "Uint32" -> 0..U32_MAX
                   [] OTHER -> {v}
    IN  IF v = NullV \/ v \in range THEN v ELSE OverflowV

Apply(op, l, r) ==
    CASE op = "AND" -> IF 0 \in {l, r} THEN 0 ELSE IF NullV \in {l, r} THEN NullV ELSE 1
      [] op = "OR" -> IF 1 \in {l, r} THEN 1 ELSE IF NullV \in {l, r} THEN NullV ELSE 0
      [] OTHER -> IF NullV \in {l, r} THEN NullV
                  ELSE CASE op = "+" -> l + r [] op = "-" -> l - r [] op = "*" -> l * r
                         [] op = "%" -> l % r
                         [] op = "=" -> Truth(l = r) [] op = "<>" -> Truth(l # r)
                         [] op = "<" -> Truth(l < r) [] op = "<=" -> Truth(l <= r)
                         [] op = ">" -> Truth(l > r) [] op = ">=" -> Truth(l >= r)
Sign(op, v) ==
    IF v = NullV \/ op = "+" THEN v ELSE IF op = "NOT" THEN 1 - v ELSE -v

Total(vs) == FoldLeft(LAMBDA acc, v : acc + v, 0, vs)
Aggregated(function, distinct, given) ==
    LET present == SelectSeq(given, LAMBDA v : v # NullV)
        vs == IF distinct THEN SetToSeq(ToSet(present)) ELSE present
    IN  CASE function = "count" -> Len(vs)
          [] function # "count" /\ vs = <<>> -> NullV
          [] function = "sum" /\ vs # <<>> -> Total(vs)
          [] function = "avg" /\ vs # <<>> -> Total(vs) \div Len(vs)
          [] function = "min" /\ vs # <<>> -> Min(ToSet(vs))
          [] function = "max" /\ vs # <<>> -> Max(ToSet(vs))

(* Sort keys are sequences of [v, asc, nulls_first]. *)
KeyBefore(x, y) ==
    /\ x.v # y.v
    /\ IF x.v = NullV THEN x.nulls_first
       ELSE IF y.v = NullV THEN ~x.nulls_first
       ELSE IF x.asc THEN x.v < y.v ELSE x.v > y.v
Before(xs, ys) ==
    \E i \in DOMAIN xs : /\ KeyBefore(xs[i], ys[i])
                         /\ \A j \in 1..(i - 1) : xs[j].v = ys[j].v
(* The positions in keys, sorted; equal keys keep their order. *)
Ordered(at, keys) ==
    SetToSortSeq(at, LAMBDA i, j : Before(keys[i], keys[j]) \/ (~Before(keys[j], keys[i]) /\ i < j))

(* Row i's partition in order, its place there, and the places of its      *)
(* peers are known: the positions of a frame.                               *)
FramePlaces(f, mine, me, peers) ==
    LET edge(b, current) ==
            CASE b[1] = "UnboundedPreceding" -> 1     [] b[1] = "Preceding" -> me - b[2]
              [] b[1] = "CurrentRow" -> current       [] b[1] = "Following" -> me + b[2]
              [] b[1] = "UnboundedFollowing" -> Len(mine)
    IN  edge(f.start, IF f.units = "Rows" THEN me ELSE Min(peers))
            .. edge(f.end, IF f.units = "Rows" THEN me ELSE Max(peers))

WindowedAt(function, vs, kept, keys, f, mine, me, peers) ==
    CASE function = "row_number" -> me
      [] function = "rank" -> Min(peers)
      [] function = "dense_rank" ->
             Cardinality({[k \in DOMAIN keys[mine[p]] |-> keys[mine[p]][k].v] : p \in 1..Min(peers)})
      [] OTHER -> LET framed == FramePlaces(f, mine, me, peers)
                      within == SelectSeq([p \in DOMAIN mine |-> p],
                                          LAMBDA p : p \in framed /\ kept[mine[p]] = 1)
                  IN  Aggregated(function, FALSE, [p \in DOMAIN within |-> vs[mine[within[p]]]])

WindowedIn(i, function, vs, kept, keys, f, mine) ==
    WindowedAt(function, vs, kept, keys, f, mine, SelectInSeq(mine, LAMBDA j : j = i),
               {p \in DOMAIN mine : ~Before(keys[mine[p]], keys[i]) /\ ~Before(keys[i], keys[mine[p]])})

(* The value of a window function at row i: parts and keys are the          *)
(* partition and sort keys of every row, vs the argument, kept the filter.  *)
Windowed(i, function, vs, kept, parts, keys, f) ==
    WindowedIn(i, function, vs, kept, keys, f,
               Ordered({j \in DOMAIN parts : parts[j] = parts[i]}, keys))

-----------------------------------------------------------------------------
(* The meaning of a statement.  Expressions are evaluated at row j of unit  *)
(* i: a unit is a group, or a single row when nothing is grouped.           *)
ColumnAt(s, name) == CHOOSE i \in DOMAIN Schemas[s] : Schemas[s][i].name = name

RECURSIVE Value(_, _, _, _, _)
Value(e, s, units, i, j) ==
    LET v(x) == Value(x, s, units, i, j)
        within(x, r) == Value(x, s, units, i, r)
        rows == SelectSeq([r \in DOMAIN units[i] |-> r],
                          LAMBDA r : e.filter = <<>> \/ within(e.filter[1], r) = 1)
        star == e.args[1].k = "Wildcard"
        at(x, u) == Value(x, s, units, u, 1)
        all(f(_)) == [u \in DOMAIN units |-> f(u)]
        spec == e.over[1]
        whole == [units |-> "Range", start |-> <<"UnboundedPreceding", 0>>,
                  end |-> <<IF spec.order_by = <<>> THEN "UnboundedFollowing" ELSE "CurrentRow", 0>>]
        key(o, u) == [v |-> at(o.expr, u), asc |-> o.direction = "Ascending",
                      nulls_first |-> IF o.nulls = "Default" THEN o.direction # "Ascending"
                                      ELSE o.nulls = "First"]
    IN  CASE e.k \in {"Identifier", "Qualified"} -> units[i][j][ColumnAt(s, e.s)]
          [] e.k = "Null" -> NullV
          [] e.k \in {"Boolean", "String", "Number"} -> e.n
          [] e.k = "Alias" -> v(e.args[1])
          [] e.k = "Unary" -> Sign(e.s, v(e.args[1]))
          [] e.k = "Binary" -> Apply(e.s, v(e.args[1]), v(e.args[2]))
          [] e.k = "IsNull" -> Truth((v(e.args[1]) = NullV) = (e.n = 0))
          [] e.k = "FunctionCall" /\ e.over = <<>> ->
                 Aggregated(e.s, e.distinct,
                     [r \in DOMAIN rows |-> IF star THEN 1 ELSE within(e.args[1], rows[r])])
          [] e.k = "FunctionCall" /\ e.over # <<>> ->
                 Windowed(i, e.s,
                     all(LAMBDA u : IF e.args = <<>> \/ star THEN 1 ELSE at(e.args[1], u)),
                     all(LAMBDA u : IF e.filter = <<>> THEN 1 ELSE at(e.filter[1], u)),
                     all(LAMBDA u : [p \in DOMAIN spec.partition_by |-> at(spec.partition_by[p], u)]),
                     all(LAMBDA u : [o \in DOMAIN spec.order_by |-> key(spec.order_by[o], u)]),
                     IF spec.frame = <<>> THEN whole ELSE spec.frame[1])

RECURSIVE Summarises(_)
Summarises(e) ==
    \/ e.k = "FunctionCall" /\ e.over = <<>>
    \/ \E x \in ToSet(e.args \o e.filter \o OverParts(e)) : Summarises(x)

(* Rows with equal keys, in the order of their first row. *)
GroupsOf(rows, key(_)) ==
    LET firsts == SelectSeq([r \in DOMAIN rows |-> r],
                            LAMBDA r : \A q \in 1..(r - 1) : key(rows[q]) # key(rows[r]))
    IN  [g \in DOMAIN firsts |-> SelectSeq(rows, LAMBDA row : key(row) = key(rows[firsts[g]]))]

(* The phases of a SELECT over the source s. *)
Alone(e, s, row) == Value(e, s, <<<<row>>>>, 1, 1)
Groups(st, s, summary, kept) ==
    LET group_key(row) == [g \in DOMAIN st.group_by |-> Alone(st.group_by[g], s, row)]
    IN  IF ~summary THEN [r \in DOMAIN kept |-> <<kept[r]>>]
        ELSE IF st.group_by = <<>> THEN <<kept>>
        ELSE GroupsOf(kept, group_key)
SortKeys(st, s, sorts, units) ==
    LET key(o, e, u) == [v |-> Value(e, s, units, u, 1), asc |-> o.direction = "Ascending",
                         nulls_first |-> IF o.nulls = "Default" THEN o.direction # "Ascending"
                                         ELSE o.nulls = "First"]
    IN  [u \in DOMAIN units |-> [i \in DOMAIN sorts |-> key(st.order_by[i], sorts[i], u)]]
Determined(es, s, units) ==
    \A e \in ToSet(es), u \in DOMAIN units : \A j \in DOMAIN units[u] :
        Value(e, s, units, u, j) = Value(e, s, units, u, 1)
Returned(outputs, s, units, order_) ==
    [r \in DOMAIN order_ |-> [i \in DOMAIN outputs |-> Value(outputs[i], s, units, order_[r], 1)]]
Answer(st, s, outputs, sorts, groups, units) ==
    [determined |-> Determined(outputs \o sorts, s, units) /\ Determined(st.having, s, groups),
     rows |-> Returned(outputs, s, units, Ordered(DOMAIN units, SortKeys(st, s, sorts, units)))]
AnswerOf(st, s, outputs, sorts, groups) ==
    Answer(st, s, outputs, sorts, groups,
           SelectSeq(groups, LAMBDA g : st.having = <<>> \/ Value(st.having[1], s, <<g>>, 1, 1) = 1))

(* The rows a SELECT returns, and whether its grouped expressions have one  *)
(* value in each group.                                                     *)
SelectMeaning(st) ==
    LET s == IF st.from = "" THEN "" ELSE Tables[st.from]
        all == IF st.from = "" THEN <<<<>>>> ELSE Contents[s]
        kept == SelectSeq(all, LAMBDA row : st.filter = <<>> \/ Alone(st.filter[1], s, row) = 1)
        outputs == IF st.projection[1].k = "Wildcard"
                   THEN [i \in DOMAIN Schemas[s] |-> Identifier(Schemas[s][i].name)]
                   ELSE st.projection
        matches(name) == {i \in DOMAIN outputs : /\ outputs[i].s = name
                                                 /\ outputs[i].k \in {"Identifier", "Qualified", "Alias"}}
        sorting(o) == CASE o.expr.k = "Identifier" /\ matches(o.expr.s) # {} ->
                               outputs[CHOOSE i \in matches(o.expr.s) : TRUE]
                        [] o.expr.k = "Number" /\ o.expr.s = "whole" -> outputs[o.expr.n]
                        [] OTHER -> o.expr
        sorts == [i \in DOMAIN st.order_by |-> sorting(st.order_by[i])]
        summary == \/ st.group_by # <<>> \/ st.having # <<>>
                   \/ \E e \in ToSet(outputs \o sorts) : Summarises(e)
    IN  AnswerOf(st, s, outputs, sorts, Groups(st, s, summary, kept))

(* The table after an INSERT, UPDATE or DELETE: a sequence of rows. *)
ModifyMeaning(st) ==
    LET s == Tables[st.table]
        old == Contents[s]
        v(e, row) == Value(e, s, <<<<row>>>>, 1, 1)
        hit(row) == st.filter = <<>> \/ v(st.filter[1], row) = 1
        names == IF st.columns = <<>> THEN [i \in DOMAIN Schemas[s] |-> Schemas[s][i].name]
                 ELSE st.columns
        stored(c, x) == Converted(arrow_type(Schemas[s][c].data_type), x)
        given(r, c) == LET at == SelectInSeq(names, LAMBDA n : n = Schemas[s][c].name)
                       IN  IF at = 0 THEN NullV ELSE stored(c, v(st.rows[r][at], <<>>))
        updated(row) == [c \in DOMAIN row |->
                            LET at == SelectInSeq(st.assignments, LAMBDA a : ColumnAt(s, a.column) = c)
                            IN  IF at = 0 THEN row[c] ELSE stored(c, v(st.assignments[at].value, row))]
    IN  CASE st.kind = "Insert" ->
                 old \o [r \in DOMAIN st.rows |-> [c \in DOMAIN Schemas[s] |-> given(r, c)]]
          [] st.kind = "Update" ->
                 [r \in DOMAIN old |-> IF hit(old[r]) THEN updated(old[r]) ELSE old[r]]
          [] st.kind = "Delete" -> SelectSeq(old, LAMBDA row : ~hit(row))

-----------------------------------------------------------------------------
(* The meaning of a plan (external: DataFusion).  Values carry their type;  *)
(* a row follows the node's schema.                                         *)
Typed(ty_, v_) == [ty |-> ty_, v |-> v_]
RECURSIVE Compute(_, _, _)
Compute(e, schema, row) ==
    LET x(i) == Compute(e.args[i], schema, row).v
    IN  IF e.k = "Column" THEN row[IndexOf(schema, e.col)]
        ELSE Typed(get_type(e, schema),
                   CASE e.k = "Null" -> NullV
                     [] e.k = "Literal" -> e.n
                     [] e.k = "Cast" -> Converted(e.ty, x(1))
                     [] e.k = "Negative" -> Sign("-", x(1))
                     [] e.k = "Not" -> Sign("NOT", x(1))
                     [] e.k = "IsNull" -> Truth(x(1) = NullV)
                     [] e.k = "IsNotNull" -> Truth(x(1) # NullV)
                     [] e.k = "Binary" -> Apply(e.s, x(1), x(2)))

RECURSIVE RowsOf(_)
RowsOf(p) ==
    LET below == RowsOf(p.input[1])
        schema == p.input[1].schema
        v(e, row) == Compute(e, schema, row)
        pass(filter, row) == filter = <<>> \/ v(filter[1], row).v = 1
        keyed(keys, row) == [i \in DOMAIN keys |->
            [v |-> v(keys[i].expr, row).v, asc |-> keys[i].asc, nulls_first |-> keys[i].nulls_first]]
        key(row) == [g \in 1..p.groups |-> v(p.exprs[g].expr, row)]
        groups == IF p.groups = 0 THEN <<below>> ELSE GroupsOf(below, key)
        aggregate(e, rows) ==
            LET in == SelectSeq(rows, LAMBDA row : pass(e.filter, row))
            IN  Typed(get_type(e, schema),
                      Aggregated(e.s, e.distinct, [r \in DOMAIN in |-> v(e.args[1], in[r]).v]))
        w == p.exprs[1].expr
        window(i) ==
            Typed(get_type(w, schema),
                  Windowed(i, w.s,
                      [r \in DOMAIN below |-> IF w.args = <<>> THEN 1 ELSE v(w.args[1], below[r]).v],
                      [r \in DOMAIN below |-> Truth(pass(w.filter, below[r]))],
                      [r \in DOMAIN below |->
                          [i_ \in DOMAIN w.over[1].partition_by |-> v(w.over[1].partition_by[i_], below[r])]],
                      [r \in DOMAIN below |-> keyed(w.over[1].order_by, below[r])],
                      w.over[1].frame))
        keys_ == [r \in DOMAIN below |-> keyed(p.keys, below[r])]
        sorted == Ordered(DOMAIN below, keys_)
    IN  CASE p.node = "TableScan" ->
                 [r \in DOMAIN Contents[p.source] |->
                     [i \in DOMAIN p.schema |->
                         Typed(p.schema[i].ty, IF p.schema[i].col.name = "__ctid" THEN r
                                               ELSE Contents[p.source][r][i])]]
          [] p.node = "EmptyRelation" -> <<<<>>>>
          [] p.node = "Values" ->
                 [r \in DOMAIN p.rows |-> [i \in DOMAIN p.rows[r] |-> Compute(p.rows[r][i], <<>>, <<>>)]]
          [] p.node = "Filter" -> SelectSeq(below, LAMBDA row : v(p.exprs[1].expr, row).v = 1)
          [] p.node = "Aggregate" ->
                 [g \in DOMAIN groups |->
                     [i \in DOMAIN p.exprs |->
                         IF i <= p.groups THEN v(p.exprs[i].expr, groups[g][1])
                         ELSE aggregate(p.exprs[i].expr, groups[g])]]
          [] p.node = "Window" -> [r \in DOMAIN below |-> Append(below[r], window(r))]
          [] p.node = "Sort" -> [r \in DOMAIN sorted |-> below[sorted[r]]]
          [] p.node = "Projection" ->
                 [r \in DOMAIN below |-> [i \in DOMAIN p.exprs |-> v(p.exprs[i].expr, below[r])]]

Plain(rows) == [r \in DOMAIN rows |-> [i \in DOMAIN rows[r] |-> rows[r][i].v]]

(* The table after a ModifyTable node: a ctid is a row's position. *)
ModifiedBy(p, rows) ==
    LET old == Contents[p.target.source]
        input == p.input[1]
        cell(row, c) == row[IndexOf(input.schema, c)].v
        hits(r) == {i \in DOMAIN rows : cell(rows[i], p.operation.ctid) = r}
        updated(r, row) ==
            [c \in DOMAIN old[r] |->
                LET at == SelectInSeq(p.operation.targets, LAMBDA t : t = c)
                IN  IF at = 0 THEN old[r][c] ELSE cell(row, p.operation.values[at])]
        left == SelectSeq([r \in DOMAIN old |-> r], LAMBDA r : hits(r) = {})
    IN  CASE p.operation.kind = "Insert" ->
                 old \o [r \in DOMAIN rows |-> [c \in DOMAIN p.operation.values |->
                                                   cell(rows[r], p.operation.values[c])]]
          [] p.operation.kind = "Update" ->
                 [r \in DOMAIN old |-> IF hits(r) = {} THEN old[r]
                                       ELSE updated(r, rows[CHOOSE i \in hits(r) : TRUE])]
          [] p.operation.kind = "Delete" -> [r \in DOMAIN left |-> old[left[r]]]
Modified(p) == ModifiedBy(p, RowsOf(p.input[1]))
=============================================================================
