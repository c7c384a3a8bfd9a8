-------------------------------- MODULE MCQuery --------------------------------
(* Statements over two tables of the same shape: a nullable integer, a      *)
(* 64-bit integer that is not NULL, an unsigned one and a string.           *)
EXTENDS Query

Col(n, t, null) == [name |-> n, data_type |-> t, nullable |-> null]
Shape == <<Col("a", T("Int32"), TRUE), Col("b", T("Int64"), FALSE),
           Col("u", T("Uint32"), FALSE), Col("s", <<"Varchar", 2>>, TRUE)>>
TheTables == [t |-> "t#1", v |-> "v#1"]
TheSchemas == [x \in {"t#1", "v#1"} |-> Shape]
TheContents == [x \in {"t#1", "v#1"} |->
    IF x = "v#1" THEN <<>>
    ELSE <<<<1, 2, 1, 5>>, <<NullV, 2, 0, 6>>, <<1, 1, 2, NullV>>, <<2, 1, 1, 5>>>>]
NoNames == {"broken"}

a == Identifier("a")
b == Identifier("b")
u == Identifier("u")
s == Identifier("s")
ta == QualifiedIdentifier("t", "a")
one == Number("whole", 1)
two == Number("whole", 2)
big == Number("whole", 5)
real == Number("real", 2)
yes == Syntax("Boolean", "", 1, <<>>)
text == Syntax("String", "", 5, <<>>)

Call(f, x) == FunctionCall(f, <<x>>, FALSE, <<>>, <<>>)
Asc(e) == [expr |-> e, direction |-> "Ascending", nulls |-> "Default"]
Desc(e) == [expr |-> e, direction |-> "Descending", nulls |-> "Default"]
DescLast(e) == [expr |-> e, direction |-> "Descending", nulls |-> "Last"]
Over(f, args_, filter_, part, ord, fr) ==
    FunctionCall(f, args_, FALSE, filter_, <<[partition_by |-> part, order_by |-> ord, frame |-> fr]>>)
Rows(x, y) == <<[units |-> "Rows", start |-> x, end |-> y]>>

Sel(p, f, g, h, o) ==
    [kind |-> "Select", projection |-> p, from |-> "t", filter |-> f, group_by |-> g,
     having |-> h, order_by |-> o]
Plainly(p) == Sel(p, <<>>, <<>>, <<>>, <<>>)

(* Types: every operator over every pair of leaves. *)
Leaves == {a, b, u, s, ta, one, big, real, Null, yes, text}
Operators == {"+", "%", "=", "<", "AND", "OR"}
Typing == {Plainly(<<Binary(x, op, y)>>) : x \in Leaves, op \in Operators, y \in Leaves \ {u, one}}
    \union {Plainly(<<Unary(op, x)>>) : op \in {"NOT", "+", "-"}, x \in Leaves}
    \union {Plainly(<<Unary("-", Number(form, n))>>) : form \in {"whole", "real", "malformed"}, n \in 3..9}
    \union {Plainly(<<Number(form, n)>>) : form \in {"whole", "infinite"}, n \in 3..9}

(* Grouping: outputs against keys, with and without HAVING and ORDER BY. *)
sum == Call("sum", a)
Outputs == {<<a>>, <<b>>, <<Binary(a, "+", b)>>, <<Binary(b, "+", one), sum>>, <<sum>>,
            <<Binary(sum, "+", b)>>, <<Call("count", Wildcard), Call("min", s)>>, <<one>>,
            <<FunctionCall("count", <<a>>, TRUE, <<Binary(b, "=", one)>>, <<>>), Call("avg", u)>>,
            <<Call("sum", Call("sum", a))>>, <<Call("max", Null)>>, <<Wildcard>>, <<Call("sum", s)>>,
            <<Over("sum", <<sum>>, <<>>, <<b>>, <<>>, <<>>)>>,
            <<IsNull(Alias(a, "x"), TRUE)>>, <<Alias(IsNull(a, TRUE), "b"), b>>}
Keys == {<<>>, <<b>>, <<Binary(b, "+", one)>>, <<a, b>>, <<Binary(a, "+", b)>>, <<one>>}
Havings == {<<>>, <<Binary(Call("max", u), ">", one)>>, <<Binary(b, "=", two)>>, <<Null>>}
Grouping == {Sel(p, f, k, h, o) : p \in Outputs, f \in {<<>>, <<Binary(a, "<", two)>>}, k \in Keys,
                 h \in Havings, o \in {<<>>, <<Desc(b)>>, <<Asc(Call("sum", b)), Desc(one)>>}}

(* Windows: frames, partitions, filters, windows over groups, ordering. *)
Bounds == {<<c, 0>> : c \in {"UnboundedPreceding", "CurrentRow", "UnboundedFollowing"}}
    \union {<<c, n>> : c \in {"Preceding", "Following"}, n \in {-1, 0, 1}}
Frames == {<<>>} \union {<<[units |-> un, start |-> x, end |-> y]>> :
              un \in {"Rows", "Range"}, x \in Bounds, y \in Bounds}
Framed == {Plainly(<<b, Over("sum", <<b>>, <<>>, p, o, fr)>>) :
              p \in {<<>>, <<u>>}, o \in {<<>>, <<Desc(a)>>}, fr \in Frames}
Windows == {Over(f, <<>>, <<>>, p, o, <<>>) : f \in Rankings, p \in {<<>>, <<b>>},
                o \in {<<>>, <<Asc(a)>>, <<DescLast(a), Asc(u)>>}}
    \union {Over("count", <<Wildcard>>, <<Binary(a, "=", one)>>, <<b>>, <<Asc(u)>>, <<>>),
            Over("rank", <<a>>, <<>>, <<>>, <<>>, <<>>), Over("count", <<Over("rank", <<>>, <<>>, <<>>, <<>>, <<>>)>>, <<>>, <<>>, <<>>, <<>>),
            Over("max", <<sum>>, <<Binary(sum, ">", one)>>, <<>>, <<Asc(sum)>>, Rows(<<"Preceding", 1>>, <<"CurrentRow", 0>>))}
Windowing == {Sel(<<Alias(w, "w"), Binary(w, "+", one)>>, <<>>, g, <<>>, o) : w \in Windows,
                  g \in {<<>>, <<b>>},
                  o \in {<<>>, <<Desc(Identifier("w"))>>, <<Asc(two)>>, <<Asc(b), Desc(a)>>}}

(* Two aggregates or two windows that differ in one part only. *)
TwoAggregates == {FunctionCall(f, <<x>>, d, fi, <<>>) : f \in {"count", "sum"}, x \in {a, b},
                      d \in BOOLEAN, fi \in {<<>>, <<Binary(b, "=", two)>>}}
TwoWindows == {Over("sum", <<b>>, fi, p, o, fr) : fi \in {<<>>, <<Binary(b, "=", two)>>},
                   p \in {<<>>, <<u>>}, o \in {<<Asc(u)>>, <<Desc(u)>>},
                   fr \in {<<>>, Rows(<<"Preceding", 1>>, <<"CurrentRow", 0>>),
                           Rows(<<"CurrentRow", 0>>, <<"CurrentRow", 0>>)}}
Twins == {Sel(<<x, y>>, <<>>, g, <<>>, <<>>) : x \in TwoAggregates, y \in TwoAggregates, g \in {<<>>, <<u>>}}
    \union {Plainly(<<x, y>>) : x \in TwoWindows, y \in TwoWindows}

(* Names, ordinals, empty sources, depth. *)
Sourceless == {[Sel(p, f, <<>>, <<>>, o) EXCEPT !.from = ""] :
    p \in {<<one>>, <<Wildcard>>, <<Call("count", Wildcard), Call("sum", big)>>, <<a>>, <<>>},
    f \in {<<>>, <<yes>>, <<Null>>, <<one>>}, o \in {<<>>, <<Asc(one)>>, <<Asc(big)>>}}
RECURSIVE Nested(_, _)
Nested(n, x) == IF n = 0 THEN x ELSE Binary(Nested(n - 1, x), "+", b)
RECURSIVE Grown(_, _)
Grown(n, x) == IF n = 0 THEN x ELSE Unary("+", Grown(n - 1, x))
Deep == {Plainly(<<Grown(n, e)>>) : n \in 0..4, e \in
            UNION {{Call("max", Grown(m, b)),
                    FunctionCall("count", <<b>>, FALSE, <<Binary(Grown(m, b), "=", one)>>, <<>>),
                    Over("rank", <<>>, <<>>, <<Grown(m, b)>>, <<>>, <<>>),
                    Over("rank", <<>>, <<>>, <<>>, <<Asc(Grown(m, b))>>, <<>>)} : m \in 0..4}}
Names == {[Plainly(p) EXCEPT !.from = f, !.order_by = o] :
    p \in {<<a, b>>, <<a, Alias(b, "a")>>, <<Alias(b, "a")>>, <<ta, Identifier("zz")>>, <<Wildcard>>,
           <<QualifiedIdentifier("v", "a")>>},
    f \in {"t", "v", "none", "broken"}, o \in {<<>>, <<Asc(a)>>, <<Desc(Number("whole", 0))>>}}
    \union {Plainly(<<x>>) : x \in {Nested(n, y) : n \in 1..5, y \in {a, b, Alias(a, "q")}}}
    \union {Plainly(<<Call("nope", a)>>), Plainly(<<Alias(Nested(4, a), "q")>>)}

Inserts == {[kind |-> "Insert", table |-> t_, columns |-> cs, rows |-> rs] :
    t_ \in {"t", "none"}, cs \in {<<>>, <<"b", "a">>, <<"u", "s", "b">>, <<"a", "a">>, <<"zz">>},
    rs \in {<<>>, <<<<one, big>>>>, <<<<one, two>>, <<Null, Binary(one, "+", real)>>>>,
            <<<<one, text, big>>>>, <<<<one, two, big, text>>, <<Null, big, one, Null>>>>,
            <<<<one, two>>, <<one>>>>, <<<<a, one>>>>, <<<<>>>>}}
Sets == {<<>>, <<[column |-> "a", value |-> b], [column |-> "b", value |-> Binary(a, "+", u)]>>,
         <<[column |-> "u", value |-> Unary("-", u)]>>, <<[column |-> "s", value |-> text]>>,
         <<[column |-> "a", value |-> one], [column |-> "a", value |-> two]>>,
         <<[column |-> "s", value |-> one]>>, <<[column |-> "zz", value |-> one]>>,
         <<[column |-> "b", value |-> Nested(4, a)]>>}
Filters == {<<>>, <<Binary(a, "=", one)>>, <<Unary("NOT", Binary(ta, "=", two))>>, <<s>>, <<sum>>,
            <<IsNull(Identifier("s"), FALSE)>>}
Updates == {[kind |-> "Update", table |-> "t", assignments |-> x, filter |-> f] : x \in Sets, f \in Filters}
Deletes == {[kind |-> "Delete", table |-> t_, filter |-> f] : t_ \in {"t", "broken"}, f \in Filters}
ColumnDefs == [name : {"x", "y"}, data_type : {<<"Integer", 0>>, <<"Varchar", -1>>, <<"Varchar", 3>>},
               constraints : {<<>>, <<"Unique">>, <<"PrimaryKey">>, <<"NotNull", "NotNull">>,
                              <<"NotNull", "PrimaryKey", "Unique">>}]
Creates == {[kind |-> "CreateTable", name |-> n, columns |-> cs] :
    n \in {"w", "t"}, cs \in {<<>>} \union {<<c, d>> : c \in ColumnDefs, d \in ColumnDefs}}
    \union {[kind |-> "CreateTable", name |-> n, columns |-> <<[name |-> "x", data_type |-> d, constraints |-> <<>>]>>] :
               n \in {"", "broken", "w"},
               d \in {<<"Varchar", -2>>, <<"Varchar", 0>>, <<"Varchar", 99>>, <<"BigInt", 0>>,
                      <<"Real", 0>>, <<"Double", 0>>, <<"Boolean", 0>>, <<"Text", 0>>}}

Unruly == Sourceless \union Inserts \union Names
Simple == Typing \union Grouping \union Framed \union Windowing \union Twins \union Deep \union Updates \union Deletes
          \union Creates \union {[kind |-> k_] : k_ \in {"Begin", "Commit", "Rollback"}}
AllCases == Simple \union Unruly
AllRules == {<<>>} \union {<<r>> : r \in {"Keep", "Fail", "DropOutput", "RenameOutput", "NullOutput",
    "RetypeOutput", "HideInsert", "Retarget", "TakeInput", "PruneInput", "ChangeInput", "RetypeInput", "EmptyInput"}}
    \union {<<"ReverseInput", "PruneInput">>}
MCInit == Init /\ (statement \notin Unruly => rules = <<>>)
MCSpec == MCInit /\ [][Next]_vars
=============================================================================
