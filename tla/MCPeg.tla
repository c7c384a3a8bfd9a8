------------------------------- MODULE MCPeg ---------------------------------
(* All grammars of two rules with small bodies on short inputs, and a few  *)
(* with deeper bodies under tight limits.  Characters: a is 1, its capital *)
(* -1, b is 2.                                                             *)
EXTENDS PegMatch

a == Lit(<<1>>, FALSE)
ab == Lit(<<1, 2>>, TRUE)
eps == Lit(<<>>, FALSE)
SomeAtoms == [a |-> a, ab |-> ab, eps |-> eps, dot |-> AnyChar, nota |-> Class({1}, TRUE)]
SomeNames == {"A", "B", "_S"}

Leaves == {a, eps, AnyChar, Ref("A"), Ref("B")}
Unaries == UNION {{Optional(e), Repeat(e, TRUE), Repeat(e, FALSE),
                   Predicate(e, TRUE), Predicate(e, FALSE)} : e \in Leaves}
Small == Leaves \union Unaries
Bodies == Small \union {Seq_(<<x, y>>) : x \in Small, y \in Leaves}
                \union {Choice(<<x, y>>) : x \in Small, y \in Leaves}
SecondBodies == {a, Optional(a), Predicate(a, FALSE), Ref("A"), Choice(<<Ref("A"), a>>),
                 Seq_(<<Optional(a), Ref("A")>>), Seq_(<<a, Ref("B")>>)}

Wide == [depth |-> 99, fuel |-> 99]
Case_(rs_, start_, input_, limit_) ==
    [rs |-> rs_, start |-> start_, input |-> input_, limit |-> limit_]
Breadth == {Case_(<<Rule("A", x), Rule("B", y)>>, "A", in, Wide) :
                x \in Bodies, y \in SecondBodies, in \in {<<>>, <<1, 1>>, <<2, 1>>, <<1, 2>>}}

(* Nodes inside predicates and repetitions, silent rules, sequences that   *)
(* fail after nodes were made, groups within groups.                       *)
Deep == {
    Seq_(<<Repeat(Choice(<<Seq_(<<Ref("B"), Ref("_S")>>), Ref("B")>>), FALSE), Optional(ab)>>),
    Seq_(<<Predicate(Seq_(<<Ref("B"), Ref("B")>>), TRUE), Ref("B"), Repeat(AnyChar, TRUE)>>),
    Seq_(<<Predicate(Predicate(Ref("B"), FALSE), FALSE), Choice(<<ab, Ref("B")>>), Optional(Ref("A"))>>),
    Optional(Seq_(<<Ref("B"), Optional(Predicate(Ref("_S"), FALSE)), Ref("A")>>)),
    Repeat(Seq_(<<Optional(Ref("B")), Repeat(Optional(Ref("_S")), TRUE)>>), TRUE),
    Repeat(Choice(<<Class({1}, TRUE), Seq_(<<Ref("B"), Optional(Ref("_S"))>>)>>), FALSE),
    Optional(Optional(Predicate(Choice(<<a, Seq_(<<a, Choice(<<a, Ref("_S")>>)>>)>>), TRUE))) }
Depths == {Case_(<<Rule("A", x), Rule("B", a), Rule("_S", Class({1}, TRUE))>>, s, in, l) :
               x \in Deep, s \in {"A", "_S"},
               in \in {<<>>, <<1>>, <<1, 2>>, <<1, 1, 2>>, <<-1, 2>>},
               l \in {Wide} \union [depth : {3, 6, 99}, fuel : {4, 9, 14}]}
(* An unknown rule, a rule given twice, nullability that spreads slowly. *)
Others == {Case_(<<Rule("A", a)>>, "B", <<1>>, Wide),
           Case_(<<Rule("A", a), Rule("A", eps)>>, "A", <<1>>, Wide),
           Case_(<<Rule("A", Repeat(Ref("B"), TRUE)), Rule("B", Ref("_S")),
                   Rule("_S", Optional(a))>>, "A", <<1>>, Wide)}
AllCases == Breadth \union Depths \union Others
=============================================================================
