----------------------------- MODULE PegGrammar ------------------------------
(***************************************************************************)
(* The compile-time half of crates/peg/src/lib.rs: a grammar text becomes  *)
(* rules, and validate refuses the ones whose parser could loop.  A token  *)
(* stands for a name, for an operator, or for a whole literal, class or    *)
(* dot (Atoms); spelling, escapes and comments are left out.               *)
(***************************************************************************)
EXTENDS Integers, SequencesExt, FiniteSetsExt

CONSTANTS
    Atoms,         \* the expressions of the literal, class and dot tokens
    Names,         \* the rule names
    MAX_NESTING    \* groups and predicates around an expression

Ref(n) == [kind |-> "Ref", name |-> n]
Lit(s, insensitive) == [kind |-> "Lit", text |-> s, insensitive |-> insensitive]
Class(set, negated) == [kind |-> "Class", set |-> set, negated |-> negated]
AnyChar == [kind |-> "Any"]
Seq_(es) == [kind |-> "Seq", es |-> es]
Choice(es) == [kind |-> "Choice", es |-> es]
Optional(e) == [kind |-> "Optional", e |-> e]
Repeat(e, one) == [kind |-> "Repeat", e |-> e, one |-> one]
Predicate(e, positive) == [kind |-> "Predicate", e |-> e, positive |-> positive]
Rule(n, e) == [name |-> n, expr |-> e]

Lists == {"Seq", "Choice"}
Wrappers == {"Optional", "Repeat", "Predicate"}

-----------------------------------------------------------------------------
(* The recursive descent of Grammar: t is the text, i the next token, and  *)
(* n the nesting.  A parser returns what it read and where it stopped.     *)
Bad == [ok |-> FALSE, val |-> <<>>, i |-> 0]
Read(val, i) == [ok |-> TRUE, val |-> val, i |-> i]
peek(t, i) == IF i <= Len(t) THEN t[i] ELSE "end"
one_or(es, Many(_)) == IF Len(es) = 1 THEN es[1] ELSE Many(es)

RECURSIVE choice(_, _, _), choices(_, _, _, _), sequence(_, _, _, _), term(_, _, _)
choices(t, i, n, es) ==
    LET s == sequence(t, i, n, <<>>) IN
    IF ~s.ok THEN Bad
    ELSE IF peek(t, s.i) = "/" THEN choices(t, s.i + 1, n, Append(es, s.val))
    ELSE Read(one_or(Append(es, s.val), Choice), s.i)
choice(t, i, n) == IF n + 1 > MAX_NESTING THEN Bad ELSE choices(t, i, n + 1, <<>>)

sequence(t, i, n, es) ==
    IF peek(t, i) \in {"end", "/", ";", ")"}
    THEN IF es = <<>> THEN Bad ELSE Read(one_or(es, Seq_), i)
    ELSE LET e == term(t, i, n) IN
         IF ~e.ok THEN Bad ELSE sequence(t, e.i, n, Append(es, e.val))

primary(t, i, n) ==
    IF peek(t, i) = "(" THEN
        LET e == choice(t, i + 1, n) IN
        IF e.ok /\ peek(t, e.i) = ")" THEN Read(e.val, e.i + 1) ELSE Bad
    ELSE IF peek(t, i) \in DOMAIN Atoms THEN Read(Atoms[t[i]], i + 1)
    ELSE IF peek(t, i) \in Names THEN Read(Ref(t[i]), i + 1)
    ELSE Bad
suffixed(e, suffix) ==
    CASE suffix = "?" -> Optional(e)
      [] suffix = "*" -> Repeat(e, FALSE)
      [] suffix = "+" -> Repeat(e, TRUE)
(* Predicates bind less tightly than a suffix. *)
term_prefix_first(t, i, n) ==
    IF peek(t, i) \in {"&", "!"} THEN
        LET e == primary(t, i + 1, n + 1)
            p == Predicate(e.val, t[i] = "&") IN
        IF n + 1 > MAX_NESTING \/ ~e.ok THEN Bad
        ELSE IF peek(t, e.i) \in {"?", "*", "+"}
        THEN Read(suffixed(p, t[e.i]), e.i + 1) ELSE Read(p, e.i)
    ELSE LET e == primary(t, i, n) IN
        IF e.ok /\ peek(t, e.i) \in {"?", "*", "+"}
        THEN Read(suffixed(e.val, t[e.i]), e.i + 1) ELSE e
term(t, i, n) ==
    IF peek(t, i) \in {"&", "!"} THEN
        LET e == term(t, i + 1, n + 1) IN
        IF n + 1 > MAX_NESTING \/ ~e.ok THEN Bad
        ELSE Read(Predicate(e.val, t[i] = "&"), e.i)
    ELSE LET e == primary(t, i, n) IN
        IF e.ok /\ peek(t, e.i) \in {"?", "*", "+"}
        THEN Read(suffixed(e.val, t[e.i]), e.i + 1) ELSE e

RECURSIVE rules_from(_, _, _)
rules_from(t, i, rs) ==
    IF i > Len(t) THEN IF rs = <<>> THEN Bad ELSE Read(rs, i)
    ELSE IF peek(t, i) \notin Names \/ peek(t, i + 1) # "<-" THEN Bad
    ELSE LET e == choice(t, i + 2, 0) IN
         IF ~e.ok \/ peek(t, e.i) # ";" THEN Bad
         ELSE rules_from(t, e.i + 1, Append(rs, Rule(t[i], e.val)))
rules(t) == rules_from(t, 1, <<>>)

-----------------------------------------------------------------------------
(* walk: an expression and everything in it. *)
RECURSIVE walk(_)
walk(e) ==
    {e} \union
    (IF e.kind \in Lists THEN UNION {walk(x) : x \in ToSet(e.es)}
     ELSE IF e.kind \in Wrappers THEN walk(e.e) ELSE {})

RECURSIVE nullable(_, _)
nullable(e, null) ==
    CASE e.kind = "Ref" -> null[e.name]
      [] e.kind = "Lit" -> e.text = <<>>
      [] e.kind \in {"Any", "Class"} -> FALSE
      [] e.kind = "Seq" -> \A x \in ToSet(e.es) : nullable(x, null)
      [] e.kind = "Choice" -> \E x \in ToSet(e.es) : nullable(x, null)
      [] e.kind \in {"Optional", "Predicate"} -> TRUE
      [] e.kind = "Repeat" -> e.one => nullable(e.e, null)

(* The rules an expression can enter before it has consumed anything. *)
RECURSIVE prefixes(_, _)
prefixes(e, null) ==
    CASE e.kind = "Ref" -> {e.name}
      [] e.kind = "Seq" ->
            UNION {prefixes(e.es[i], null) : i \in
                      {j \in DOMAIN e.es : \A k \in 1 .. j - 1 : nullable(e.es[k], null)}}
      [] e.kind = "Choice" -> UNION {prefixes(x, null) : x \in ToSet(e.es)}
      [] e.kind \in Wrappers -> prefixes(e.e, null)
      [] OTHER -> {}

expr(rs, n) == (CHOOSE r \in ToSet(rs) : r.name = n).expr
names(rs) == {r.name : r \in ToSet(rs)}

(* The nullable rules: all start out as not nullable. *)
RECURSIVE null_from(_, _)
null_once(rs, null) == [n \in names(rs) |-> nullable(expr(rs, n), null)]
null_from(rs, null) ==
    LET next == null_once(rs, null) IN
    IF next = null THEN null ELSE null_from(rs, next)

(* The depth-first search for a way from a rule back to itself. *)
RECURSIVE reaches(_, _, _, _)
reaches(n, edges, pending, seen) ==
    pending # {} /\
    LET j == CHOOSE x \in pending : TRUE IN
    \/ j = n
    \/ reaches(n, edges, (pending \ {j}) \union (IF j \in seen THEN {} ELSE edges[j]),
               seen \union {j})

validate(rs) ==
    LET null == null_from(rs, [n \in names(rs) |-> FALSE])
        edges == [n \in names(rs) |-> prefixes(expr(rs, n), null)]
        parts == UNION {walk(r.expr) : r \in ToSet(rs)}
    IN  /\ Cardinality(names(rs)) = Len(rs)
        /\ \A e \in parts : e.kind = "Ref" => e.name \in names(rs)
        /\ \A e \in parts : e.kind = "Repeat" => ~nullable(e.e, null)
        /\ \A n \in names(rs) : ~reaches(n, edges, edges[n], {})

-----------------------------------------------------------------------------
(* The text of a grammar, with parentheses where they are needed. *)
Group(ts) == <<"(">> \o ts \o <<")">>
Suffix(e) == IF e.kind = "Optional" THEN "?" ELSE IF e.one THEN "+" ELSE "*"
RECURSIVE Spell(_)
Operand(e) == IF e.kind \in Lists \union Wrappers THEN Group(Spell(e)) ELSE Spell(e)
Joined(es, sep) ==
    FlattenSeq([i \in DOMAIN es |-> (IF i = 1 THEN <<>> ELSE sep)
               \o (IF es[i].kind \in Lists THEN Group(Spell(es[i])) ELSE Spell(es[i]))])
Spell(e) ==
    CASE e.kind = "Ref" -> <<e.name>>
      [] e.kind = "Seq" -> Joined(e.es, <<>>)
      [] e.kind = "Choice" -> Joined(e.es, <<"/">>)
      [] e.kind \in {"Optional", "Repeat"} -> Append(Operand(e.e), Suffix(e))
      [] e.kind = "Predicate" ->
            <<IF e.positive THEN "&" ELSE "!">>
            \o (IF e.e.kind \in Lists THEN Group(Spell(e.e)) ELSE Spell(e.e))
      [] OTHER -> <<CHOOSE a \in DOMAIN Atoms : Atoms[a] = e>>
Text(rs) ==
    FlattenSeq([i \in DOMAIN rs |-> <<rs[i].name, "<-">> \o Spell(rs[i].expr) \o <<";">>])

(* How many groups and predicates are open at most, the rule included. *)
RECURSIVE Nesting(_)
Around(e) == IF e.kind \in Lists THEN 1 + Nesting(e) ELSE Nesting(e)
Nesting(e) ==
    CASE e.kind \in Lists -> Max({Around(x) : x \in ToSet(e.es)})
      [] e.kind = "Predicate" -> 1 + Around(e.e)
      [] e.kind \in {"Optional", "Repeat"} ->
            IF e.e.kind \in Wrappers THEN 1 + Nesting(e.e) ELSE Around(e.e)
      [] OTHER -> 0
=============================================================================
