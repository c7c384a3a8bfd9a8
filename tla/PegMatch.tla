------------------------------ MODULE PegMatch -------------------------------
(***************************************************************************)
(* A parser that crates/peg/src/lib.rs generates, from the text of its     *)
(* grammar to the result of parse_rule.  The generated functions are       *)
(* interpreted: a frame is an active call, control says whether the next   *)
(* step calls a function or returns to the caller.  state.depth is the     *)
(* number of frames, state.suppressed_errors that of active predicates.    *)
(***************************************************************************)
EXTENDS PegGrammar

CONSTANT Cases    \* grammars with the arguments and limits they are run with

VARIABLES
    rs, phase,                        \* the rules, and how far they have come
    start, input, limit,              \* the arguments of parse_rule
    pos, nodes, error, limited, fuel, \* State
    stack, control

gVars == <<rs, start, input, limit>>
state == <<pos, nodes, error, limited, fuel>>
vars == <<gVars, phase, state, stack, control>>

Node(n, from, to, children) ==
    [rule |-> n, start |-> from, end |-> to, children |-> children]
Call(e) == [do |-> "call", e |-> e]
Return(ok) == [do |-> "return", ok |-> ok]
silent(n) == n = "_S"
RuleCall(n) == [kind |-> "Rule", name |-> n]
NoError == [offset |-> 0, expected |-> {}]
Expected(what) == [kind |-> what]

Init ==
    /\ \E c \in Cases : rs = c.rs /\ start = c.start /\ input = c.input /\ limit = c.limit
    /\ phase = "text"
    /\ pos = 0 /\ nodes = <<>> /\ error = NoError /\ limited = FALSE
    /\ fuel = limit.fuel
    /\ stack = <<>> /\ control = Return(FALSE)

-----------------------------------------------------------------------------
(* The macro: the text is parsed, then the rules are validated. *)
Compile ==
    /\ phase = "text"
    /\ LET r == rules(Text(rs)) IN
       /\ phase' = IF ~r.ok THEN "malformed"
                   ELSE IF validate(r.val) THEN "compiled" ELSE "refused"
       /\ rs' = IF r.ok THEN r.val ELSE rs
    /\ UNCHANGED <<start, input, limit, state, stack, control>>

(* parse_rule; an unknown rule is an error at once. *)
Begin ==
    /\ phase = "compiled"
    /\ IF start \in names(rs)
       THEN phase' = "matching" /\ control' = Call(RuleCall(start))
       ELSE phase' = "done" /\ UNCHANGED control
    /\ UNCHANGED <<gVars, state, stack>>

suppressed == \E i \in DOMAIN stack : stack[i].e.kind = "Predicate"

(* State::expect: only what failed furthest is kept. *)
expects(err, at, what, quiet) ==
    IF quiet \/ at < err.offset THEN err
    ELSE [offset |-> at,
          expected |-> {what} \union (IF at > err.offset THEN {} ELSE err.expected)]

Matching == phase = "matching" /\ UNCHANGED <<gVars, phase>>
Calling == Matching /\ control.do = "call"
Returning == Matching /\ control.do = "return" /\ stack # <<>>
deep == Len(stack) >= limit.depth

(* Both limits are fatal: every active call fails from here on. *)
HitLimit ==
    /\ Calling /\ ~limited
    /\ deep \/ (control.e.kind # "Rule" /\ fuel = 0)
    /\ limited' = TRUE
    /\ error' = [offset |-> pos,
                 expected |-> {Expected(IF deep THEN "depth limit" ELSE "work limit")}]
    /\ control' = Return(FALSE)
    /\ UNCHANGED <<pos, nodes, fuel, stack>>

CallLimited ==
    /\ Calling /\ limited
    /\ control' = Return(FALSE)
    /\ UNCHANGED <<state, stack>>

Entering == Calling /\ ~limited /\ ~deep

(* Case-insensitive characters are those with the same magnitude. *)
same(c, d, insensitive) == c = d \/ (insensitive /\ c = -d)
width(e) == IF e.kind = "Lit" THEN Len(e.text) ELSE 1
matches(e, at) ==
    /\ at + width(e) <= Len(input)
    /\ CASE e.kind = "Lit" ->
              \A i \in DOMAIN e.text : same(input[at + i], e.text[i], e.insensitive)
         [] e.kind = "Class" -> (input[at + 1] \in e.set) # e.negated
         [] e.kind = "Any" -> TRUE

CallTerminal ==
    /\ Entering /\ fuel > 0
    /\ control.e.kind \in {"Lit", "Class", "Any"}
    /\ fuel' = fuel - 1
    /\ control' = Return(matches(control.e, pos))
    /\ IF matches(control.e, pos)
       THEN pos' = pos + width(control.e) /\ UNCHANGED error
       ELSE /\ error' = expects(error, pos, control.e, suppressed)
            /\ UNCHANGED pos
    /\ UNCHANGED <<nodes, limited, stack>>

(* An expression of parts takes a checkpoint and calls its first part. *)
part(e, i) == CASE e.kind \in Lists -> e.es[i]
                [] e.kind \in Wrappers -> e.e
                [] e.kind = "Ref" -> RuleCall(e.name)
                [] e.kind = "Rule" -> expr(rs, e.name)
CallComposite ==
    /\ Entering
    /\ control.e.kind \in Lists \union Wrappers \union {"Ref", "Rule"}
    /\ IF control.e.kind = "Rule" THEN UNCHANGED fuel ELSE fuel > 0 /\ fuel' = fuel - 1
    /\ stack' = Append(stack, [e |-> control.e, start |-> pos, mark |-> Len(nodes),
                               i |-> 1, at |-> pos])
    /\ control' = Call(part(control.e, 1))
    /\ UNCHANGED <<pos, nodes, error, limited>>

-----------------------------------------------------------------------------
top == stack[Len(stack)]
truncated == SubSeq(nodes, 1, top.mark)

(* The checkpoint of the top frame is restored when its expression failed. *)
FinishKeepingNodes(ok) ==
    /\ control' = Return(ok)
    /\ stack' = Front(stack)
    /\ pos' = IF ok THEN pos ELSE top.start
    /\ UNCHANGED <<nodes, error, limited, fuel>>
Finish(ok) ==
    /\ control' = Return(ok)
    /\ stack' = Front(stack)
    /\ pos' = IF ok THEN pos ELSE top.start
    /\ nodes' = IF ok THEN nodes ELSE truncated
    /\ UNCHANGED <<error, limited, fuel>>

Again(i) ==
    /\ stack' = [stack EXCEPT ![Len(stack)].i = i, ![Len(stack)].at = pos]
    /\ control' = Call(part(top.e, i))
    /\ UNCHANGED state

ReturnToSeq ==
    /\ Returning /\ top.e.kind = "Seq"
    /\ IF control.ok /\ top.i < Len(top.e.es) THEN Again(top.i + 1) ELSE Finish(control.ok)

ReturnToChoice ==
    /\ Returning /\ top.e.kind = "Choice"
    /\ IF ~control.ok /\ top.i < Len(top.e.es) THEN Again(top.i + 1) ELSE Finish(control.ok)

ReturnToOptional == Returning /\ top.e.kind = "Optional" /\ Finish(~limited)

(* part ignores the count that i keeps: one more than the repetitions. *)
ReturnToRepeat ==
    /\ Returning /\ top.e.kind = "Repeat"
    /\ IF control.ok THEN Again(top.i + 1)
       ELSE Finish(~limited /\ (top.e.one => top.i > 1))

(* A predicate consumes nothing, whichever way it turns out. *)
ReturnToPredicate_(kept) ==
    LET ok == control.ok = top.e.positive /\ ~limited
        below == Front(stack) IN
    /\ Returning /\ top.e.kind = "Predicate"
    /\ pos' = top.start /\ nodes' = kept
    /\ error' = IF ok \/ limited THEN error
                ELSE expects(error, top.start,
                             Expected(IF top.e.positive THEN "positive" ELSE "negative"),
                             \E i \in DOMAIN below : below[i].e.kind = "Predicate")
    /\ stack' = below
    /\ control' = Return(ok)
    /\ UNCHANGED <<limited, fuel>>
ReturnToPredicateKeeping == ReturnToPredicate_(nodes)
ReturnToPredicate == ReturnToPredicate_(truncated)

ReturnToRef == Returning /\ top.e.kind = "Ref" /\ Finish(control.ok)

(* A rule makes a node of what was matched; a silent one leaves no trace. *)
ReturnToRule ==
    /\ Returning /\ top.e.kind = "Rule"
    /\ nodes' = IF ~control.ok THEN nodes
                ELSE IF silent(top.e.name) THEN truncated
                ELSE Append(truncated, Node(top.e.name, top.start, pos,
                                            SubSeq(nodes, top.mark + 1, Len(nodes))))
    /\ stack' = Front(stack)
    /\ UNCHANGED <<pos, error, limited, fuel, control>>

(* The end of parse_rule: all of the input, or an error. *)
End ==
    /\ phase = "matching" /\ control.do = "return" /\ stack = <<>>
    /\ phase' = "done"
    /\ LET ok == control.ok /\ ~limited  all == pos = Len(input) IN
       /\ control' = Return(ok /\ all)
       /\ error' = IF ok /\ ~all THEN expects(error, pos, Expected("end"), FALSE) ELSE error
    /\ nodes' = IF nodes = <<>> THEN <<Node(start, 0, Len(input), <<>>)>> ELSE nodes
    /\ UNCHANGED <<gVars, pos, limited, fuel, stack>>

Next ==
    \/ Compile \/ Begin \/ HitLimit \/ CallLimited \/ CallTerminal \/ CallComposite
    \/ ReturnToSeq \/ ReturnToChoice \/ ReturnToOptional \/ ReturnToRepeat
    \/ ReturnToPredicate \/ ReturnToRef \/ ReturnToRule \/ End

Spec == Init /\ [][Next]_vars

-----------------------------------------------------------------------------
(* The meaning of an expression at a position, without limits and without  *)
(* checkpoints: whether it matches, where it ends, the nodes it makes, and *)
(* the failures on the way that no predicate hides.                        *)
Match(ok, to, ns, fails) == [ok |-> ok, pos |-> to, nodes |-> ns, fails |-> fails]
RECURSIVE Meaning(_, _), MeaningOfSeq(_, _), MeaningOfChoice(_, _), MeaningOfRepeat(_, _)
MeaningOfSeq(es, p) ==
    IF es = <<>> THEN Match(TRUE, p, <<>>, {})
    ELSE LET a == Meaning(Head(es), p) IN
         IF ~a.ok THEN a
         ELSE LET b == MeaningOfSeq(Tail(es), a.pos) IN
              Match(b.ok, b.pos, a.nodes \o b.nodes, a.fails \union b.fails)
MeaningOfChoice(es, p) ==
    LET a == Meaning(Head(es), p) IN
    IF a.ok \/ Len(es) = 1 THEN a
    ELSE LET b == MeaningOfChoice(Tail(es), p) IN [b EXCEPT !.fails = @ \union a.fails]
MeaningOfRepeat(e, p) ==
    LET a == Meaning(e, p) IN
    IF ~a.ok THEN Match(TRUE, p, <<>>, a.fails)
    ELSE LET b == MeaningOfRepeat(e, a.pos) IN
         Match(TRUE, b.pos, a.nodes \o b.nodes, a.fails \union b.fails)
MeaningOfRule(n, p) ==
    LET a == Meaning(expr(rs, n), p) IN
    [a EXCEPT !.nodes = IF silent(n) \/ ~a.ok THEN <<>> ELSE <<Node(n, p, a.pos, @)>>]
Meaning(e, p) ==
    CASE e.kind = "Ref" -> MeaningOfRule(e.name, p)
      [] e.kind = "Seq" -> MeaningOfSeq(e.es, p)
      [] e.kind = "Choice" -> MeaningOfChoice(e.es, p)
      [] e.kind = "Optional" -> MeaningOfChoice(<<e.e, Lit(<<>>, FALSE)>>, p)
      [] e.kind = "Repeat" ->
            IF e.one THEN MeaningOfSeq(<<e.e, Repeat(e.e, FALSE)>>, p)
            ELSE MeaningOfRepeat(e.e, p)
      [] e.kind = "Predicate" ->
            LET ok == Meaning(e.e, p).ok = e.positive IN
            Match(ok, p, <<>>, IF ok THEN {} ELSE
                  {<<p, Expected(IF e.positive THEN "positive" ELSE "negative")>>})
      [] OTHER -> LET ok == matches(e, p) IN
            Match(ok, IF ok THEN p + width(e) ELSE p, <<>>, IF ok THEN {} ELSE {<<p, e>>})

(* The text of a grammar that keeps to the nesting limit is read as the    *)
(* rules it was written from; any other is refused by Grammar.             *)
TextFaithful ==
    phase = "text" =>
        LET r == rules(Text(rs)) IN
        /\ r.ok <=> \A rule \in ToSet(rs) : 1 + Nesting(rule.expr) <= MAX_NESTING
        /\ r.ok => r.val = rs

(* A parser of a validated grammar always gets on: no rule is entered      *)
(* again before anything was consumed, and no repetition goes round        *)
(* without consuming.  So only the input can exhaust the limits.           *)
ParserProgresses ==
    /\ \A i, j \in DOMAIN stack :
          stack[i].e.kind = "Rule" /\ stack[i].e = stack[j].e
             /\ stack[i].start = stack[j].start => i = j
    /\ phase = "matching" /\ control.do = "return" /\ stack # <<>> =>
          (top.e.kind = "Repeat" /\ control.ok => pos > top.at)

(* What parse_rule returns: an error whenever a limit was hit, wherever    *)
(* that was, and otherwise the tree or the furthest failures that the      *)
(* meaning of the grammar prescribes.                                      *)
ResultExact ==
    phase = "done" /\ start \in names(rs) =>
        IF limited THEN ~control.ok /\ \E x \in error.expected : x.kind \in {"depth limit", "work limit"}
        ELSE LET m == MeaningOfRule(start, 0)
                 fails == m.fails \union
                     (IF m.ok /\ m.pos < Len(input) THEN {<<m.pos, Expected("end")>>} ELSE {})
                 furthest == Max({f[1] : f \in fails} \union {0})
             IN  /\ control.ok <=> m.ok /\ m.pos = Len(input)
                 /\ control.ok => nodes = IF m.nodes = <<>>
                                          THEN <<Node(start, 0, Len(input), <<>>)>> ELSE m.nodes
                 /\ error = [offset |-> furthest,
                             expected |-> {f[2] : f \in {g \in fails : g[1] = furthest}}]

(* The nodes made so far are a tree over the input as Node::new asks for:  *)
(* children lie inside their parent, in order, without overlap, and the    *)
(* nodes of a level end before the parser's position.                      *)
RECURSIVE WellFormed(_, _, _)
WellFormed(ns, from, to) ==
    /\ \A i \in DOMAIN ns :
          /\ (IF i = 1 THEN from ELSE ns[i - 1].end) <= ns[i].start
          /\ ns[i].start <= ns[i].end /\ ns[i].end <= to
          /\ WellFormed(ns[i].children, ns[i].start, ns[i].end)
TreeWellFormed == phase = "matching" => WellFormed(nodes, 0, pos)
=============================================================================
