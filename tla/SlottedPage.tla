----------------------------- MODULE SlottedPage -----------------------------
(***************************************************************************)
(* What crates/heapam/src/page.rs promises of a page: a sequence of tuples *)
(* addressed by one-based slots, an owner, a successor, and a budget of    *)
(* space that every slot and every tuple is charged to.  HeapPage is shown *)
(* to implement it cell by cell; HeapTable is built on it.                 *)
(***************************************************************************)
EXTENDS Integers, Sequences, FiniteSetsExt

CONSTANTS PAGE_SIZE, HEADER_SIZE

ASSUME SlottedPageAssumption ==
    PAGE_SIZE \in Nat /\ HEADER_SIZE \in Nat /\ HEADER_SIZE + 2 < PAGE_SIZE

SLOT_SIZE == 2    \* an offset and a length
MAX_TUPLE_SIZE == PAGE_SIZE - HEADER_SIZE - SLOT_SIZE
None == -1        \* no page
NoTuple == <<>>   \* what a deleted slot holds: no tuple is empty

check_tuple_length(tuple) == Len(tuple) <= MAX_TUPLE_SIZE
check_tuple(tuple) == tuple # <<>> /\ Len(tuple) <= MAX_TUPLE_SIZE

(* A page the store has allocated and nobody has initialized. *)
Blank == [sound |-> FALSE, owner |-> 0, next |-> None, rows |-> <<>>]
Fresh(owner) == [sound |-> TRUE, owner |-> owner, next |-> None, rows |-> <<>>]

(* The sum of the first n values of f. *)
SumTo(f, n) ==
    LET sum[k \in 0 .. n] == IF k = 0 THEN 0 ELSE sum[k - 1] + f[k] IN sum[n]

Charge(rows) == SumTo([i \in DOMAIN rows |-> SLOT_SIZE + Len(rows[i])], Len(rows))
Fits(rows) == HEADER_SIZE + Charge(rows) <= PAGE_SIZE

Row(p, id) == IF id > Len(p.rows) THEN NoTuple ELSE p.rows[id]
HasRow(p, id) == Row(p, id) # NoTuple

CanInsert(p, tuple) == Fits(Append(p.rows, tuple))
InsertedReusing(p, tuple) ==
    LET dead == {id \in DOMAIN p.rows : p.rows[id] = NoTuple} IN
    IF dead = {} THEN [p EXCEPT !.rows = Append(@, tuple)]
    ELSE [p EXCEPT !.rows[Min(dead)] = tuple]
Inserted(p, tuple) == [p EXCEPT !.rows = Append(@, tuple)]
Deleted(p, id) == [p EXCEPT !.rows[id] = NoTuple]
CanReplace(p, id, tuple) == HasRow(p, id) /\ Fits([p.rows EXCEPT ![id] = tuple])
Replaced(p, id, tuple) == [p EXCEPT !.rows[id] = tuple]
Linked(p, id) == [p EXCEPT !.next = id]
=============================================================================
