------------------------------ MODULE HeapPage ------------------------------
(***************************************************************************)
(* The slotted pages of crates/heapam/src/page.rs.  The header is a        *)
(* record; the rest of the page is an array of cells in which the slot     *)
(* directory grows up and the tuples grow down, so that an overlap of the  *)
(* two destroys one of them.  A slot takes two cells, its offset and its   *)
(* length (two u16 in the code).                                           *)
(***************************************************************************)
EXTENDS SlottedPage

CONSTANTS
    Owners,     \* page IDs, for the owner and the link
    Tuples      \* what callers insert, tuples of refused sizes included

ASSUME HeapPageAssumption == Owners \subseteq Nat /\ Tuples \subseteq Seq(Int)

VARIABLE page   \* the bytes of one page

(* A page as the page store allocates it. *)
ZeroPage ==
    [magic |-> FALSE, owner |-> 0, link |-> 0, flag |-> 0, slots |-> 0,
     upper |-> 0, cells |-> [a \in HEADER_SIZE .. PAGE_SIZE - 1 |-> 0]]

slot_at(index) == HEADER_SIZE + index * SLOT_SIZE
slot(p, index) == <<p.cells[slot_at(index)], p.cells[slot_at(index) + 1]>>
put_slot(p, index, offset, len) ==
    [p EXCEPT !.cells[slot_at(index)] = offset,
              !.cells[slot_at(index) + 1] = len]

bytes(p, offset, len) == [k \in 1 .. len |-> p.cells[offset + k - 1]]
put_bytes(p, offset, tuple) ==
    [p EXCEPT !.cells =
        [a \in DOMAIN @ |-> IF a \in offset .. offset + Len(tuple) - 1
                            THEN tuple[a - offset + 1] ELSE @[a]]]

initialize(owner) ==
    [ZeroPage EXCEPT !.magic = TRUE, !.owner = owner, !.upper = PAGE_SIZE]

-----------------------------------------------------------------------------
Indices(p) == 0 .. p.slots - 1
live(p) == {i \in Indices(p) : slot(p, i) # <<0, 0>>}
extent(p, i) == slot(p, i)[1] .. slot(p, i)[1] + slot(p, i)[2] - 1
used(p) == SumTo([k \in 1 .. p.slots |-> slot(p, k - 1)[2]], p.slots)

(* What validate requires of a page before any other operation uses it. *)
validate(p) ==
    /\ p.magic
    /\ p.flag <= 1
    /\ slot_at(p.slots) <= p.upper
    /\ p.upper <= PAGE_SIZE
    /\ \A i \in live(p) : /\ slot(p, i)[2] # 0
                          /\ slot(p, i)[1] >= p.upper
                          /\ slot(p, i)[1] + slot(p, i)[2] <= PAGE_SIZE
    /\ \A i, j \in live(p) :
          i # j => extent(p, i) \intersect extent(p, j) = {}

next(p) == IF p.flag = 1 THEN p.link ELSE None

set_next(p, id) ==
    [p EXCEPT !.link = IF id = None THEN 0 ELSE id,
              !.flag = IF id = None THEN 0 ELSE 1]

(* A tuple written at offset, and its slot. *)
lay(p, index, offset, tuple) ==
    put_slot(put_bytes([p EXCEPT !.upper = offset], offset, tuple),
             index, offset, Len(tuple))

(* The page rebuilt with its tuples moved to the end, in slot order; the   *)
(* tuple at index changed is replaced, by NoTuple to remove it.            *)
emptied(p) == [set_next(initialize(p.owner), next(p)) EXCEPT !.slots = p.slots]
content(p, changed, tuple, i) ==
    IF i = changed THEN tuple ELSE bytes(p, slot(p, i)[1], slot(p, i)[2])
packed(result, i, t) ==
    IF t = NoTuple THEN result ELSE lay(result, i, result.upper - Len(t), t)
compact(p, changed, tuple) ==
    LET rebuilt[n \in 0 .. p.slots] ==
            IF n = 0 THEN emptied(p)
            ELSE packed(rebuilt[n - 1], n - 1, content(p, changed, tuple, n - 1))
    IN  rebuilt[p.slots]

(* The tuple of the one-based slot id, or NoTuple. *)
get(p, id) ==
    IF id > p.slots THEN NoTuple
    ELSE bytes(p, slot(p, id - 1)[1], slot(p, id - 1)[2])

(* The space checks of insert and replace; the first forgets the directory *)
(* entry of the new tuple.                                                 *)
fits_without_slot(p, tuple) ==
    slot_at(p.slots) + used(p) + Len(tuple) <= PAGE_SIZE
fits(p, tuple) == slot_at(p.slots + 1) + used(p) + Len(tuple) <= PAGE_SIZE
replace_fits(p, id, tuple) ==
    /\ get(p, id) # NoTuple
    /\ slot_at(p.slots) + used(p) - Len(get(p, id)) + Len(tuple) <= PAGE_SIZE

(* A tuple is appended; a slot that was deleted is never used again. *)
insert_reusing(p, tuple) ==
    LET dead == Indices(p) \ live(p)
        index == IF dead = {} THEN p.slots ELSE Min(dead)
    IN  compact([p EXCEPT !.slots = IF dead = {} THEN @ + 1 ELSE @], index, tuple)
insert(p, tuple) ==
    lay([compact(p, None, NoTuple) EXCEPT !.slots = p.slots + 1],
        p.slots, PAGE_SIZE - used(p) - Len(tuple), tuple)

-----------------------------------------------------------------------------
Init == page = ZeroPage

Initialize(owner) == page' = initialize(owner)

SetNext(id) == validate(page) /\ page' = set_next(page, id)

Insert(tuple) ==
    /\ check_tuple(tuple) /\ validate(page) /\ fits(page, tuple)
    /\ page' = insert(page, tuple)

Delete(id) ==
    /\ validate(page) /\ get(page, id) # NoTuple
    /\ page' = compact(page, id - 1, NoTuple)

Replace(id, tuple) ==
    /\ check_tuple(tuple) /\ validate(page) /\ replace_fits(page, id, tuple)
    /\ page' = compact(page, id - 1, tuple)

Next ==
    \/ \E owner \in Owners : Initialize(owner)
    \/ \E id \in Owners \union {None} : SetNext(id)
    \/ \E t \in Tuples : Insert(t)
    \/ \E id \in 1 .. page.slots : Delete(id) \/ \E t \in Tuples : Replace(id, t)

Spec == Init /\ [][Next]_page

-----------------------------------------------------------------------------
(* The page of SlottedPage that the cells stand for. *)
Abstract(p) ==
    [sound |-> p.magic, owner |-> p.owner, next |-> next(p),
     rows |-> [id \in 1 .. p.slots |-> get(p, id)]]

(* Every page these operations build passes validate, and the space checks *)
(* accept exactly the tuples the page has room for, to the last cell.      *)
SpaceExact ==
    page.magic =>
        /\ validate(page)
        /\ \A t \in Tuples : check_tuple(t) =>
              /\ fits(page, t) <=> CanInsert(Abstract(page), t)
              /\ \A id \in 1 .. page.slots :
                    replace_fits(page, id, t) <=> CanReplace(Abstract(page), id, t)

Simulated(p, q) ==
    \/ \E owner \in Owners : q = Fresh(owner)
    \/ \E id \in Owners \union {None} : q = Linked(p, id)
    \/ \E t \in Tuples : check_tuple(t) /\ q = Inserted(p, t)
    \/ \E id \in 1 .. Len(p.rows) :
          /\ HasRow(p, id)
          /\ q = Deleted(p, id) \/ \E t \in Tuples : q = Replaced(p, id, t)
(* The cells implement the slotted page: a step changes one slot and no    *)
(* other tuple, owner or link, however compaction moves the cells, and a   *)
(* new tuple never takes the slot of a deleted one.                        *)
PageImplements == [][Simulated(Abstract(page), Abstract(page)')]_page
=============================================================================
