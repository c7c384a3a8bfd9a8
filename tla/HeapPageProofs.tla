--------------------------- MODULE HeapPageProofs ---------------------------
(***************************************************************************)
(* The cells of crates/heapam/src/page.rs implement the slotted page for   *)
(* any page size and any tuples.  Canonical is the layout that every       *)
(* operation leaves: the tuples at the end of the page, in slot order and  *)
(* without a gap.                                                          *)
(***************************************************************************)
EXTENDS HeapPage, SlottedPageLemmas

USE SlottedPageAssumption DEF SLOT_SIZE, slot_at

Cells == HEADER_SIZE .. PAGE_SIZE - 1
PageSpace ==
    [magic : BOOLEAN, owner : Int, link : Int, flag : Int, slots : Int,
     upper : Int, cells : [Cells -> Int]]

(* Where the tuple of the one-based slot k begins. *)
Start(rows, k) == PAGE_SIZE - SumTo(Lens(rows), k)

(* Slot k of the page holds the row, or is dead if there is none. *)
Holds(p, rows, k) ==
    /\ slot(p, k - 1) = IF rows[k] = NoTuple THEN <<0, 0>>
                        ELSE <<Start(rows, k), Len(rows[k])>>
    /\ \A a \in 1 .. Len(rows[k]) : p.cells[Start(rows, k) + a - 1] = rows[k][a]

(* The first n rows are on the page, and the other slots are dead. *)
Laid(p, rows, n) ==
    /\ p \in PageSpace
    /\ p.upper = Start(rows, n)
    /\ \A k \in 1 .. n : Holds(p, rows, k)
    /\ \A k \in n + 1 .. Len(rows) : slot(p, k - 1) = <<0, 0>>

Canonical(p, rows) ==
    /\ rows \in RowLists /\ Fits(rows)
    /\ p.magic /\ p.flag \in {0, 1} /\ p.slots = Len(rows)
    /\ Laid(p, rows, Len(rows))

PageInv == page.magic => \E rows : Canonical(page, rows)

-----------------------------------------------------------------------------
(* The tuples of a page that has room for them are between the directory   *)
(* and the end of the page, each before the one of the slot before.        *)
LEMMA Places ==
    ASSUME NEW rows \in RowLists, Fits(rows), NEW n \in 0 .. Len(rows), NEW k \in 0 .. n
    PROVE  /\ Len(rows) \in Nat /\ Start(rows, n) \in Int /\ Start(rows, k) \in Int
           /\ slot_at(Len(rows)) <= Start(rows, n)
           /\ Start(rows, n) <= Start(rows, k) /\ Start(rows, k) <= PAGE_SIZE
           /\ Start(rows, 0) = PAGE_SIZE
           /\ n > 0 => Start(rows, n - 1) = Start(rows, n) + Len(rows[n])
  <1>1. /\ SumTo(Lens(rows), n) \in Nat /\ SumTo(Lens(rows), k) \in Nat
        /\ SumTo(Lens(rows), k) <= SumTo(Lens(rows), n) /\ SumTo(Lens(rows), 0) = 0
        /\ n > 0 => SumTo(Lens(rows), n) = SumTo(Lens(rows), n - 1) + Len(rows[n])
    BY TotalGrows
  <1>2. Charge(rows) = Len(rows) * SLOT_SIZE + Total(rows) /\ Len(rows) \in Nat /\ Total(rows) \in Nat
    BY ChargeIs
  <1>3. SumTo(Lens(rows), n) <= Total(rows)
    <2>1. PICK m : m = Len(rows)
      OBVIOUS
    <2>2. m \in 0 .. Len(rows) /\ n \in 0 .. m
      BY <1>2, <2>1
    <2>3. SumTo(Lens(rows), n) <= SumTo(Lens(rows), m)
      BY <2>2, TotalGrows, Zenon
    <2> QED BY <2>1, <2>3 DEF Total
  <1>4. HEADER_SIZE + Len(rows) * 2 + Total(rows) <= PAGE_SIZE
    BY <1>2 DEF Fits
  <1>5. slot_at(Len(rows)) <= PAGE_SIZE - SumTo(Lens(rows), n)
    BY <1>1, <1>2, <1>3, <1>4
  <1>6. n > 0 => n - 1 \in 0 .. n /\ n \in 1 .. Len(rows)
    BY <1>2
  <1>7. n > 0 => SumTo(Lens(rows), n - 1) \in Nat
    BY <1>6, TotalGrows
  <1>8. n > 0 => Len(rows[n]) \in Nat
    BY <1>6, LensTyped
  <1>9. /\ Start(rows, n) \in Int /\ Start(rows, k) \in Int /\ Start(rows, n) <= Start(rows, k)
        /\ Start(rows, k) <= PAGE_SIZE /\ Start(rows, 0) = PAGE_SIZE
    BY <1>1 DEF Start
  <1>10. n > 0 => Start(rows, n - 1) = Start(rows, n) + Len(rows[n])
    BY <1>1, <1>7, <1>8 DEF Start
  <1>11. slot_at(Len(rows)) <= Start(rows, n)
    BY <1>5 DEF Start
  <1> QED BY <1>2, <1>9, <1>10, <1>11

(* The page q is p with the tuple t at o and its slot. *)
Written(q, p, i, o, t) ==
    /\ q \in PageSpace
    /\ q.magic = p.magic /\ q.owner = p.owner /\ q.link = p.link /\ q.flag = p.flag
    /\ q.slots = p.slots /\ q.upper = o
    /\ \A a \in Cells : q.cells[a] =
          IF a = slot_at(i) + 1 THEN Len(t)
          ELSE IF a = slot_at(i) THEN o
          ELSE IF a \in o .. o + Len(t) - 1 THEN t[a - o + 1] ELSE p.cells[a]

(* What a write of a tuple and its slot does to the page. *)
LEMMA LayFacts ==
    ASSUME NEW p \in PageSpace, NEW i \in Nat, NEW o \in Int, NEW t \in Seq(Int)
    PROVE  Written(lay(p, i, o, t), p, i, o, t)
  <1>1. PICK c0 : c0 = p.cells
    OBVIOUS
  <1>2. c0 \in [Cells -> Int] /\ Len(t) \in Nat
    BY <1>1 DEF PageSpace
  <1>3. PICK c1 : c1 = [a \in Cells |-> IF a \in o .. o + Len(t) - 1
                                        THEN t[a - o + 1] ELSE c0[a]]
    BY Zenon
  <1>4. c1 \in [Cells -> Int]
    <2>1. ASSUME NEW a \in Cells, a \in o .. o + Len(t) - 1 PROVE t[a - o + 1] \in Int
      <3>1. a - o + 1 \in 1 .. Len(t)
        BY <1>2, <2>1 DEF Cells
      <3> QED BY <3>1
    <2> QED BY <1>2, <1>3, <2>1
  <1>5. PICK c2 : c2 = [c1 EXCEPT ![slot_at(i)] = o]
    BY Zenon
  <1>6. PICK c3 : c3 = [c2 EXCEPT ![slot_at(i) + 1] = Len(t)]
    BY Zenon
  <1>7. c2 \in [Cells -> Int] /\ c3 \in [Cells -> Int]
    <2>1. c2 \in [Cells -> Int]
      BY <1>4, <1>5, Zenon
    <2>2. Len(t) \in Int
      BY <1>2
    <2> QED BY <1>6, <2>1, <2>2, Zenon
  <1>8. \A a \in Cells : c3[a] =
                 IF a = slot_at(i) + 1 THEN Len(t)
                 ELSE IF a = slot_at(i) THEN o
                 ELSE IF a \in o .. o + Len(t) - 1 THEN t[a - o + 1] ELSE c0[a]
    BY <1>3, <1>4, <1>5, <1>6, <1>7
  <1>9. PICK p1 : p1 = [p EXCEPT !.upper = o]
    BY Zenon
  <1>10. /\ p1 \in PageSpace /\ p1.cells = c0 /\ p1.upper = o /\ p1.magic = p.magic
         /\ p1.owner = p.owner /\ p1.link = p.link /\ p1.flag = p.flag /\ p1.slots = p.slots
    BY <1>1, <1>9, Zenon DEF PageSpace
  <1>11. PICK p2 : p2 = put_bytes(p1, o, t)
    OBVIOUS
  <1>12. p2 = [p1 EXCEPT !.cells = c1]
    <2>1. DOMAIN p1.cells = Cells
      BY <1>2, <1>10
    <2> QED BY <1>3, <1>10, <1>11, <2>1 DEF put_bytes
  <1>13. /\ p2 \in PageSpace /\ p2.cells = c1 /\ p2.upper = o /\ p2.magic = p.magic
         /\ p2.owner = p.owner /\ p2.link = p.link /\ p2.flag = p.flag /\ p2.slots = p.slots
    BY <1>4, <1>10, <1>12, Zenon DEF PageSpace
  <1>14. PICK p3 : p3 = lay(p, i, o, t)
    OBVIOUS
  <1>15. p3 = [p2 EXCEPT !.cells = c3]
    <2>1. p3 = put_slot(p2, i, o, Len(t))
      BY <1>9, <1>11, <1>14 DEF lay
    <2> QED BY <1>5, <1>6, <1>13, <2>1, Zenon DEF put_slot, PageSpace
  <1>16. /\ p3 \in PageSpace /\ p3.cells = c3 /\ p3.upper = o /\ p3.magic = p.magic
         /\ p3.owner = p.owner /\ p3.link = p.link /\ p3.flag = p.flag /\ p3.slots = p.slots
    BY <1>7, <1>13, <1>15, Zenon DEF PageSpace
  <1> QED BY <1>1, <1>8, <1>14, <1>16 DEF Written

(* The slots are below the tuples. *)
LEMMA SlotCells ==
    ASSUME NEW rows \in RowLists, Fits(rows), NEW n \in 0 .. Len(rows), NEW j \in 1 .. Len(rows)
    PROVE  /\ slot_at(j - 1) \in Cells /\ slot_at(j - 1) + 1 \in Cells
           /\ slot_at(j - 1) + 1 < Start(rows, n)
           /\ slot_at(j - 1) \in Int /\ Start(rows, n) \in Int /\ HEADER_SIZE <= Start(rows, n)
  <1>1. 0 \in 0 .. n
    OBVIOUS
  <1>2. /\ Len(rows) \in Nat /\ Start(rows, n) \in Int /\ slot_at(Len(rows)) <= Start(rows, n)
        /\ Start(rows, n) <= Start(rows, 0) /\ Start(rows, 0) = PAGE_SIZE
    BY <1>1, Places
  <1>3. PICK s : s = Start(rows, n)
    OBVIOUS
  <1>4. s \in Int /\ HEADER_SIZE + Len(rows) * 2 <= s /\ s <= PAGE_SIZE
    BY <1>2, <1>3
  <1>5. /\ HEADER_SIZE + (j - 1) * 2 \in Cells /\ HEADER_SIZE + (j - 1) * 2 + 1 \in Cells
        /\ HEADER_SIZE + (j - 1) * 2 + 1 < s /\ HEADER_SIZE <= s
    BY <1>2, <1>4 DEF Cells
  <1> QED BY <1>3, <1>4, <1>5

(* The tuple of slot k is written below the tuples of the slots before. *)
LEMMA LayStep ==
    ASSUME NEW rows \in RowLists, Fits(rows), NEW k \in 1 .. Len(rows), rows[k] # NoTuple,
           NEW p \in PageSpace, \A j \in 1 .. k - 1 : Holds(p, rows, j),
           \A j \in k + 1 .. Len(rows) : slot(p, j - 1) = <<0, 0>>
    PROVE  Laid(lay(p, k - 1, Start(rows, k), rows[k]), rows, k)
  <1>1. PICK q, o, t, i : /\ q = lay(p, i, o, t) /\ o = Start(rows, k) /\ t = rows[k]
                          /\ i = k - 1
    OBVIOUS
  <1>2. /\ t \in Seq(Int) /\ Len(t) \in Nat /\ Len(t) > 0 /\ i \in Nat /\ Len(rows) \in Nat
        /\ k \in 0 .. Len(rows) /\ i \in 0 .. k /\ k > 0 /\ k \in Int /\ i \in 0 .. Len(rows)
    BY <1>1 DEF RowLists, NoTuple
  <1>3. /\ o \in Int /\ slot_at(Len(rows)) <= o /\ Start(rows, i) = o + Len(t)
        /\ Start(rows, i) <= PAGE_SIZE
    BY <1>1, <1>2, Places
  <1>4. /\ q \in PageSpace /\ q.upper = o
        /\ \A a \in Cells : q.cells[a] =
              IF a = slot_at(i) + 1 THEN Len(t)
              ELSE IF a = slot_at(i) THEN o
              ELSE IF a \in o .. o + Len(t) - 1 THEN t[a - o + 1] ELSE p.cells[a]
    <2>1. Written(q, p, i, o, t)
      BY <1>1, <1>2, <1>3, LayFacts
    <2> QED BY <2>1 DEF Written
  <1>5. \A j \in 1 .. Len(rows) : /\ slot_at(j - 1) \in Cells /\ slot_at(j - 1) + 1 \in Cells
                                  /\ slot_at(j - 1) + 1 < o
    BY <1>1, <1>2, SlotCells
  <1>6. HEADER_SIZE <= o /\ o + Len(t) <= PAGE_SIZE /\ slot_at(i) + 1 < o
    BY <1>1, <1>2, <1>3, SlotCells
  <1>7. Holds(q, rows, k)
    <2>1. slot(q, i) = <<o, Len(t)>>
      <3>1. slot_at(i) \in Cells /\ slot_at(i) + 1 \in Cells
        BY <1>1, <1>5
      <3>2. q.cells[slot_at(i)] = o /\ q.cells[slot_at(i) + 1] = Len(t)
        BY <1>4, <3>1 DEF Cells
      <3> QED BY <3>2 DEF slot
    <2>2. ASSUME NEW a \in 1 .. Len(t) PROVE q.cells[o + a - 1] = t[a]
      <3>1. PICK b : b = o + a - 1
        OBVIOUS
      <3>2. /\ b \in Cells /\ b # slot_at(i) /\ b # slot_at(i) + 1 /\ b \in o .. o + Len(t) - 1
            /\ b - o + 1 = a
        BY <1>2, <1>3, <1>6, <3>1 DEF Cells
      <3>3. q.cells[b] = t[b - o + 1]
        BY <1>4, <3>2
      <3> QED BY <3>1, <3>2, <3>3
    <2> QED BY <1>1, <2>1, <2>2 DEF Holds
  <1>8. ASSUME NEW j \in 1 .. Len(rows), j # k PROVE slot(q, j - 1) = slot(p, j - 1)
    <2>1. PICK b : b = slot_at(j - 1)
      OBVIOUS
    <2>2. b \in Cells /\ b + 1 \in Cells /\ b + 1 < o
      BY <1>5, <2>1
    <2>3. b # slot_at(i) /\ b # slot_at(i) + 1 /\ b + 1 # slot_at(i) /\ b + 1 # slot_at(i) + 1
      BY <1>1, <1>8, <2>1
    <2>4. b \notin o .. o + Len(t) - 1 /\ b + 1 \notin o .. o + Len(t) - 1
      BY <1>2, <1>3, <2>2 DEF Cells
    <2>5. q.cells[b] = p.cells[b] /\ q.cells[b + 1] = p.cells[b + 1]
      BY <1>4, <2>2, <2>3, <2>4
    <2> QED BY <2>1, <2>5 DEF slot
  <1>9. ASSUME NEW j \in 1 .. k - 1 PROVE Holds(q, rows, j)
    <2>1. j \in 1 .. Len(rows) /\ j # k /\ j \in 0 .. Len(rows) /\ j - 1 \in 0 .. j /\ j > 0
          /\ j \in 0 .. i
      BY <1>1, <1>2
    <2>2. slot(q, j - 1) = slot(p, j - 1)
      BY <1>8, <2>1
    <2>3. /\ Start(rows, j) \in Int /\ Start(rows, j - 1) = Start(rows, j) + Len(rows[j])
          /\ Start(rows, j - 1) <= PAGE_SIZE
      BY <2>1, Places
    <2>4. Start(rows, i) <= Start(rows, j)
      BY <1>2, <2>1, Places
    <2>5. Len(rows[j]) \in Nat
      BY <2>1 DEF RowLists
    <2>6. ASSUME NEW a \in 1 .. Len(rows[j])
          PROVE  q.cells[Start(rows, j) + a - 1] = rows[j][a]
      <3>1. PICK b, s : s = Start(rows, j) /\ b = s + a - 1
        OBVIOUS
      <3>2. s \in Int /\ s + Len(rows[j]) <= PAGE_SIZE /\ o + Len(t) <= s
        BY <1>3, <2>3, <2>4, <3>1
      <3>3. /\ b \in Cells /\ b # slot_at(i) /\ b # slot_at(i) + 1 /\ b \notin o .. o + Len(t) - 1
        <4>1. b \in Int /\ s <= b /\ b < PAGE_SIZE
          BY <2>5, <3>1, <3>2, SMTT(40)
        <4>2. slot_at(i) \in Int /\ o + Len(t) <= b
          BY <1>2, <1>3, <3>2, <4>1
        <4> QED BY <1>2, <1>3, <1>6, <4>1, <4>2 DEF Cells
      <3>4. q.cells[b] = p.cells[b]
        BY <1>4, <3>3
      <3>5. p.cells[b] = rows[j][a]
        BY <3>1, Zenon DEF Holds
      <3> QED BY <3>1, <3>4, <3>5
    <2> QED BY <2>2, <2>6 DEF Holds
  <1>10. \A j \in 1 .. k : Holds(q, rows, j)
    BY <1>2, <1>7, <1>9
  <1>11. \A j \in k + 1 .. Len(rows) : slot(q, j - 1) = <<0, 0>>
    BY <1>2, <1>8
  <1> QED BY <1>1, <1>4, <1>10, <1>11 DEF Laid

-----------------------------------------------------------------------------
(* The header that compact gives the page it builds. *)
SameHeader(q, p) ==
    /\ q.magic /\ q.owner = p.owner /\ q.flag \in {0, 1} /\ next(q) = next(p)
    /\ q.slots = p.slots

(* It starts from a page without tuples. *)
LEMMA EmptiedPage ==
    ASSUME NEW p \in PageSpace
    PROVE  /\ emptied(p) \in PageSpace /\ SameHeader(emptied(p), p)
           /\ emptied(p).upper = PAGE_SIZE
           /\ \A a \in Cells : emptied(p).cells[a] = 0
  <1>1. PICK q : q = initialize(p.owner)
    OBVIOUS
  <1>2. /\ q \in PageSpace /\ q.magic /\ q.owner = p.owner /\ q.upper = PAGE_SIZE
        /\ \A a \in Cells : q.cells[a] = 0
    <2>1. PICK c, o : c = [a \in Cells |-> 0] /\ o = p.owner
      BY Zenon
    <2>2. c \in [Cells -> Int] /\ (\A a \in Cells : c[a] = 0) /\ o \in Int /\ PAGE_SIZE \in Int
      BY <2>1 DEF PageSpace
    <2>3. q = [magic |-> TRUE, owner |-> o, link |-> 0, flag |-> 0, slots |-> 0,
               upper |-> PAGE_SIZE, cells |-> c]
      BY <1>1, <2>1, Zenon DEF initialize, ZeroPage, Cells
    <2>4. 0 \in Int
      OBVIOUS
    <2>5. q \in PageSpace
      BY <2>2, <2>3, <2>4 DEF PageSpace
    <2> QED BY <2>1, <2>2, <2>3, <2>5
  <1>3. PICK l : l = next(p)
    OBVIOUS
  <1>4. l \in Int
    BY <1>3 DEF next, PageSpace, None
  <1>5. PICK q2 : q2 = set_next(q, l)
    OBVIOUS
  <1>6. /\ q2 \in PageSpace /\ q2.magic = q.magic /\ q2.owner = q.owner /\ q2.upper = q.upper
        /\ q2.cells = q.cells /\ q2.flag \in {0, 1} /\ next(q2) = l
    <2>1. PICK k, f : /\ k = IF l = None THEN 0 ELSE l
                      /\ f = IF l = None THEN 0 ELSE 1
      OBVIOUS
    <2>2. k \in Int /\ f \in {0, 1} /\ f \in Int /\ l = IF f = 1 THEN k ELSE None
      BY <1>4, <2>1
    <2>3. q2 = [q EXCEPT !.link = k, !.flag = f]
      BY <1>5, <2>1 DEF set_next
    <2>4. /\ q2 \in PageSpace /\ q2.magic = q.magic /\ q2.owner = q.owner /\ q2.upper = q.upper
          /\ q2.cells = q.cells /\ q2.flag = f /\ q2.link = k
      BY <1>2, <2>2, <2>3, Zenon DEF PageSpace
    <2> QED BY <2>2, <2>4 DEF next
  <1>7. PICK q3 : q3 = emptied(p)
    OBVIOUS
  <1>8. q3 = [q2 EXCEPT !.slots = p.slots]
    BY <1>1, <1>3, <1>5, <1>7 DEF emptied
  <1>9. /\ q3 \in PageSpace /\ q3.magic = q2.magic /\ q3.owner = q2.owner /\ q3.upper = q2.upper
        /\ q3.cells = q2.cells /\ q3.flag = q2.flag /\ q3.link = q2.link /\ q3.slots = p.slots
    BY <1>6, <1>8 DEF PageSpace
  <1>10. next(q3) = l
    BY <1>6, <1>9 DEF next
  <1> QED BY <1>2, <1>3, <1>6, <1>7, <1>9, <1>10 DEF SameHeader

(* A step of compact's loop leaves a page. *)
LEMMA PackedPage ==
    ASSUME NEW p \in PageSpace, NEW i \in Nat, NEW t \in Seq(Int)
    PROVE  packed(p, i, t) \in PageSpace
  <1>1. p.upper - Len(t) \in Int
    BY DEF PageSpace
  <1>2. PICK o : o = p.upper - Len(t)
    OBVIOUS
  <1>3. lay(p, i, o, t) \in PageSpace
    BY <1>1, <1>2, LayFacts DEF Written
  <1> QED BY <1>2, <1>3 DEF packed

(* The pages that the loop of compact goes through. *)
Loop(F, p, n, changed, tuple) ==
    /\ F \in [Nat -> PageSpace]
    /\ F[0] = emptied(p)
    /\ \A k \in Nat : k + 1 <= n =>
          F[k + 1] = packed(F[k], k, content(p, changed, tuple, k))
    /\ compact(p, changed, tuple) = F[n]

(* compact computes what its loop says. *)
LEMMA CompactLoop ==
    ASSUME NEW p \in PageSpace, NEW n \in Nat, p.slots = n, NEW changed, NEW tuple,
           \A i \in 0 .. n - 1 : content(p, changed, tuple, i) \in Seq(Int)
    PROVE  \E F : Loop(F, p, n, changed, tuple)
  <1> DEFINE C(i) == content(p, changed, tuple, i)
             G == [x \in Nat \X PageSpace |->
                      IF x[1] + 1 <= n THEN packed(x[2], x[1], C(x[1])) ELSE x[2]]
  <1>1. G \in [Nat \X PageSpace -> PageSpace]
    <2>1. ASSUME NEW k \in Nat, NEW q \in PageSpace
          PROVE  (IF k + 1 <= n THEN packed(q, k, C(k)) ELSE q) \in PageSpace
      <3>1. CASE k + 1 <= n
        <4>1. k \in 0 .. n - 1
          BY <3>1
        <4>2. C(k) \in Seq(Int)
          BY <4>1
        <4> HIDE DEF C
        <4>3. packed(q, k, C(k)) \in PageSpace
          BY <4>2, PackedPage
        <4> QED BY <4>3
      <3> QED BY <3>1
    <2> HIDE DEF C
    <2> QED BY <2>1
  <1> HIDE DEF C
  <1>2. \A k \in Nat, q \in PageSpace : k + 1 <= n => G[<<k, q>>] = packed(q, k, C(k))
    OBVIOUS
  <1> HIDE DEF G
  <1>3. PICK F \in [Nat -> PageSpace] :
                F[0] = emptied(p) /\ \A k \in Nat : F[k + 1] = G[<<k, F[k]>>]
    <2>1. emptied(p) \in PageSpace
      BY EmptiedPage
    <2>2. \E F : Recursive(F, PageSpace, emptied(p), G)
      BY <1>1, <2>1, Recursion, Zenon
    <2> QED BY <2>2, Zenon DEF Recursive
  <1>4. \A k \in Nat : k + 1 <= n => F[k + 1] = packed(F[k], k, C(k))
    BY <1>2, <1>3, Zenon
  <1>5. compact(p, changed, tuple) = F[n]
    <2> DEFINE Step(g) == [k \in 0 .. n |-> IF k = 0 THEN emptied(p)
                                            ELSE packed(g[k - 1], k - 1, C(k - 1))]
               g0 == [k \in 0 .. n |-> F[k]]
               h == CHOOSE g : g = Step(g)
    <2>1. compact(p, changed, tuple) = h[n]
      BY DEF compact, C
    <2>2. g0 = Step(g0)
      <3>1. ASSUME NEW k \in 0 .. n, k # 0 PROVE F[k] = packed(g0[k - 1], k - 1, C(k - 1))
        <4>1. k - 1 \in Nat /\ k = (k - 1) + 1 /\ k <= n
          BY <3>1
        <4>2. F[k] = packed(F[k - 1], k - 1, C(k - 1))
          BY <1>4, <4>1
        <4>3. g0[k - 1] = F[k - 1]
          BY <3>1
        <4> QED BY <4>2, <4>3
      <3> QED BY <1>3, <3>1
    <2>3. h = Step(h)
      <3> HIDE DEF Step, g0
      <3> QED BY <2>2
    <2>4. /\ h[0] = emptied(p)
          /\ \A k \in 1 .. n : h[k] = packed(h[k - 1], k - 1, C(k - 1))
      <3> HIDE DEF h
      <3> QED BY <2>3
    <2> HIDE DEF h
    <2> DEFINE Same == {k \in Nat : k <= n => h[k] = F[k]}
    <2>5. Nat \subseteq Same
      <3>1. 0 \in Same
        BY <1>3, <2>4
      <3>2. ASSUME NEW k \in Nat, k \in Same PROVE k + 1 \in Same
        <4>1. CASE k + 1 <= n
          <5>1. k + 1 \in 1 .. n /\ (k + 1) - 1 = k
            BY <4>1
          <5>2. h[k + 1] = packed(h[k], k, C(k))
            BY <2>4, <5>1
          <5>3. F[k + 1] = packed(F[k], k, C(k))
            BY <1>4, <4>1
          <5>4. h[k] = F[k]
            BY <3>2, <4>1
          <5> QED BY <5>2, <5>3, <5>4
        <4> QED BY <4>1
      <3> HIDE DEF Same
      <3> QED BY <3>1, <3>2, SetInduction
    <2> QED BY <2>1, <2>5
  <1> QED BY <1>3, <1>4, <1>5 DEF C, Loop

(* compact lays down all the rows. *)
LEMMA Compacted ==
    ASSUME NEW p \in PageSpace, NEW rows \in RowLists, Fits(rows), p.slots = Len(rows),
           NEW changed, NEW tuple,
           \A k \in 1 .. Len(rows) : content(p, changed, tuple, k - 1) = rows[k]
    PROVE  /\ Laid(compact(p, changed, tuple), rows, Len(rows))
           /\ SameHeader(compact(p, changed, tuple), p)
  <1>1. PICK n : n = Len(rows)
    OBVIOUS
  <1>2. n \in Nat /\ p.slots = n /\ \A k \in 1 .. n : rows[k] \in Seq(Int)
    BY <1>1 DEF RowLists
  <1>3. \A i \in 0 .. n - 1 : content(p, changed, tuple, i) = rows[i + 1] /\ rows[i + 1] \in Seq(Int)
    <2>1. ASSUME NEW i \in 0 .. n - 1
          PROVE  content(p, changed, tuple, i) = rows[i + 1] /\ rows[i + 1] \in Seq(Int)
      <3>1. i + 1 \in 1 .. n /\ (i + 1) - 1 = i
        BY <1>2
      <3>2. content(p, changed, tuple, (i + 1) - 1) = rows[i + 1]
        BY <1>1, <3>1
      <3> QED BY <1>2, <3>1, <3>2
    <2> QED BY <2>1
  <1>4. PICK F \in [Nat -> PageSpace] :
              /\ F[0] = emptied(p)
              /\ \A k \in Nat : k + 1 <= n =>
                    F[k + 1] = packed(F[k], k, content(p, changed, tuple, k))
              /\ compact(p, changed, tuple) = F[n]
    <2>1. \A i \in 0 .. n - 1 : content(p, changed, tuple, i) \in Seq(Int)
      BY <1>3
    <2>2. \E F : Loop(F, p, n, changed, tuple)
      BY <1>2, <2>1, CompactLoop, Zenon
    <2> QED BY <2>2 DEF Loop
  <1> DEFINE Good == {k \in Nat : k <= n => Laid(F[k], rows, k) /\ SameHeader(F[k], p)}
  <1>5. 0 \in Good
    <2>1. PICK q : q = emptied(p)
      OBVIOUS
    <2>2. /\ q \in PageSpace /\ SameHeader(q, p) /\ q.upper = PAGE_SIZE
          /\ \A a \in Cells : q.cells[a] = 0
      BY <2>1, EmptiedPage
    <2>3. q.upper = Start(rows, 0)
      <3>1. 0 \in 0 .. Len(rows) /\ 0 \in 0 .. 0
        BY <1>1, <1>2
      <3> QED BY <2>2, <3>1, Places
    <2>4. \A k \in 1 .. Len(rows) : slot(q, k - 1) = <<0, 0>>
      <3>1. 0 \in 0 .. Len(rows)
        BY <1>1, <1>2
      <3>2. \A k \in 1 .. Len(rows) : slot_at(k - 1) \in Cells /\ slot_at(k - 1) + 1 \in Cells
        BY <3>1, SlotCells
      <3> QED BY <2>2, <3>2 DEF slot
    <2>5. Laid(q, rows, 0)
      BY <2>2, <2>3, <2>4 DEF Laid
    <2> QED BY <1>4, <2>1, <2>2, <2>5
  <1>6. ASSUME NEW i \in Nat, i \in Good PROVE i + 1 \in Good
    <2>1. SUFFICES ASSUME i + 1 <= n
                   PROVE  Laid(F[i + 1], rows, i + 1) /\ SameHeader(F[i + 1], p)
      OBVIOUS
    <2>2. PICK k, q, t, o : k = i + 1 /\ q = F[i] /\ t = rows[k] /\ o = Start(rows, k)
      OBVIOUS
    <2>3. Laid(q, rows, i) /\ SameHeader(q, p)
      BY <1>2, <1>6, <2>1, <2>2
    <2>4. F[k] = packed(q, i, t)
      <3>1. i \in 0 .. n - 1
        BY <1>2, <2>1
      <3>2. content(p, changed, tuple, i) = t
        BY <1>3, <2>2, <3>1
      <3> QED BY <1>4, <2>1, <2>2, <3>2
    <2>5. /\ k \in 1 .. Len(rows) /\ k \in 0 .. Len(rows) /\ i \in 0 .. k /\ k > 0 /\ k - 1 = i
          /\ i \in 0 .. Len(rows) /\ k \in Int
      BY <1>1, <1>2, <2>1, <2>2
    <2>6. Start(rows, i) = o + Len(t) /\ o \in Int /\ t \in Seq(Int) /\ Len(t) \in Nat
      <3>1. Start(rows, k - 1) = Start(rows, k) + Len(rows[k]) /\ Start(rows, k) \in Int
        BY <2>5, Places, Zenon
      <3>2. rows[k] \in Seq(Int)
        BY <2>5 DEF RowLists
      <3> QED BY <2>2, <2>5, <3>1, <3>2
    <2>7. /\ q \in PageSpace /\ q.upper = Start(rows, i) /\ (\A j \in 1 .. i : Holds(q, rows, j))
          /\ \A j \in i + 1 .. Len(rows) : slot(q, j - 1) = <<0, 0>>
      BY <2>3 DEF Laid
    <2>8. CASE t = NoTuple
      <3>1. F[k] = q
        BY <2>4, <2>8 DEF packed
      <3>2. Len(t) = 0
        BY <2>8 DEF NoTuple
      <3>3. q.upper = Start(rows, k)
        BY <2>2, <2>6, <2>7, <3>2
      <3>4. slot(q, k - 1) = <<0, 0>>
        BY <2>5, <2>7
      <3>5. Holds(q, rows, k)
        BY <2>2, <2>8, <3>2, <3>4 DEF Holds
      <3>6. \A j \in 1 .. k : Holds(q, rows, j)
        BY <2>5, <2>7, <3>5
      <3>7. \A j \in k + 1 .. Len(rows) : slot(q, j - 1) = <<0, 0>>
        BY <2>5, <2>7
      <3> QED BY <2>2, <2>3, <2>7, <3>1, <3>3, <3>6, <3>7 DEF Laid
    <2>9. CASE t # NoTuple
      <3>1. F[k] = lay(q, i, o, t)
        <4>1. q.upper - Len(t) = o
          BY <2>6, <2>7
        <4> QED BY <2>4, <2>9, <4>1 DEF packed
      <3>2. \A j \in k + 1 .. Len(rows) : slot(q, j - 1) = <<0, 0>>
        BY <2>5, <2>7
      <3>3. Laid(lay(q, k - 1, Start(rows, k), rows[k]), rows, k)
        BY <2>2, <2>5, <2>7, <2>9, <3>2, LayStep
      <3>4. Written(F[k], q, i, o, t)
        BY <2>6, <2>7, <3>1, LayFacts
      <3>5. SameHeader(F[k], p)
        BY <2>3, <3>4 DEF SameHeader, Written, next
      <3> QED BY <2>2, <2>5, <3>1, <3>3, <3>5
    <2> QED BY <2>8, <2>9
  <1>7. Nat \subseteq Good
    <2> HIDE DEF Good
    <2> QED BY <1>5, <1>6, SetInduction
  <1> QED BY <1>1, <1>2, <1>4, <1>7

-----------------------------------------------------------------------------
(* What slot k of a canonical page shows. *)
Shows(p, rows, k) ==
    /\ rows[k] \in Seq(Int) /\ Len(rows[k]) \in Nat
    /\ slot(p, k - 1)[2] = Len(rows[k])
    /\ slot(p, k - 1) = IF Len(rows[k]) = 0 THEN <<0, 0>> ELSE <<Start(rows, k), Len(rows[k])>>
    /\ bytes(p, slot(p, k - 1)[1], slot(p, k - 1)[2]) = rows[k]

(* A slot leads to its row, wherever the tuple has been moved. *)
LEMMA CanonicalSlots ==
    ASSUME NEW p, NEW rows, Canonical(p, rows), NEW k \in 1 .. p.slots
    PROVE  Shows(p, rows, k)
  <1>1. rows \in Seq(Seq(Int)) /\ p.slots = Len(rows) /\ Holds(p, rows, k) /\ Fits(rows)
    BY DEF Canonical, RowLists, Laid
  <1>2. PICK t, o : t = rows[k] /\ o = Start(rows, k)
    OBVIOUS
  <1>3. t \in Seq(Int) /\ Len(t) \in Nat /\ (t = NoTuple <=> Len(t) = 0)
    BY <1>1, <1>2 DEF NoTuple
  <1>4. o \in Int
    <2>1. k \in 0 .. Len(rows) /\ 0 \in 0 .. k
      BY <1>1
    <2> QED BY <1>1, <1>2, <2>1, Places DEF RowLists
  <1>5. /\ slot(p, k - 1) = IF t = NoTuple THEN <<0, 0>> ELSE <<o, Len(t)>>
        /\ \A a \in 1 .. Len(t) : p.cells[o + a - 1] = t[a]
    BY <1>1, <1>2, Zenon DEF Holds
  <1>6. slot(p, k - 1)[2] = Len(t)
    BY <1>3, <1>5
  <1>7. bytes(p, slot(p, k - 1)[1], slot(p, k - 1)[2]) = t
    <2>1. PICK b, s : s = slot(p, k - 1)[1] /\ b = bytes(p, s, Len(t))
      OBVIOUS
    <2>2. b = [a \in 1 .. Len(t) |-> p.cells[s + a - 1]]
      BY <2>1 DEF bytes
    <2>3. \A a \in 1 .. Len(t) : p.cells[s + a - 1] = t[a]
      <3>1. CASE t = NoTuple
        BY <1>3, <3>1
      <3>2. CASE t # NoTuple
        BY <1>5, <2>1, <3>2
      <3> QED BY <3>1, <3>2
    <2>4. b = [a \in 1 .. Len(t) |-> t[a]]
      BY <2>2, <2>3
    <2>5. b = t
      BY <1>3, <2>4
    <2> QED BY <1>6, <2>1, <2>5
  <1> QED BY <1>2, <1>3, <1>5, <1>6, <1>7 DEF Shows

(* An initialized slotted page. *)
View(owner, link, rows) ==
    [sound |-> TRUE, owner |-> owner, next |-> link, rows |-> rows]

(* The slotted page that a canonical page stands for. *)
LEMMA CanonicalPage ==
    ASSUME NEW p, NEW rows, Canonical(p, rows)
    PROVE  /\ Abstract(p) = View(p.owner, next(p), rows)
           /\ used(p) = Total(rows) /\ Total(rows) \in Nat
           /\ p.slots = Len(rows) /\ Len(rows) \in Nat
           /\ Charge(rows) = Len(rows) * 2 + Total(rows)
           /\ \A id \in 1 .. p.slots : get(p, id) = rows[id]
  <1>1. /\ rows \in RowLists /\ rows \in Seq(Seq(Int)) /\ p.slots = Len(rows) /\ p \in PageSpace
        /\ p.magic /\ Len(rows) \in Nat
    BY DEF Canonical, RowLists, Laid
  <1>2. \A k \in 1 .. p.slots : /\ slot(p, k - 1)[2] = Len(rows[k])
                                /\ bytes(p, slot(p, k - 1)[1], slot(p, k - 1)[2]) = rows[k]
    <2>1. \A k \in 1 .. p.slots : Shows(p, rows, k)
      BY CanonicalSlots
    <2> QED BY <2>1, Zenon DEF Shows
  <1>3. \A id \in 1 .. p.slots : get(p, id) = rows[id]
    BY <1>1, <1>2 DEF get
  <1>4. [id \in 1 .. p.slots |-> get(p, id)] = rows
    BY <1>1, <1>3
  <1>5. p.magic = TRUE
    BY <1>1 DEF PageSpace
  <1>6. used(p) = Total(rows)
    <2>1. PICK f, n : f = [k \in 1 .. p.slots |-> slot(p, k - 1)[2]] /\ n = p.slots
      BY Zenon
    <2>2. n \in Nat /\ n \in 0 .. Len(rows) /\ n = Len(rows)
      BY <1>1, <2>1
    <2>3. Ints(Lens(rows), n)
      BY <1>1, <2>2, LensTyped
    <2>4. \A k \in 1 .. n : f[k] = Lens(rows)[k]
      BY <1>2, <2>1, <2>2 DEF Lens
    <2>5. SumTo(f, n) = SumTo(Lens(rows), n)
      BY <2>2, <2>3, <2>4, SumSame
    <2> QED BY <2>1, <2>2, <2>5 DEF used, Total
  <1>7. Charge(rows) = Len(rows) * 2 + Total(rows) /\ Total(rows) \in Nat
    BY <1>1, ChargeIs
  <1> QED BY <1>1, <1>3, <1>4, <1>5, <1>6, <1>7, Zenon DEF Abstract, View

(* A canonical page passes validate. *)
LEMMA CanonicalValid ==
    ASSUME NEW p, NEW rows, Canonical(p, rows)
    PROVE  validate(p)
  <1>1. /\ rows \in RowLists /\ Fits(rows) /\ p.slots = Len(rows) /\ p \in PageSpace
        /\ p.magic /\ p.flag \in {0, 1} /\ Len(rows) \in Nat /\ p.upper = Start(rows, Len(rows))
    BY DEF Canonical, RowLists, Laid
  <1>2. PICK n : n = Len(rows)
    BY Zenon
  <1>3. n \in Nat /\ n \in 0 .. Len(rows) /\ 0 \in 0 .. n
    BY <1>1, <1>2
  <1>4. /\ Start(rows, n) \in Int /\ slot_at(n) <= Start(rows, n) /\ Start(rows, n) <= PAGE_SIZE
    BY <1>1, <1>2, <1>3, Places
  <1>5. \A i \in live(p) : i + 1 \in 1 .. n /\ (i + 1) - 1 = i /\ i \in Int
    BY <1>1, <1>2, <1>3 DEF live, Indices
  <1>6. ASSUME NEW k \in 1 .. n, Len(rows[k]) # 0
        PROVE  /\ slot(p, k - 1)[1] = Start(rows, k) /\ slot(p, k - 1)[2] = Len(rows[k])
               /\ Start(rows, k) \in Int /\ Len(rows[k]) \in Nat /\ Start(rows, n) <= Start(rows, k)
               /\ Start(rows, k - 1) = Start(rows, k) + Len(rows[k]) /\ Start(rows, k - 1) <= PAGE_SIZE
    <2>1. k \in 1 .. p.slots /\ k \in 0 .. Len(rows) /\ k > 0 /\ k - 1 \in 0 .. k /\ k \in 0 .. n
      BY <1>1, <1>2, <1>3
    <2>2. slot(p, k - 1) = <<Start(rows, k), Len(rows[k])>> /\ Len(rows[k]) \in Nat
      <3>1. Shows(p, rows, k)
        BY <2>1, CanonicalSlots
      <3> QED BY <1>6, <3>1 DEF Shows
    <2>3. /\ Start(rows, k) \in Int /\ Start(rows, k - 1) = Start(rows, k) + Len(rows[k])
          /\ Start(rows, k - 1) <= PAGE_SIZE
      BY <1>1, <2>1, Places
    <2>4. Start(rows, n) <= Start(rows, k)
      BY <1>1, <1>3, <2>1, Places
    <2> QED BY <2>2, <2>3, <2>4
  <1>7. ASSUME NEW i \in live(p) PROVE Len(rows[i + 1]) # 0
    <2>1. PICK k : k = i + 1
      OBVIOUS
    <2>2. k \in 1 .. p.slots /\ k - 1 = i /\ slot(p, i) # <<0, 0>>
      BY <1>1, <1>2, <1>5, <2>1 DEF live
    <2>3. slot(p, k - 1) = IF Len(rows[k]) = 0 THEN <<0, 0>> ELSE <<Start(rows, k), Len(rows[k])>>
      BY <2>2, CanonicalSlots DEF Shows
    <2> QED BY <2>1, <2>2, <2>3
  <1>8. ASSUME NEW i \in live(p)
        PROVE  /\ slot(p, i)[2] # 0 /\ slot(p, i)[1] >= p.upper
               /\ slot(p, i)[1] + slot(p, i)[2] <= PAGE_SIZE
    <2>1. PICK k : k = i + 1
      OBVIOUS
    <2>2. k \in 1 .. n /\ k - 1 = i /\ Len(rows[k]) # 0
      BY <1>5, <1>7, <2>1
    <2>3. /\ slot(p, i)[1] = Start(rows, k) /\ slot(p, i)[2] = Len(rows[k])
          /\ Start(rows, k) \in Int /\ Len(rows[k]) \in Nat /\ Start(rows, n) <= Start(rows, k)
          /\ Start(rows, k) + Len(rows[k]) <= PAGE_SIZE
      BY <1>6, <2>2
    <2> QED BY <1>1, <1>2, <1>4, <2>2, <2>3
  <1>9. ASSUME NEW i \in live(p), NEW j \in live(p), i < j
        PROVE  extent(p, i) \intersect extent(p, j) = {}
    <2>1. PICK k, m : k = i + 1 /\ m = j + 1
      OBVIOUS
    <2>2. /\ k \in 1 .. n /\ k - 1 = i /\ Len(rows[k]) # 0 /\ m \in 1 .. n /\ m - 1 = j
          /\ Len(rows[m]) # 0
      BY <1>5, <1>7, <2>1
    <2>3. /\ slot(p, i)[1] = Start(rows, k) /\ Start(rows, k) \in Int
          /\ slot(p, j)[1] = Start(rows, m) /\ slot(p, j)[2] = Len(rows[m])
          /\ Start(rows, m) \in Int /\ Len(rows[m]) \in Nat
          /\ Start(rows, j) = Start(rows, m) + Len(rows[m])
          /\ slot(p, i)[2] \in Int
      BY <1>6, <2>2, SMTT(30)
    <2>4. j \in 0 .. Len(rows) /\ k \in 0 .. j
      BY <1>2, <1>3, <1>5, <1>9, <2>1, <2>2
    <2>5. Start(rows, j) <= Start(rows, k)
      BY <1>1, <2>4, Places
    <2> QED BY <2>3, <2>5 DEF extent
  <1>10. \A i, j \in live(p) : i # j => extent(p, i) \intersect extent(p, j) = {}
    <2>1. SUFFICES ASSUME NEW i \in live(p), NEW j \in live(p), i # j
                   PROVE  extent(p, i) \intersect extent(p, j) = {}
      OBVIOUS
    <2>2. i < j \/ j < i
      BY <1>5, <2>1
    <2>3. CASE i < j
      BY <1>9, <2>3
    <2>4. CASE j < i
      <3>1. extent(p, j) \intersect extent(p, i) = {}
        BY <1>9, <2>4
      <3> QED BY <3>1
    <2> QED BY <2>2, <2>3, <2>4
  <1>11. slot_at(p.slots) <= p.upper /\ p.upper <= PAGE_SIZE /\ p.flag <= 1
    BY <1>1, <1>2, <1>4
  <1> QED BY <1>1, <1>8, <1>10, <1>11 DEF validate

(* The space checks of insert and replace are exact. *)
LEMMA CanonicalSpace ==
    ASSUME NEW p, NEW rows, Canonical(p, rows), NEW t \in Seq(Int)
    PROVE  /\ fits(p, t) <=> CanInsert(Abstract(p), t)
           /\ fits(p, t) <=> Fits(Append(rows, t))
           /\ \A id \in 1 .. p.slots :
                 /\ replace_fits(p, id, t) <=> CanReplace(Abstract(p), id, t)
                 /\ replace_fits(p, id, t) => Fits([rows EXCEPT ![id] = t])
                 /\ HasRow(Abstract(p), id) <=> get(p, id) # NoTuple
  <1>1. /\ rows \in RowLists /\ Len(t) \in Nat
    BY DEF Canonical
  <1>2. /\ Abstract(p) = View(p.owner, next(p), rows)
        /\ used(p) = Total(rows) /\ Total(rows) \in Nat
        /\ p.slots = Len(rows) /\ Len(rows) \in Nat
        /\ \A id \in 1 .. p.slots : get(p, id) = rows[id]
    BY CanonicalPage
  <1>3. Abstract(p).rows = rows
    BY <1>2 DEF View
  <1>4. fits(p, t) <=> Fits(Append(rows, t))
    <2>1. PICK more : more = Append(rows, t)
      BY Zenon
    <2>2. more \in RowLists /\ Len(more) = Len(rows) + 1 /\ Total(more) = Total(rows) + Len(t)
      BY <1>1, <2>1, TotalAppend
    <2>3. Charge(more) = Len(more) * 2 + Total(more)
      BY <2>2, ChargeIs, Zenon DEF SLOT_SIZE
    <2>4. Charge(more) = Len(rows) * 2 + 2 + Total(rows) + Len(t)
      BY <1>1, <1>2, <2>2, <2>3
    <2>5. slot_at(p.slots + 1) = HEADER_SIZE + Len(rows) * 2 + 2
      BY <1>2
    <2> QED BY <1>1, <1>2, <2>1, <2>4, <2>5 DEF fits, Fits
  <1>5. fits(p, t) <=> CanInsert(Abstract(p), t)
    BY <1>3, <1>4 DEF CanInsert
  <1>6. ASSUME NEW id \in 1 .. p.slots
        PROVE  /\ replace_fits(p, id, t) <=> CanReplace(Abstract(p), id, t)
               /\ replace_fits(p, id, t) => Fits([rows EXCEPT ![id] = t])
               /\ HasRow(Abstract(p), id) <=> get(p, id) # NoTuple
    <2>1. PICK other : other = [rows EXCEPT ![id] = t]
      BY Zenon
    <2>2. id \in 1 .. Len(rows) /\ Len(rows[id]) \in Nat /\ ~(id > Len(rows))
      BY <1>1, <1>2 DEF RowLists
    <2>3. /\ other \in RowLists /\ Len(other) = Len(rows)
          /\ Total(other) = Total(rows) + (Len(t) - Len(rows[id]))
      BY <1>1, <2>1, <2>2, TotalExcept, Zenon
    <2>4. Charge(other) = Len(other) * 2 + Total(other)
      BY <2>3, ChargeIs
    <2>5. get(p, id) = rows[id]
      BY <1>2
    <2>6. HasRow(Abstract(p), id) <=> rows[id] # NoTuple
      BY <1>3, <2>2 DEF HasRow, Row
    <2>7. Fits(other) <=> slot_at(p.slots) + used(p) - Len(rows[id]) + Len(t) <= PAGE_SIZE
      <3>1. PICK n, u, l, m : n = Len(rows) /\ u = Total(rows) /\ l = Len(rows[id]) /\ m = Len(t)
        BY Zenon
      <3>2. Charge(other) = n * 2 + (u + (m - l))
        BY <2>3, <2>4, <3>1
      <3>3. n \in Nat /\ u \in Nat /\ l \in Nat /\ m \in Nat
        BY <1>1, <1>2, <2>2, <3>1
      <3>4. HEADER_SIZE + (n * 2 + (u + (m - l))) = HEADER_SIZE + n * 2 + u - l + m
        BY <3>3
      <3> QED BY <1>2, <3>1, <3>2, <3>4 DEF Fits
    <2>8. replace_fits(p, id, t) <=> rows[id] # NoTuple /\ Fits(other)
      BY <2>5, <2>7 DEF replace_fits
    <2>9. CanReplace(Abstract(p), id, t) <=> rows[id] # NoTuple /\ Fits(other)
      BY <1>3, <2>1, <2>6 DEF CanReplace
    <2> QED BY <2>1, <2>5, <2>6, <2>8, <2>9
  <1> QED BY <1>4, <1>5, <1>6, Zenon

-----------------------------------------------------------------------------
(* What the operations on a slotted page change. *)
LEMMA ViewRows ==
    ASSUME NEW o, NEW n, NEW r
    PROVE  View(o, n, r).rows = r
  BY DEF View

(* Its link. *)
LEMMA ViewLinked ==
    ASSUME NEW o, NEW n, NEW r, NEW x
    PROVE  Linked(View(o, n, r), x) = View(o, x, r)
  <1>1. PICK v : v = View(o, n, r)
    OBVIOUS
  <1>2. v \in [sound : {TRUE}, owner : {o}, next : {n}, rows : {r}]
    BY <1>1 DEF View
  <1>3. [v EXCEPT !.next = x] \in [sound : {TRUE}, owner : {o}, next : {x}, rows : {r}]
    BY <1>2, Zenon
  <1>4. View(o, x, r) \in [sound : {TRUE}, owner : {o}, next : {x}, rows : {r}]
    BY DEF View
  <1> QED BY <1>1, <1>3, <1>4, Zenon DEF Linked

(* Its rows. *)
WithRows(v, m) == [v EXCEPT !.rows = m]
RowPut(r, i, x) == [r EXCEPT ![i] = x]

LEMMA ViewChanged ==
    ASSUME NEW o, NEW n, NEW r, NEW m
    PROVE  WithRows(View(o, n, r), m) = View(o, n, m)
  <1>1. PICK v : v = View(o, n, r)
    OBVIOUS
  <1>2. v \in [sound : {TRUE}, owner : {o}, next : {n}, rows : {r}]
    BY <1>1 DEF View
  <1>3. [v EXCEPT !.rows = m] \in [sound : {TRUE}, owner : {o}, next : {n}, rows : {m}]
    BY <1>2, Zenon
  <1>4. View(o, n, m) \in [sound : {TRUE}, owner : {o}, next : {n}, rows : {m}]
    BY DEF View
  <1> QED BY <1>1, <1>3, <1>4, Zenon DEF WithRows

(* A row more. *)
LEMMA ViewInserted ==
    ASSUME NEW o, NEW n, NEW r, NEW x
    PROVE  Inserted(View(o, n, r), x) = View(o, n, Append(r, x))
  <1>1. PICK v : v = View(o, n, r)
    OBVIOUS
  <1>2. v.rows = r
    BY <1>1 DEF View
  <1>3. WithRows(View(o, n, r), Append(r, x)) = View(o, n, Append(r, x))
    BY ViewChanged, Zenon
  <1> QED BY <1>1, <1>2, <1>3 DEF Inserted, WithRows

(* One of its rows. *)
LEMMA ViewReplaced ==
    ASSUME NEW o, NEW n, NEW r, NEW i, NEW x
    PROVE  Replaced(View(o, n, r), i, x) = View(o, n, RowPut(r, i, x))
  <1>1. PICK v : v = View(o, n, r)
    OBVIOUS
  <1>2. v.rows = r
    BY <1>1 DEF View
  <1>3. WithRows(View(o, n, r), RowPut(r, i, x)) = View(o, n, RowPut(r, i, x))
    BY ViewChanged, Zenon
  <1>4. Replaced(v, i, x) = WithRows(v, RowPut(r, i, x))
    BY <1>1, <1>2 DEF Replaced, View, WithRows, RowPut
  <1> QED BY <1>1, <1>3, <1>4

(* The rows with at most the one at index i changed. *)
RowChanged(rows, more, i, t) ==
    /\ Len(more) = Len(rows)
    /\ \A k \in 1 .. Len(rows) : more[k] = IF k - 1 = i THEN t ELSE rows[k]

(* The page that compact builds with one row changed, or none. *)
LEMMA CompactStep ==
    ASSUME NEW p, NEW rows, Canonical(p, rows), NEW more \in RowLists, Fits(more),
           NEW changed, NEW t, RowChanged(rows, more, changed, t)
    PROVE  /\ Canonical(compact(p, changed, t), more)
           /\ compact(p, changed, t).owner = p.owner
           /\ next(compact(p, changed, t)) = next(p)
  <1>1. /\ p \in PageSpace /\ p.slots = Len(rows) /\ Len(more) = Len(rows)
        /\ \A k \in 1 .. Len(rows) : more[k] = IF k - 1 = changed THEN t ELSE rows[k]
    BY DEF Canonical, Laid, RowChanged
  <1>2. ASSUME NEW k \in 1 .. Len(rows) PROVE content(p, changed, t, k - 1) = more[k]
    <2>1. Shows(p, rows, k)
      BY <1>1, CanonicalSlots
    <2>2. bytes(p, slot(p, k - 1)[1], slot(p, k - 1)[2]) = rows[k]
      BY <2>1 DEF Shows
    <2> QED BY <1>1, <2>2 DEF content
  <1>3. PICK q : q = compact(p, changed, t)
    OBVIOUS
  <1>4. Laid(q, more, Len(more)) /\ SameHeader(q, p)
    BY <1>1, <1>2, <1>3, Compacted
  <1>5. Canonical(q, more)
    BY <1>1, <1>4 DEF Canonical, SameHeader
  <1>6. q.owner = p.owner /\ next(q) = next(p)
    BY <1>4 DEF SameHeader
  <1> QED BY <1>3, <1>5, <1>6

(* initialize makes a page without rows. *)
LEMMA InitializeStep ==
    ASSUME NEW owner \in Nat
    PROVE  /\ Canonical(initialize(owner), <<>>)
           /\ Abstract(initialize(owner)) = Fresh(owner)
  <1>1. PICK p, c, rows : p = initialize(owner) /\ c = [a \in Cells |-> 0] /\ rows = <<>>
    BY Zenon
  <1>2. p = [magic |-> TRUE, owner |-> owner, link |-> 0, flag |-> 0, slots |-> 0,
             upper |-> PAGE_SIZE, cells |-> c]
    BY <1>1, Zenon DEF initialize, ZeroPage, Cells
  <1>3. c \in [Cells -> Int] /\ owner \in Int /\ PAGE_SIZE \in Int /\ 0 \in Int
    BY <1>1
  <1>4. p \in PageSpace
    BY <1>2, <1>3, Zenon DEF PageSpace
  <1>5. rows \in RowLists /\ Len(rows) = 0
    BY <1>1 DEF RowLists
  <1>6. 0 \in 0 .. Len(rows) /\ 0 \in 0 .. 0
    BY <1>5
  <1>7. SumTo(Lens(rows), 0) = 0
    BY <1>5, <1>6, TotalGrows, Zenon
  <1>8. Start(rows, 0) = PAGE_SIZE
    BY <1>7 DEF Start
  <1>9. Fits(rows)
    <2>1. Charge(rows) = 0
      BY <1>5, <1>7, ChargeIs DEF Total
    <2> QED BY <2>1 DEF Fits
  <1>10. Canonical(p, rows)
    BY <1>2, <1>4, <1>5, <1>8, <1>9 DEF Canonical, Laid
  <1>11. Abstract(p) = View(p.owner, next(p), rows)
    BY <1>10, CanonicalPage
  <1>12. p.owner = owner /\ next(p) = None
    BY <1>2 DEF next
  <1> QED BY <1>1, <1>10, <1>11, <1>12 DEF Fresh, View

(* set_next touches no cell. *)
LEMMA SetNextStep ==
    ASSUME NEW p, NEW rows, Canonical(p, rows), NEW id \in Nat \union {None}
    PROVE  /\ Canonical(set_next(p, id), rows)
           /\ Abstract(set_next(p, id)) = Linked(Abstract(p), id)
  <1>1. PICK q, l, f : /\ q = set_next(p, id)
                       /\ l = IF id = None THEN 0 ELSE id
                       /\ f = IF id = None THEN 0 ELSE 1
    OBVIOUS
  <1>2. l \in Int /\ f \in {0, 1} /\ f \in Int /\ id = IF f = 1 THEN l ELSE None
    BY <1>1 DEF None
  <1>3. p \in PageSpace
    BY DEF Canonical, Laid
  <1>4. q = [p EXCEPT !.link = l, !.flag = f]
    BY <1>1 DEF set_next
  <1>5. /\ q \in PageSpace /\ q.magic = p.magic /\ q.owner = p.owner /\ q.slots = p.slots
        /\ q.upper = p.upper /\ q.cells = p.cells /\ q.flag = f /\ q.link = l
    BY <1>2, <1>3, <1>4, Zenon DEF PageSpace
  <1>6. next(q) = id
    BY <1>2, <1>5 DEF next
  <1>7. Laid(q, rows, Len(rows))
    BY <1>5 DEF Canonical, Laid, Holds, slot
  <1>8. Canonical(q, rows)
    BY <1>2, <1>5, <1>7 DEF Canonical
  <1>9. Abstract(p) = View(p.owner, next(p), rows)
    BY CanonicalPage
  <1>10. Abstract(q) = View(q.owner, next(q), rows)
    BY <1>8, CanonicalPage
  <1>11. Linked(Abstract(p), id) = View(p.owner, id, rows)
    BY <1>9, ViewLinked
  <1> QED BY <1>1, <1>5, <1>6, <1>8, <1>10, <1>11

(* insert adds a row, into a slot that no row had before. *)
LEMMA InsertStep ==
    ASSUME NEW p, NEW rows, Canonical(p, rows), NEW t \in Seq(Int), t # NoTuple, fits(p, t)
    PROVE  /\ Canonical(insert(p, t), Append(rows, t))
           /\ Abstract(insert(p, t)) = Inserted(Abstract(p), t)
  <1>1. PICK n, c, more, k : /\ n = Len(rows) /\ c = compact(p, None, NoTuple)
                             /\ more = Append(rows, t) /\ k = n + 1
    BY Zenon
  <1>2. rows \in RowLists /\ Fits(rows) /\ p.slots = n /\ rows \in Seq(Seq(Int)) /\ n \in Nat
    BY <1>1 DEF Canonical, RowLists
  <1>3. Canonical(c, rows) /\ c.owner = p.owner /\ next(c) = next(p)
    <2>1. RowChanged(rows, rows, None, NoTuple)
      BY <1>2 DEF None, RowChanged
    <2> QED BY <1>1, <1>2, <2>1, CompactStep
  <1>4. /\ more \in RowLists /\ Len(more) = k /\ more[k] = t
        /\ \A j \in 1 .. n : more[j] = rows[j]
    BY <1>1, <1>2 DEF RowLists
  <1>5. Fits(more)
    BY <1>1, CanonicalSpace
  <1>6. k \in 1 .. Len(more) /\ k \in 0 .. Len(more) /\ 0 \in 0 .. k /\ k \in Int /\ k - 1 = n
    BY <1>1, <1>2, <1>4
  <1>7. PICK d : d = [c EXCEPT !.slots = k]
    BY ZenonT(40)
  <1>8. c \in PageSpace /\ c.magic /\ c.flag \in {0, 1} /\ Laid(c, rows, n)
    BY <1>1, <1>3 DEF Canonical, Laid
  <1>9. /\ d \in PageSpace /\ d.magic = c.magic /\ d.owner = c.owner /\ d.link = c.link
        /\ d.flag = c.flag /\ d.cells = c.cells /\ d.slots = k
    BY <1>6, <1>7, <1>8, Zenon DEF PageSpace
  <1>10. ASSUME NEW j \in 1 .. k - 1 PROVE Holds(d, more, j)
    <2>1. j \in 1 .. n /\ j \in 0 .. Len(rows) /\ j <= Len(more) /\ j \in Nat
      BY <1>1, <1>2, <1>4, <1>6
    <2>2. Holds(c, rows, j) /\ more[j] = rows[j]
      BY <1>4, <1>8, <2>1 DEF Laid
    <2>3. \A i \in 1 .. j : more[i] = rows[i]
      BY <1>2, <1>4, <2>1
    <2>4. Start(more, j) = Start(rows, j)
      BY <1>2, <1>4, <2>1, <2>3, SumAgrees, Zenon DEF Start
    <2> QED BY <1>9, <2>2, <2>4 DEF Holds, slot
  <1>11. \A j \in k + 1 .. Len(more) : slot(d, j - 1) = <<0, 0>>
    BY <1>4, <1>6
  <1>12. PICK q : q = insert(p, t)
    OBVIOUS
  <1>13. PAGE_SIZE - used(p) - Len(t) = Start(more, k)
    <2>1. used(p) = Total(rows) /\ Total(rows) \in Nat
      BY CanonicalPage
    <2>2. Total(more) = Total(rows) + Len(t)
      BY <1>1, <1>2, TotalAppend
    <2>3. SumTo(Lens(more), k) = Total(more)
      BY <1>4 DEF Total
    <2> QED BY <2>1, <2>2, <2>3 DEF Start
  <1>14. q = lay(d, n, Start(more, k), t)
    BY <1>1, <1>2, <1>7, <1>12, <1>13 DEF insert
  <1>15. Laid(q, more, k)
    <2>1. Laid(lay(d, k - 1, Start(more, k), more[k]), more, k)
      BY <1>4, <1>5, <1>6, <1>9, <1>10, <1>11, LayStep
    <2> QED BY <1>4, <1>6, <1>14, <2>1
  <1>16. Written(q, d, n, Start(more, k), t)
    <2>1. Start(more, k) \in Int
      BY <1>4, <1>5, <1>6, Places
    <2> QED BY <1>2, <1>9, <1>14, <2>1, LayFacts
  <1>17. /\ q.magic /\ q.flag \in {0, 1} /\ q.slots = k /\ q.owner = c.owner
         /\ q.flag = c.flag /\ q.link = c.link
    BY <1>8, <1>9, <1>16 DEF Written
  <1>18. Canonical(q, more)
    BY <1>4, <1>5, <1>15, <1>17 DEF Canonical
  <1>19. Abstract(q) = View(q.owner, next(q), more)
    BY <1>18, CanonicalPage
  <1>20. Abstract(p) = View(p.owner, next(p), rows)
    BY CanonicalPage
  <1>21. next(q) = next(p) /\ q.owner = p.owner
    BY <1>3, <1>17 DEF next
  <1>22. Inserted(Abstract(p), t) = View(p.owner, next(p), more)
    BY <1>1, <1>20, ViewInserted
  <1> QED BY <1>1, <1>12, <1>18, <1>19, <1>21, <1>22

(* delete and replace change the row of a slot in use. *)
LEMMA ChangeStep ==
    ASSUME NEW p, NEW rows, Canonical(p, rows), NEW id \in 1 .. p.slots, NEW t \in Seq(Int),
           Fits([rows EXCEPT ![id] = t])
    PROVE  /\ \E more : Canonical(compact(p, id - 1, t), more)
           /\ Abstract(compact(p, id - 1, t)) = Replaced(Abstract(p), id, t)
  <1>1. PICK more, i, q : more = [rows EXCEPT ![id] = t] /\ i = id - 1 /\ q = compact(p, i, t)
    OBVIOUS
  <1>2. rows \in RowLists /\ rows \in Seq(Seq(Int)) /\ p.slots = Len(rows) /\ Len(rows) \in Nat
    BY DEF Canonical, RowLists
  <1>3. id \in 1 .. Len(rows) /\ id \in Int /\ i \in Int
    BY <1>1, <1>2
  <1>4. more \in RowLists /\ Len(more) = Len(rows) /\ Fits(more)
    BY <1>1, <1>2, <1>3, TotalExcept, Zenon
  <1>5. \A k \in 1 .. Len(rows) : more[k] = IF k = id THEN t ELSE rows[k]
    BY <1>1, <1>2
  <1>6. RowChanged(rows, more, i, t)
    BY <1>1, <1>3, <1>4, <1>5 DEF RowChanged
  <1>7. Canonical(q, more) /\ q.owner = p.owner /\ next(q) = next(p)
    BY <1>1, <1>4, <1>6, CompactStep
  <1>8. Abstract(p) = View(p.owner, next(p), rows) /\ Abstract(q) = View(q.owner, next(q), more)
    BY <1>7, CanonicalPage
  <1>9. Replaced(Abstract(p), id, t) = View(p.owner, next(p), more)
    <2>1. Replaced(View(p.owner, next(p), rows), id, t) = View(p.owner, next(p), RowPut(rows, id, t))
      BY ViewReplaced, SMT
    <2> QED BY <1>1, <1>8, <2>1 DEF RowPut
  <1> QED BY <1>1, <1>7, <1>8, <1>9

(* A slot with a tuple is one with a row. *)
LEMMA SlotInUse ==
    ASSUME NEW p, NEW rows, Canonical(p, rows), NEW id \in 1 .. p.slots, get(p, id) # NoTuple
    PROVE  HasRow(Abstract(p), id) /\ id \in 1 .. Len(Abstract(p).rows)
  <1>1. /\ Abstract(p) = View(p.owner, next(p), rows) /\ p.slots = Len(rows) /\ Len(rows) \in Nat
        /\ get(p, id) = rows[id]
    BY CanonicalPage
  <1>2. Abstract(p).rows = rows
    BY <1>1, ViewRows
  <1>3. ~(id > Len(rows))
    BY <1>1
  <1> QED BY <1>1, <1>2, <1>3 DEF HasRow, Row

(* A page with a row less has room. *)
LEMMA DeleteFits ==
    ASSUME NEW p, NEW rows, Canonical(p, rows), NEW id \in 1 .. p.slots
    PROVE  Fits([rows EXCEPT ![id] = NoTuple])
  <1>1. rows \in RowLists /\ id \in 1 .. Len(rows) /\ Fits(rows)
    BY DEF Canonical
  <1> QED BY <1>1, EmptiedFits, Zenon

-----------------------------------------------------------------------------
(* What every step does: the page it leaves is canonical, and the slotted  *)
(* page that it stands for has made the same step.                         *)
LEMMA PageStep ==
    ASSUME PageInv, [Next]_page
    PROVE  PageInv' /\ [Simulated(Abstract(page), Abstract(page)')]_page
  <1>1. ASSUME NEW owner \in Owners, Initialize(owner)
        PROVE  PageInv' /\ Simulated(Abstract(page), Abstract(page)')
    <2>1. owner \in Nat /\ page' = initialize(owner)
      BY <1>1, HeapPageAssumption DEF Initialize
    <2>2. Canonical(page', <<>>) /\ Abstract(page') = Fresh(owner)
      BY <2>1, InitializeStep
    <2> QED BY <2>2 DEF PageInv, Simulated, Canonical
  <1>2. ASSUME validate(page) PROVE \E rows : Canonical(page, rows)
    BY <1>2 DEF PageInv, validate
  <1>3. ASSUME NEW id \in Owners \union {None}, SetNext(id)
        PROVE  PageInv' /\ Simulated(Abstract(page), Abstract(page)')
    <2>1. id \in Nat \union {None} /\ page' = set_next(page, id) /\ validate(page)
      BY <1>3, HeapPageAssumption DEF SetNext
    <2>2. PICK rows : Canonical(page, rows)
      BY <1>2, <2>1
    <2>3. Canonical(page', rows) /\ Abstract(page') = Linked(Abstract(page), id)
      BY <2>1, <2>2, SetNextStep
    <2> QED BY <2>3 DEF PageInv, Simulated
  <1>4. ASSUME NEW t \in Tuples, Insert(t)
        PROVE  PageInv' /\ Simulated(Abstract(page), Abstract(page)')
    <2>1. /\ t \in Seq(Int) /\ t # NoTuple /\ page' = insert(page, t) /\ validate(page)
          /\ fits(page, t) /\ check_tuple(t)
      BY <1>4, HeapPageAssumption DEF Insert, check_tuple, NoTuple
    <2>2. PICK rows : Canonical(page, rows)
      BY <1>2, <2>1
    <2>3. Canonical(page', Append(rows, t)) /\ Abstract(page') = Inserted(Abstract(page), t)
      BY <2>1, <2>2, InsertStep
    <2> QED BY <2>1, <2>3 DEF PageInv, Simulated
  <1>5. ASSUME NEW id \in 1 .. page.slots, Delete(id)
        PROVE  PageInv' /\ Simulated(Abstract(page), Abstract(page)')
    <2>1. page' = compact(page, id - 1, NoTuple) /\ validate(page) /\ get(page, id) # NoTuple
      BY <1>5 DEF Delete
    <2>2. PICK rows : Canonical(page, rows)
      BY <1>2, <2>1
    <2>3. NoTuple \in Seq(Int)
      BY DEF NoTuple
    <2>4. Fits([rows EXCEPT ![id] = NoTuple])
      BY <2>2, DeleteFits
    <2>5. /\ \E more : Canonical(page', more)
          /\ Abstract(page') = Replaced(Abstract(page), id, NoTuple)
      BY <2>1, <2>2, <2>3, <2>4, ChangeStep
    <2>6. Replaced(Abstract(page), id, NoTuple) = Deleted(Abstract(page), id)
      BY DEF Replaced, Deleted
    <2>7. HasRow(Abstract(page), id) /\ id \in 1 .. Len(Abstract(page).rows)
      BY <2>1, <2>2, SlotInUse
    <2> QED BY <2>5, <2>6, <2>7 DEF PageInv, Simulated
  <1>6. ASSUME NEW id \in 1 .. page.slots, NEW t \in Tuples, Replace(id, t)
        PROVE  PageInv' /\ Simulated(Abstract(page), Abstract(page)')
    <2>1. /\ page' = compact(page, id - 1, t) /\ validate(page) /\ replace_fits(page, id, t)
          /\ t \in Seq(Int) /\ get(page, id) # NoTuple
      BY <1>6, HeapPageAssumption DEF Replace, replace_fits
    <2>2. PICK rows : Canonical(page, rows)
      BY <1>2, <2>1
    <2>3. Fits([rows EXCEPT ![id] = t])
      BY <2>1, <2>2, CanonicalSpace, Zenon
    <2>4. /\ \E more : Canonical(page', more)
          /\ Abstract(page') = Replaced(Abstract(page), id, t)
      BY <2>1, <2>2, <2>3, ChangeStep
    <2>5. HasRow(Abstract(page), id) /\ id \in 1 .. Len(Abstract(page).rows)
      BY <2>1, <2>2, SlotInUse
    <2> QED BY <2>4, <2>5 DEF PageInv, Simulated
  <1>7. CASE UNCHANGED page
    BY <1>7 DEF PageInv
  <1> QED BY <1>1, <1>3, <1>4, <1>5, <1>6, <1>7 DEF Next

(* Every page of a behaviour has the canonical layout. *)
THEOREM PageInvariance == Spec => []PageInv
  <1>1. Init => PageInv
    BY DEF Init, ZeroPage, PageInv
  <1>2. PageInv /\ [Next]_page => PageInv'
    BY PageStep
  <1> QED BY <1>1, <1>2, PTL DEF Spec

(* No operation of page.rs builds a page that validate refuses, and the    *)
(* space checks of insert and replace accept a tuple if and only if the    *)
(* page has room for it, for any page size and any tuples.                 *)
THEOREM SpaceCorrect == Spec => []SpaceExact
  <1>1. PageInv => SpaceExact
    <2>1. SUFFICES ASSUME PageInv, page.magic
                   PROVE  /\ validate(page)
                          /\ \A t \in Tuples : check_tuple(t) =>
                                /\ fits(page, t) <=> CanInsert(Abstract(page), t)
                                /\ \A id \in 1 .. page.slots :
                                      replace_fits(page, id, t) <=> CanReplace(Abstract(page), id, t)
      BY DEF SpaceExact
    <2>2. PICK rows : Canonical(page, rows)
      BY <2>1 DEF PageInv
    <2>3. ASSUME NEW t \in Tuples
          PROVE  /\ fits(page, t) <=> CanInsert(Abstract(page), t)
                 /\ \A id \in 1 .. page.slots :
                       replace_fits(page, id, t) <=> CanReplace(Abstract(page), id, t)
      <3>1. t \in Seq(Int)
        BY HeapPageAssumption
      <3> QED BY <2>2, <3>1, CanonicalSpace, Zenon
    <2> QED BY <2>2, <2>3, CanonicalValid
  <1> QED BY <1>1, PageInvariance, PTL

(* The cells of a page implement the slotted page: a step of page.rs       *)
(* changes what one slot shows, or the link, and nothing else, however     *)
(* compaction moves the tuples; a deleted slot is never given out again.   *)
THEOREM PageRefined == Spec => PageImplements
  <1>1. PageInv /\ [Next]_page => [Simulated(Abstract(page), Abstract(page)')]_page
    BY PageStep
  <1> QED BY <1>1, PageInvariance, PTL DEF Spec, PageImplements
=============================================================================
