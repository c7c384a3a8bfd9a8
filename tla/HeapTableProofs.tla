-------------------------- MODULE HeapTableProofs ---------------------------
(***************************************************************************)
(* The heap of crates/heapam/src/heap.rs for any page size, any number of  *)
(* pages and any tuples.  The chain a handle has cached is never found     *)
(* corrupt: HeapInv is the inductive invariant, and each action has a      *)
(* lemma that it preserves it.  From it, the heap implements the map of    *)
(* HeapMap, and the rows that a flush_all saw are found again by an open   *)
(* after a crash.                                                          *)
(***************************************************************************)
EXTENDS HeapTable, SequenceTheorems, TLAPS

USE HeapTableAssumption, ZenonT(20), SMTT(20) DEF head

ValidTuples == {t \in Tuples : check_tuple(t)}
RowSeqs == Seq(ValidTuples \union {NoTuple})
Links == Nat \union {None}
PageRecs == [sound : BOOLEAN, owner : Nat, next : Links, rows : RowSeqs]

-----------------------------------------------------------------------------
(* page::insert adds a row and touches nothing else of the page. *)
LEMMA InsertedPage ==
    ASSUME NEW p \in PageRecs, NEW t \in ValidTuples
    PROVE  /\ Inserted(p, t) \in PageRecs
           /\ Inserted(p, t).sound = p.sound /\ Inserted(p, t).owner = p.owner
           /\ Inserted(p, t).next = p.next /\ Inserted(p, t).rows = Append(p.rows, t)
  BY SMT DEF PageRecs, Inserted, RowSeqs

(* page::replace changes one row; page::delete empties one. *)
LEMMA ReplacedPage ==
    ASSUME NEW p \in PageRecs, NEW id \in 1 .. Len(p.rows), NEW t \in ValidTuples \union {NoTuple}
    PROVE  /\ Replaced(p, id, t) \in PageRecs
           /\ Replaced(p, id, t).sound = p.sound /\ Replaced(p, id, t).owner = p.owner
           /\ Replaced(p, id, t).next = p.next
           /\ Replaced(p, id, t).rows = [p.rows EXCEPT ![id] = t]
  BY SMT DEF PageRecs, Replaced, RowSeqs

(* page::set_next changes the link alone. *)
LEMMA LinkedPage ==
    ASSUME NEW p \in PageRecs, NEW n \in Links
    PROVE  /\ Linked(p, n) \in PageRecs
           /\ Linked(p, n).sound = p.sound /\ Linked(p, n).owner = p.owner
           /\ Linked(p, n).next = n /\ Linked(p, n).rows = p.rows
  BY DEF PageRecs, Linked, RowSeqs

(* A new page has its owner, no successor and no row. *)
LEMMA FreshPage ==
    ASSUME NEW o \in Nat
    PROVE  /\ Fresh(o) \in PageRecs /\ Fresh(o).sound /\ Fresh(o).owner = o
           /\ Fresh(o).next = None /\ Fresh(o).rows = <<>> /\ Blank \in PageRecs
  BY SMT DEF PageRecs, Links, Fresh, Blank, RowSeqs

-----------------------------------------------------------------------------
Types ==
    /\ count \in 0 .. MaxPages /\ synced \in Nat
    /\ pages \in [PageIds -> PageRecs] /\ disk \in [PageIds -> PageRecs]
    /\ state \in Seq(PageIds)

(* The pages of s are different, exist, are sound and ours, and each but   *)
(* the last links to the one after it; the last links to end.              *)
Chained(s, end) ==
    /\ \A i \in 1 .. Len(s) : /\ s[i] < count /\ pages[s[i]].sound /\ pages[s[i]].owner = head
                              /\ i < Len(s) => pages[s[i]].next = s[i + 1]
                              /\ i = Len(s) => pages[s[i]].next = end
    /\ \A i, j \in 1 .. Len(s) : s[i] = s[j] => i = j

(* A page that InsertLink is about to publish: sound, ours, the end of a   *)
(* chain, with one row, and not in the chain yet.                          *)
Publishable(id) ==
    /\ id \in PageIds /\ id < count /\ \A i \in 1 .. Len(state) : state[i] # id
    /\ pages[id].sound /\ pages[id].owner = head /\ pages[id].next = None
    /\ \E t \in ValidTuples : pages[id].rows = <<t>>

OpIsIdle == op = Idle
OpIsAllocate == state # <<>> /\ \E t \in ValidTuples : op = [step |-> "allocate", tuple |-> t]
OpIsLink == state # <<>> /\ \E id \in PageIds : op = [step |-> "link", page |-> id] /\ Publishable(id)
OpIsOpen ==
    /\ state = <<>>
    /\ \E s \in Seq(PageIds), n \in Links : /\ op = [step |-> "open", pages |-> s, next |-> n]
                                         /\ Chained(s, n) /\ (s = <<>> => n = head)

HeapInv == Types /\ Chained(state, None) /\ (OpIsIdle \/ OpIsAllocate \/ OpIsLink \/ OpIsOpen)

(* The states of the steps of an operation tell which one it is. *)
LEMMA OpSteps ==
    /\ OpIsIdle => op.step = "idle"
    /\ OpIsAllocate => op.step = "allocate" /\ op.tuple \in ValidTuples /\ op # Idle
    /\ OpIsLink => op.step = "link" /\ Publishable(op.page) /\ op # Idle
    /\ OpIsOpen => /\ op.step = "open" /\ op.pages \in Seq(PageIds) /\ op.next \in Links
                   /\ Chained(op.pages, op.next) /\ (op.pages = <<>> => op.next = head) /\ op # Idle
  <1>1. OpIsIdle => op.step = "idle"
    BY SMT DEF OpIsIdle, Idle
  <1>2. OpIsAllocate => op.step = "allocate" /\ op.tuple \in ValidTuples
    BY SMT DEF OpIsAllocate
  <1>3. OpIsLink => op.step = "link" /\ Publishable(op.page)
    BY SMT DEF OpIsLink
  <1>4. OpIsOpen => /\ op.step = "open" /\ op.pages \in Seq(PageIds) /\ op.next \in Links
                    /\ Chained(op.pages, op.next) /\ (op.pages = <<>> => op.next = head)
    BY SMT DEF OpIsOpen
  <1>5. Idle.step = "idle"
    BY DEF Idle
  <1> QED BY <1>1, <1>2, <1>3, <1>4, <1>5

(* With all pages different the cached index of a page is its place, and   *)
(* checked_header finds what the chain says.                               *)
LEMMA HeaderChecked ==
    ASSUME Types, Chained(state, None), NEW i \in DOMAIN state
    PROVE  checked_header(state[i])
  <1>1. DOMAIN state = 1 .. Len(state) /\ Len(state) \in Nat
    BY SMT DEF Types
  <1>2. PICK k : k = CHOOSE j \in DOMAIN state : state[j] = state[i]
    OBVIOUS
  <1>3. k \in DOMAIN state /\ state[k] = state[i]
    BY <1>2
  <1>4. k = i
    BY <1>1, <1>3, Zenon DEF Chained
  <1>5. i \in 1 .. Len(state)
    BY <1>1
  <1>6. pages[state[i]].sound /\ pages[state[i]].owner = head
    BY <1>5 DEF Chained
  <1>7. i < Len(state) => pages[state[i]].next = state[i + 1]
    BY <1>5 DEF Chained
  <1>8. ~(i < Len(state)) => pages[state[i]].next = None
    <2>1. i = Len(state) => pages[state[i]].next = None
      BY <1>5 DEF Chained
    <2> QED BY <1>1, <1>5, <2>1, SMT
  <1> QED BY <1>2, <1>4, <1>6, <1>7, <1>8, Zenon DEF checked_header

(* No operation of a session finds a corrupt chain. *)
LEMMA IntactFromInv ==
    HeapInv => ChainIntact
  BY HeaderChecked DEF HeapInv, ChainIntact


-----------------------------------------------------------------------------
(* A chain stays one when its pages keep their owners and links. *)
LEMMA ChainKept ==
    ASSUME NEW s \in Seq(PageIds), NEW end, Chained(s, end), count \in Int, count' \in Int,
           count' >= count,
           \A i \in 1 .. Len(s) : /\ pages'[s[i]].sound = pages[s[i]].sound
                                  /\ pages'[s[i]].owner = pages[s[i]].owner
                                  /\ pages'[s[i]].next = pages[s[i]].next
    PROVE  Chained(s, end)'
  <1>1. \A i \in 1 .. Len(s) : s[i] \in Int
    BY SMT DEF PageIds
  <1>2. ASSUME NEW i \in 1 .. Len(s)
        PROVE  /\ s[i] < count' /\ pages'[s[i]].owner = head
               /\ i < Len(s) => pages'[s[i]].next = s[i + 1]
               /\ i = Len(s) => pages'[s[i]].next = end
    BY <1>1, SMT DEF Chained
  <1>3. ASSUME NEW i \in 1 .. Len(s)
        PROVE  pages'[s[i]].sound
    BY DEF Chained
  <1>4. \A i, j \in 1 .. Len(s) : s[i] = s[j] => i = j
    BY DEF Chained
  <1> QED BY <1>2, <1>3, <1>4 DEF Chained

(* Steps that change neither pages, nor the handle, nor the operation. *)
LEMMA StillStep ==
    ASSUME HeapInv, UNCHANGED <<count, pages, state, op>>,
           synced' \in Nat, disk' \in [PageIds -> PageRecs]
    PROVE  HeapInv'
  <1>1. count' = count /\ pages' = pages /\ state' = state /\ op' = op
    OBVIOUS
  <1>2. Types'
    BY <1>1 DEF HeapInv, Types
  <1>3. Chained(state, None)'
    BY <1>1, SMT DEF HeapInv, Chained
  <1>4. (OpIsIdle => OpIsIdle') /\ (OpIsAllocate => OpIsAllocate')
    BY <1>1 DEF OpIsIdle, OpIsAllocate
  <1>5. OpIsLink => OpIsLink'
    BY <1>1 DEF OpIsLink, Publishable
  <1>6. OpIsOpen => OpIsOpen'
    BY <1>1, SMT DEF OpIsOpen, Chained
  <1> QED BY <1>2, <1>3, <1>4, <1>5, <1>6 DEF HeapInv

(* The pages of the chains and the page to publish exist. *)
LEMMA Existing ==
    ASSUME HeapInv
    PROVE  /\ \A i \in 1 .. Len(state) : state[i] \in PageIds /\ state[i] < count
           /\ OpIsLink => op.page \in PageIds /\ op.page < count
           /\ OpIsOpen => \A i \in 1 .. Len(op.pages) :
                              op.pages[i] \in PageIds /\ op.pages[i] < count
  <1>1. \A i \in 1 .. Len(state) : state[i] \in PageIds /\ state[i] < count
    BY SMT DEF HeapInv, Types, Chained
  <1>2. OpIsLink => op.page \in PageIds /\ op.page < count
    BY OpSteps DEF Publishable
  <1>3. OpIsOpen => \A i \in 1 .. Len(op.pages) : op.pages[i] \in PageIds /\ op.pages[i] < count
    <2>1. SUFFICES ASSUME OpIsOpen
                   PROVE  \A i \in 1 .. Len(op.pages) : op.pages[i] \in PageIds /\ op.pages[i] < count
      OBVIOUS
    <2>2. op.pages \in Seq(PageIds) /\ Chained(op.pages, op.next)
      BY <2>1, OpSteps
    <2> QED BY <2>2, SMT DEF Chained
  <1> QED BY <1>1, <1>2, <1>3

(* The store grows by a page: no chain has it, and an operation that goes   *)
(* on is where it was.                                                      *)
LEMMA NewPageStep ==
    ASSUME HeapInv, NEW n \in PageIds, n = count, NEW q \in PageRecs,
           count' = count + 1, pages' = [pages EXCEPT ![n] = q], UNCHANGED <<disk, synced, state>>
    PROVE  /\ Types' /\ Chained(state, None)'
           /\ op' = op => HeapInv'
  <1>1. \A p \in PageIds : pages'[p] = IF p = n THEN q ELSE pages[p]
    BY DEF HeapInv, Types
  <1>2. Types'
    BY SMT DEF HeapInv, Types, PageIds
  <1>3. count \in Int /\ count' \in Int /\ count' >= count
    BY SMT DEF HeapInv, Types
  <1>4. Chained(state, None)'
    <2>1. PICK s : s = state
      OBVIOUS
    <2>2. s \in Seq(PageIds) /\ Chained(s, None)
      BY <2>1 DEF HeapInv, Types
    <2>3. \A i \in 1 .. Len(s) : pages'[s[i]] = pages[s[i]]
      BY <1>1, <1>3, <2>1, Existing, SMT
    <2>4. Chained(s, None)'
      BY <1>3, <2>2, <2>3, ChainKept
    <2> QED BY <2>1, <2>4, SMT DEF Chained
  <1>5. ASSUME op' = op PROVE HeapInv'
    <2>1. (OpIsIdle => OpIsIdle') /\ (OpIsAllocate => OpIsAllocate')
      BY <1>5 DEF OpIsIdle, OpIsAllocate
    <2>2. OpIsLink => OpIsLink'
      <3>1. SUFFICES ASSUME OpIsLink PROVE OpIsLink'
        OBVIOUS
      <3>2. PICK id \in PageIds : op = [step |-> "link", page |-> id] /\ Publishable(id)
        BY <3>1 DEF OpIsLink
      <3>3. id # n /\ pages'[id] = pages[id] /\ id < count'
        BY <1>1, <1>3, <3>2, SMT DEF Publishable, PageIds
      <3>4. Publishable(id)'
        BY <3>2, <3>3 DEF Publishable
      <3> QED BY <1>5, <3>1, <3>2, <3>4 DEF OpIsLink
    <2>3. OpIsOpen => OpIsOpen'
      <3>1. SUFFICES ASSUME OpIsOpen PROVE OpIsOpen'
        OBVIOUS
      <3>2. PICK s \in Seq(PageIds), e \in Links : /\ op = [step |-> "open", pages |-> s, next |-> e]
                                                /\ Chained(s, e) /\ (s = <<>> => e = head)
        BY <3>1 DEF OpIsOpen
      <3>3. \A i \in 1 .. Len(s) : s[i] \in PageIds /\ s[i] < count
        BY <3>2, SMT DEF Chained
      <3>4. \A i \in 1 .. Len(s) : pages'[s[i]] = pages[s[i]]
        BY <1>1, <1>3, <3>3, SMT
      <3>5. Chained(s, e)'
        BY <1>3, <3>2, <3>4, ChainKept
      <3> QED BY <1>5, <3>1, <3>2, <3>5 DEF OpIsOpen
    <2> QED BY <1>2, <1>4, <2>1, <2>2, <2>3 DEF HeapInv
  <1> QED BY <1>2, <1>4, <1>5

(* A row of a page changes between operations; owner and link stay. *)
LEMMA RowStep ==
    ASSUME HeapInv, op = Idle, NEW id \in PageIds, NEW q \in PageRecs, q.sound = pages[id].sound,
           q.owner = pages[id].owner, q.next = pages[id].next, pages' = [pages EXCEPT ![id] = q],
           UNCHANGED <<count, synced, disk, state, op>>
    PROVE  HeapInv'
  <1>1. \A p \in PageIds : pages'[p] = IF p = id THEN q ELSE pages[p]
    BY DEF HeapInv, Types
  <1>2. Types'
    BY DEF HeapInv, Types
  <1>3. Chained(state, None)'
    <2>1. PICK s : s = state
      OBVIOUS
    <2>2. s \in Seq(PageIds) /\ Chained(s, None) /\ count \in Int
      BY <2>1, SMT DEF HeapInv, Types
    <2>3. \A i \in 1 .. Len(s) : s[i] \in PageIds
      BY <2>2, SMT
    <2>4. \A i \in 1 .. Len(s) : /\ pages'[s[i]].sound = pages[s[i]].sound
                                 /\ pages'[s[i]].owner = pages[s[i]].owner
                                 /\ pages'[s[i]].next = pages[s[i]].next
      BY <1>1, <2>3
    <2>5. Chained(s, None)'
      BY <2>2, <2>4, ChainKept, SMT
    <2> QED BY <2>1, <2>5, SMT DEF Chained
  <1>4. OpIsIdle'
    BY DEF OpIsIdle, Idle
  <1> QED BY <1>2, <1>3, <1>4 DEF HeapInv


-----------------------------------------------------------------------------
(* create: a chain of one page. *)
LEMMA CreateStep ==
    ASSUME HeapInv, Create
    PROVE  HeapInv'
  <1>1. 0 \in PageIds /\ count = 0 /\ op = Idle /\ op' = op
    BY SMT DEF Create, new_page, PageIds, HeapInv, Types
  <1>2. PICK q, s : q = Fresh(head) /\ s = <<head>>
    BY Zenon
  <1>3. /\ q \in PageRecs /\ q.sound /\ q.owner = head /\ q.next = None
        /\ s \in Seq(PageIds) /\ Len(s) = 1 /\ s[1] = 0
    BY <1>1, <1>2, FreshPage, SMT
  <1>4. /\ count' = 1 /\ pages' = [pages EXCEPT ![0] = q] /\ state' = s
        /\ UNCHANGED <<disk, synced>>
    BY <1>1, <1>2, SMT DEF Create, new_page, write
  <1>5. Types'
    BY <1>1, <1>3, <1>4, SMT DEF HeapInv, Types, PageIds
  <1>6. pages'[0] = q
    BY <1>1, <1>4 DEF HeapInv, Types
  <1>7. Chained(s, None)'
    BY <1>3, <1>4, <1>6, SMT DEF Chained
  <1>8. Chained(state, None)'
    BY <1>4, <1>7 DEF Chained
  <1>9. OpIsIdle'
    BY <1>1 DEF OpIsIdle, Idle
  <1> QED BY <1>5, <1>8, <1>9 DEF HeapInv

(* Another heap takes a page. *)
LEMMA CreateOtherStep ==
    ASSUME HeapInv, CreateOther
    PROVE  HeapInv'
  <1>1. PICK n, q : n = count /\ q = Fresh(n)
    OBVIOUS
  <1>2. n \in PageIds /\ q \in PageRecs
    BY <1>1, FreshPage, SMT DEF CreateOther, new_page, PageIds, HeapInv, Types
  <1>3. /\ count' = count + 1 /\ pages' = [pages EXCEPT ![n] = q]
        /\ UNCHANGED <<disk, synced, state>> /\ op' = op
    BY <1>1 DEF CreateOther, new_page, write
  <1> QED BY <1>1, <1>2, <1>3, NewPageStep, Zenon

(* The tail of an open heap is a page, and a sound one. *)
LEMMA TailFacts ==
    ASSUME HeapInv, state # <<>>
    PROVE  /\ Len(state) \in Nat /\ Len(state) > 0 /\ tail \in PageIds /\ tail < count
           /\ pages[tail] \in PageRecs /\ tail = state[Len(state)]
  <1>1. Len(state) \in Nat /\ Len(state) > 0
    BY SMT DEF HeapInv, Types
  <1>2. Len(state) \in 1 .. Len(state)
    BY <1>1, SMT
  <1> QED BY <1>1, <1>2, Existing DEF tail, HeapInv, Types

(* insert into the tail, or the start of an insertion that needs a page. *)
LEMMA InsertStep ==
    ASSUME HeapInv, NEW t \in Tuples, Insert(t)
    PROVE  HeapInv'
  <1>1. /\ t \in ValidTuples /\ state # <<>> /\ op = Idle
        /\ UNCHANGED <<count, synced, disk, state>>
    BY DEF Insert, ValidTuples, opened, write
  <1>2. PICK id, q : id = tail /\ q = Inserted(pages[id], t)
    OBVIOUS
  <1>3. id \in PageIds /\ pages[id] \in PageRecs
    BY <1>1, <1>2, TailFacts
  <1>4. /\ q \in PageRecs /\ q.sound = pages[id].sound /\ q.owner = pages[id].owner
        /\ q.next = pages[id].next
    BY <1>1, <1>2, <1>3, InsertedPage
  <1>5. CASE pages' = [pages EXCEPT ![id] = q] /\ op' = op
    BY <1>1, <1>3, <1>4, <1>5, RowStep, Zenon
  <1>6. CASE op' = [step |-> "allocate", tuple |-> t] /\ pages' = pages
    <2>1. Types'
      BY <1>1, <1>6 DEF HeapInv, Types
    <2>2. Chained(state, None)'
      BY <1>1, <1>6 DEF HeapInv, Chained
    <2>3. OpIsAllocate'
      BY <1>1, <1>6 DEF OpIsAllocate
    <2> QED BY <2>1, <2>2, <2>3 DEF HeapInv
  <1> QED BY <1>2, <1>5, <1>6 DEF Insert, write

(* The new page of an insertion: ours, and in no chain. *)
LEMMA InsertAllocateStep ==
    ASSUME HeapInv, InsertAllocate
    PROVE  HeapInv'
  <1>1. OpIsAllocate /\ op.tuple \in ValidTuples /\ state # <<>>
    BY OpSteps DEF InsertAllocate, HeapInv, OpIsAllocate
  <1>2. PICK n, t : n = count /\ t = op.tuple
    OBVIOUS
  <1>3. PICK f, q : f = Fresh(head) /\ q = Inserted(f, t)
    OBVIOUS
  <1>4. f \in PageRecs /\ f.sound /\ f.owner = head /\ f.next = None /\ f.rows = <<>>
    BY <1>3, FreshPage
  <1>5. /\ q \in PageRecs /\ q.sound = f.sound /\ q.owner = head /\ q.next = None
        /\ q.rows = <<t>>
    BY <1>1, <1>2, <1>3, <1>4, InsertedPage, SMT
  <1>6. /\ n \in PageIds /\ count' = count + 1 /\ pages' = [pages EXCEPT ![n] = q]
        /\ UNCHANGED <<disk, synced, state>> /\ op' = [step |-> "link", page |-> n]
    BY <1>2, <1>3, SMT DEF InsertAllocate, new_page, write, PageIds, HeapInv, Types
  <1>7. Types' /\ Chained(state, None)'
    BY <1>2, <1>5, <1>6, NewPageStep, Zenon
  <1>8. Publishable(n)'
    <2>1. pages'[n] = q
      BY <1>6 DEF HeapInv, Types
    <2>2. n < count' /\ n \in PageIds
      BY <1>2, <1>6, SMT DEF HeapInv, Types
    <2>3. \A i \in 1 .. Len(state) : state'[i] # n
      BY <1>2, <1>6, Existing, SMT DEF HeapInv, Types, PageIds
    <2>4. q.sound
      BY <1>4, <1>5
    <2> QED BY <1>1, <1>2, <1>5, <1>6, <2>1, <2>2, <2>3, <2>4 DEF Publishable
  <1>9. OpIsLink'
    BY <1>1, <1>6, <1>8 DEF OpIsLink
  <1> QED BY <1>7, <1>9 DEF HeapInv

(* The link and the publication of the new page. *)
LEMMA InsertLinkStep ==
    ASSUME HeapInv, InsertLink
    PROVE  HeapInv'
  <1>1. OpIsLink /\ state # <<>>
    BY OpSteps DEF InsertLink, HeapInv, OpIsLink
  <1>2. PICK id, k, s, n : id = op.page /\ k = tail /\ s = state /\ n = Len(s)
    BY Zenon
  <1>3. PICK q, r : q = Linked(pages[k], id) /\ r = Append(s, id)
    BY Zenon
  <1>4. Publishable(id) /\ id \in PageIds
    BY <1>1, <1>2, OpSteps DEF Publishable
  <1>5. k \in PageIds /\ k = s[n] /\ n \in Nat /\ n > 0 /\ pages[k] \in PageRecs
    BY <1>1, <1>2, TailFacts
  <1>6. /\ q \in PageRecs /\ q.sound = pages[k].sound /\ q.owner = pages[k].owner
        /\ q.next = id
    <2>1. id \in Links
      BY <1>4, SMT DEF Links, PageIds
    <2> QED BY <1>3, <1>5, <2>1, LinkedPage
  <1>7. /\ pages' = [pages EXCEPT ![k] = q] /\ state' = r /\ op' = Idle
        /\ UNCHANGED <<count, synced, disk>>
    BY <1>2, <1>3 DEF InsertLink, write
  <1>8. s \in Seq(PageIds) /\ Chained(s, None)
    BY <1>2 DEF HeapInv, Types
  <1>9. /\ r \in Seq(PageIds) /\ Len(r) = n + 1 /\ r[n + 1] = id
        /\ \A i \in 1 .. n : r[i] = s[i]
    BY <1>2, <1>3, <1>4, <1>8, SMT
  <1>10. Types'
    BY <1>5, <1>6, <1>7, <1>9 DEF HeapInv, Types
  <1>11. \A p \in PageIds : pages'[p] = IF p = k THEN q ELSE pages[p]
    BY <1>7 DEF HeapInv, Types
  <1>12. \A i \in 1 .. n : s[i] \in PageIds /\ s[i] # id
    BY <1>2, <1>4, <1>8, SMT DEF Publishable
  <1>13. Chained(r, None)'
    <2>1. \A i, j \in 1 .. Len(r) : r[i] = r[j] => i = j
      BY <1>2, <1>5, <1>8, <1>9, <1>12, SMT DEF Chained
    <2>2. id # k /\ pages'[id] = pages[id]
      BY <1>4, <1>5, <1>11, <1>12, SMT
    <2>3. ASSUME NEW i \in 1 .. n
          PROVE  /\ r[i] < count' /\ pages'[r[i]].sound /\ pages'[r[i]].owner = head
                 /\ pages'[r[i]].next = r[i + 1]
      <3>1. r[i] = s[i] /\ s[i] \in PageIds /\ i \in 1 .. Len(s)
        BY <1>2, <1>9, <1>12
      <3>2. s[i] < count /\ pages[s[i]].owner = head
        BY <3>1, <1>8 DEF Chained
      <3>3. pages[s[i]].sound
        BY <3>1, <1>8 DEF Chained
      <3>4. pages'[s[i]].sound = pages[s[i]].sound /\ pages'[s[i]].owner = pages[s[i]].owner
        BY <1>6, <1>11, <3>1
      <3>5. CASE i = n
        BY <1>5, <1>6, <1>7, <1>9, <1>11, <3>1, <3>2, <3>3, <3>4, <3>5
      <3>6. CASE i # n
        <4>1. s[i] # k
          BY <1>2, <1>5, <1>8, <3>1, <3>6, SMT DEF Chained
        <4>2. pages[s[i]].next = s[i + 1] /\ r[i + 1] = s[i + 1]
          BY <1>2, <1>5, <1>8, <1>9, <3>1, <3>6, SMT DEF Chained
        <4> QED BY <1>7, <1>11, <3>1, <3>2, <3>3, <3>4, <4>1, <4>2
      <3> QED BY <3>5, <3>6
    <2>4. id < count' /\ pages'[id].sound /\ pages'[id].owner = head /\ pages'[id].next = None
      BY <1>4, <1>7, <2>2 DEF Publishable
    <2>5. ASSUME NEW i \in 1 .. Len(r)
          PROVE  /\ r[i] < count' /\ pages'[r[i]].sound /\ pages'[r[i]].owner = head
                 /\ i < Len(r) => pages'[r[i]].next = r[i + 1]
                 /\ i = Len(r) => pages'[r[i]].next = None
      <3>1. CASE i = n + 1
        BY <1>5, <1>9, <2>4, <3>1, SMT
      <3>2. CASE i # n + 1
        <4>1. i \in 1 .. n /\ i < Len(r)
          BY <1>5, <1>9, <3>2, SMT
        <4> QED BY <2>3, <4>1, SMT
      <3> QED BY <3>1, <3>2
    <2> QED BY <2>1, <2>5 DEF Chained
  <1>14. Chained(state, None)'
    BY <1>7, <1>13 DEF Chained
  <1>15. OpIsIdle'
    BY <1>7 DEF OpIsIdle, Idle
  <1> QED BY <1>10, <1>14, <1>15 DEF HeapInv


-----------------------------------------------------------------------------
(* An address that a handle changes a row of: its page is a cached one,    *)
(* its slot exists.                                                        *)
LEMMA RowAddress ==
    ASSUME HeapInv, NEW c \in Ctids, member(c)
    PROVE  /\ c[1] \in PageIds /\ c[2] \in Nat \ {0} /\ pages[c[1]] \in PageRecs
           /\ HasRow(pages[c[1]], c[2]) => c[2] \in 1 .. Len(pages[c[1]].rows)
  <1>1. c[1] \in PageIds /\ c[2] \in 1 .. MaxSlots
    BY DEF Ctids
  <1>2. MaxSlots \in Int
    BY SlottedPageAssumption, SMT DEF MaxSlots, SLOT_SIZE
  <1>3. pages[c[1]] \in PageRecs /\ Len(pages[c[1]].rows) \in Nat
    BY <1>1, SMT DEF HeapInv, Types, PageRecs, RowSeqs
  <1> QED BY <1>1, <1>2, <1>3, SMT DEF HasRow, Row

(* delete. *)
LEMMA DeleteStep ==
    ASSUME HeapInv, NEW c \in Ctids, Delete(c)
    PROVE  HeapInv'
  <1>1. PICK id, k : id = c[1] /\ k = c[2]
    OBVIOUS
  <1>2. PICK q : q = Replaced(pages[id], k, NoTuple)
    OBVIOUS
  <1>3. id \in PageIds /\ pages[id] \in PageRecs
    BY <1>1, RowAddress DEF Delete
  <1>4. k \in 1 .. Len(pages[id].rows)
    BY <1>1, RowAddress DEF Delete
  <1>5. /\ q \in PageRecs /\ q.sound = pages[id].sound /\ q.owner = pages[id].owner
        /\ q.next = pages[id].next
    <2>1. NoTuple \in ValidTuples \union {NoTuple}
      OBVIOUS
    <2> QED BY <1>2, <1>3, <1>4, <2>1, ReplacedPage, ZenonT(40)
  <1>6. /\ op = Idle /\ pages' = [pages EXCEPT ![id] = q]
        /\ UNCHANGED <<count, synced, disk, state, op>>
    <2>1. Deleted(pages[c[1]], c[2]) = q
      BY <1>1, <1>2 DEF Deleted, Replaced
    <2> QED BY <1>1, <2>1 DEF Delete, write
  <1> QED BY <1>3, <1>5, <1>6, RowStep, Zenon

(* replace. *)
LEMMA ReplaceStep ==
    ASSUME HeapInv, NEW c \in Ctids, NEW t \in Tuples, Replace(c, t)
    PROVE  HeapInv'
  <1>1. PICK id, k : id = c[1] /\ k = c[2]
    OBVIOUS
  <1>2. PICK q : q = Replaced(pages[id], k, t)
    OBVIOUS
  <1>3. id \in PageIds /\ pages[id] \in PageRecs /\ t \in ValidTuples
    BY <1>1, RowAddress DEF Replace, ValidTuples
  <1>4. k \in 1 .. Len(pages[id].rows)
    BY <1>1, RowAddress DEF Replace, CanReplace
  <1>5. /\ q \in PageRecs /\ q.sound = pages[id].sound /\ q.owner = pages[id].owner
        /\ q.next = pages[id].next
    <2>1. t \in ValidTuples \union {NoTuple}
      BY <1>3
    <2> QED BY <1>2, <1>3, <1>4, <2>1, ReplacedPage, ZenonT(40)
  <1>6. /\ op = Idle /\ pages' = [pages EXCEPT ![id] = q]
        /\ UNCHANGED <<count, synced, disk, state, op>>
    BY <1>1, <1>2 DEF Replace, write
  <1> QED BY <1>3, <1>5, <1>6, RowStep, ZenonT(40)

(* The process ends: no chain, no operation. *)
LEMMA CrashStep ==
    ASSUME HeapInv, Crash
    PROVE  HeapInv'
  <1>1. PICK n \in synced .. count : /\ count' = n /\ synced' = n
                                     /\ disk' = [p \in PageIds |-> IF p < n THEN disk[p] ELSE Blank]
    BY DEF Crash
  <1>2. pages' = disk' /\ state' = <<>> /\ op' = Idle
    BY DEF Crash
  <1>3. Blank \in PageRecs
    BY FreshPage
  <1>4. Types'
    <2>1. disk' \in [PageIds -> PageRecs]
      BY <1>1, <1>3 DEF HeapInv, Types
    <2>2. count' \in 0 .. MaxPages /\ synced' \in Nat
      BY <1>1, SMT DEF HeapInv, Types
    <2> QED BY <1>2, <2>1, <2>2, SMT DEF Types
  <1>5. Chained(state, None)'
    BY <1>2, SMT DEF Chained
  <1>6. OpIsIdle'
    BY <1>2 DEF OpIsIdle, Idle
  <1> QED BY <1>4, <1>5, <1>6 DEF HeapInv

(* Steps that only change what operation is in progress. *)
LEMMA OpOnlyStep ==
    ASSUME HeapInv, UNCHANGED <<storeVars, state>>
    PROVE  /\ Types' /\ Chained(state, None)'
           /\ op' = Idle => HeapInv'
  <1>1. Types'
    BY DEF HeapInv, Types, storeVars
  <1>2. Chained(state, None)'
    BY DEF HeapInv, Chained, storeVars
  <1>3. op' = Idle => OpIsIdle'
    BY DEF OpIsIdle, Idle
  <1> QED BY <1>1, <1>2, <1>3 DEF HeapInv

(* open starts from the head, with no page checked. *)
LEMMA OpenStep ==
    ASSUME HeapInv, Open
    PROVE  HeapInv'
  <1>1. PICK s : s = <<>>
    OBVIOUS
  <1>2. /\ op' = [step |-> "open", pages |-> s, next |-> head] /\ state' = <<>>
        /\ UNCHANGED <<storeVars, state>>
    BY <1>1 DEF Open, opened
  <1>3. s \in Seq(PageIds) /\ Len(s) = 0 /\ 0 \in Links
    BY <1>1, SMT DEF Links
  <1>4. Chained(s, head)'
    BY <1>3, SMT DEF Chained
  <1>5. OpIsOpen'
    BY <1>2, <1>3, <1>4, Zenon DEF OpIsOpen
  <1> QED BY <1>2, <1>5, OpOnlyStep DEF HeapInv

(* A checked page extends the chain that open has followed. *)
LEMMA OpenPageStep ==
    ASSUME HeapInv, OpenPage
    PROVE  HeapInv'
  <1>1. OpIsOpen
    BY OpSteps DEF OpenPage, HeapInv
  <1>2. PICK s, id : s = op.pages /\ id = op.next
    OBVIOUS
  <1>3. s \in Seq(PageIds) /\ id \in Links /\ Chained(s, id) /\ id # None
    BY <1>1, <1>2, OpSteps DEF OpenPage
  <1>4. id \in PageIds /\ id < count /\ pages[id].sound /\ pages[id].owner = head
    BY <1>2, <1>3, SMT DEF OpenPage, OpenOk, Links, None, PageIds, HeapInv, Types
  <1>5. \A i \in 1 .. Len(s) : s[i] # id
    <2>1. id \notin Range(s)
      BY <1>2 DEF OpenPage, OpenOk
    <2> QED BY <1>3, <2>1, SMT DEF Range
  <1>6. PICK r, n, e : r = Append(s, id) /\ n = Len(s) /\ e = pages[id].next
    BY ZenonT(40)
  <1>7. /\ r \in Seq(PageIds) /\ n \in Nat /\ Len(r) = n + 1 /\ r[n + 1] = id
        /\ \A i \in 1 .. n : r[i] = s[i]
    BY <1>3, <1>4, <1>6, SMT
  <1>8. e \in Links
    BY <1>4, <1>6 DEF HeapInv, Types, PageRecs
  <1>9. /\ op' = [step |-> "open", pages |-> r, next |-> e]
        /\ UNCHANGED <<storeVars, state>> /\ state' = <<>>
    BY <1>1, <1>2, <1>6 DEF OpenPage, OpIsOpen
  <1>10. Chained(r, e)
    <2>1. \A i, j \in 1 .. Len(r) : r[i] = r[j] => i = j
      BY <1>3, <1>5, <1>6, <1>7, SMT DEF Chained
    <2>2. ASSUME NEW i \in 1 .. Len(r)
          PROVE  /\ r[i] < count /\ pages[r[i]].owner = head
                 /\ i < Len(r) => pages[r[i]].next = r[i + 1]
                 /\ i = Len(r) => pages[r[i]].next = e
      <3>1. CASE i = n + 1
        BY <1>4, <1>6, <1>7, <3>1, SMT
      <3>2. CASE i # n + 1
        <4>1. i \in 1 .. Len(s) /\ i < Len(r) /\ r[i] = s[i]
          BY <1>6, <1>7, <3>2, SMT
        <4>2. CASE i = n
          BY <1>3, <1>6, <1>7, <4>1, <4>2, SMT DEF Chained
        <4>3. CASE i # n
          BY <1>3, <1>6, <1>7, <4>1, <4>3, SMT DEF Chained
        <4> QED BY <4>2, <4>3
      <3> QED BY <3>1, <3>2
    <2>3. ASSUME NEW i \in 1 .. Len(r)
          PROVE  pages[r[i]].sound
      <3>1. CASE i = n + 1
        BY <1>4, <1>7, <3>1
      <3>2. CASE i # n + 1
        <4>1. i \in 1 .. Len(s) /\ r[i] = s[i]
          BY <1>6, <1>7, <3>2, SMT
        <4> QED BY <1>3, <4>1 DEF Chained
      <3> QED BY <3>1, <3>2
    <2> QED BY <2>1, <2>2, <2>3 DEF Chained
  <1>11. Chained(r, e)'
    BY <1>9, <1>10 DEF Chained, storeVars
  <1>12. r # <<>>
    BY <1>7, SMT
  <1>13. OpIsOpen'
    BY <1>7, <1>8, <1>9, <1>11, <1>12 DEF OpIsOpen
  <1> QED BY <1>9, <1>13, OpOnlyStep DEF HeapInv

(* At the end of the chain the handle caches what open has checked. *)
LEMMA OpenEndsStep ==
    ASSUME HeapInv, OpenEnds
    PROVE  HeapInv'
  <1>1. OpIsOpen
    BY OpSteps DEF OpenEnds, HeapInv
  <1>2. PICK s : s = op.pages
    OBVIOUS
  <1>3. s \in Seq(PageIds) /\ Chained(s, None)
    BY <1>1, <1>2, OpSteps DEF OpenEnds
  <1>4. state' = s /\ op' = Idle /\ UNCHANGED storeVars
    BY <1>2 DEF OpenEnds
  <1>5. Types'
    BY <1>3, <1>4 DEF HeapInv, Types, storeVars
  <1>6. Chained(s, None)'
    BY <1>3, <1>4 DEF Chained, storeVars
  <1>7. Chained(state, None)'
    BY <1>4, <1>6 DEF Chained
  <1>8. OpIsIdle'
    BY <1>4 DEF OpIsIdle, Idle
  <1> QED BY <1>5, <1>7, <1>8 DEF HeapInv


-----------------------------------------------------------------------------
(* Every step preserves the invariant. *)
LEMMA HeapInvStep ==
    ASSUME HeapInv, [Next]_vars
    PROVE  HeapInv'
  <1>1. synced \in Nat /\ count \in Nat
        /\ disk \in [PageIds -> PageRecs] /\ pages \in [PageIds -> PageRecs]
    BY SMT DEF HeapInv, Types
  <1>2. CASE Create
    BY <1>2, CreateStep
  <1>3. CASE CreateOther
    BY <1>3, CreateOtherStep
  <1>4. ASSUME NEW t \in Tuples, Insert(t) PROVE HeapInv'
    BY <1>4, InsertStep
  <1>5. CASE InsertAllocate
    BY <1>5, InsertAllocateStep
  <1>6. CASE InsertLink
    BY <1>6, InsertLinkStep
  <1>7. CASE InsertFails \/ OpenFails
    <2>1. UNCHANGED <<storeVars, state>> /\ op' = Idle
      BY <1>7 DEF InsertFails, OpenFails
    <2> QED BY <2>1, OpOnlyStep
  <1>8. ASSUME NEW c \in Ctids, Delete(c) PROVE HeapInv'
    BY <1>8, DeleteStep
  <1>9. ASSUME NEW c \in Ctids, NEW t \in Tuples, Replace(c, t) PROVE HeapInv'
    BY <1>9, ReplaceStep
  <1>10. CASE Scan \/ ScanPage \/ ScanFails \/ ScanNext \/ ScanDrop
    <2>1. UNCHANGED <<storeVars, state, op>>
      BY <1>10 DEF Scan, ScanPage, ScanFails, ScanNext, ScanDrop
    <2>2. UNCHANGED <<count, pages, state, op>> /\ synced' = synced /\ disk' = disk
      BY <2>1 DEF storeVars
    <2> QED BY <1>1, <2>2, StillStep
  <1>11. ASSUME NEW p \in PageIds, WriteBack(p) PROVE HeapInv'
    <2>1. UNCHANGED <<count, pages, state, op>> /\ synced' = synced
      BY <1>11 DEF WriteBack
    <2>2. disk' \in [PageIds -> PageRecs]
      BY <1>1, <1>11 DEF WriteBack
    <2> QED BY <1>1, <2>1, <2>2, StillStep
  <1>12. CASE FlushAll
    <2>1. UNCHANGED <<count, pages, state, op>> /\ synced' = count /\ disk' = pages
      BY <1>12 DEF FlushAll
    <2> QED BY <1>1, <2>1, StillStep
  <1>13. CASE Crash
    BY <1>13, CrashStep
  <1>14. CASE Open
    BY <1>14, OpenStep
  <1>15. CASE OpenPage
    BY <1>15, OpenPageStep
  <1>16. CASE OpenEnds
    BY <1>16, OpenEndsStep
  <1>17. CASE UNCHANGED vars
    <2>1. UNCHANGED <<count, pages, state, op>> /\ synced' = synced /\ disk' = disk
      BY <1>17 DEF vars, storeVars
    <2> QED BY <1>1, <2>1, StillStep
  <1> QED BY <1>2, <1>3, <1>4, <1>5, <1>6, <1>7, <1>8, <1>9, <1>10, <1>11, <1>12, <1>13,
             <1>14, <1>15, <1>16, <1>17 DEF Next

(* An empty store has no heap and no operation. *)
LEMMA InitHeapInv ==
    ASSUME Init
    PROVE  HeapInv
  <1>1. Types
    BY FreshPage, SMT DEF Init, Types
  <1>2. Chained(state, None)
    BY SMT DEF Init, Chained
  <1> QED BY <1>1, <1>2 DEF HeapInv, OpIsIdle, Init

(* HeapInv holds in every state of the heap, after failed insertions,      *)
(* crashes and reopenings alike.                                           *)
THEOREM HeapInvariance == Spec => []HeapInv
  <1>1. Init => HeapInv
    BY InitHeapInv
  <1>2. HeapInv /\ [Next]_vars => HeapInv'
    BY HeapInvStep
  <1> QED BY <1>1, <1>2, PTL DEF Spec

(* HeapTable::checked_header never refuses a page of a cached chain, for   *)
(* any number of pages and any tuples.                                     *)
THEOREM ChainsIntact == Spec => []ChainIntact
  <1>1. HeapInv => ChainIntact
    BY IntactFromInv
  <1> QED BY <1>1, HeapInvariance, PTL

-----------------------------------------------------------------------------
(* What an address holds, of the pages and the chain alone. *)
Held(s, ps, c) ==
    IF c[1] \notin Range(s) \/ c[2] > Len(ps[c[1]].rows) THEN Unused
    ELSE IF ps[c[1]].rows[c[2]] # NoTuple THEN ps[c[1]].rows[c[2]] ELSE Dead

(* The rows of the map, before and after a step. *)
LEMMA HeldRows ==
    /\ Rows = [c \in Ctids |-> Held(state, pages, c)]
    /\ Rows' = [c \in Ctids |-> Held(state', pages', c)]
  <1>1. \A c \in Ctids : Answer(c) = Held(state, pages, c)
    BY DEF Answer, member, HasRow, Row, Held
  <1>2. \A c \in Ctids : Answer(c)' = Held(state', pages', c)
    BY DEF Answer, member, HasRow, Row, Held
  <1> QED BY <1>1, <1>2 DEF Rows

(* An address is a page and a slot, counted from one. *)
LEMMA AddressTypes ==
    ASSUME NEW c \in Ctids
    PROVE  c[1] \in PageIds /\ c[2] \in Nat \ {0} /\ c = <<c[1], c[2]>>
  <1>1. c[1] \in PageIds /\ c[2] \in 1 .. MaxSlots /\ c = <<c[1], c[2]>>
    BY SMT DEF Ctids
  <1>2. MaxSlots \in Int
    BY SlottedPageAssumption, SMT DEF MaxSlots, SLOT_SIZE
  <1> QED BY <1>1, <1>2, SMT

(* An address holds a tuple that the heap accepts, or none. *)
LEMMA HeldTyped ==
    ASSUME NEW s \in Seq(PageIds), NEW ps \in [PageIds -> PageRecs], NEW c \in Ctids
    PROVE  Held(s, ps, c) \in ValidTuples \union {Unused, Dead}
  <1>1. c[1] \in PageIds /\ c[2] \in Nat \ {0}
    BY AddressTypes
  <1>2. ps[c[1]].rows \in RowSeqs /\ Len(ps[c[1]].rows) \in Nat
    BY <1>1, SMT DEF PageRecs, RowSeqs
  <1>3. ~(c[2] > Len(ps[c[1]].rows)) => ps[c[1]].rows[c[2]] \in ValidTuples \union {NoTuple}
    BY <1>1, <1>2, SMT DEF RowSeqs
  <1> QED BY <1>3 DEF Held

(* What a handle answers after a step is what a map may hold. *)
LEMMA RowsTyped ==
    ASSUME HeapInv'
    PROVE  Rows' \in [Ctids -> Map!Contents]
  <1>1. \A c \in Ctids : Held(state', pages', c) \in ValidTuples \union {Unused, Dead}
    BY HeldTyped DEF HeapInv, Types
  <1> QED BY <1>1, HeldRows DEF Map!Contents, ValidTuples

(* A step that leaves the chain and the rows of its pages alone is none of *)
(* the map.                                                                *)
LEMMA SameRows ==
    ASSUME HeapInv, state' = state,
           \A i \in 1 .. Len(state) : pages'[state[i]].rows = pages[state[i]].rows
    PROVE  UNCHANGED Map!mapVars
  <1>1. \A p \in Range(state) : pages'[p].rows = pages[p].rows
    BY SMT DEF Range, HeapInv, Types
  <1>2. \A c \in Ctids : Held(state', pages', c) = Held(state, pages, c)
    BY <1>1 DEF Held
  <1>3. Rows' = Rows
    BY <1>2, HeldRows
  <1> QED BY <1>3 DEF Map!mapVars, opened

(* A step that changes what one address holds is a change of the map, or   *)
(* none when the bound on slots hides the address.                         *)
LEMMA OneAddress ==
    ASSUME HeapInv', state # <<>>, state' # <<>>, NEW a,
           \A c \in Ctids : c # a => Held(state', pages', c) = Held(state, pages, c),
           a \in Ctids => Map!Follows(Held(state, pages, a), Held(state', pages', a))
    PROVE  [Map!MapNext]_(Map!mapVars)
  <1>1. CASE a \in Ctids
    <2>1. Map!Follows(Rows[a], Rows'[a])
      BY <1>1, HeldRows
    <2>2. \A d \in Ctids \ {a} : Rows'[d] = Rows[d]
      BY HeldRows
    <2>3. opened /\ opened' = TRUE
      BY DEF opened
    <2>4. Map!Change
      BY <1>1, <2>1, <2>2, <2>3, RowsTyped DEF Map!Change
    <2> QED BY <2>4 DEF Map!MapNext
  <1>2. CASE a \notin Ctids
    <2>1. \A c \in Ctids : Held(state', pages', c) = Held(state, pages, c)
      BY <1>2
    <2>2. Rows' = Rows
      BY <2>1, HeldRows
    <2>3. opened' = opened
      BY DEF opened
    <2> QED BY <2>2, <2>3 DEF Map!mapVars
  <1> QED BY <1>1, <1>2

(* A handle appears: create, or open at the end of the chain. *)
LEMMA HandleAppears ==
    ASSUME HeapInv', state = <<>>, state' # <<>>
    PROVE  [Map!MapNext]_(Map!mapVars)
  <1>1. ~opened /\ opened' = TRUE
    BY DEF opened
  <1> QED BY <1>1, RowsTyped DEF Map!MapNext, Map!Open

(* A crash leaves no map. *)
LEMMA HandleLost ==
    ASSUME state' = <<>>
    PROVE  [Map!MapNext]_(Map!mapVars)
  <1>1. ASSUME NEW s, NEW ps, s = <<>>, NEW c \in Ctids
        PROVE  Held(s, ps, c) = Unused
    BY <1>1, SMT DEF Held, Range
  <1>2. Rows' = Map!NoRows
    <2>1. \A c \in Ctids : Held(state', pages', c) = Unused
      BY <1>1
    <2> QED BY <2>1, HeldRows DEF Map!NoRows
  <1>3. CASE state = <<>>
    <2>1. \A c \in Ctids : Held(state, pages, c) = Unused
      BY <1>1, <1>3
    <2>2. Rows = Map!NoRows
      BY <2>1, HeldRows DEF Map!NoRows
    <2>3. opened' = opened
      BY <1>3 DEF opened
    <2> QED BY <1>2, <2>2, <2>3 DEF Map!mapVars
  <1>4. CASE state # <<>>
    <2>1. opened /\ opened' = FALSE
      BY <1>4 DEF opened
    <2> QED BY <1>2, <2>1 DEF Map!MapNext, Map!Close
  <1> QED BY <1>3, <1>4


-----------------------------------------------------------------------------
(* A new row of the tail, at the next slot. *)
LEMMA InsertMap ==
    ASSUME HeapInv, HeapInv', NEW t \in Tuples, Insert(t)
    PROVE  [Map!MapNext]_(Map!mapVars)
  <1>1. t \in ValidTuples /\ t # NoTuple /\ state # <<>> /\ state' = state
    BY DEF Insert, ValidTuples, opened, check_tuple, NoTuple
  <1>2. PICK id, q : id = tail /\ q = Inserted(pages[id], t)
    OBVIOUS
  <1>3. id \in PageIds /\ pages[id] \in PageRecs /\ id \in Range(state)
    <2>1. id = state[Len(state)] /\ Len(state) \in DOMAIN state
      BY <1>1, <1>2, TailFacts, SMT DEF HeapInv, Types
    <2> QED BY <1>1, <1>2, <2>1, TailFacts DEF Range
  <1>4. PICK old, n : old = pages[id].rows /\ n = Len(old) + 1
    OBVIOUS
  <1>5. q.rows = Append(old, t) /\ old \in RowSeqs
    <2>1. q.rows = Append(pages[id].rows, t)
      BY <1>1, <1>2, <1>3, InsertedPage
    <2>2. pages[id].rows \in RowSeqs
      BY <1>3 DEF PageRecs
    <2> QED BY <1>4, <2>1, <2>2
  <1>6. /\ Len(old) \in Nat /\ n \in Nat /\ Len(q.rows) = n /\ q.rows[n] = t
        /\ \A i \in 1 .. Len(old) : q.rows[i] = old[i]
    BY <1>4, <1>5, SMT DEF RowSeqs
  <1>7. CASE pages' = [pages EXCEPT ![id] = q]
    <2>1. \A p \in PageIds : pages'[p] = IF p = id THEN q ELSE pages[p]
      BY <1>7 DEF HeapInv, Types
    <2>2. PICK a : a = <<id, n>>
      BY Zenon
    <2>3. ASSUME NEW c \in Ctids, c # a
          PROVE  Held(state', pages', c) = Held(state, pages, c)
      <3>1. c[1] \in PageIds /\ c[2] \in Nat \ {0} /\ c = <<c[1], c[2]>>
        BY AddressTypes
      <3>2. CASE c[1] # id
        BY <1>1, <2>1, <3>1, <3>2 DEF Held
      <3>3. CASE c[1] = id
        <4>1. c[2] # n
          BY <2>2, <2>3, <3>1, <3>3
        <4>2. pages'[c[1]].rows = q.rows /\ pages[c[1]].rows = old
          BY <1>3, <1>4, <2>1, <3>3
        <4>3. CASE c[2] > n
          <5>1. c[2] > Len(old) /\ c[2] > Len(q.rows)
            BY <1>4, <1>6, <3>1, <4>3, SMT
          <5> QED BY <4>2, <5>1 DEF Held
        <4>4. CASE ~(c[2] > n)
          <5>1. c[2] \in 1 .. Len(old) /\ ~(c[2] > Len(old)) /\ ~(c[2] > Len(q.rows))
            BY <1>4, <1>6, <3>1, <4>1, <4>4, SMT
          <5>2. q.rows[c[2]] = old[c[2]]
            BY <1>6, <5>1
          <5> QED BY <1>1, <4>2, <5>1, <5>2 DEF Held
        <4> QED BY <4>3, <4>4
      <3> QED BY <3>2, <3>3
    <2>4. Map!Follows(Held(state, pages, a), Held(state', pages', a))
      <3>1. a[1] = id /\ a[2] = n /\ pages'[id].rows = q.rows /\ pages[id].rows = old
        BY <1>3, <1>4, <2>1, <2>2
      <3>2. Held(state, pages, a) = Unused
        <4>1. n > Len(old)
          BY <1>4, <1>6, SMT
        <4> QED BY <3>1, <4>1 DEF Held
      <3>3. Held(state', pages', a) = t
        <4>1. ~(n > Len(q.rows))
          BY <1>6, SMT
        <4> QED BY <1>1, <1>3, <1>6, <3>1, <4>1 DEF Held
      <3> QED BY <1>1, <3>2, <3>3 DEF Map!Follows, ValidTuples
    <2> QED BY <1>1, <2>3, <2>4, OneAddress
  <1>8. CASE pages' = pages
    BY <1>1, <1>8, SameRows
  <1> QED BY <1>2, <1>7, <1>8 DEF Insert, write

(* The published page brings one row. *)
LEMMA InsertLinkMap ==
    ASSUME HeapInv, HeapInv', InsertLink
    PROVE  [Map!MapNext]_(Map!mapVars)
  <1>1. OpIsLink /\ state # <<>>
    BY OpSteps DEF InsertLink, HeapInv, OpIsLink
  <1>2. PICK id, k : id = op.page /\ k = tail
    OBVIOUS
  <1>3. PICK q : q = Linked(pages[k], id)
    OBVIOUS
  <1>4. Publishable(id) /\ id \in PageIds /\ id \in Links
    BY <1>1, <1>2, OpSteps, SMT DEF Publishable, Links, PageIds
  <1>5. PICK t \in ValidTuples : pages[id].rows = <<t>>
    BY <1>4 DEF Publishable
  <1>6. k \in PageIds /\ pages[k] \in PageRecs
    BY <1>1, <1>2, TailFacts
  <1>7. q.rows = pages[k].rows
    BY <1>3, <1>4, <1>6, LinkedPage
  <1>8. pages' = [pages EXCEPT ![k] = q] /\ state' = Append(state, id) /\ state \in Seq(PageIds)
    BY <1>2, <1>3 DEF InsertLink, write, HeapInv, Types
  <1>9. \A p \in PageIds : pages'[p].rows = pages[p].rows
    BY <1>7, <1>8 DEF HeapInv, Types
  <1>10. id \notin Range(state)
    BY <1>4, <1>8, SMT DEF Publishable, Range
  <1>11. \A p : p \in Range(state') <=> p \in Range(state) \/ p = id
    <2>1. /\ Len(state') = Len(state) + 1 /\ state'[Len(state) + 1] = id /\ Len(state) \in Nat
          /\ \A i \in 1 .. Len(state) : state'[i] = state[i]
      BY <1>4, <1>8, SMT
    <2>2. DOMAIN state' = 1 .. Len(state) + 1 /\ DOMAIN state = 1 .. Len(state)
      BY <1>4, <1>8, <2>1, SMT
    <2> QED BY <2>1, <2>2, SMT DEF Range
  <1>12. state' # <<>>
    BY <1>4, <1>8, SMT
  <1>13. PICK a : a = <<id, 1>>
    BY Zenon
  <1>14. ASSUME NEW c \in Ctids, c # a
         PROVE  Held(state', pages', c) = Held(state, pages, c)
    <2>1. c[1] \in PageIds /\ c[2] \in Nat \ {0} /\ c = <<c[1], c[2]>>
      BY AddressTypes
    <2>2. pages'[c[1]].rows = pages[c[1]].rows
      BY <1>9, <2>1
    <2>3. CASE c[1] # id
      BY <1>11, <2>2, <2>3 DEF Held
    <2>4. CASE c[1] = id
      <3>1. c[2] > 1
        BY <1>13, <1>14, <2>1, <2>4, SMT
      <3>2. Len(<<t>>) = 1
        OBVIOUS
      <3>3. c[2] > Len(pages'[c[1]].rows)
        BY <1>5, <2>2, <2>4, <3>1, <3>2, Zenon
      <3> QED BY <1>10, <2>4, <3>3 DEF Held
    <2> QED BY <2>3, <2>4
  <1>15. Map!Follows(Held(state, pages, a), Held(state', pages', a))
    <2>1. a[1] = id /\ a[2] = 1 /\ pages'[id].rows = <<t>>
      BY <1>4, <1>5, <1>9, <1>13
    <2>2. Held(state, pages, a) = Unused
      BY <1>10, <2>1 DEF Held
    <2>3. t # NoTuple /\ t \in Tuples /\ check_tuple(t)
      BY <1>5 DEF ValidTuples, check_tuple, NoTuple
    <2>4. Len(<<t>>) = 1 /\ <<t>>[1] = t
      OBVIOUS
    <2>5. Held(state', pages', a) = t
      BY <1>11, <2>1, <2>3, <2>4, SMT DEF Held
    <2> QED BY <2>2, <2>3, <2>5 DEF Map!Follows
  <1> QED BY <1>1, <1>12, <1>14, <1>15, OneAddress

(* One row of one page changes: to another tuple, or to none. *)
LEMMA RowMap ==
    ASSUME HeapInv, HeapInv', NEW c \in Ctids, NEW t \in ValidTuples \union {NoTuple}, member(c),
           HasRow(pages[c[1]], c[2]), pages' = [pages EXCEPT ![c[1]] = Replaced(pages[c[1]], c[2], t)],
           state' = state, state # <<>>
    PROVE  [Map!MapNext]_(Map!mapVars)
  <1>1. PICK id, k, q : id = c[1] /\ k = c[2] /\ q = Replaced(pages[id], k, t)
    OBVIOUS
  <1>2. /\ id \in PageIds /\ k \in Nat \ {0} /\ pages[id] \in PageRecs
        /\ k \in 1 .. Len(pages[id].rows) /\ id \in Range(state)
    BY <1>1, RowAddress DEF member
  <1>3. PICK old : old = pages[id].rows
    OBVIOUS
  <1>4. q.rows = [old EXCEPT ![k] = t] /\ old \in RowSeqs
    <2>1. Replaced(pages[id], k, t).rows = [pages[id].rows EXCEPT ![k] = t]
      BY <1>2, ReplacedPage, ZenonT(40)
    <2>2. pages[id].rows \in RowSeqs
      BY <1>2 DEF PageRecs
    <2> QED BY <1>1, <1>3, <2>1, <2>2, Zenon
  <1>5. /\ Len(q.rows) = Len(old) /\ q.rows[k] = t /\ Len(old) \in Nat
        /\ \A i \in 1 .. Len(old) : i # k => q.rows[i] = old[i]
    BY <1>2, <1>3, <1>4, SMT DEF RowSeqs
  <1>6. \A p \in PageIds : pages'[p] = IF p = id THEN q ELSE pages[p]
    BY <1>1 DEF HeapInv, Types
  <1>7. ASSUME NEW d \in Ctids, d # c
        PROVE  Held(state', pages', d) = Held(state, pages, d)
    <2>1. d[1] \in PageIds /\ d[2] \in Nat \ {0} /\ d = <<d[1], d[2]>> /\ c = <<id, k>>
      BY <1>1, AddressTypes
    <2>2. CASE d[1] # id
      BY <1>6, <2>1, <2>2, SMT DEF Held
    <2>3. CASE d[1] = id
      <3>1. d[2] # k
        BY <1>7, <2>1, <2>3
      <3>2. pages'[d[1]].rows = q.rows /\ pages[d[1]].rows = old
        BY <1>2, <1>3, <1>6, <2>3
      <3>3. ~(d[2] > Len(old)) => q.rows[d[2]] = old[d[2]]
        BY <1>5, <2>1, <3>1, SMT
      <3> QED BY <1>5, <3>2, <3>3 DEF Held
    <2> QED BY <2>2, <2>3
  <1>8. Map!Follows(Held(state, pages, c), Held(state', pages', c))
    <2>1. ~(k > Len(old)) /\ ~(k > Len(q.rows)) /\ old[k] \in ValidTuples
      <3>1. old[k] # NoTuple /\ ~(k > Len(old))
        BY <1>1, <1>2, <1>3 DEF HasRow, Row
      <3>2. old[k] \in ValidTuples \union {NoTuple}
        BY <1>2, <1>3, <1>4, SMT DEF RowSeqs
      <3> QED BY <1>5, <3>1, <3>2
    <2>2. pages'[id].rows = q.rows /\ pages[id].rows = old
      BY <1>2, <1>3, <1>6
    <2>3. old[k] # NoTuple
      BY <2>1 DEF ValidTuples, check_tuple, NoTuple
    <2>4. Held(state, pages, c) = old[k]
      BY <1>1, <1>2, <2>1, <2>2, <2>3 DEF Held
    <2>5. Held(state', pages', c) = IF t # NoTuple THEN t ELSE Dead
      BY <1>1, <1>2, <1>5, <2>1, <2>2, SMT DEF Held
    <2> QED BY <2>1, <2>4, <2>5 DEF Map!Follows, ValidTuples
  <1> QED BY <1>7, <1>8, OneAddress, Zenon


(* Every step of the heap is a step of the map, or leaves it alone. *)
LEMMA MapStep ==
    ASSUME HeapInv, HeapInv', [Next]_vars
    PROVE  [Map!MapNext]_(Map!mapVars)
  <1>1. CASE Create
    <2>1. state = <<>>
      <3>1. count = 0 /\ state \in Seq(PageIds)
        BY <1>1 DEF Create, HeapInv, Types
      <3>2. \A i \in 1 .. Len(state) : FALSE
        BY <3>1, Existing, SMT DEF PageIds
      <3>3. Len(state) = 0
        BY <3>1, <3>2, SMT
      <3> QED BY <3>1, <3>3, SMT
    <2>2. state' # <<>>
      BY <1>1 DEF Create
    <2> QED BY <2>1, <2>2, HandleAppears
  <1>2. CASE CreateOther \/ InsertAllocate
    <2>1. state' = state /\ \A i \in 1 .. Len(state) : pages'[state[i]] = pages[state[i]]
      <3>1. PICK n, q : n = count /\ pages' = [pages EXCEPT ![n] = q]
        BY <1>2 DEF CreateOther, InsertAllocate, new_page, write
      <3>2. \A i \in 1 .. Len(state) : state[i] \in PageIds /\ state[i] # n
        BY <3>1, Existing, SMT DEF HeapInv, Types, PageIds
      <3>3. \A i \in 1 .. Len(state) : pages'[state[i]] = pages[state[i]]
        BY <3>1, <3>2 DEF HeapInv, Types
      <3> QED BY <1>2, <3>3 DEF CreateOther, InsertAllocate
    <2> QED BY <2>1, SameRows
  <1>3. ASSUME NEW t \in Tuples, Insert(t) PROVE [Map!MapNext]_(Map!mapVars)
    BY <1>3, InsertMap
  <1>4. CASE InsertLink
    BY <1>4, InsertLinkMap
  <1>5. ASSUME NEW c \in Ctids, Delete(c) PROVE [Map!MapNext]_(Map!mapVars)
    <2>1. /\ member(c) /\ HasRow(pages[c[1]], c[2]) /\ state' = state /\ state # <<>>
          /\ pages' = [pages EXCEPT ![c[1]] = Deleted(pages[c[1]], c[2])]
      BY <1>5 DEF Delete, write, opened
    <2>2. Deleted(pages[c[1]], c[2]) = Replaced(pages[c[1]], c[2], NoTuple)
      BY DEF Deleted, Replaced
    <2>3. NoTuple \in ValidTuples \union {NoTuple}
      OBVIOUS
    <2> QED BY <2>1, <2>2, <2>3, RowMap, Zenon
  <1>6. ASSUME NEW c \in Ctids, NEW t \in Tuples, Replace(c, t) PROVE [Map!MapNext]_(Map!mapVars)
    <2>1. /\ member(c) /\ HasRow(pages[c[1]], c[2]) /\ state' = state /\ state # <<>>
          /\ pages' = [pages EXCEPT ![c[1]] = Replaced(pages[c[1]], c[2], t)]
      BY <1>6 DEF Replace, CanReplace, write, opened
    <2>2. t \in ValidTuples \union {NoTuple}
      BY <1>6 DEF Replace, ValidTuples
    <2> QED BY <2>1, <2>2, RowMap, Zenon
  <1>7. CASE Crash
    BY <1>7, HandleLost DEF Crash
  <1>8. CASE OpenEnds
    <2>1. OpIsOpen
      BY <1>8, OpSteps DEF OpenEnds, HeapInv
    <2>2. state = <<>>
      BY <2>1 DEF OpIsOpen
    <2>3. op.pages # <<>>
      BY <1>8, <2>1, OpSteps, SMT DEF OpenEnds, None
    <2>4. state' # <<>>
      BY <1>8, <2>3 DEF OpenEnds
    <2> QED BY <2>2, <2>4, HandleAppears
  <1>9. CASE UNCHANGED <<pages, state>>
    BY <1>9, SameRows
  <1>10. CASE \/ InsertFails \/ OpenFails \/ Open \/ OpenPage
              \/ Scan \/ ScanPage \/ ScanFails \/ ScanNext \/ ScanDrop
    BY <1>9, <1>10 DEF InsertFails, OpenFails, Open, OpenPage, Scan, ScanPage, ScanFails,
                       ScanNext, ScanDrop, storeVars
  <1>11. CASE FlushAll \/ \E p \in PageIds : WriteBack(p)
    BY <1>9, <1>11 DEF FlushAll, WriteBack
  <1>12. CASE UNCHANGED vars
    BY <1>9, <1>12 DEF vars, storeVars
  <1> QED BY <1>1, <1>2, <1>3, <1>4, <1>5, <1>6, <1>7, <1>8, <1>10, <1>11, <1>12 DEF Next

(* The heap implements the map of HeapMap for any page size, any number of *)
(* pages and any tuples: an insertion takes an unused address, no          *)
(* operation moves a row or changes another one, a deleted address stays   *)
(* dead while the handle lives.                                            *)
THEOREM MapImplemented == Spec => MapRefined
  <1>1. Init => Map!MapInit
    <2>1. SUFFICES ASSUME Init PROVE Map!MapInit
      OBVIOUS
    <2>2. state = <<>>
      BY <2>1 DEF Init
    <2>3. \A c \in Ctids : Held(state, pages, c) = Unused
      BY <2>2, SMT DEF Held, Range
    <2>4. Rows = Map!NoRows
      BY <2>3, HeldRows DEF Map!NoRows
    <2>5. opened = FALSE
      BY <2>2 DEF opened
    <2> QED BY <2>4, <2>5 DEF Map!MapInit
  <1>2. HeapInv /\ HeapInv' /\ [Next]_vars => [Map!MapNext]_(Map!mapVars)
    BY MapStep
  <1> QED BY <1>1, <1>2, HeapInvariance, PTL DEF Spec, MapRefined, Map!MapSpec

-----------------------------------------------------------------------------
(* A chain begins at the head, the handle's and the one open is following. *)
HeadFirst ==
    /\ state # <<>> => state[1] = head
    /\ op.step = "open" /\ op.pages # <<>> => op.pages[1] = head

(* What flush_all leaves for a reopening: the chain s it saw is linked,    *)
(* synced and in the store as it is in the pool, and the rows it claims    *)
(* are those of s.                                                         *)
Kept(s) ==
    /\ s \in Seq(PageIds) /\ s # <<>> /\ s[1] = head
    /\ Chained(s, None)
    /\ \A i \in 1 .. Len(s) : s[i] < synced /\ disk[s[i]] = pages[s[i]]
    /\ flushed = [c \in Ctids |-> Held(s, pages, c)]

(* How far open has followed s. *)
Following(s) ==
    /\ Len(op.pages) <= Len(s)
    /\ \A i \in 1 .. Len(op.pages) : op.pages[i] = s[i]
    /\ op.next = IF Len(op.pages) < Len(s) THEN s[Len(op.pages) + 1] ELSE None

(* A handle has cached s, or is about to. *)
Session(s) ==
    /\ state # <<>> => state = s
    /\ op.step = "open" => Following(s)

FlushInv == HeadFirst /\ (flushed # NoClaim => \E s : Kept(s) /\ Session(s))

(* The rows kept stay kept while the pages of their chain stay as they are *)
(* and remain in the synced part of the store.                             *)
LEMMA KeptStays ==
    ASSUME NEW s, Kept(s), flushed' = flushed,
           \A i \in 1 .. Len(s) : /\ s[i] < count' /\ s[i] < synced'
                                  /\ pages'[s[i]] = pages[s[i]]
                                  /\ disk'[s[i]] = pages'[s[i]]
    PROVE  Kept(s)'
  <1>1. s \in Seq(PageIds) /\ s # <<>> /\ s[1] = head
    BY DEF Kept
  <1>2. Chained(s, None)'
    BY DEF Kept, Chained
  <1>3. \A c \in Ctids : Held(s, pages', c) = Held(s, pages, c)
    <2>1. \A p \in Range(s) : pages'[p] = pages[p]
      BY <1>1, SMT DEF Range
    <2> QED BY <2>1 DEF Held
  <1>4. flushed' = [c \in Ctids |-> Held(s, pages', c)]
    BY <1>3 DEF Kept
  <1> QED BY <1>1, <1>2, <1>4 DEF Kept

(* Steps that touch neither the handle nor open's progress. *)
LEMMA SessionStays ==
    ASSUME NEW s, Session(s), state' = state,
           op' = op \/ op'.step # "open"
    PROVE  Session(s)'
  BY DEF Session, Following

LEMMA HeadFirstStays ==
    ASSUME HeadFirst, state' = state, op' = op \/ op'.step # "open"
    PROVE  HeadFirst'
  BY DEF HeadFirst

(* Steps that keep the chain's pages, the handle and the claim. *)
LEMMA QuietStep ==
    ASSUME HeapInv, FlushInv, state' = state, op' = op \/ op'.step # "open",
           flushed' = flushed, synced' = synced, count' \in Int, count' >= count,
           \A p \in PageIds : p < count => pages'[p] = pages[p],
           \A p \in PageIds : disk'[p] = disk[p] \/ disk'[p] = pages'[p]
    PROVE  FlushInv'
  <1>1. HeadFirst'
    BY HeadFirstStays DEF FlushInv
  <1>2. ASSUME flushed' # NoClaim PROVE \E s : Kept(s)' /\ Session(s)'
    <2>1. PICK s : Kept(s) /\ Session(s)
      BY <1>2 DEF FlushInv
    <2>2. s \in Seq(PageIds)
      BY <2>1 DEF Kept
    <2>3. ASSUME NEW i \in 1 .. Len(s)
          PROVE  /\ s[i] < count' /\ s[i] < synced'
                 /\ pages'[s[i]] = pages[s[i]] /\ disk'[s[i]] = pages'[s[i]]
      <3>1. s[i] \in PageIds /\ s[i] \in Int /\ s[i] < count /\ s[i] < synced
        BY <2>1, <2>2, SMT DEF Kept, Chained, PageIds
      <3>2. disk[s[i]] = pages[s[i]]
        BY <2>1 DEF Kept
      <3>3. count \in Int
        BY SMT DEF HeapInv, Types
      <3> QED BY <3>1, <3>2, <3>3, SMT
    <2>4. Kept(s)'
      BY <2>1, <2>3, KeptStays
    <2>5. Session(s)'
      BY <2>1, SessionStays
    <2> QED BY <2>4, <2>5
  <1> QED BY <1>1, <1>2 DEF FlushInv

(* A chain that changes is no longer the one flushed. *)
LEMMA ChangeStep ==
    ASSUME FlushInv, flushed' = NoClaim, state' = state, op' = op
    PROVE  FlushInv'
  BY HeadFirstStays DEF FlushInv

(* A crash keeps the synced pages. *)
LEMMA CrashFlush ==
    ASSUME HeapInv, FlushInv, Crash
    PROVE  FlushInv'
  <1>1. PICK n \in synced .. count :
            /\ count' = n /\ synced' = n
            /\ disk' = [p \in PageIds |-> IF p < n THEN disk[p] ELSE Blank]
    BY DEF Crash
  <1>2. /\ pages' = disk' /\ state' = <<>> /\ op' = Idle /\ flushed' = flushed
        /\ op'.step # "open"
    BY DEF Crash, Idle
  <1>3. HeadFirst'
    BY <1>2 DEF HeadFirst
  <1>4. ASSUME flushed' # NoClaim PROVE \E s : Kept(s)' /\ Session(s)'
    <2>1. PICK s : Kept(s) /\ Session(s)
      BY <1>2, <1>4 DEF FlushInv
    <2>2. s \in Seq(PageIds)
      BY <2>1 DEF Kept
    <2>3. ASSUME NEW i \in 1 .. Len(s)
          PROVE  /\ s[i] < count' /\ s[i] < synced'
                 /\ pages'[s[i]] = pages[s[i]] /\ disk'[s[i]] = pages'[s[i]]
      <3>1. s[i] \in PageIds /\ s[i] \in Int /\ s[i] < synced
        BY <2>1, <2>2, SMT DEF Kept, PageIds
      <3>2. disk[s[i]] = pages[s[i]]
        BY <2>1 DEF Kept
      <3>3. synced \in Int /\ count \in Int
        BY SMT DEF HeapInv, Types
      <3>4. s[i] < n
        BY <1>1, <3>1, <3>3, SMT
      <3> QED BY <1>1, <1>2, <3>1, <3>2, <3>4
    <2>4. Kept(s)'
      BY <1>2, <2>1, <2>3, KeptStays
    <2>5. Session(s)'
      BY <1>2 DEF Session
    <2> QED BY <2>4, <2>5
  <1> QED BY <1>3, <1>4 DEF FlushInv

(* flush_all claims the rows of the cached chain. *)
LEMMA FlushAllFlush ==
    ASSUME HeapInv, FlushInv, FlushAll
    PROVE  FlushInv'
  <1>1. /\ state # <<>> /\ op = Idle /\ disk' = pages /\ synced' = count
        /\ flushed' = Rows /\ count' = count /\ pages' = pages /\ state' = state
        /\ op' = op /\ op'.step # "open"
    BY DEF FlushAll, opened, Idle
  <1>2. HeadFirst'
    BY <1>1, HeadFirstStays DEF FlushInv
  <1>3. PICK s : s = state
    OBVIOUS
  <1>4. s \in Seq(PageIds) /\ s # <<>> /\ s[1] = head /\ Chained(s, None)
    BY <1>1, <1>3 DEF HeapInv, Types, FlushInv, HeadFirst
  <1>5. Chained(s, None)'
    BY <1>1, <1>4 DEF Chained
  <1>6. \A i \in 1 .. Len(s) : s[i] < synced' /\ disk'[s[i]] = pages'[s[i]]
    BY <1>1, <1>4 DEF Chained
  <1>7. flushed' = [c \in Ctids |-> Held(s, pages', c)]
    BY <1>1, <1>3, HeldRows
  <1>8. Kept(s)'
    BY <1>4, <1>5, <1>6, <1>7 DEF Kept
  <1>9. Session(s)'
    BY <1>1, <1>3 DEF Session
  <1> QED BY <1>2, <1>8, <1>9 DEF FlushInv

(* open begins at the head, where every flushed chain begins. *)
LEMMA OpenFlush ==
    ASSUME HeapInv, FlushInv, Open
    PROVE  FlushInv'
  <1>1. /\ state = <<>> /\ state' = state /\ UNCHANGED <<count, synced, pages, disk, flushed>>
        /\ op' = [step |-> "open", pages |-> <<>>, next |-> head]
    BY DEF Open, opened, storeVars
  <1>2. op'.pages = <<>> /\ op'.next = head
    BY <1>1
  <1>3. HeadFirst'
    BY <1>1, <1>2 DEF HeadFirst
  <1>4. ASSUME flushed' # NoClaim PROVE \E s : Kept(s)' /\ Session(s)'
    <2>1. PICK s : Kept(s) /\ Session(s)
      BY <1>1, <1>4 DEF FlushInv
    <2>2. Kept(s)'
      BY <1>1, <2>1 DEF Kept, Chained
    <2>3. Len(s) \in Nat /\ Len(s) > 0 /\ s[1] = head
      BY <2>1, SMT DEF Kept
    <2>4. Following(s)'
      <3>1. Len(op'.pages) = 0
        BY <1>2
      <3> QED BY <1>2, <2>3, <3>1, SMT DEF Following
    <2>5. Session(s)'
      BY <1>1, <2>4 DEF Session
    <2> QED BY <2>2, <2>5
  <1> QED BY <1>3, <1>4 DEF FlushInv

(* It takes the pages of that chain one by one. *)
LEMMA OpenPageFlush ==
    ASSUME HeapInv, FlushInv, OpenPage
    PROVE  FlushInv'
  <1>1. OpIsOpen /\ state = <<>> /\ op.step = "open" /\ op.next # None
    BY OpSteps DEF OpenPage, HeapInv, OpIsOpen
  <1>2. PICK old, n, e : old = op.pages /\ n = op.next /\ e = pages[n].next
    OBVIOUS
  <1>3. /\ old \in Seq(PageIds) /\ n < count /\ n \in Links /\ (old = <<>> => n = head)
        /\ n # None
    BY <1>1, <1>2, OpSteps DEF OpenPage, OpenOk
  <1>4. n \in PageIds
    BY <1>3, SMT DEF Links, PageIds, HeapInv, Types
  <1>5. /\ state' = state /\ UNCHANGED <<count, synced, pages, disk, flushed>>
        /\ op' = [step |-> "open", pages |-> Append(old, n), next |-> e]
    BY <1>2 DEF OpenPage, storeVars
  <1>6. op'.pages = Append(old, n) /\ op'.next = e /\ op'.step = "open"
    BY <1>5
  <1>7. PICK new : new = Append(old, n)
    BY Zenon
  <1>8. /\ Len(old) \in Nat /\ Len(new) = Len(old) + 1 /\ new[Len(old) + 1] = n
        /\ \A i \in 1 .. Len(old) : new[i] = old[i]
    BY <1>3, <1>4, <1>7, SMT
  <1>9. HeadFirst'
    <2>1. new[1] = head
      <3>1. CASE old = <<>>
        BY <1>3, <1>8, <3>1, SMT
      <3>2. CASE old # <<>>
        <4>1. 1 \in 1 .. Len(old)
          BY <1>3, <3>2, SMT
        <4>2. old[1] = head
          BY <1>1, <1>2, <3>2 DEF FlushInv, HeadFirst
        <4> QED BY <1>8, <4>1, <4>2
      <3> QED BY <3>1, <3>2
    <2> QED BY <1>1, <1>5, <1>6, <1>7, <2>1 DEF HeadFirst
  <1>10. ASSUME flushed' # NoClaim PROVE \E s : Kept(s)' /\ Session(s)'
    <2>1. PICK s : Kept(s) /\ Session(s)
      BY <1>5, <1>10 DEF FlushInv
    <2>2. Kept(s)'
      BY <1>5, <2>1 DEF Kept, Chained
    <2>3. /\ Len(old) <= Len(s) /\ \A i \in 1 .. Len(old) : old[i] = s[i]
          /\ n = IF Len(old) < Len(s) THEN s[Len(old) + 1] ELSE None
      BY <1>1, <1>2, <2>1 DEF Session, Following
    <2>4. s \in Seq(PageIds) /\ Len(s) \in Nat
      BY <2>1, SMT DEF Kept
    <2>5. Len(old) < Len(s) /\ n = s[Len(old) + 1]
      BY <1>3, <2>3
    <2>6. PICK k \in 1 .. Len(s) : k = Len(old) + 1
      BY <1>8, <2>4, <2>5, SMT
    <2>7. e = IF k < Len(s) THEN s[k + 1] ELSE None
      <3>1. /\ k < Len(s) => pages[s[k]].next = s[k + 1]
            /\ k = Len(s) => pages[s[k]].next = None
        BY <2>1 DEF Kept, Chained
      <3>2. s[k] = n
        BY <2>5, <2>6
      <3> QED BY <1>2, <2>4, <3>1, <3>2, SMT
    <2>8. \A i \in 1 .. Len(new) : new[i] = s[i]
      BY <1>8, <2>3, <2>5, SMT
    <2>9. Len(new) <= Len(s) /\ Len(new) = k
      BY <1>8, <2>4, <2>6, SMT
    <2>10. Following(s)'
      BY <1>6, <1>7, <2>7, <2>8, <2>9 DEF Following
    <2>11. Session(s)'
      BY <1>1, <1>5, <2>10 DEF Session
    <2> QED BY <2>2, <2>11
  <1> QED BY <1>9, <1>10 DEF FlushInv

(* At its end the handle has cached that chain, and no other. *)
LEMMA OpenEndsFlush ==
    ASSUME HeapInv, FlushInv, OpenEnds
    PROVE  FlushInv'
  <1>1. OpIsOpen /\ op.step = "open" /\ op.next = None /\ op.pages \in Seq(PageIds)
    BY OpSteps DEF OpenEnds, HeapInv
  <1>2. /\ state' = op.pages /\ UNCHANGED <<count, synced, pages, disk, flushed>>
        /\ op'.step # "open"
    BY DEF OpenEnds, storeVars, Idle
  <1>3. HeadFirst'
    BY <1>1, <1>2 DEF FlushInv, HeadFirst
  <1>4. ASSUME flushed' # NoClaim PROVE \E s : Kept(s)' /\ Session(s)'
    <2>1. PICK s : Kept(s) /\ Session(s)
      BY <1>2, <1>4 DEF FlushInv
    <2>2. Kept(s)'
      BY <1>2, <2>1 DEF Kept, Chained
    <2>3. PICK old : old = op.pages
      OBVIOUS
    <2>4. /\ Len(old) <= Len(s) /\ \A i \in 1 .. Len(old) : old[i] = s[i]
          /\ None = IF Len(old) < Len(s) THEN s[Len(old) + 1] ELSE None
      BY <1>1, <2>1, <2>3 DEF Session, Following
    <2>5. s \in Seq(PageIds) /\ Len(s) \in Nat /\ old \in Seq(PageIds) /\ Len(old) \in Nat
      BY <1>1, <2>1, <2>3, SMT DEF Kept
    <2>6. Len(old) = Len(s)
      <3>1. SUFFICES ASSUME Len(old) < Len(s) PROVE FALSE
        BY <2>4, <2>5, SMT
      <3>2. PICK k \in 1 .. Len(s) : k = Len(old) + 1
        BY <2>5, <3>1, SMT
      <3>3. s[k] \in PageIds /\ s[k] = None
        BY <2>4, <2>5, <3>1, <3>2, SMT
      <3> QED BY <3>3, SMT DEF PageIds, None
    <2>7. old = s
      BY <2>4, <2>5, <2>6, SMT
    <2>8. Session(s)'
      BY <1>2, <2>3, <2>7 DEF Session
    <2> QED BY <2>2, <2>8
  <1> QED BY <1>3, <1>4 DEF FlushInv

(* Every step keeps what a flush has claimed, or ends the claim. *)
LEMMA FlushStep ==
    ASSUME HeapInv, FlushInv, [Next]_vars
    PROVE  FlushInv'
  <1>0. count \in Int /\ Idle.step # "open"
    BY SMT DEF HeapInv, Types, Idle
  <1>1. CASE Create
    <2>1. /\ state' = <<head>> /\ flushed' = NoClaim /\ op' = Idle
      BY <1>1 DEF Create
    <2> QED BY <1>0, <2>1 DEF FlushInv, HeadFirst
  <1>2. CASE CreateOther \/ InsertAllocate
    <2>1. PICK q : pages' = [pages EXCEPT ![count] = q]
      BY <1>2 DEF CreateOther, InsertAllocate, new_page, write
    <2>2. /\ state' = state /\ flushed' = flushed /\ synced' = synced
          /\ disk' = disk /\ count' = count + 1
      BY <1>2 DEF CreateOther, InsertAllocate, new_page, write
    <2>3. op' = op \/ op'.step # "open"
      BY <1>2, SMT DEF CreateOther, InsertAllocate
    <2>4. \A p \in PageIds : p < count => pages'[p] = pages[p]
      BY <1>0, <2>1, SMT DEF HeapInv, Types, PageIds
    <2> QED BY <1>0, <2>2, <2>3, <2>4, QuietStep, SMT
  <1>3. ASSUME NEW t \in Tuples, Insert(t) PROVE FlushInv'
    <2>1. state' = state /\ count' = count /\ synced' = synced /\ disk' = disk /\ op = Idle
      BY <1>3 DEF Insert, write
    <2>2. CASE flushed' = NoClaim /\ op' = op
      BY <2>1, <2>2, ChangeStep
    <2>3. CASE flushed' = flushed /\ pages' = pages /\ op' = [step |-> "allocate", tuple |-> t]
      <3>1. op'.step # "open"
        BY <2>3
      <3> QED BY <1>0, <2>1, <2>3, <3>1, QuietStep, SMT
    <2> QED BY <1>3, <2>2, <2>3 DEF Insert
  <1>4. CASE InsertLink
    <2>1. OpIsLink /\ state # <<>> /\ state \in Seq(PageIds)
      BY <1>4, OpSteps, Zenon DEF InsertLink, HeapInv, OpIsLink, Types
    <2>2. op.page \in PageIds
      BY <2>1, Existing
    <2>3. state' = Append(state, op.page) /\ flushed' = NoClaim /\ op' = Idle
      BY <1>4 DEF InsertLink
    <2>4. state'[1] = state[1]
      <3>1. PICK a : a = op.page
        OBVIOUS
      <3>2. Len(state) > 0 /\ 1 \in 1 .. Len(state)
        BY <2>1, SMT
      <3> QED BY <2>1, <2>2, <2>3, <3>1, <3>2, SMT
    <2> QED BY <1>0, <2>1, <2>3, <2>4 DEF FlushInv, HeadFirst
  <1>5. ASSUME NEW c \in Ctids, Delete(c) \/ \E t \in Tuples : Replace(c, t) PROVE FlushInv'
    BY <1>5, ChangeStep DEF Delete, Replace
  <1>6. CASE FlushAll
    BY <1>6, FlushAllFlush
  <1>7. CASE Crash
    BY <1>7, CrashFlush
  <1>8. CASE Open
    BY <1>8, OpenFlush
  <1>9. CASE OpenPage
    BY <1>9, OpenPageFlush
  <1>10. CASE OpenEnds
    BY <1>10, OpenEndsFlush
  <1>11. CASE UNCHANGED <<storeVars, state, flushed>> /\ (op' = op \/ op' = Idle)
    BY <1>0, <1>11, QuietStep, SMT DEF storeVars
  <1>12. CASE InsertFails \/ OpenFails
    BY <1>11, <1>12 DEF InsertFails, OpenFails
  <1>13. CASE Scan \/ ScanPage \/ ScanFails \/ ScanNext \/ ScanDrop
    BY <1>11, <1>13 DEF Scan, ScanPage, ScanFails, ScanNext, ScanDrop
  <1>14. ASSUME NEW p \in PageIds, WriteBack(p) PROVE FlushInv'
    <2>1. /\ state' = state /\ op' = op /\ flushed' = flushed /\ synced' = synced
          /\ count' = count /\ pages' = pages /\ disk' = [disk EXCEPT ![p] = pages[p]]
      BY <1>14 DEF WriteBack
    <2>2. \A r \in PageIds : disk'[r] = disk[r] \/ disk'[r] = pages'[r]
      BY <2>1 DEF HeapInv, Types
    <2> QED BY <1>0, <2>1, <2>2, QuietStep, SMT
  <1>15. CASE UNCHANGED vars
    BY <1>11, <1>15 DEF vars
  <1> QED BY <1>1, <1>2, <1>3, <1>4, <1>5, <1>6, <1>7, <1>8, <1>9, <1>10, <1>12, <1>13,
             <1>14, <1>15 DEF Next

(* The claim of a flush says that open succeeds and shows the same rows. *)
LEMMA FlushGives ==
    HeapInv /\ FlushInv => FlushedReopens
  <1>1. SUFFICES ASSUME HeapInv, FlushInv, flushed # NoClaim
                 PROVE  /\ opened => Rows = flushed
                        /\ op.step = "open" /\ op.next # None => OpenOk(op.next)
    BY DEF FlushedReopens
  <1>2. PICK s : Kept(s) /\ Session(s)
    BY <1>1 DEF FlushInv
  <1>3. s \in Seq(PageIds) /\ Len(s) \in Nat /\ Chained(s, None)
    BY <1>2, SMT DEF Kept
  <1>4. opened => Rows = flushed
    BY <1>2, HeldRows DEF Kept, Session, opened
  <1>5. ASSUME op.step = "open", op.next # None PROVE OpenOk(op.next)
    <2>1. PICK old, n : old = op.pages /\ n = op.next
      OBVIOUS
    <2>2. /\ Len(old) <= Len(s) /\ \A i \in 1 .. Len(old) : old[i] = s[i]
          /\ n = IF Len(old) < Len(s) THEN s[Len(old) + 1] ELSE None
      BY <1>2, <1>5, <2>1 DEF Session, Following
    <2>3. old \in Seq(PageIds) /\ Len(old) \in Nat
      BY <1>1, <1>5, <2>1, OpSteps, SMT DEF HeapInv
    <2>4. PICK k \in 1 .. Len(s) : k = Len(old) + 1 /\ n = s[k]
      <3>1. Len(old) < Len(s)
        BY <1>5, <2>1, <2>2
      <3> QED BY <1>3, <2>2, <2>3, <3>1, SMT
    <2>5. n < count /\ pages[n].sound /\ pages[n].owner = head
      BY <1>3, <2>4 DEF Chained
    <2>6. n \notin Range(old)
      <3>1. SUFFICES ASSUME NEW i \in 1 .. Len(old), n = old[i] PROVE FALSE
        BY <2>3, SMT DEF Range
      <3>2. i \in 1 .. Len(s) /\ s[i] = s[k] /\ i # k
        BY <1>3, <2>2, <2>3, <2>4, <3>1, SMT
      <3> QED BY <1>3, <3>2 DEF Chained
    <2> QED BY <2>1, <2>5, <2>6 DEF OpenOk
  <1> QED BY <1>4, <1>5

(* What flush_all saw is there after any crash that follows: open does not *)
(* find the chain damaged, and the handle it gives shows the same rows.    *)
THEOREM FlushSurvives == Spec => []FlushedReopens
  <1>1. Init => FlushInv
    BY SMT DEF Init, FlushInv, HeadFirst, Idle
  <1>2. HeapInv /\ FlushInv /\ [Next]_vars => FlushInv'
    BY FlushStep
  <1>3. HeapInv /\ FlushInv => FlushedReopens
    BY FlushGives
  <1> QED BY <1>1, <1>2, <1>3, HeapInvariance, PTL DEF Spec
=============================================================================
