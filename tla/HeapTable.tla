------------------------------ MODULE HeapTable ------------------------------
(***************************************************************************)
(* One heap of crates/heapam/src/heap.rs over a buffer pool it shares with *)
(* other heaps.  Operations of the handle exclude each other by its mutex, *)
(* so each is one action, except that an insertion that grows the chain    *)
(* and an open take several steps: pages are written back, other heaps     *)
(* allocate and the process may crash between them.  A scan holds nothing  *)
(* between two next calls.  The pool is abstracted to what BufferPool      *)
(* promises: pages holds the current contents, disk those of the store.    *)
(***************************************************************************)
EXTENDS SlottedPage

CONSTANTS
    MaxPages,     \* bound on the pages of the store
    Budgets,      \* bounds on the changes, scans and crashes of a behaviour
    Tuples,       \* what callers insert, tuples of refused sizes included
    Unused, Dead, \* what an address without a tuple maps to
    NoScan        \* no iterator exists

ASSUME HeapTableAssumption == MaxPages \in Nat
ASSUME TuplesAssumption ==
    Tuples \subseteq Seq(Int) /\ Unused \notin Tuples /\ Dead \notin Tuples

VARIABLES
    count, synced,  \* pages of the store, and those a crash is sure to keep
    pages, disk,    \* their contents, through the pool and in the store
    state,          \* the handle's cached chain; <<>> when there is none
    op,             \* the operation in progress
    scan,           \* a HeapScan
    seen, start,    \* what it returned, and the rows when it was created
    flushed,        \* the rows of the last flush_all, if unchanged since
    budget          \* what is left of the bounds

storeVars == <<count, synced, pages, disk>>
scanVars == <<scan, seen, start>>
vars == <<storeVars, state, op, scanVars, flushed, budget>>

PageIds == 0 .. MaxPages - 1
head == 0
Idle == [step |-> "idle"]
opened == state # <<>>
MaxSlots == (PAGE_SIZE - HEADER_SIZE) \div SLOT_SIZE
Ctids == PageIds \X (1 .. MaxSlots)
NoClaim == <<>>

tail == state[Len(state)]
member(c) == c[1] \in Range(state)

(* HeapTable::checked_header: the page is sound, ours and linked as cached. *)
checked_header(id) ==
    LET index == CHOOSE i \in DOMAIN state : state[i] = id IN
    /\ pages[id].sound
    /\ pages[id].owner = head
    /\ pages[id].next = IF index < Len(state) THEN state[index + 1] ELSE None

(* What the handle answers for an address. *)
Answer(c) ==
    IF ~member(c) \/ c[2] > Len(pages[c[1]].rows) THEN Unused
    ELSE IF HasRow(pages[c[1]], c[2]) THEN Row(pages[c[1]], c[2]) ELSE Dead
Rows == [c \in Ctids |-> Answer(c)]
Live == {c \in Ctids : Answer(c) \notin {Unused, Dead}}

Init ==
    /\ count = 0 /\ synced = 0
    /\ pages = [p \in PageIds |-> Blank]
    /\ disk = [p \in PageIds |-> Blank]
    /\ state = <<>>
    /\ op = Idle
    /\ scan = NoScan /\ seen = <<>> /\ start = {}
    /\ flushed = NoClaim
    /\ budget \in Budgets

-----------------------------------------------------------------------------
spend(k) == budget[k] > 0 /\ budget' = [budget EXCEPT ![k] = @ - 1]

write(id, page) == pages' = [pages EXCEPT ![id] = page] /\ UNCHANGED disk

(* BufferPool::new_page and the first write of the page: the store has a   *)
(* zeroed page until the pool writes it back.                              *)
new_page(page) ==
    /\ count < MaxPages
    /\ count' = count + 1
    /\ write(count, page)
    /\ UNCHANGED synced

Create ==
    /\ count = 0 /\ op = Idle
    /\ new_page(Fresh(head))
    /\ state' = <<head>>
    /\ flushed' = NoClaim
    /\ UNCHANGED <<op, scanVars, budget>>

(* Another heap of the pool takes a page for its root. *)
CreateOther ==
    /\ count > 0
    /\ new_page(Fresh(count))
    /\ UNCHANGED <<state, op, scanVars, flushed, budget>>

Insert(t) ==
    /\ opened /\ op = Idle
    /\ check_tuple(t)
    /\ checked_header(tail)
    /\ IF CanInsert(pages[tail], t)
       THEN /\ write(tail, Inserted(pages[tail], t))
            /\ flushed' = NoClaim
            /\ UNCHANGED op
       ELSE /\ op' = [step |-> "allocate", tuple |-> t]
            /\ UNCHANGED <<pages, disk, flushed>>
    /\ spend("changes")
    /\ UNCHANGED <<count, synced, state, scanVars>>

(* The tail is full: a new page with the tuple, not linked yet. *)
InsertAllocate ==
    /\ op.step = "allocate"
    /\ new_page(Inserted(Fresh(head), op.tuple))
    /\ op' = [step |-> "link", page |-> count]
    /\ UNCHANGED <<state, scanVars, flushed, budget>>

(* The old tail is linked to it, then the handle publishes it. *)
InsertLink ==
    /\ op.step = "link"
    /\ checked_header(tail)
    /\ write(tail, Linked(pages[tail], op.page))
    /\ state' = Append(state, op.page)
    /\ op' = Idle
    /\ flushed' = NoClaim
    /\ UNCHANGED <<count, synced, scanVars, budget>>

(* new_page or the second pin of the tail fails; a page may have leaked. *)
InsertFails ==
    /\ op.step \in {"allocate", "link"}
    /\ op' = Idle
    /\ UNCHANGED <<storeVars, state, scanVars, flushed, budget>>

Delete(c) ==
    /\ opened /\ op = Idle
    /\ member(c) /\ checked_header(c[1])
    /\ HasRow(pages[c[1]], c[2])
    /\ write(c[1], Deleted(pages[c[1]], c[2]))
    /\ flushed' = NoClaim
    /\ spend("changes")
    /\ UNCHANGED <<count, synced, state, op, scanVars>>

(* NoSpace leaves the record as it was. *)
Replace(c, t) ==
    /\ opened /\ op = Idle
    /\ check_tuple(t)
    /\ member(c) /\ checked_header(c[1])
    /\ CanReplace(pages[c[1]], c[2], t)
    /\ write(c[1], Replaced(pages[c[1]], c[2], t))
    /\ flushed' = NoClaim
    /\ spend("changes")
    /\ UNCHANGED <<count, synced, state, op, scanVars>>

-----------------------------------------------------------------------------
(* The bounds a scan captures: every page and its number of slots. *)
Bounds == [i \in DOMAIN state |-> <<state[i], Len(pages[state[i]].rows)>>]

Scan ==
    /\ opened /\ op = Idle /\ scan = NoScan
    /\ \A i \in DOMAIN state : checked_header(state[i])
    /\ scan' = [pages |-> Bounds, index |-> 1, rows |-> <<>>, failed |-> FALSE]
    /\ seen' = <<>> /\ start' = Live
    /\ spend("scans")
    /\ UNCHANGED <<storeVars, state, op, flushed>>

Scanning == scan # NoScan /\ ~scan.failed /\ scan.rows = <<>>
                          /\ scan.index <= Len(scan.pages)

(* page::records: the slots in use, in their order, up to the captured     *)
(* bound.                                                                  *)
collect(found, id, k) ==
    IF HasRow(pages[id], k) THEN Append(found, <<id, k>>) ELSE found
records_unbounded(id, slots) ==
    LET found[k \in 0 .. Len(pages[id].rows)] ==
            IF k = 0 THEN <<>> ELSE collect(found[k - 1], id, k)
    IN  found[Len(pages[id].rows)]
records(id, slots) ==
    LET found[k \in 0 .. slots] ==
            IF k = 0 THEN <<>> ELSE collect(found[k - 1], id, k)
    IN  found[slots]

ScanPage ==
    /\ Scanning /\ op = Idle
    /\ LET id == scan.pages[scan.index][1]  slots == scan.pages[scan.index][2]
       IN  /\ member(<<id>>) /\ checked_header(id)
           /\ slots <= Len(pages[id].rows)
           /\ scan' = [scan EXCEPT !.index = @ + 1, !.rows = records(id, slots)]
    /\ UNCHANGED <<storeVars, state, op, seen, start, flushed, budget>>

ScanFails ==
    /\ Scanning /\ op = Idle
    /\ scan' = [scan EXCEPT !.index = @ + 1, !.failed = TRUE]
    /\ UNCHANGED <<storeVars, state, op, seen, start, flushed, budget>>

(* next returns a buffered row, without any lock. *)
ScanNext ==
    /\ scan # NoScan /\ ~scan.failed /\ scan.rows # <<>>
    /\ scan' = [scan EXCEPT !.rows = Tail(@)]
    /\ seen' = Append(seen, Head(scan.rows))
    /\ UNCHANGED <<storeVars, state, op, start, flushed, budget>>

EndScan == scan' = NoScan /\ seen' = <<>> /\ start' = {}

ScanDrop ==
    /\ scan # NoScan
    /\ EndScan
    /\ UNCHANGED <<storeVars, state, op, flushed, budget>>

-----------------------------------------------------------------------------
(* The pool writes a page back, in any order; only a crash makes it seen. *)
WriteBack(p) ==
    /\ disk[p] # pages[p] /\ budget["crashes"] > 0
    /\ disk' = [disk EXCEPT ![p] = pages[p]]
    /\ UNCHANGED <<count, synced, pages, state, op, scanVars, flushed, budget>>

(* flush_all: every page is written back, and the file synced. *)
FlushAllUnsynced ==
    /\ opened /\ op = Idle
    /\ budget["crashes"] > 0
    /\ disk' = pages
    /\ flushed' = Rows
    /\ UNCHANGED <<count, synced, pages, state, op, scanVars, budget>>

FlushAll ==
    /\ opened /\ op = Idle
    /\ budget["crashes"] > 0
    /\ disk' = pages /\ synced' = count
    /\ flushed' = Rows
    /\ UNCHANGED <<count, pages, state, op, scanVars, budget>>

(* The process ends; the file keeps at least the synced pages. *)
Crash ==
    /\ \E n \in synced .. count :
          /\ count' = n /\ synced' = n
          /\ disk' = [p \in PageIds |-> IF p < n THEN disk[p] ELSE Blank]
    /\ pages' = disk'
    /\ state' = <<>> /\ op' = Idle
    /\ EndScan
    /\ spend("crashes")
    /\ UNCHANGED flushed

Open ==
    /\ ~opened /\ op = Idle /\ count > 0
    /\ op' = [step |-> "open", pages |-> <<>>, next |-> head]
    /\ UNCHANGED <<storeVars, state, scanVars, flushed, budget>>

(* The page exists, is sound and ours, and the chain has no cycle. *)
OpenOkUnowned(id) == id \notin Range(op.pages) /\ id < count /\ pages[id].sound
OpenOk(id) ==
    /\ id \notin Range(op.pages)
    /\ id < count /\ pages[id].sound
    /\ pages[id].owner = head

OpenPage ==
    /\ op.step = "open" /\ op.next # None
    /\ OpenOk(op.next)
    /\ op' = [step |-> "open", pages |-> Append(op.pages, op.next),
              next |-> pages[op.next].next]
    /\ UNCHANGED <<storeVars, state, scanVars, flushed, budget>>

(* A damaged chain, or a pin that fails. *)
OpenFails ==
    /\ op.step = "open" /\ op.next # None
    /\ op' = Idle
    /\ UNCHANGED <<storeVars, state, scanVars, flushed, budget>>

OpenEnds ==
    /\ op.step = "open" /\ op.next = None
    /\ state' = op.pages
    /\ op' = Idle
    /\ UNCHANGED <<storeVars, scanVars, flushed, budget>>

Next ==
    \/ Create \/ CreateOther
    \/ \E t \in Tuples : Insert(t)
    \/ InsertAllocate \/ InsertLink \/ InsertFails
    \/ \E c \in Ctids : Delete(c) \/ \E t \in Tuples : Replace(c, t)
    \/ Scan \/ ScanPage \/ ScanFails \/ ScanNext \/ ScanDrop
    \/ \E p \in PageIds : WriteBack(p)
    \/ FlushAll \/ Crash
    \/ Open \/ OpenPage \/ OpenFails \/ OpenEnds

Spec == Init /\ [][Next]_vars

-----------------------------------------------------------------------------
(* Within a session no operation finds its heap corrupt: every page of the *)
(* chain is sound, belongs to the heap and is linked as the handle has it, *)
(* whatever failed or crashed before.                                      *)
ChainIntact == \A i \in DOMAIN state : checked_header(state[i])

(* The handle behaves as the map of HeapMap: insertions take unused        *)
(* addresses, compaction moves no tuple to another address and changes     *)
(* none, failed insertions show nothing, deleted addresses stay dead.      *)
Map == INSTANCE HeapMap WITH
    Tuples <- {t \in Tuples : check_tuple(t)}, rows <- Rows, opened <- opened
MapRefined == Map!MapSpec

(* A scan returns, in the order of the chain and none twice, only rows     *)
(* that existed when it was created; once it has ended without an error,   *)
(* all of those that were not deleted.                                     *)
Before(c, d) ==
    \E i, j \in DOMAIN scan.pages :
        /\ scan.pages[i][1] = c[1] /\ scan.pages[j][1] = d[1]
        /\ i < j \/ (i = j /\ c[2] < d[2])
ScanExact ==
    scan # NoScan =>
        LET out == seen \o scan.rows IN
        /\ \A i, j \in DOMAIN out : i < j => Before(out[i], out[j])
        /\ Range(out) \subseteq start
        /\ scan.index > Len(scan.pages) /\ ~scan.failed =>
              start \intersect Live \subseteq Range(out)

(* What a flush_all of a quiet heap saw is there after a crash: open does  *)
(* not find the chain damaged, and the handle shows the same rows.         *)
FlushedReopens ==
    flushed # NoClaim =>
        /\ opened => Rows = flushed
        /\ op.step = "open" /\ op.next # None => OpenOk(op.next)
=============================================================================
