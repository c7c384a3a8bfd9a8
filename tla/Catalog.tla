------------------------------- MODULE Catalog -------------------------------
(***************************************************************************)
(* crates/catalog/src/lib.rs: the catalog kept in a metadata heap, over    *)
(* pages as SlottedPage has them and records as MetadataCodec writes them. *)
(* create_table holds the entries mutex throughout, but pages are written  *)
(* back, calls fail and the process crashes between its steps.  The        *)
(* handle's cached page chain is the chain in the pool (HeapTable shows    *)
(* that they agree).  Rows of the tables are left out: a table's heap is   *)
(* its root page.                                                          *)
(***************************************************************************)
EXTENDS MetadataCodec

CONSTANTS
    MaxPages,       \* bound on the pages of the store
    Budgets,        \* bounds on what happens in a behaviour
    Declarations,   \* what create_table is asked for, refused ones included
    Records         \* what else can be found in a heap that is opened

ASSUME CatalogAssumption ==
    /\ MaxPages \in Nat
    /\ \A d \in Declarations : DOMAIN d = {"name", "head", "columns", "constraints"}

VARIABLES
    size, synced,   \* pages of the store, and those a crash is sure to keep
    pages, disk,    \* their contents, through the pool and in the store
    root,           \* the root page ID the caller retains
    opened,         \* whether there is a HeapCatalog
    entries,        \* its cache, by name
    op,             \* the metadata create_table is about to publish
    flushed,        \* the entries at the last flush_all, if still current
    budget          \* what is left of the bounds

storeVars == <<size, synced, pages, disk>>
vars == <<storeVars, root, opened, entries, op, flushed, budget>>

PageIds == 0 .. MaxPages - 1
NoEntries == <<>>
Idle == [publishing |-> FALSE]
NoClaim == [made |-> FALSE]

spend(k) == budget[k] > 0 /\ budget' = [budget EXCEPT ![k] = @ - 1]

(* HeapTable::open of a root: the chain of sound pages it owns, or <<>>.   *)
(* No page is visited twice, so one more iteration than pages ends it.     *)
follow(w, head) ==
    IF w.next = None THEN w
    ELSE IF /\ w.next \in 0 .. size - 1 /\ w.next \notin ToSet(w.chain)
            /\ pages[w.next].sound /\ pages[w.next].owner = head
         THEN [chain |-> Append(w.chain, w.next), next |-> pages[w.next].next]
         ELSE [chain |-> <<>>, next |-> None]
heap_open(head) ==
    LET walk[k \in 0 .. size + 1] ==
            IF k = 0 THEN [chain |-> <<>>, next |-> head] ELSE follow(walk[k - 1], head)
    IN  walk[size + 1].chain
scan(chain) ==
    LET rows[k \in 0 .. Len(chain)] ==
            IF k = 0 THEN <<>> ELSE rows[k - 1] \o pages[chain[k]].rows
    IN  rows[Len(chain)]

(* HeapTable::insert into the metadata heap, in the tail or on a new page. *)
insert(head, bytes) ==
    LET chain == heap_open(head)  tail == chain[Len(chain)] IN
    /\ chain # <<>>
    /\ IF CanInsert(pages[tail], bytes)
       THEN pages' = [pages EXCEPT ![tail] = Inserted(@, bytes)] /\ UNCHANGED size
       ELSE /\ size < MaxPages
            /\ size' = size + 1
            /\ pages' = [pages EXCEPT ![size] = Inserted(Fresh(head), bytes),
                                      ![tail] = Linked(@, size)]

(* HeapTable::create. *)
heap_create(page) ==
    /\ size < MaxPages
    /\ size' = size + 1
    /\ pages' = [pages EXCEPT ![size] = page]
    /\ UNCHANGED <<synced, disk>>

(* HeapTable::insert that fails after allocation: the new page has the     *)
(* record, but the tail is not linked to it.                               *)
insert_unlinked(head, bytes) ==
    LET chain == heap_open(head) IN
    /\ chain # <<>> /\ ~CanInsert(pages[chain[Len(chain)]], bytes)
    /\ heap_create(Inserted(Fresh(head), bytes))

Init ==
    /\ size = 0 /\ synced = 0
    /\ pages = [p \in PageIds |-> Blank] /\ disk = pages
    /\ root = None /\ opened = FALSE /\ entries = NoEntries
    /\ op = Idle /\ flushed = NoClaim
    /\ budget \in Budgets

-----------------------------------------------------------------------------
Create ==
    /\ root = None
    /\ heap_create(Inserted(Fresh(size), MANIFEST))
    /\ root' = size /\ opened' = TRUE
    /\ UNCHANGED <<entries, op, flushed, budget>>

(* A page of the pool that is not the catalog's: another heap, or what a   *)
(* create whose manifest could not be inserted leaves.                     *)
CreateOther ==
    /\ spend("others")
    /\ heap_create(Fresh(size))
    /\ UNCHANGED <<root, opened, entries, op, flushed>>

(* create_table up to the creation of the heap.  The record is validated   *)
(* with the head 0 before a page is allocated.                             *)
CreateTable(d) ==
    /\ opened /\ op = Idle
    /\ d.name \notin DOMAIN entries
    /\ encodes([d EXCEPT !.head = 0])
    /\ heap_create(Fresh(size))
    /\ op' = [publishing |-> TRUE, m |-> [d EXCEPT !.head = size]]
    /\ spend("creates")
    /\ UNCHANGED <<root, opened, entries, flushed>>

(* The record goes to the metadata heap, then the entry to the cache. *)
cached(m) ==
    [n \in DOMAIN entries \union {m.name} |-> IF n = m.name THEN m ELSE entries[n]]
PublishPlaceholder ==
    /\ op.publishing /\ encodes(op.m)
    /\ insert(root, encode([op.m EXCEPT !.head = 0]))
    /\ entries' = cached(op.m)
    /\ op' = Idle /\ flushed' = NoClaim
    /\ UNCHANGED <<synced, disk, root, opened, budget>>
Publish ==
    /\ op.publishing /\ encodes(op.m)
    /\ insert(root, encode(op.m))
    /\ entries' = cached(op.m)
    /\ op' = Idle /\ flushed' = NoClaim
    /\ UNCHANGED <<synced, disk, root, opened, budget>>

(* The insertion fails, before or after it allocated a page: the table's   *)
(* heap is orphaned, and nothing is cached.                                *)
PublishFailsCached ==
    /\ op.publishing
    /\ UNCHANGED storeVars \/ (encodes(op.m) /\ insert_unlinked(root, encode(op.m)))
    /\ entries' = cached(op.m)
    /\ op' = Idle
    /\ UNCHANGED <<root, opened, flushed, budget>>
PublishFails ==
    /\ op.publishing
    /\ UNCHANGED storeVars \/ (encodes(op.m) /\ insert_unlinked(root, encode(op.m)))
    /\ op' = Idle
    /\ UNCHANGED <<root, opened, entries, flushed, budget>>

-----------------------------------------------------------------------------
(* HeapCatalog::open.  It goes through the records in order and gives up   *)
(* at the first it refuses; which one that is makes no difference.         *)
Tables(records) == [i \in 1 .. Len(records) - 1 |-> decode(records[i + 1])]
heaps_open_unchecked(tables) == TRUE
heaps_open(tables) == \A t \in ToSet(tables) : heap_open(t.val.head) # <<>>
Opens ==
    LET records == scan(heap_open(root))  tables == Tables(records) IN
    /\ heap_open(root) # <<>>
    /\ records # <<>> /\ records[1] = MANIFEST
    /\ \A t \in ToSet(tables) : t.ok
    /\ NoRepeats([i \in DOMAIN tables |-> tables[i].val.name])
    /\ NoRepeats(<<root>> \o [i \in DOMAIN tables |-> tables[i].val.head])
    /\ heaps_open(tables)
Cache ==
    LET found == {t.val : t \in ToSet(Tables(scan(heap_open(root))))} IN
    [n \in {m.name : m \in found} |-> CHOOSE m \in found : m.name = n]

Open ==
    /\ root # None /\ ~opened
    /\ Opens
    /\ opened' = TRUE /\ entries' = Cache
    /\ UNCHANGED <<storeVars, root, op, flushed, budget>>

(* The handles are dropped; the pool stays. *)
Drop ==
    /\ opened /\ op = Idle
    /\ opened' = FALSE /\ entries' = NoEntries
    /\ UNCHANGED <<storeVars, root, op, flushed, budget>>

(* The heap of the root gets a record that is not from create_table. *)
InsertRecord(bytes) ==
    /\ root # None /\ ~opened
    /\ check_tuple(bytes)
    /\ insert(root, bytes)
    /\ flushed' = NoClaim
    /\ spend("records")
    /\ UNCHANGED <<synced, disk, root, opened, entries, op>>

(* The pool writes a page back; only a crash makes it seen. *)
WriteBack(p) ==
    /\ disk[p] # pages[p] /\ budget["crashes"] > 0
    /\ disk' = [disk EXCEPT ![p] = pages[p]]
    /\ UNCHANGED <<size, synced, pages, root, opened, entries, op, flushed, budget>>

FlushAll ==
    /\ opened /\ op = Idle /\ budget["crashes"] > 0
    /\ disk' = pages /\ synced' = size
    /\ flushed' = [made |-> TRUE, entries |-> entries]
    /\ UNCHANGED <<size, pages, root, opened, entries, op, budget>>

(* The process ends; the file keeps at least the synced pages. *)
Crash ==
    /\ \E n \in synced .. size :
          /\ size' = n /\ synced' = n
          /\ disk' = [p \in PageIds |-> IF p < n THEN disk[p] ELSE Blank]
    /\ pages' = disk'
    /\ opened' = FALSE /\ entries' = NoEntries /\ op' = Idle
    /\ spend("crashes")
    /\ UNCHANGED <<root, flushed>>

Next ==
    \/ Create \/ CreateOther
    \/ \E d \in Declarations : CreateTable(d)
    \/ Publish \/ PublishFails
    \/ Open \/ Drop
    \/ \E r \in Records : InsertRecord(r)
    \/ \E p \in PageIds : WriteBack(p)
    \/ FlushAll \/ Crash

Spec == Init /\ [][Next]_vars

-----------------------------------------------------------------------------
(* The cache is what an open of the metadata heap would find: a failed     *)
(* publication caches nothing, a successful one everything it stored, and  *)
(* the columns, types and constraints survive the way to the heap and back.*)
CacheExact == opened => Opens /\ entries = Cache

(* No two tables share a heap, and none has the heap of the catalog, also  *)
(* when pages were lost in a crash and allocated again.                    *)
RootsDistinct ==
    LET heads == {entries[n].head : n \in DOMAIN entries} IN
    opened =>
        /\ Cardinality(heads) = Cardinality(DOMAIN entries)
        /\ root \notin heads
        /\ op.publishing => op.m.head \notin heads \union {root}

(* Whatever the heap held, an open catalog shows no record that encode     *)
(* would not have written for a valid table: decode takes nothing else.    *)
OpenCanonical ==
    LET records == scan(heap_open(root)) IN
    opened => /\ \A n \in DOMAIN entries : validate(entries[n])
              /\ ToSet(records) =
                    {MANIFEST} \union {encode(entries[n]) : n \in DOMAIN entries}

(* After a flush_all of a quiet catalog a crash loses nothing: open        *)
(* succeeds and finds the same tables at the same roots.                   *)
CatalogReopens ==
    flushed.made => IF opened THEN entries = flushed.entries
                    ELSE Opens /\ Cache = flushed.entries
=============================================================================
