# A verification of ChiliDB in TLA+

ChiliDB (`src/`) is a database under construction. It has a storage stack (page
stores, buffer pool, heap tables, catalog) and a SQL front end (PEG parser
generator, SQL parser, binder, planner over DataFusion, optimizer, executor),
which are not joined yet. The storage stack has the state, the concurrency and
the failures. The front end is sequential and stateless; what is hard about it
is that one statement goes through four representations and must keep its
meaning.

This development models both, checks them with TLC on small instances, and
proves with TLAPS, for every value of the constants, the safety of the buffer
pool with any policy and with CLOCK, of the loading protocol, of heap pages,
heap tables and their scans, and that the tables of a catalog never share a
heap.

## The system

| Part | State | What is hard about it |
|---|---|---|
| Page stores (`storage/src/store.rs`) | page file: length, page bytes | a failed write may tear a page; a crash keeps any mix of synced and unsynced pages |
| Buffer pool (`storage/src/buffer.rs`) | page-to-frame mapping under a metadata mutex; per frame a tag, an atomic pin count, a dirty bit, an RwLock and bytes | pins are dropped under no lock; a latch is awaited under the mutex; flushes run without the mutex; I/O errors and panics at every step |
| Replacement (`storage/src/replacement.rs`) | reference bits and the clock hand | a sweep reads pin counts that fall while it runs |
| Asynchronous loading (`storage/src/models/buffer_pool.rs`) | a Stateright model of a proposed pool: frames, backends, page table | two misses race for a page; a request is cancelled while its read runs; a load or a write-back fails |
| Heap page (`heapam/src/page.rs`) | slot directory and tuples in one page | space accounting at the last byte; stable slot IDs over compaction |
| Heap table (`heapam/src/heap.rs`) | page chain, its cached copy under a mutex, scan cursors | a page is allocated, filled and linked in fallible steps; scans hold no lock between pages; a crash loses a page that is linked |
| Catalog (`catalog/src`) | table records in a heap, cached entries under a mutex | a table's heap and its record are created in two fallible steps; records are decoded from bytes nobody vouches for |
| PEG (`peg/src/lib.rs`) | of a running parser: position, nodes, furthest failure, depth, fuel | nullable repetitions, left recursion, limits that must be fatal everywhere, backtracking |
| Binder, planner (`binder/src`, `planner/src`) | none | name resolution, implicit casts, grouping, windows, generated columns, nullability |
| Optimizer, executor (`optimizer/src`, `executor/src`) | a plan and a pass counter | rules that are not ChiliDB's must not change a statement |

The pool calls its store and its policy; the heap table uses the pool through
pins; the catalog keeps its records in a heap table. The models follow these
layers: each takes the layer below by what that layer's model promises.

## The modules

| Module | Models |
|---|---|
| `PageStore` | `PageStore` and `FilePageStore`, I/O errors, crashes |
| `BufferPool` | `BufferPool`, `PinnedBuffer`, `State`, `BufferDesc`, any replacement policy |
| `ClockPool` | the pool composed with `ClockStrategy` |
| `AsyncLoad` | the loading protocol |
| `SlottedPage` | what a heap page promises: an owner, a link, and rows at fixed slots |
| `HeapPage` | `page.rs` on the cells of a page |
| `HeapMap` | what a heap table promises: a map from CTIDs to tuples |
| `HeapTable` | `heap.rs`, over slotted pages, with failures, scans and crashes |
| `MetadataCodec` | `catalog/src/codec.rs`, records as sequences of cells |
| `Catalog` | `catalog/src/lib.rs`, over slotted pages and that codec |
| `PegGrammar` | grammar text to rules, and their validation |
| `PegMatch` | the generated parser, call by call, and the meaning of a grammar |
| `Binder` | syntax to bound statements |
| `Planner` | bound statements to plans, `ModifyTable`, the statement boundary |
| `QueryMeaning` | what statements and plans mean over small tables |
| `Query` | one statement through binder, planner, optimizer and executor |
| `BufferPoolInvariant`, `BufferPoolSteps`, `BufferPoolProofs` | proofs about `BufferPool` and `ClockPool` |
| `AsyncLoadProofs` | proofs about `AsyncLoad` |
| `SlottedPageLemmas` | induction, sums and the space of rows, shared by the proofs about pages, scans and the catalog |
| `HeapPageProofs` | proofs about `HeapPage` |
| `HeapTableProofs`, `HeapScanProofs` | proofs about `HeapTable`: its chain, its map and its flushes, its scans |
| `CatalogProofs` | proofs about `Catalog` |
| `MC...` | constants and symmetry for TLC |

Some modules define, just before an operation, a variant of it with a plausible
mistake (`OpenOkUnowned`, `PublishFailsCached`). No specification uses these;
replacing the operation by its variant makes TLC find the property violated
that guards it.

### PageStore

`count` is the file length in pages and `store` what read_page returns. Bytes
are abstracted to versions: 0 is the zeroed page, n the n-th complete write,
`Torn` a page that mixes two versions. `write_page_fails` leaves the old version
or a torn page. `durable` and `durableCount` are what the last sync made
certain; `CrashStore` reopens the file with each unsynced page in its synced
version, its unsynced one or torn, and with any part of the unsynced growth.
What the operating system does is external to the code and is modelled from how
`store.rs` uses it. The memory store behaves like a file store without errors
and crashes.

### BufferPool

A client is one sequence of calls on one `PinnedBuffer`, or one flush; a thread
with several pins is several clients. `pages`, `tag`, `pins`, `dirty` and
`bytes` are the fields of `State` and `BufferDesc` and the page array, with
bytes as versions. `Partial` stands for bytes a callback is changing.

The locks are RAII guards held over regions of the code. A region is a set of
program counters (`Metadata`, `Shared`, `Exclusive`), and a lock is free when no
client is in its region. Steps begin and end where another thread could notice:
at lock operations, at store calls, at each atomic another thread reads without
the lock. The pin counters are atomics that `Drop` changes under no lock, so
they are variables, and that they agree with the pins is a property
(`PinAccounting`).

| Code | Actions |
|---|---|
| `pin`, page resident | `PinHit`, `AccessPanics` |
| `pin`, page absent | `PinMiss`, `Victim`, `ReadPage`, `LatchVictim`, `FlushVictim`, `InstallPin` |
| `new_page` | `NewPage`, `Victim`, `LatchVictim`, `FlushVictim`, `InstallNewPage` |
| their errors | `VictimFails`, `VictimPanics`, `ReadPageFails`, `FlushVictimFails`, `AllocatePageFails` |
| `PinnedBuffer::read`, `write`, `drop` | `Read`, `ReadEnds`, `Write`, `WriteEnds`, `WritePanics`, `Drop` |
| `flush_page` | `FlushPage`, `FlushLatch`, `FlushWrite`, `FlushClean`, `FlushDrop`, `FlushPoisoned`, `FlushWriteFails` |
| `flush_all` | `FlushAll`, `FlushNext`, `FlushAbsent`, `FlushRefused`, `Sync`, `SyncFails` |
| end of the process | `Crash` |

The policy is arbitrary, as `with_strategy` allows: it answers any frame, one
that does not exist or None, and it may panic. Two history variables say what
is right: `latest` is the last complete write of each page and `acked` what the
flush_all calls that returned Ok promised.

### ClockPool

The same pool with `ClockStrategy`. A sweep of `victim` is a sequence of
`SkipPinned`, `SecondChance` and `Answer` steps, one per probe, because a pin
may be dropped between any two. Every step of ClockPool is a step of BufferPool
or leaves the pool as it is (`ClockImplementsPool`), so what is proved of
BufferPool holds of it.

### AsyncLoad

The source is itself a model, written for Stateright: `frames`, `backends` and
`page_table` are its fields, and every action of its `next_state` is an action
here, the failing and cancelling ones included. `event` is the ghost field its
own checks read. For each of the six instances of the repository's test TLC
finds exactly the number of states the test asserts (27, 261, 1,273, 13,061,
59,296 and 209,687); the largest is the run. The properties are the source's,
plus the two it states in prose (I/O owns its frame, dirty data is written back
first) as action properties, and one liveness property it does not check.

### SlottedPage and HeapPage

`SlottedPage` says what the rest of the stack may know of a heap page: whether
it is sound, its owner, its link, and for each slot a tuple or nothing. Space is
counted: a page has room for rows whose slots and tuples fit.

`HeapPage` is the code. The header is a record; the rest of the page is an array
of cells in which the slot directory grows up and the tuples grow down, so a
mistake in an offset destroys a neighbour. A slot takes two cells where the code
has two u16, a byte is a cell. `Initialize`, `Insert`, `Delete`, `Replace` and
`SetNext` are the operations, `compact` is part of the ones that call it, and
`PageImplements` shows that the cells implement the abstract page. `get` and
`records` read; they are operators.

### HeapTable and HeapMap

One heap over a pool it shares with others. Operations of a handle exclude each
other by its mutex, so each is one action, except where something else can
happen in between: an insertion that grows the chain is `Insert`,
`InsertAllocate` and `InsertLink`, or `InsertFails` at either point, which leaks
a page as the code does; an open is `Open`, one `OpenPage` per page, `OpenEnds`
or `OpenFails`. A scan captures its bounds (`Scan`), then reads a page under the
mutex (`ScanPage`, `ScanFails`) and returns buffered rows under no lock
(`ScanNext`), with any operation of the handle in between.

The pool is taken by its promise: `pages` are the current contents, `disk` those
of the store. Pages are written back in any order (`WriteBack`), and a crash
keeps the written ones and any length of the file down to the synced one, so a
page that others link to may come back blank or in the hands of another heap
(`CreateOther`).

`HeapMap` is the abstract specification. An address is unused, then holds
tuples, then is dead; one address changes at a time. `MapRefined` instantiates
it with `rows <- Rows`, what `get` would answer for every address.

### Catalog and MetadataCodec

`create_table` validates the record, creates the heap (`CreateTable`), inserts
the record and caches the entry (`Publish`); a failure of the insertion
(`PublishFails`) orphans the heap, and a new metadata page too when it comes
after that page was filled and before it was linked. `Open` decodes all records and opens every
heap. Eviction, crashes and other heaps are as in HeapTable. `InsertRecord` puts
records into the heap that `create_table` did not write, such as every
truncation and single-cell damage of a valid one. The codec is translated field
by field: `encode` builds the cells of a record and `decode` takes them apart,
with the code's checks in the code's order. Rows of the tables are left out.

### PegGrammar and PegMatch

`rules` is the recursive descent over grammar tokens, with its nesting limit;
`validate` computes nullability and the left-call graph and refuses empty
repetitions and left recursion. `PegMatch` interprets the functions the
generator emits: a frame is an active call, and each step calls a function or
returns to one (`CallTerminal`, `CallComposite`, `ReturnToSeq`, `ReturnToChoice`
and so on), with backtracking, error suppression in predicates, and the depth
and work limits (`HitLimit`, `CallLimited`). `Meaning` is the usual denotation of
a PEG, without limits, checkpoints or a stack; it is what the parser is compared
with.

### Binder, Planner, QueryMeaning and Query

`Binder` and `Planner` are operators, one for each function of the code: syntax
to bound tree or error, bound tree to plan or error. Names are strings, numbers
are a form and a magnitude, and the limits of the integer types and of the depth
are constants. DataFusion is external; its nodes appear with what the planner
reads of them (the schema of a node, the type and nullability of an expression,
the constructors that refuse).

`QueryMeaning` is the reference. It gives a statement a meaning straight from
its syntax (scopes, groups, windows, NULL order) and a plan a meaning from its
nodes, over the same definitions of SQL's operators.

`Query` composes them: `Bind`, `Plan`, `BeginOptimize`, `RunRule`, `NextPass`,
`EndOptimize`, `ReturnCommand`, `Execute`. A rule is any of fourteen rewrites:
harmless ones, one that fails, and ones that drop, rename, retype or null an
output, hide a modification beneath a query, change the target of an INSERT,
take away its root, or retype, replace or remove the rows it writes. `Execute`
refuses what is no query and what fails the boundary; physical planning and the
run of the plan may fail on any query, and do on one that scans a table.

## What TLC checks

| Run | Instance | Properties |
|---|---|---|
| `pool_frames` | 3 clients, 3 pages, 2 frames, pin limit 2, panics | `TypeOK`, `MappingConsistent`, `PinAccounting`, `VictimExclusive`, `ReadsLatest` |
| `pool_flush` | 2 clients that also flush, 2 pages, 1 frame, 2 versions, panics | `Coherent`, `NoStaleWriteback` |
| `pool_crash` | 1 client, 1 flusher, 2 pages, 2 frames, crashes | `IInv`, `FlushAllDurable`, `FlushedSurvivesCrash` |
| `pool_progress` | 2 clients, 1 flusher, 2 pages, 1 frame | `MetadataReleased` |
| `clock_sweep` | 3 clients, 3 pages, 2 frames, no writes, crashes | `ClockTypeOK`, `SweepFindsOpenFrame`, `SecondChanceFirst`, `SweepEnds` |
| `clock_contract` | 3 clients, 2 pages, 2 frames | `NoneOnlyIfNoneFound`, violated |
| `async_load` | 3 backends, 2 pages, 2 frames | `TypeOK`, `MappingBijection`, `PinAccounting`, `Ownership`, `WriterExclusive`, `IoOwnsFrame`, `DirtyWrittenBack`, `WaitersServed` |
| `heap_page` | a page of 10 cells after the header, tuples of 0 to 9 cells | `SpaceExact`, `PageImplements` |
| `heap_table` | 3 pages of 6 cells; 4 changes and a crash, or 5 changes and a scan | `ChainIntact`, `ScanExact`, `FlushedReopens`, `MapRefined` |
| `catalog` | 5 pages, 5 declarations; 2 creations and 2 crashes, or a creation and a damaged record | `CacheExact`, `RootsDistinct`, `OpenCanonical`, `CatalogReopens` |
| `peg` | all grammars of two small rules on four inputs; seven deeper ones under ten limits | `TextFaithful`, `ParserProgresses`, `ResultExact`, `TreeWellFormed` |
| `query` | some 7,000 statements over a table of four rows and an empty one, 15 lists of rules | `PlanFaithful`, `BoundPlans`, `BoundaryHolds` |

What the storage runs show: the mapping, the pins and the victims of the pool
stay consistent; a reader sees the last complete write; no complete write is
lost and nothing stale is written back; an Ok of flush_all is durable. A heap
handle is a map with stable addresses, a scan returns the rows it should once
and in order, no failure or crash makes a session find its own chain corrupt,
and flushed rows and tables are found again. The catalog's cache is what a
reopening would find, and no two tables share a heap.

What the front-end runs show: a grammar that validates gives a parser that
always gets on, returns the tree of the grammar's meaning, and reports the
furthest failures; a limit is never turned into a match. A plan returns the rows
that the syntax asks for, with the declared types and nullability; the planner
accepts all that the binder accepts, except trees that the binder's casts have
made too deep, and accepts none of these. `BoundPlans` measures them by a height
of its own, not by `check_depth`. No rule gets another output, target, type or
kind of statement past the boundary. The boundary does not judge a rule's
values, as its documentation says: a rule can replace or remove the rows of an
INSERT (`ChangeInput`, `EmptyInput`), and `BoundaryHolds` then asks only that it
still inserts rows of the table's types into its table. That the statement's own
rows are written is claimed of the rules that keep them, such as the ones that
reorder or prune the columns of the input, which `rebuild` has to follow by name.

### Bounds

Two pages and one frame are enough for every eviction to displace a page
somebody may want back; three pages and two frames let a victim be chosen while
another frame is pinned. A pin limit of 2 with three clients makes PinOverflow
happen. `MaxVersion` tells an old write from a new one; two of them tell a stale
write-back from a lost write. Versions start again from the surviving one after
a crash.

A heap page of ten cells holds up to three rows and has states with exactly
enough and one too few cells, before and after compaction; the tuples include
the empty one, the largest and one too long. Three heap pages make a chain grow
twice, or once while another heap takes a page. The changes, scans and crashes
of a behaviour are bounded by `Budgets`; a run has an initial state for each of
its two budgets, as crashes and scans together give no new case (a crash ends
the scan). In the catalog five pages hold the metadata heap over two pages, two
tables and an orphan.

Grammars of two rules contain every operator applied to every kind of operand,
references to both rules included; the deeper ones nest predicates,
repetitions and choices, and their limits strike at different calls.
`I32_MAX = 4` and `I64_MAX = 7` put the edges of the integer types within reach
of literals, sums and negations, and `MAX_DEPTH = 5` the depth limit within
reach of expressions, above, inside and across aggregates, filters and windows.
Pairs of aggregates and of windows that differ in one part only show that
nothing is shared by mistake. Only statements without a table, INSERTs and name
variations are combined with all lists of rules (`MCInit`), as the boundary
reads no more of a plan than these tell apart.

Clients of one kind are interchangeable, so the safety runs of the pool use
their symmetry; the liveness runs do not.

Deadlock is checked except where the system really stops: where panics are
modelled (once the metadata mutex is poisoned every call fails), where budgets
run out, and in the runs over single inputs, which end.

### Fairness

`FairSpec` of BufferPool and `ClockFairSpec` assume only that a thread holding
the metadata mutex keeps running: weak fairness of its next step, which is
either enabled or waiting for a latch. Callbacks may last forever and nobody has
to call again. Neither `Mutex` nor `RwLock` promises fairness, so nothing is
claimed about a thread that waits for a lock others keep taking; the storage
README says as much of the metadata mutex.

`FairSpec` of AsyncLoad assumes that the I/O of a frame is submitted and
completes, well or badly (weak fairness of `IoStep` for each frame). Backends
may do nothing for ever.

### Refinements

- `ClockPool` implements `BufferPool` (`ClockImplementsPool`, by proof).
- `HeapPage` implements `SlottedPage` (`PageImplements`, by TLC and by proof).
- `HeapTable` implements `HeapMap` (`MapRefined`, by TLC and by proof).
- The generated parser computes `Meaning`, and plans mean what statements mean
  (`ResultExact`, `PlanFaithful`, by TLC over the enumerated inputs).

### A divergence from the documentation

`clock_contract` shows `ClockStrategy::victim` answer None after it found an
eligible buffer. Every frame is pinned and referenced when the sweep begins; the
first round skips them; a pin is dropped; the second round finds the frame
eligible, clears its reference bit and ends in None, and the caller gets
AllPinned. The trait asks for "`None` only if it found no eligible buffer"
(`replacement.rs:8`). What does hold is `SweepFindsOpenFrame`: a frame open when
the sweep begins is always found.

## What is proved

### The buffer pool

`BufferPoolSteps` and `BufferPoolProofs`, for every finite set of clients, every
capacity, pin limit, page space and bound on versions, with or without panics
and crashes:

| Theorem | Statement |
|---|---|
| `Invariance` | `Spec => []IInv` |
| `TypeCorrect`, `MappingCorrect`, `PinsCorrect`, `VictimSafe`, `ReadsCorrect`, `NoLostWrite`, `FlushAllCorrect` | the invariants of the runs |
| `WritebackCurrent`, `FlushedSurvives` | the two action properties |

The assumptions are the named ones of `PageStore` and `BufferPool`: `Clients` is
finite, the capacity, the pin limit and the page space are positive.

Why an invariant of its own. None of the properties is inductive. That a reader
sees the latest version (`ReadsLatest`) rests on `Coherent`, and `Coherent`
survives an eviction only because the version the loader read before it latched
the victim is still the latest when it installs it. That in turn rests on the page
staying absent while the metadata mutex is held, and on the victim having no
pin, hence no latch holder, hence no writer (`with_victim`'s comment in the
code). `IInv` states these facts where each client stands: `Located` (its frame
and page), `VictimKept` (what it chose stays free), `InTransit` (what it read or
wrote is still the latest) and `FlushProgress` (what flush_all has stored so
far), beside the exclusion of both locks.

The argument. The lemmas of `BufferPoolSteps` first classify steps by what they change: a step
that only moves a client (`MoveStep`), one that returns (`ReturnStep`), one that
changes the store only towards the latest version (`MemoryStep`, `CalmStep`,
`QuietStep`), one that takes or releases a pin (`PinTaken`, `PinReleased`). Each
action is then one of these with its own facts. Two needed arguments of their
own: `InstallStep`, where a frame changes its page, and `BytesStep`, where a
callback changes the bytes under its latch.

### CLOCK

In `BufferPoolProofs`, under the same assumptions, for every capacity:

| Theorem | Statement |
|---|---|
| `ClockImplementsPool` | `ClockSpec => Spec` |
| `ClockInvariance` | `ClockSpec => [](SweepInv /\ IInv)` |
| `ClockTypeCorrect`, `SweepCorrect` | `ClockTypeOK`, `SweepFindsOpenFrame` |
| `SecondChanceCorrect` | `SecondChanceFirst`, an action property |

That a sweep without an answer began with every frame pinned takes the history
of the sweep. `Behind(f)` counts the probes since the hand was at `f`. `SweepInv`
says that the sweep is under the metadata mutex and the pool is full, so that an
open frame stays open (a pin needs the mutex, a drop only opens frames); that a
frame that has lost its reference bit since the sweep began has been probed; and
that an open frame that has been probed had its bit at that time, has lost it
and has not been probed again. After twice the capacity every frame has been
probed twice, so there is no such frame.

### The loading protocol

`AsyncLoadProofs`, for any frames and pages and any finite set of backends:

| Theorem | Statement |
|---|---|
| `LoadInvariance` | `Spec => []LoadInv` |
| `TypesKept`, `MappingIsBijective`, `PinsAccounted`, `ReservationsOwned`, `WritersExclude` | the invariants of the run |
| `IoOwnership`, `DirtyPagesWrittenBack` | its two action properties |

The only assumption is `AsyncLoadAssumption`: the set of backends is finite and
`NoFrame` is not a frame. `LoadInv` is the conjunction of the four state
invariants with `WriterAlone`, a form of writer exclusion without cardinalities.
No conjunct is inductive alone: that a completed read may turn the waiters of a
frame into its pins needs that a loading frame has no pin and no owner, and that
a joiner's pin is counted on the right frame needs the mapping. `Quiet` covers
the steps that touch no frame, `JoinStep` the four ways to join a published
page, `AccessStep` the use of a held page; the others are proved on their own.

### The heap page

`HeapPageProofs`, for every page size, any owners and any tuples:

| Theorem | Statement |
|---|---|
| `PageInvariance` | `Spec => []PageInv` |
| `SpaceCorrect` | `Spec => []SpaceExact` |
| `PageRefined` | `Spec => PageImplements` |

The assumptions are `SlottedPageAssumption` (a page has room for more than its
header and a slot) and `HeapPageAssumption` (page IDs are natural numbers, tuples
sequences of integers). `validate` is not inductive: pages that pass it may have
gaps, tuples in any order and anything in the slots of deleted rows. `PageInv`
says that an initialized page is `Canonical` for some rows: the rows fit, and
the page is the one in which the tuple of slot k ends where the tuple of slot
k - 1 begins. `compact` is a loop over the slots; its invariant, by induction on
the number of slots done, is that the page built so far is canonical for a
prefix of the rows (`CompactLoop`), and no tuple it writes reaches the directory
or a tuple written before (`Places`). Every operation is a compaction of changed
rows, so the space checks of the code, which count the used cells, agree with
`Fits`, which counts what each row is charged.

### The heap table

`HeapTableProofs` and `HeapScanProofs`, for any page size, number of pages, set
of tuples and budgets:

| Theorem | Statement |
|---|---|
| `HeapInvariance` | `Spec => []HeapInv` |
| `ChainsIntact` | `Spec => []ChainIntact` |
| `MapImplemented` | `Spec => MapRefined` |
| `FlushSurvives` | `Spec => []FlushedReopens` |
| `ScansExact` | `Spec => []ScanExact` |

The assumptions are those of `SlottedPage`, `HeapTableAssumption` and
`TuplesAssumption` (tuples are sequences, and not the markers of an unused or a
dead address). `HeapInv` says of the cached chain
that its pages exist, are sound and owned, do not repeat and are linked in order
to None. To be inductive it says the same of the pages an open has followed so
far, with the link it goes on with (`OpIsOpen`), and of the page that an
insertion is about to link that it is sound, owned, not yet in the chain, has no
successor and holds the one new tuple (`OpIsLink`). Other heaps preserve it as
they only write pages beyond `count`.

For the refinement, `Held` gives what an address holds from the chain and the
pages alone. Three lemmas cover the steps: `SameRows` (the map does not change),
`OneAddress` (one address changes as `HeapMap` allows), and
`HandleAppears`/`HandleLost`. When an insertion takes a slot beyond the
addresses that are counted, the step is a stutter of the map.

`FlushedReopens` needs to know why a reopening finds what was flushed. `FlushInv`
says that while a flush is current there is a chain (`Kept`) whose pages are
synced, on disk as in the pool, linked from the head to None, and hold the
flushed rows, and that the session, closed, opening or open, is on that chain
(`Session`): an open has followed a prefix of it. Crashes keep synced pages,
evictions write what is there already, other heaps write other pages.

For scans, `ScanInv` relates four things that different steps change: the bounds
a scan captured, the rows that were there then (`start`), the chain as it is
now, and what the scan has returned or buffered (`Out`). The captured pages
are a prefix of the chain and the captured bounds within its pages, whatever is
appended since. No slot within the bounds that was empty at the start is filled
again, because slots are not reused. `Out` is in order, comes from the pages
passed and contains every row of them that is still there. That `records`
returns the live slots of a page up to its bound, in order and each once, is
proved by induction over its loop (`RecordsFound`).

### The catalog

`CatalogProofs`, for any declarations, any records that a heap may hold, any
page size and number of pages:

| Theorem | Statement |
|---|---|
| `RootInvariance` | `Spec => []RootInv` |
| `RootsApart` | `Spec => []RootsDistinct` |

The assumption, beside those of the page, is `CatalogAssumption`: the number of
pages is a natural number and a declaration has the fields of a table's
metadata. `RootInv` says that the cached roots are distinct pages of the store,
none of them the catalog's, and that the table being created has a page and a
name that no cached table has. The case that matters is `Open` after a crash:
`OpenRoots` shows that whatever the records say, an open that succeeds refuses a
root that occurs twice, is the catalog's or is not the root of a heap that
opens. What `decode` returns plays no part in it.

### Induction

Some of these proofs need induction over data: the loops of `compact`,
`records`, `heap_open` and `scan`, and sums over rows. The library's induction
theorems take an operator as a parameter, which the installed provers cannot
instantiate. `SlottedPageLemmas` therefore states induction with sets
(`SetInduction`: a set with zero and the successors of its members contains
`Nat`) and definition by recursion as the existence of a function (`Recursion`),
both proved from the library. For these loops to be within reach they are
recursive functions in the models, as are `SumTo` and the walk of the catalog,
and never recursive operators.

### Only model-checked

- The liveness properties (`MetadataReleased`, `SweepEnds`, `WaitersServed`), as
  fairness is beyond the prover.
- `CacheExact`, `OpenCanonical` and `CatalogReopens` of the catalog. They rest
  on `decode` being the inverse of `encode`, an induction over the columns and
  constraints of a record through two folds.
- The parser and the query pipeline, whose definitions are recursive operators
  over trees.

## Not modelled

- The memory orderings of the atomics: every interleaving is sequentially
  consistent. The pin counter is read with Acquire and written with AcqRel, and
  the dirty bit is only read under a latch.
- `GlobalBufferPool` and `LocalBufferPool`, which are `todo!()`. A callback that
  latches its own page again, and a policy that reenters the pool: the code
  forbids both. The poisoning of a store's own mutex, which no operation under
  it can cause.
- An allocation whose set_len fails is an error that leaves the file as it was.
  After a failed sync the unsynced pages are taken to be still in the file's
  cache.
- Torn pages are modelled in `PageStore` and the pool over it. `HeapTable` and `Catalog` take a
  page's write-back as atomic: the code has no checksum, so nothing can be said
  of the contents of a torn page.
- The SQL parser's translation from parse trees to syntax
  (`parser/src`), one function for each grammar rule: it has no state, and
  without an independent meaning of parse trees a model would only repeat it.
  The matcher it is built on is `PegMatch`; the syntax it returns is where
  `Binder` begins.
- Spelling: which characters make up a number, an identifier or an escape, in
  SQL and in grammars. A number token is well-formed, malformed, infinite or
  fractional.
- DataFusion: its rules, its physical planning and its execution. Plans have the
  meaning their nodes are documented to have, reals are whole numbers, and
  strings are compared but not measured.
- The six-byte encoding of `Ctid` (`common/src/lib.rs`), which only tests call.
- The facade, the examples and the benchmark, which have no behaviour of their
  own.
