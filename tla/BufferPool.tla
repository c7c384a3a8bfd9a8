----------------------------- MODULE BufferPool -----------------------------
(***************************************************************************)
(* The synchronous buffer pool of crates/storage/src/buffer.rs over a      *)
(* PageStore.  A client is one call sequence on one PinnedBuffer (pin or   *)
(* new_page, read and write callbacks, drop) or one flush_page/flush_all   *)
(* call; a thread with several pins is several clients.                    *)
(*                                                                         *)
(* The locks are held over program regions (they are RAII guards), so the  *)
(* metadata mutex and the content RwLocks are read off the program         *)
(* counters: Metadata, Shared and Exclusive name the regions.  The pin     *)
(* counters are not: they are atomics that Drop changes under no lock, and *)
(* that they agree with the pins that exist is a property.                 *)
(*                                                                         *)
(* The replacement policy is arbitrary here (with_strategy accepts any):   *)
(* it may answer any frame, a frame that does not exist, or None, and may  *)
(* panic.  ClockPool adds the CLOCK policy.                                *)
(***************************************************************************)
EXTENDS PageStore, FiniteSets

CONSTANTS
    Clients,
    Flushers,      \* the clients that call flush_page and flush_all
    Capacity,      \* frames of the pool
    MaxPins,       \* largest pin count (u32::MAX in the code)
    MaxVersion,    \* bound: complete writes of one page
    WritersPanic,  \* whether write callbacks may panic
    PolicyPanics,  \* whether the replacement policy may panic
    Crashes        \* whether the process may end before the model does

ASSUME BufferPoolAssumption ==
    /\ IsFiniteSet(Clients)
    /\ Flushers \subseteq Clients
    /\ Capacity \in Nat \ {0}
    /\ MaxPins \in Nat \ {0}
    /\ MaxVersion \in Nat
    /\ WritersPanic \in BOOLEAN
    /\ PolicyPanics \in BOOLEAN
    /\ Crashes \in BOOLEAN

Frames == 0 .. Capacity - 1
NoFrame == -1
NoPage == -1

(* Bytes a write callback is changing, or left half changed by a panic. *)
Partial == -2

VARIABLES
    pages,         \* State.pages: the frame of each resident page
    tag,           \* BufferDesc.tag: the page of each frame
    pins,          \* BufferDesc.pins
    dirty,         \* BufferDesc.dirty
    bytes,         \* the version each frame's bytes hold
    poisoned,      \* content locks poisoned by a panic of their writer
    metaPoisoned,  \* the metadata mutex, likewise
    pc,            \* where each client is
    frame,         \* its victim or pinned frame (PinnedBuffer.index)
    page,          \* its page (PinnedBuffer.page); NoPage: new_page
    incoming,      \* pin's scratch page
    all,           \* whether its flush is flush_all's
    todo,          \* the pages flush_all has still to flush
    latest,        \* history: the last complete write of each page
    asked,         \* history: latest, when its flush_all took the snapshot
    acked          \* history: what a flush_all that returned Ok promised

descVars == <<tag, pins, dirty, bytes, poisoned>>
flushVars == <<all, todo, asked>>
localVars == <<frame, page, incoming, flushVars>>
clientVars == <<pc, localVars>>
historyVars == <<latest, acked>>
poolVars == <<pages, descVars, metaPoisoned>>
vars == <<storeVars, poolVars, clientVars, historyVars>>

-----------------------------------------------------------------------------
(* Lock regions. *)
Metadata == {"victim", "load", "latch", "evict", "install"}
Replacing == {"latch", "evict", "install"}
Choosing == {"load"} \union Replacing
SharedUntilWritten == {"read", "fwrite"}
Shared == {"read", "fwrite", "fclean"}
Exclusive == {"write", "evict", "install"}
Pinning == {"pinned", "read", "write", "fpinned", "fwrite", "fclean", "fdrop"}
PCs == {"idle", "fnext"} \union Metadata \union Pinning

Holders(f) == {c \in Clients : pc[c] \in Pinning /\ frame[c] = f}
Readers(f) == {c \in Clients : pc[c] \in Shared /\ frame[c] = f}
Writers(f) == {c \in Clients : pc[c] \in Exclusive /\ frame[c] = f}

Writing(f) == \E c \in Clients : pc[c] = "write" /\ frame[c] = f

MetadataFree == ~metaPoisoned /\ \A c \in Clients : pc[c] \notin Metadata

(* check(index): neither the metadata nor the content lock is poisoned. *)
check_metadata(f) == ~metaPoisoned

check(f) == ~metaPoisoned /\ ~poisoned[f]

Resident == {p \in PageIds : pages[p] # NoFrame}
Mapped == Cardinality(Resident)

goto(c, l) == pc' = [pc EXCEPT ![c] = l]

(* A call returns without a pin: the guards it held are dropped. *)
return(c) ==
    /\ goto(c, "idle")
    /\ frame' = [frame EXCEPT ![c] = NoFrame]
    /\ page' = [page EXCEPT ![c] = NoPage]
    /\ incoming' = [incoming EXCEPT ![c] = 0]
    /\ all' = [all EXCEPT ![c] = FALSE]
    /\ todo' = [todo EXCEPT ![c] = {}]
    /\ asked' = [asked EXCEPT ![c] = [p \in PageIds |-> -1]]

(* with_strategy: a pool with no page, and no call in progress. *)
PoolInit ==
    /\ pages = [p \in PageIds |-> NoFrame]
    /\ tag = [f \in Frames |-> NoPage]
    /\ pins = [f \in Frames |-> 0]
    /\ dirty = [f \in Frames |-> FALSE]
    /\ bytes = [f \in Frames |-> 0]
    /\ poisoned = [f \in Frames |-> FALSE]
    /\ metaPoisoned = FALSE
    /\ pc = [c \in Clients |-> "idle"]
    /\ frame = [c \in Clients |-> NoFrame]
    /\ page = [c \in Clients |-> NoPage]
    /\ incoming = [c \in Clients |-> 0]
    /\ all = [c \in Clients |-> FALSE]
    /\ todo = [c \in Clients |-> {}]
    /\ asked = [c \in Clients |-> [p \in PageIds |-> -1]]

Init ==
    /\ StoreInit
    /\ PoolInit
    /\ latest = [p \in PageIds |-> 0]
    /\ acked = [p \in PageIds |-> -1]

-----------------------------------------------------------------------------
(* pin and new_page, which hold the metadata mutex from their first line   *)
(* to their return.                                                        *)

(* resident_pin: the page is resident and its pin counter is not full (a   *)
(* full one is PinOverflow, which changes nothing).                        *)
resident_pin_unchecked(p) == pages[p] # NoFrame

resident_pin(p) ==
    /\ pages[p] # NoFrame
    /\ pins[pages[p]] < MaxPins

(* pin, page resident. *)
PinHit(c, p) ==
    /\ pc[c] = "idle" /\ MetadataFree
    /\ resident_pin(p)
    /\ pins' = [pins EXCEPT ![pages[p]] = @ + 1]
    /\ goto(c, "pinned")
    /\ frame' = [frame EXCEPT ![c] = pages[p]]
    /\ page' = [page EXCEPT ![c] = p]
    /\ UNCHANGED <<storeVars, pages, tag, dirty, bytes, poisoned, metaPoisoned,
                   incoming, flushVars, historyVars>>

PinMiss(c, p) ==
    /\ pc[c] = "idle" /\ MetadataFree
    /\ pages[p] = NoFrame
    /\ goto(c, "victim")
    /\ page' = [page EXCEPT ![c] = p]
    /\ UNCHANGED <<storeVars, poolVars, frame, incoming, flushVars,
                   historyVars>>

NewPage(c) ==
    /\ pc[c] = "idle" /\ MetadataFree
    /\ goto(c, "victim")
    /\ UNCHANGED <<storeVars, poolVars, localVars, historyVars>>

(* State::victim for the frame the policy answers: an unused frame without *)
(* asking the policy, else its answer if it is a frame without pins.       *)
victim_unchecked(f) == Mapped < Capacity => f = Mapped

victim(f) ==
    IF Mapped < Capacity THEN f = Mapped ELSE pins[f] = 0

Victim(c, f) ==
    /\ pc[c] = "victim"
    /\ victim(f)
    /\ check(f)
    /\ goto(c, IF page[c] = NoPage THEN "latch" ELSE "load")
    /\ frame' = [frame EXCEPT ![c] = f]
    /\ UNCHANGED <<storeVars, poolVars, page, incoming, flushVars,
                   historyVars>>

(* AllPinned (the policy answered None), InvalidVictim (it answered a      *)
(* pinned or non-existent frame) or Poisoned (check of a poisoned frame).  *)
VictimFails(c) ==
    /\ pc[c] = "victim"
    /\ Mapped = Capacity
    /\ return(c)
    /\ UNCHANGED <<storeVars, poolVars, historyVars>>

(* The policy panics while the metadata guard is held: victim here, access *)
(* and load below.                                                         *)
VictimPanics(c) ==
    /\ PolicyPanics
    /\ pc[c] = "victim"
    /\ Mapped = Capacity
    /\ metaPoisoned' = TRUE
    /\ return(c)
    /\ UNCHANGED <<storeVars, pages, descVars, historyVars>>

(* The pin of a hit is dropped by the unwinding of access. *)
AccessLeaksPin(c, p) ==
    /\ PolicyPanics
    /\ pc[c] = "idle" /\ MetadataFree
    /\ resident_pin(p)
    /\ pins' = [pins EXCEPT ![pages[p]] = @ + 1]
    /\ metaPoisoned' = TRUE
    /\ UNCHANGED <<storeVars, pages, tag, dirty, bytes, poisoned, clientVars,
                   historyVars>>

AccessPanics(c, p) ==
    /\ PolicyPanics
    /\ pc[c] = "idle" /\ MetadataFree
    /\ resident_pin(p)
    /\ metaPoisoned' = TRUE
    /\ UNCHANGED <<storeVars, pages, descVars, clientVars, historyVars>>

ReadPage(c) ==
    /\ pc[c] = "load"
    /\ allocated(page[c])
    /\ incoming' = [incoming EXCEPT ![c] = read_page(page[c])]
    /\ goto(c, "latch")
    /\ UNCHANGED <<storeVars, poolVars, frame, page, flushVars, historyVars>>

(* An I/O error, or an ID that was never allocated. *)
ReadPageFails(c) ==
    /\ pc[c] = "load"
    /\ return(c)
    /\ UNCHANGED <<storeVars, poolVars, historyVars>>

(* with_victim: the exclusive content lock, waited for under metadata. *)
LatchVictim(c) ==
    /\ pc[c] = "latch"
    /\ Readers(frame[c]) = {} /\ Writers(frame[c]) = {}
    /\ IF check(frame[c])
       THEN goto(c, "evict") /\ UNCHANGED localVars
       ELSE return(c)
    /\ UNCHANGED <<storeVars, poolVars, historyVars>>

(* flush_victim: a dirty victim is written back; its dirty bit stays. *)
DiscardVictim(c) ==
    /\ pc[c] = "evict"
    /\ goto(c, "install")
    /\ UNCHANGED <<storeVars, poolVars, localVars, historyVars>>

FlushVictim(c) ==
    LET f == frame[c] IN
    /\ pc[c] = "evict"
    /\ IF dirty[f] /\ tag[f] # NoPage
       THEN write_page(tag[f], bytes[f])
       ELSE UNCHANGED storeVars
    /\ goto(c, "install")
    /\ UNCHANGED <<poolVars, localVars, historyVars>>

FlushVictimFails(c) ==
    LET f == frame[c] IN
    /\ pc[c] = "evict"
    /\ dirty[f] /\ tag[f] # NoPage
    /\ write_page_fails(tag[f], bytes[f])
    /\ return(c)
    /\ UNCHANGED <<poolVars, historyVars>>

(* State::install: the old page of the frame is unmapped, the new mapped. *)
remap_keeps_old(p, f) == [pages EXCEPT ![p] = f]

remap(p, f) ==
    [q \in PageIds |-> IF q = p THEN f
                       ELSE IF q = tag[f] THEN NoFrame
                       ELSE pages[q]]

(* The rest of the closure (bytes, State::install, clean, one pin) and     *)
(* loaded_pin; a panic of the policy's load drops the pin again.           *)
install(c, p, v) ==
    LET f == frame[c] IN
    /\ bytes' = [bytes EXCEPT ![f] = v]
    /\ pages' = remap(p, f)
    /\ tag' = [tag EXCEPT ![f] = p]
    /\ dirty' = [dirty EXCEPT ![f] = FALSE]
    /\ \/ /\ pins' = [pins EXCEPT ![f] = 1]
          /\ goto(c, "pinned")
          /\ page' = [page EXCEPT ![c] = p]
          /\ incoming' = [incoming EXCEPT ![c] = 0]
          /\ UNCHANGED <<frame, flushVars, metaPoisoned>>
       \/ /\ PolicyPanics
          /\ pins' = [pins EXCEPT ![f] = 0]
          /\ metaPoisoned' = TRUE
          /\ return(c)
    /\ UNCHANGED poisoned

InstallPin(c) ==
    /\ pc[c] = "install" /\ page[c] # NoPage
    /\ install(c, page[c], incoming[c])
    /\ UNCHANGED <<storeVars, historyVars>>

InstallNewPage(c) ==
    /\ pc[c] = "install" /\ page[c] = NoPage
    /\ \E p \in PageIds :
          /\ allocate_page(p)
          /\ install(c, p, 0)
          /\ latest' = [latest EXCEPT ![p] = 0]
    /\ UNCHANGED acked

(* allocate_page fails, or the ID space is exhausted. *)
AllocatePageFails(c) ==
    /\ pc[c] = "install" /\ page[c] = NoPage
    /\ return(c)
    /\ UNCHANGED <<storeVars, poolVars, historyVars>>

-----------------------------------------------------------------------------
(* PinnedBuffer: callbacks under the content lock, no metadata mutex.      *)
(* Access to a poisoned frame is an error that changes nothing.            *)

Read(c) ==
    /\ pc[c] = "pinned"
    /\ Writers(frame[c]) = {}
    /\ check(frame[c])
    /\ goto(c, "read")
    /\ UNCHANGED <<storeVars, poolVars, localVars, historyVars>>

(* The read callback returns or unwinds: a reader poisons nothing. *)
ReadEnds(c) ==
    /\ pc[c] = "read"
    /\ goto(c, "pinned")
    /\ UNCHANGED <<storeVars, poolVars, localVars, historyVars>>

(* The write callback: the page is marked dirty and its bytes change. *)
Write(c) ==
    /\ pc[c] = "pinned"
    /\ latest[page[c]] < MaxVersion
    /\ Writers(frame[c]) = {} /\ Readers(frame[c]) = {}
    /\ check(frame[c])
    /\ dirty' = [dirty EXCEPT ![frame[c]] = TRUE]
    /\ bytes' = [bytes EXCEPT ![frame[c]] = Partial]
    /\ goto(c, "write")
    /\ UNCHANGED <<storeVars, pages, tag, pins, poisoned, metaPoisoned,
                   localVars, historyVars>>

(* It returns with the next version of the page: a callback that changed   *)
(* nothing counts as one too, the page being dirty all the same.           *)
WriteEnds(c) ==
    LET v == IF latest[page[c]] = Torn THEN 1 ELSE latest[page[c]] + 1 IN
    /\ pc[c] = "write"
    /\ bytes' = [bytes EXCEPT ![frame[c]] = v]
    /\ latest' = [latest EXCEPT ![page[c]] = v]
    /\ goto(c, "pinned")
    /\ UNCHANGED <<storeVars, pages, tag, pins, dirty, poisoned, metaPoisoned,
                   localVars, acked>>

(* It unwinds: the guard poisons the content lock; the pin remains until   *)
(* it is dropped.                                                          *)
WritePanics(c) ==
    /\ WritersPanic
    /\ pc[c] = "write"
    /\ poisoned' = [poisoned EXCEPT ![frame[c]] = TRUE]
    /\ goto(c, "pinned")
    /\ UNCHANGED <<storeVars, pages, tag, pins, dirty, bytes, metaPoisoned,
                   localVars, historyVars>>

(* Drop of a PinnedBuffer, under no lock. *)
Drop(c) ==
    /\ pc[c] = "pinned"
    /\ pins' = [pins EXCEPT ![frame[c]] = @ - 1]
    /\ return(c)
    /\ UNCHANGED <<storeVars, pages, tag, dirty, bytes, poisoned, metaPoisoned,
                   historyVars>>

-----------------------------------------------------------------------------
(* flush_page and flush_all. *)

(* resident_pin::<false> under the metadata mutex, which is then released. *)
flush_pin(c, p) ==
    /\ pins' = [pins EXCEPT ![pages[p]] = @ + 1]
    /\ goto(c, "fpinned")
    /\ frame' = [frame EXCEPT ![c] = pages[p]]
    /\ page' = [page EXCEPT ![c] = p]
    /\ UNCHANGED <<storeVars, pages, tag, dirty, bytes, poisoned, metaPoisoned,
                   incoming, all, asked, historyVars>>

(* flush_page(p) called by a client; an absent page or a full pin counter  *)
(* returns at once and changes nothing.                                    *)
FlushPage(c, p) ==
    /\ c \in Flushers
    /\ pc[c] = "idle" /\ MetadataFree
    /\ resident_pin(p)
    /\ flush_pin(c, p)
    /\ UNCHANGED todo

(* flush_all: the snapshot of the resident pages. *)
FlushAll(c) ==
    /\ c \in Flushers
    /\ pc[c] = "idle" /\ MetadataFree
    /\ goto(c, "fnext")
    /\ all' = [all EXCEPT ![c] = TRUE]
    /\ todo' = [todo EXCEPT ![c] = Resident]
    /\ asked' = [asked EXCEPT ![c] =
                    [p \in PageIds |-> IF p < count THEN latest[p] ELSE -1]]
    /\ UNCHANGED <<storeVars, poolVars, frame, page, incoming, historyVars>>

(* The call of flush_page for the next page of the snapshot, in order. *)
next_page(c, p) ==
    /\ pc[c] = "fnext"
    /\ p \in todo[c]
    /\ \A q \in todo[c] : p <= q

FlushNext(c, p) ==
    /\ next_page(c, p) /\ MetadataFree
    /\ resident_pin(p)
    /\ flush_pin(c, p)
    /\ todo' = [todo EXCEPT ![c] = @ \ {p}]

(* The page has been evicted since: flush_page returns false. *)
FlushAbsent(c, p) ==
    /\ next_page(c, p) /\ MetadataFree
    /\ pages[p] = NoFrame
    /\ todo' = [todo EXCEPT ![c] = @ \ {p}]
    /\ UNCHANGED <<storeVars, poolVars, pc, frame, page, incoming, all, asked,
                   historyVars>>

(* state() is poisoned or the pin counter is full: flush_all returns the   *)
(* error, with the later pages unflushed and the store unsynced.           *)
FlushRefused(c, p) ==
    /\ next_page(c, p)
    /\ \/ metaPoisoned
       \/ MetadataFree /\ pages[p] # NoFrame /\ pins[pages[p]] = MaxPins
    /\ return(c)
    /\ UNCHANGED <<storeVars, poolVars, historyVars>>

(* flush_page's pin.read: the shared content lock, then the dirty bit. *)
FlushLatch(c) ==
    LET f == frame[c] IN
    /\ pc[c] = "fpinned"
    /\ Writers(f) = {}
    /\ check(f)
    /\ goto(c, IF dirty[f] THEN "fwrite" ELSE "fdrop")
    /\ UNCHANGED <<storeVars, poolVars, localVars, historyVars>>

(* An error of flush_page ends flush_all: no further page, no sync. *)
flush_continues(c) ==
    /\ goto(c, "fdrop")
    /\ UNCHANGED <<poolVars, localVars, historyVars>>

flush_fails(c) ==
    /\ goto(c, "fdrop")
    /\ all' = [all EXCEPT ![c] = FALSE]
    /\ todo' = [todo EXCEPT ![c] = {}]
    /\ UNCHANGED <<poolVars, frame, page, incoming, asked, historyVars>>

FlushPoisoned(c) ==
    /\ pc[c] = "fpinned"
    /\ Writers(frame[c]) = {}
    /\ ~check(frame[c])
    /\ flush_fails(c)
    /\ UNCHANGED storeVars

FlushWrite(c) ==
    /\ pc[c] = "fwrite"
    /\ write_page(page[c], bytes[frame[c]])
    /\ goto(c, "fclean")
    /\ UNCHANGED <<poolVars, localVars, historyVars>>

FlushWriteErrorIgnored(c) ==
    /\ pc[c] = "fwrite"
    /\ write_page_fails(page[c], bytes[frame[c]])
    /\ goto(c, "fclean")
    /\ UNCHANGED <<poolVars, localVars, historyVars>>

FlushWriteFails(c) ==
    /\ pc[c] = "fwrite"
    /\ write_page_fails(page[c], bytes[frame[c]])
    /\ flush_fails(c)

(* The page is marked clean, the read latch still held; it is released. *)
FlushClean(c) ==
    /\ pc[c] = "fclean"
    /\ dirty' = [dirty EXCEPT ![frame[c]] = FALSE]
    /\ goto(c, "fdrop")
    /\ UNCHANGED <<storeVars, pages, tag, pins, bytes, poisoned, metaPoisoned,
                   localVars, historyVars>>

(* flush_page drops its pin and returns, to flush_all's loop or its caller. *)
FlushDrop(c) ==
    /\ pc[c] = "fdrop"
    /\ pins' = [pins EXCEPT ![frame[c]] = @ - 1]
    /\ IF all[c]
       THEN /\ goto(c, "fnext")
            /\ frame' = [frame EXCEPT ![c] = NoFrame]
            /\ page' = [page EXCEPT ![c] = NoPage]
            /\ UNCHANGED <<incoming, flushVars>>
       ELSE return(c)
    /\ UNCHANGED <<storeVars, pages, tag, dirty, bytes, poisoned, metaPoisoned,
                   historyVars>>

(* Every page is flushed: sync, and flush_all returns Ok. *)
promise(c) ==
    acked' = [p \in PageIds |-> IF asked[c][p] > acked[p] THEN asked[c][p]
                                ELSE acked[p]]

SyncOmitted(c) ==
    /\ pc[c] = "fnext" /\ todo[c] = {}
    /\ promise(c)
    /\ return(c)
    /\ UNCHANGED <<storeVars, poolVars, latest>>

Sync(c) ==
    /\ pc[c] = "fnext" /\ todo[c] = {}
    /\ sync
    /\ promise(c)
    /\ return(c)
    /\ UNCHANGED <<poolVars, latest>>

SyncFails(c) ==
    /\ pc[c] = "fnext" /\ todo[c] = {}
    /\ return(c)
    /\ UNCHANGED <<storeVars, poolVars, historyVars>>

-----------------------------------------------------------------------------
(* The process ends at any point (the pool never flushes when dropped) and *)
(* a new pool is opened on the file.                                       *)
Crash ==
    /\ Crashes
    /\ CrashStore
    /\ pages' = [p \in PageIds |-> NoFrame]
    /\ tag' = [f \in Frames |-> NoPage]
    /\ pins' = [f \in Frames |-> 0]
    /\ dirty' = [f \in Frames |-> FALSE]
    /\ bytes' = [f \in Frames |-> 0]
    /\ poisoned' = [f \in Frames |-> FALSE]
    /\ metaPoisoned' = FALSE
    /\ pc' = [c \in Clients |-> "idle"]
    /\ frame' = [c \in Clients |-> NoFrame]
    /\ page' = [c \in Clients |-> NoPage]
    /\ incoming' = [c \in Clients |-> 0]
    /\ all' = [c \in Clients |-> FALSE]
    /\ todo' = [c \in Clients |-> {}]
    /\ asked' = [c \in Clients |-> [p \in PageIds |-> -1]]
    /\ latest' = store'
    /\ acked' = [p \in PageIds |-> IF p < count' THEN store'[p] ELSE -1]

(* The steps of pin and new_page while they hold the metadata mutex; those *)
(* of LoadStep do not involve the replacement policy.                      *)
LoadStep(c) ==
    \/ ReadPage(c) \/ ReadPageFails(c)
    \/ LatchVictim(c)
    \/ FlushVictim(c) \/ FlushVictimFails(c)
    \/ AllocatePageFails(c)

ReplaceStep(c) ==
    \/ \E f \in Frames : Victim(c, f)
    \/ VictimFails(c) \/ VictimPanics(c)
    \/ LoadStep(c)
    \/ InstallPin(c) \/ InstallNewPage(c)

CallbackStep(c) ==
    \/ Read(c) \/ ReadEnds(c)
    \/ Write(c) \/ WriteEnds(c) \/ WritePanics(c)
    \/ Drop(c)

FlushStep(c) ==
    \/ FlushAll(c)
    \/ \E p \in PageIds : \/ FlushPage(c, p) \/ FlushNext(c, p)
                          \/ FlushAbsent(c, p) \/ FlushRefused(c, p)
    \/ FlushLatch(c) \/ FlushPoisoned(c)
    \/ FlushWrite(c) \/ FlushWriteFails(c)
    \/ FlushClean(c) \/ FlushDrop(c)
    \/ Sync(c) \/ SyncFails(c)

ClientStep(c) ==
    \/ \E p \in PageIds : PinHit(c, p) \/ PinMiss(c, p) \/ AccessPanics(c, p)
    \/ NewPage(c)
    \/ ReplaceStep(c)
    \/ CallbackStep(c)
    \/ FlushStep(c)

Next == Crash \/ \E c \in Clients : ClientStep(c)

Spec == Init /\ [][Next]_vars

(* A thread that holds the metadata mutex keeps running; callbacks of       *)
(* clients may last forever and nobody has to call the pool again.          *)
FairSpec == Spec /\ \A c \in Clients : WF_vars(ReplaceStep(c))

-----------------------------------------------------------------------------
TypeOK ==
    /\ StoreTypeOK
    /\ pages \in [PageIds -> Frames \union {NoFrame}]
    /\ tag \in [Frames -> PageIds \union {NoPage}]
    /\ pins \in [Frames -> 0 .. MaxPins]
    /\ dirty \in [Frames -> BOOLEAN]
    /\ bytes \in [Frames -> Versions \union {Partial}]
    /\ poisoned \in [Frames -> BOOLEAN]
    /\ metaPoisoned \in BOOLEAN
    /\ pc \in [Clients -> PCs]
    /\ frame \in [Clients -> Frames \union {NoFrame}]
    /\ page \in [Clients -> PageIds \union {NoPage}]
    /\ incoming \in [Clients -> Versions]
    /\ all \in [Clients -> BOOLEAN]
    /\ todo \in [Clients -> SUBSET PageIds]
    /\ latest \in [PageIds -> Versions]
    /\ asked \in [Clients -> [PageIds -> Versions]]
    /\ acked \in [PageIds -> Versions]

(* State.pages and the descriptors' tags are inverse to each other, the    *)
(* assigned frames are a dense prefix (State::victim hands out pages.len() *)
(* as the next unused frame), and the frame of a pin keeps the pin's page  *)
(* for as long as the pin lives.                                           *)
MappingConsistent ==
    /\ \A p \in PageIds : pages[p] # NoFrame => tag[pages[p]] = p
    /\ \A f \in Frames : tag[f] # NoPage => pages[tag[f]] = f
    /\ \A f \in Frames : tag[f] # NoPage <=> f < Mapped
    /\ \A c \in Clients : pc[c] \in Pinning => /\ page[c] # NoPage
                                               /\ pages[page[c]] = frame[c]

(* The pin counter of a frame is the number of pins that exist on it, over *)
(* hits, loads, flushes, failed I/O and unwinding: no pin is leaked and    *)
(* none is released twice, which would let a pinned frame be evicted.      *)
PinAccounting ==
    \A f \in Frames : pins[f] = Cardinality(Holders(f))

(* with_victim: from the choice of the victim to the installation of its   *)
(* new page nobody pins, latches or waits for the frame, so its assertion  *)
(* holds and waiting for the latch under the metadata mutex is safe.       *)
VictimExclusive ==
    \A c \in Clients : pc[c] \in Choosing =>
        /\ pins[frame[c]] = 0
        /\ \A d \in Clients \ {c} :
              /\ pc[d] \notin Metadata
              /\ frame[d] # frame[c]

(* A read callback sees the last complete write of the page it pinned,     *)
(* whatever evictions, reloads and flushes happened since that write.      *)
ReadsLatest ==
    \A c \in Clients : pc[c] = "read" => bytes[frame[c]] = latest[page[c]]

(* No complete write is lost: a page that is not resident, or whose frame  *)
(* is clean, is stored in its latest version, and a dirty frame holds it   *)
(* unless a writer is at work on it or panicked there.                     *)
Coherent ==
    /\ \A p \in PageIds :
          p < count /\ pages[p] = NoFrame => store[p] = latest[p]
    /\ \A f \in Frames : tag[f] # NoPage =>
          /\ ~dirty[f] => store[tag[f]] = latest[tag[f]]
          /\ \/ bytes[f] = latest[tag[f]]
             \/ dirty[f] /\ poisoned[f]
             \/ dirty[f] /\ Writing(f)

(* What write_page carries to the store is the last complete write of the  *)
(* page: never an older version, never bytes a writer is changing or left  *)
(* half changed by a panic.  (Torn is a write_page that failed midway.)    *)
NoStaleWriteback ==
    [][\/ Crash
       \/ \A p \in PageIds : p < count =>
              store'[p] \in {store[p], latest[p], Torn}]_vars

(* flush_all returned Ok: every page is durable in the version it had when *)
(* flush_all started or in a later one, also a page that was evicted after *)
(* the snapshot or was not resident.  A later write that failed midway is  *)
(* the only thing that may have replaced it.                               *)
FlushAllDurable ==
    \A p \in PageIds : acked[p] # -1 =>
        /\ p < durableCount
        /\ durable[p] >= acked[p] \/ durable[p] = Torn
        /\ acked[p] = latest[p] => durable[p] = acked[p] /\ store[p] = acked[p]

(* "Quiesce writers for durable close": a page not written since the       *)
(* flush_all that returned Ok is found in that version after a crash.      *)
FlushedSurvivesCrash ==
    [][Crash => \A p \in PageIds : acked[p] # -1 /\ acked[p] = latest[p] =>
                    p < count' /\ store'[p] = acked[p]]_vars

(* The metadata mutex is always released: its holder waits for no read or  *)
(* write callback, even one that never returns.                            *)
MetadataReleased ==
    \A c \in Clients : pc[c] \in Metadata ~> pc[c] \notin Metadata
=============================================================================
