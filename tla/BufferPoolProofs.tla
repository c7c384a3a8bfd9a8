-------------------------- MODULE BufferPoolProofs --------------------------
(***************************************************************************)
(* The safety properties of BufferPool, for every number of clients,       *)
(* frames, pages, pins and versions: the inductive invariant IInv          *)
(* (BufferPoolInvariant) is preserved by the steps that replace a page     *)
(* (BufferPoolSteps) and, here, by those of the callbacks, Drop,           *)
(* flush_page and flush_all; the properties follow from it.  Then the      *)
(* CLOCK policy: the pool with the policy implements the pool with an      *)
(* arbitrary one, so each of these theorems holds of it, and a sweep keeps *)
(* its promises although pins are dropped between its probes.              *)
(***************************************************************************)
EXTENDS ClockPool, BufferPoolSteps

USE PageStoreAssumption, BufferPoolAssumption, ZenonT(8), SMTT(20)
USE DEF vars, storeVars, poolVars, descVars, clientVars, localVars, flushVars,
        historyVars, goto, return, NoFrame, NoPage, Torn

-----------------------------------------------------------------------------
(* A page that is resident is pinned by a hit or a flush: nobody replaces  *)
(* a page while the metadata mutex is free.                                *)
LEMMA TakePinStep ==
    ASSUME IInv, NEW c \in Clients, NEW p \in PageIds,
           pc[c] \in {"idle", "fnext"}, MetadataFree, resident_pin(p),
           NEW l \in {"pinned", "fpinned"}, goto(c, l),
           pins' = [pins EXCEPT ![pages[p]] = @ + 1],
           frame' = [frame EXCEPT ![c] = pages[p]],
           page' = [page EXCEPT ![c] = p],
           UNCHANGED <<storeVars, pages, tag, dirty, bytes, poisoned,
                       metaPoisoned, incoming, all, asked, historyVars>>,
           \/ todo' = todo
           \/ l = "fpinned" /\ todo' = [todo EXCEPT ![c] = @ \ {p}]
    PROVE  IInv'
  <1>1. /\ pages[p] \in Frames /\ pins[pages[p]] \in 0 .. MaxPins - 1
        /\ l \in PCs /\ l \in Pinning /\ l \notin Metadata
        /\ l \notin Shared /\ l \notin Exclusive
    BY SMT DEF IInv, TypeOK, resident_pin, PCs, Pinning, Metadata, Shared, Exclusive
  <1>2. TypeOK' /\ Alone(c)
    <2>1. pins' \in [Frames -> 0 .. MaxPins]
      BY <1>1, SMT DEF IInv, TypeOK
    <2>2. todo' \in [Clients -> SUBSET PageIds]
      BY SMTT(40) DEF IInv, TypeOK
    <2>3. TypeOK'
      BY <1>1, <2>1, <2>2 DEF IInv, TypeOK, StoreTypeOK
    <2> QED BY <2>3, SMT DEF Alone, IInv, TypeOK
  <1>3. pc'[c] = l /\ frame'[c] = pages[p] /\ page'[c] = p
    BY DEF IInv, TypeOK
  <1>4. PinAccounting'
    BY <1>1, <1>2, <1>3, PinTaken DEF Pinning
  <1>5. \A d \in Clients : pc[d] \notin Choosing
    BY DEF MetadataFree, Choosing, Replacing, Metadata
  <1>6. Located(c)' /\ VictimKept(c)' /\ InTransit(c)' /\ LockStep(c)
    BY <1>1, <1>3, PinnedPlace
  <1>7. \A q \in PageIds : Passed(c, q)' => Passed(c, q)
    BY <1>3, SMT DEF Passed, IInv, TypeOK
  <1>8. ClientOK(c)'
    BY <1>6, <1>7, StoreKept, FlushKept DEF ClientOK
  <1> QED BY <1>2, <1>3, <1>4, <1>5, <1>6, <1>8, StoreKept, CalmStep

(* pin, flush_page and flush_all take a pin of a resident page alike. *)
LEMMA PinHitStep ==
    ASSUME IInv, NEW c \in Clients, NEW p \in PageIds,
           PinHit(c, p) \/ FlushPage(c, p) \/ FlushNext(c, p)
    PROVE  IInv'
  <1>1. CASE PinHit(c, p)
    BY <1>1, TakePinStep DEF PinHit
  <1>2. CASE FlushPage(c, p)
    BY <1>2, TakePinStep DEF FlushPage, flush_pin
  <1>3. CASE FlushNext(c, p)
    BY <1>3, TakePinStep DEF FlushNext, next_page, flush_pin
  <1> QED BY <1>1, <1>2, <1>3

-----------------------------------------------------------------------------
(* The callbacks and the drop of a pin. *)

(* A read callback starts and ends without changing a frame. *)
LEMMA ReadStep ==
    ASSUME IInv, NEW c \in Clients, Read(c) \/ ReadEnds(c)
    PROVE  IInv'
  <1>0. /\ pc[c] \in {"pinned", "read"}
        /\ UNCHANGED <<storeVars, poolVars, localVars, historyVars>>
    BY DEF Read, ReadEnds
  <1>1. /\ frame[c] \in Frames /\ page[c] \in PageIds
        /\ pages[page[c]] = frame[c]
    BY <1>0, PinFacts DEF Pinning
  <1>2. CASE Read(c)
    <2>1. pc'[c] = "read" /\ goto(c, "read")
      BY <1>2 DEF Read, IInv, TypeOK
    <2>2. \A d \in Clients : frame[d] = frame[c] => pc[d] \notin Exclusive
      BY <1>2 DEF Read, Writers
    <2>3. LockStep(c)
      BY <1>0, <2>1, <2>2 DEF LockStep, Metadata, Exclusive
    <2>4. ~poisoned[frame[c]]
      BY <1>2 DEF Read, check
    <2>5. Located(c)' /\ VictimKept(c)'
      BY <1>0, <1>1, <2>1, <2>4, LatchedPlace
    <2>6. InTransit(c)'
      BY <2>1 DEF InTransit, Replacing
    <2>7. \A q \in PageIds : Passed(c, q)' => Passed(c, q)
      BY <1>0 DEF Passed
    <2> QED BY <1>0, <2>1, <2>3, <2>5, <2>6, <2>7, StoreKept, MoveStep
            DEF Pinning, PCs
  <1>3. CASE ReadEnds(c)
    <2>1. pc'[c] = "pinned" /\ goto(c, "pinned")
      BY <1>3 DEF ReadEnds, IInv, TypeOK
    <2>2. Located(c)' /\ VictimKept(c)' /\ InTransit(c)' /\ LockStep(c)
      BY <1>0, <1>1, <2>1, PinnedPlace
    <2>3. \A q \in PageIds : Passed(c, q)' => Passed(c, q)
      BY <1>0 DEF Passed
    <2> QED BY <1>0, <2>1, <2>2, <2>3, StoreKept, MoveStep DEF Pinning, PCs
  <1> QED BY <1>2, <1>3

(* A step on the bytes or the bits of a pinned frame.  It changes no other *)
(* frame and no other page's version;                                      *)
OnFrame(c) ==
    /\ \A g \in Frames : g # frame[c] => /\ dirty'[g] = dirty[g]
                                         /\ bytes'[g] = bytes[g]
                                         /\ poisoned'[g] = poisoned[g]
    /\ \A q \in PageIds : q # page[c] => latest'[q] = latest[q]

(* only the writer of the frame makes a new version, which follows the     *)
(* older ones, or poisons the lock, and no other client writes to it;      *)
AsWriter(c) ==
    /\ \/ latest' = latest /\ poisoned' = poisoned
       \/ /\ pc[c] = "write"
          /\ latest' = latest \/ latest'[page[c]] > latest[page[c]]
    /\ \A d \in Clients \ {c} : frame[d] = frame[c] => pc[d] # "write"

(* and the frame is coherent after it.                                     *)
FrameCoherent(c) ==
    /\ ~dirty'[frame[c]] => store[page[c]] = latest'[page[c]]
    /\ \/ bytes'[frame[c]] = latest'[page[c]]
       \/ dirty'[frame[c]] /\ poisoned'[frame[c]]
       \/ dirty'[frame[c]] /\ pc'[c] = "write"

(* A holder of the pin that changes only its own frame keeps the invariant. *)
LEMMA BytesStep ==
    ASSUME IInv, NEW c \in Clients, pc[c] \in Pinning \ {"fpinned", "fwrite"},
           NEW l \in Pinning, goto(c, l), LockStep(c), TypeOK',
           UNCHANGED <<storeVars, pages, tag, pins, metaPoisoned, localVars,
                       acked>>,
           OnFrame(c), AsWriter(c), FrameCoherent(c),
           Located(c)', InTransit(c)'
    PROVE  IInv'
  <1> DEFINE f == frame[c]
  <1>1. /\ f \in Frames /\ page[c] \in PageIds /\ pages[page[c]] = f
        /\ tag[f] = page[c] /\ page[c] < count
    BY PinFacts
  <1>2. Alone(c) /\ pc'[c] = l
    BY DEF Alone, IInv, TypeOK
  <1>3. MetadataExclusive' /\ LatchExclusive'
    BY <1>2, LocksKept
  <1>4. PinAccounting'
    BY <1>2, PinsKept
  <1>5. Mapped' = Mapped /\ MappingOK'
    <2>1. Mapped' = Mapped
      BY DEF Resident, Mapped
    <2> QED BY <2>1 DEF IInv, MappingOK
  <1>6. ASSUME NEW q \in PageIds, NEW w \in Versions, w <= latest[q]
        PROVE  /\ w <= latest'[q]
               /\ Stored(q, w) => Stored(q, w)'
               /\ latest'[q] = latest[q] \/ w # latest'[q]
    <2>1. latest[q] \in Int /\ latest'[q] \in Int /\ w \in Int
      BY SMT DEF IInv, TypeOK, Versions
    <2>2. latest'[q] = latest[q] \/ latest'[q] > latest[q]
      BY DEF OnFrame, AsWriter
    <2> QED BY <1>6, <2>1, <2>2, SMT DEF Stored
  <1>7. ASSUME NEW d \in Clients PROVE FlushProgress(d)'
    <2> SUFFICES ASSUME NEW q \in PageIds, NEW w, all[d], asked[d][q] = w,
                        w # -1
                 PROVE  /\ q < count /\ w <= latest'[q]
                        /\ Passed(d, q)' => Stored(q, w)'
      BY DEF FlushProgress, Stored
    <2>1. Passed(d, q)' => Passed(d, q)
      BY <1>2 DEF Passed, Alone
    <2>2. w \in Versions
      BY SMT DEF IInv, TypeOK
    <2>3. /\ q < count /\ w <= latest[q]
          /\ Passed(d, q) => Stored(q, w)
      BY DEF IInv, ClientOK, FlushProgress
    <2> QED BY <1>6, <2>1, <2>2, <2>3
  <1>8. AckedOK' /\ FlushAllDurable'
    <2>1. ASSUME NEW q \in PageIds, acked[q] # -1
          PROVE  /\ Stored(q, acked[q])' /\ Stored(q, acked[q])
                 /\ latest'[q] = latest[q] \/ acked[q] # latest'[q]
      <3>1. Stored(q, acked[q]) /\ acked[q] <= latest[q] /\ acked[q] \in Versions
        BY <2>1 DEF IInv, AckedOK, Stored, TypeOK
      <3>2. ASSUME NEW w, w = acked[q] PROVE Stored(q, w)'
        BY <1>6, <3>1, <3>2
      <3>3. Stored(q, acked[q])'
        BY <3>2 DEF Stored
      <3> QED BY <1>6, <3>1, <3>3
    <2>2. AckedOK'
      BY <2>1 DEF AckedOK
    <2>3. FlushAllDurable'
      BY <2>1 DEF IInv, FlushAllDurable
    <2> QED BY <2>2, <2>3
  <1>9. Coherent'
    <2>1. \A q \in PageIds : q < count /\ pages[q] = NoFrame =>
                store[q] = latest'[q]
      BY <1>1, SMT DEF IInv, Coherent, Frames, OnFrame
    <2>2. ASSUME NEW g \in Frames, g # f, tag[g] # NoPage
          PROVE  /\ ~dirty'[g] => store[tag[g]] = latest'[tag[g]]
                 /\ \/ bytes'[g] = latest'[tag[g]]
                    \/ dirty'[g] /\ poisoned'[g]
                    \/ dirty'[g] /\ Writing(g)'
      <3>1. tag[g] \in PageIds /\ tag[g] # page[c]
        BY <1>1, <2>2, SMT DEF IInv, TypeOK, MappingOK
      <3>2. Writing(g) => Writing(g)'
        BY <1>2, <2>2 DEF Writing, Alone
      <3>3. /\ ~dirty[g] => store[tag[g]] = latest[tag[g]]
            /\ \/ bytes[g] = latest[tag[g]]
               \/ dirty[g] /\ poisoned[g]
               \/ dirty[g] /\ Writing(g)
        BY <2>2 DEF IInv, Coherent
      <3> QED BY <2>2, <3>1, <3>2, <3>3 DEF OnFrame
    <2>3. pc'[c] = "write" => Writing(f)'
      BY DEF Writing
    <2>4. /\ ~dirty'[f] => store[tag[f]] = latest'[tag[f]]
          /\ \/ bytes'[f] = latest'[tag[f]]
             \/ dirty'[f] /\ poisoned'[f]
             \/ dirty'[f] /\ Writing(f)'
      BY <1>1, <2>3 DEF FrameCoherent
    <2> QED BY <2>1, <2>2, <2>4 DEF Coherent
  <1>10. ASSUME NEW d \in Clients \ {c} PROVE ClientOK(d)'
    <2>1. ClientOK(d)
      BY DEF IInv
    <2>2. pc[c] = "write" /\ frame[d] = f => pc[d] \notin Shared \union Exclusive
      BY DEF IInv, LatchExclusive, Exclusive
    <2>3. pc[d] \in Shared \union Exclusive =>
                frame[d] \in Frames /\ poisoned'[frame[d]] = poisoned[frame[d]]
      <3>1. pc[d] \in Shared \union Exclusive => frame[d] \in Frames
        BY <2>1 DEF ClientOK, Located, Shared, Exclusive, IInv, TypeOK
      <3>2. poisoned' = poisoned \/ pc[c] = "write"
        BY DEF AsWriter
      <3> QED BY <2>2, <3>1, <3>2 DEF OnFrame
    <2>4. Located(d)'
      BY <1>2, <2>1, <2>3 DEF ClientOK, Located, Alone
    <2>5. VictimKept(d)'
      BY <1>2, <1>5, <2>1 DEF ClientOK, VictimKept, Alone
    <2>6. InTransit(d)'
      <3>1. pc[d] \in Replacing /\ page[d] # NoPage =>
                page[d] < count /\ incoming[d] = latest'[page[d]]
        <4> SUFFICES ASSUME pc[d] \in Replacing, page[d] # NoPage
                     PROVE  page[d] < count /\ incoming[d] = latest'[page[d]]
          OBVIOUS
        <4>1. page[d] \in PageIds /\ pages[page[d]] = NoFrame
          BY <2>1 DEF ClientOK, VictimKept, Replacing, Metadata, IInv, TypeOK
        <4>2. f # NoFrame
          BY <1>1, SMT DEF Frames
        <4>3. page[d] # page[c]
          BY <1>1, <4>1, <4>2
        <4> QED BY <2>1, <4>1, <4>3 DEF ClientOK, InTransit, OnFrame
      <3>2. pc[d] = "install" /\ tag[frame[d]] # NoPage =>
                store[tag[frame[d]]] = latest'[tag[frame[d]]]
        <4> SUFFICES ASSUME pc[d] = "install", tag[frame[d]] # NoPage
                     PROVE  store[tag[frame[d]]] = latest'[tag[frame[d]]]
          OBVIOUS
        <4>1. frame[d] \in Frames /\ frame[d] # f
          BY VictimFacts DEF Choosing, Replacing
        <4>2. tag[frame[d]] \in PageIds
          BY <4>1 DEF IInv, TypeOK
        <4>3. pages[tag[frame[d]]] = frame[d]
          BY <4>1 DEF IInv, MappingOK
        <4>4. tag[frame[d]] # page[c]
          BY <1>1, <4>1, <4>3
        <4> QED BY <2>1, <4>2, <4>4 DEF ClientOK, InTransit, OnFrame
      <3>3. pc[d] = "fclean" => store[page[d]] = latest'[page[d]]
        <4> SUFFICES ASSUME pc[d] = "fclean"
                     PROVE  store[page[d]] = latest'[page[d]]
          OBVIOUS
        <4>1. page[d] \in PageIds /\ pages[page[d]] = frame[d]
          BY PinFacts DEF Pinning
        <4>2. page[d] # page[c] \/ latest' = latest
          BY <1>1, <2>2, <4>1 DEF Shared, AsWriter
        <4> QED BY <2>1, <4>1, <4>2 DEF ClientOK, InTransit, OnFrame
      <3>4. pc[d] = "write" => dirty'[frame[d]]
        <4> SUFFICES ASSUME pc[d] = "write" PROVE dirty'[frame[d]]
          OBVIOUS
        <4>1. frame[d] \in Frames
          BY PinFacts DEF Pinning
        <4> QED BY <2>1, <4>1 DEF ClientOK, InTransit, OnFrame, AsWriter
      <3> QED BY <1>2, <3>1, <3>2, <3>3, <3>4 DEF InTransit, Alone
    <2> QED BY <1>7, <2>4, <2>5, <2>6 DEF ClientOK
  <1>11. VictimKept(c)'
    BY <1>2 DEF VictimKept, Metadata, Choosing, Replacing, Pinning
  <1>12. ClientOK(c)'
    BY <1>7, <1>11 DEF ClientOK
  <1> QED BY <1>3, <1>4, <1>5, <1>8, <1>9, <1>10, <1>12 DEF IInv

(* A write callback starts: its frame is dirty before the first byte. *)
LEMMA WriteStep ==
    ASSUME IInv, NEW c \in Clients, Write(c)
    PROVE  IInv'
  <1>0. pc[c] = "pinned"
    BY DEF Write
  <1>1. /\ frame[c] \in Frames /\ page[c] \in PageIds
        /\ pages[page[c]] = frame[c]
    BY <1>0, PinFacts DEF Pinning
  <1>2. /\ goto(c, "write")
        /\ UNCHANGED <<storeVars, pages, tag, pins, poisoned, metaPoisoned,
                       localVars, historyVars>>
    BY DEF Write
  <1>3. TypeOK'
    BY <1>1 DEF Write, IInv, TypeOK, StoreTypeOK, PCs, Pinning
  <1>4. pc'[c] = "write" /\ dirty'[frame[c]] = TRUE /\ ~poisoned[frame[c]]
    BY <1>1 DEF Write, check, IInv, TypeOK
  <1>5. \A d \in Clients : frame[d] = frame[c] =>
                           pc[d] \notin Shared \union Exclusive
    BY DEF Write, Readers, Writers
  <1>6. OnFrame(c) /\ AsWriter(c) /\ FrameCoherent(c)
    BY <1>1, <1>2, <1>4, <1>5 DEF Write, OnFrame, AsWriter, FrameCoherent,
                                  IInv, TypeOK, Exclusive
  <1>7. LockStep(c)
    BY <1>2, <1>4, <1>5 DEF LockStep, Metadata, Shared
  <1>8. Located(c)'
    BY <1>1, <1>2, <1>4, LatchedPlace
  <1>9. InTransit(c)'
    BY <1>2, <1>4 DEF InTransit, Replacing
  <1> QED BY <1>0, <1>2, <1>3, <1>6, <1>7, <1>8, <1>9, BytesStep DEF Pinning

(* A write callback ends: its frame holds the page's new version. *)
LEMMA WriteEndsStep ==
    ASSUME IInv, NEW c \in Clients, WriteEnds(c)
    PROVE  IInv'
  <1> DEFINE v == IF latest[page[c]] = Torn THEN 1 ELSE latest[page[c]] + 1
  <1>0. pc[c] = "write"
    BY DEF WriteEnds
  <1>1. /\ frame[c] \in Frames /\ page[c] \in PageIds
        /\ pages[page[c]] = frame[c]
    BY <1>0, PinFacts DEF Pinning
  <1>2. v \in Versions /\ v > latest[page[c]]
    <2>1. latest[page[c]] \in Versions
      BY <1>1 DEF IInv, TypeOK
    <2> QED BY <2>1, SMT DEF Versions
  <1>3. /\ bytes' = [bytes EXCEPT ![frame[c]] = v]
        /\ latest' = [latest EXCEPT ![page[c]] = v]
        /\ goto(c, "pinned")
        /\ UNCHANGED <<storeVars, pages, tag, pins, dirty, poisoned,
                       metaPoisoned, localVars, acked>>
    BY DEF WriteEnds
  <1> HIDE DEF v
  <1>4. TypeOK'
    BY <1>1, <1>2, <1>3 DEF IInv, TypeOK, StoreTypeOK, PCs, Pinning
  <1>5. pc'[c] = "pinned"
    BY <1>3 DEF IInv, TypeOK
  <1>6. dirty[frame[c]]
    BY <1>0 DEF IInv, ClientOK, InTransit
  <1>7. \A d \in Clients \ {c} : frame[d] = frame[c] => pc[d] # "write"
    BY <1>0 DEF IInv, LatchExclusive, Exclusive
  <1>8. OnFrame(c) /\ AsWriter(c) /\ FrameCoherent(c)
    BY <1>0, <1>1, <1>2, <1>3, <1>6, <1>7
       DEF OnFrame, AsWriter, FrameCoherent, IInv, TypeOK
  <1>9. Located(c)' /\ InTransit(c)' /\ LockStep(c)
    BY <1>1, <1>3, <1>5, PinnedPlace
  <1> QED BY <1>0, <1>3, <1>4, <1>8, <1>9, BytesStep DEF Pinning

(* A write callback panics: its frame is poisoned and stays dirty. *)
LEMMA WritePanicsStep ==
    ASSUME IInv, NEW c \in Clients, WritePanics(c)
    PROVE  IInv'
  <1>0. /\ pc[c] = "write" /\ goto(c, "pinned")
        /\ poisoned' = [poisoned EXCEPT ![frame[c]] = TRUE]
        /\ UNCHANGED <<storeVars, pages, tag, pins, dirty, bytes, metaPoisoned,
                       localVars, historyVars>>
    BY DEF WritePanics
  <1>1. /\ frame[c] \in Frames /\ page[c] \in PageIds
        /\ pages[page[c]] = frame[c]
    BY <1>0, PinFacts DEF Pinning
  <1>2. TypeOK'
    BY <1>0 DEF IInv, TypeOK, StoreTypeOK, PCs, Pinning
  <1>3. pc'[c] = "pinned"
    BY <1>0 DEF IInv, TypeOK
  <1>4. dirty[frame[c]]
    BY <1>0 DEF IInv, ClientOK, InTransit
  <1>5. \A d \in Clients \ {c} : frame[d] = frame[c] => pc[d] # "write"
    BY <1>0 DEF IInv, LatchExclusive, Exclusive
  <1>6. OnFrame(c) /\ AsWriter(c) /\ FrameCoherent(c)
    BY <1>0, <1>1, <1>4, <1>5 DEF OnFrame, AsWriter, FrameCoherent, IInv, TypeOK
  <1>7. Located(c)' /\ InTransit(c)' /\ LockStep(c)
    BY <1>0, <1>1, <1>3, PinnedPlace
  <1> QED BY <1>0, <1>2, <1>6, <1>7, BytesStep DEF Pinning

(* The frame is marked clean while its version is the stored one: the read *)
(* latch kept writers out since write_page.                                *)
LEMMA FlushCleanStep ==
    ASSUME IInv, NEW c \in Clients, FlushClean(c)
    PROVE  IInv'
  <1>0. /\ pc[c] = "fclean" /\ goto(c, "fdrop")
        /\ dirty' = [dirty EXCEPT ![frame[c]] = FALSE]
        /\ UNCHANGED <<storeVars, pages, tag, pins, bytes, poisoned,
                       metaPoisoned, localVars, historyVars>>
    BY DEF FlushClean
  <1>1. /\ frame[c] \in Frames /\ page[c] \in PageIds
        /\ tag[frame[c]] = page[c] /\ pages[page[c]] = frame[c]
    BY <1>0, PinFacts DEF Pinning
  <1>2. TypeOK'
    BY <1>0 DEF IInv, TypeOK, StoreTypeOK, PCs, Pinning
  <1>3. pc'[c] = "fdrop"
    BY <1>0 DEF IInv, TypeOK
  <1>4. bytes[frame[c]] = latest[page[c]] /\ store[page[c]] = latest[page[c]]
    <2>1. page[c] # NoPage /\ pc[c] \in Shared
      BY <1>0, <1>1, SMT DEF Shared, PageIds
    <2>2. bytes[frame[c]] = latest[page[c]]
      BY <1>1, <2>1, LatchFacts
    <2> QED BY <1>0, <2>2 DEF IInv, ClientOK, InTransit
  <1>5. \A d \in Clients \ {c} : frame[d] = frame[c] => pc[d] # "write"
    BY <1>0 DEF IInv, LatchExclusive, Exclusive, Shared
  <1>6. OnFrame(c) /\ AsWriter(c) /\ FrameCoherent(c)
    BY <1>0, <1>1, <1>4, <1>5 DEF OnFrame, AsWriter, FrameCoherent, IInv, TypeOK
  <1>7. Located(c)' /\ InTransit(c)' /\ LockStep(c)
    BY <1>0, <1>1, <1>3, PinnedPlace
  <1> QED BY <1>0, <1>2, <1>6, <1>7, BytesStep DEF Pinning

(* Drop of a PinnedBuffer, by its client or at the end of flush_page. *)
LEMMA DropStep ==
    ASSUME IInv, NEW c \in Clients, Drop(c) \/ FlushDrop(c)
    PROVE  IInv'
  <1>0. /\ pc[c] \in {"pinned", "fdrop"}
        /\ pins' = [pins EXCEPT ![frame[c]] = pins[frame[c]] - 1]
        /\ UNCHANGED <<storeVars, pages, tag, dirty, bytes, poisoned,
                       metaPoisoned, historyVars>>
    BY DEF Drop, FlushDrop
  <1>1. \/ return(c)
        \/ /\ all[c] /\ goto(c, "fnext") /\ UNCHANGED <<incoming, flushVars>>
           /\ frame' = [frame EXCEPT ![c] = NoFrame]
           /\ page' = [page EXCEPT ![c] = NoPage]
    BY DEF Drop, FlushDrop
  <1>2. /\ pc'[c] \in {"idle", "fnext"}
        /\ frame'[c] = NoFrame /\ page'[c] = NoPage
        /\ all'[c] => /\ all[c] /\ asked'[c] = asked[c]
                      /\ todo'[c] = todo[c] /\ pc'[c] = "fnext"
        /\ pc'[c] = "fnext" => all'[c]
    BY <1>1, SMTT(40) DEF IInv, TypeOK
  <1>3. Alone(c)
    BY <1>1, SMTT(40) DEF Alone, IInv, TypeOK
  <1>4. frame[c] \in Frames /\ pins[frame[c]] \in 1 .. MaxPins
    BY <1>0, PinFacts DEF Pinning
  <1>5. TypeOK'
    <2>1. pins' \in [Frames -> 0 .. MaxPins]
      BY <1>0, <1>4, SMTT(40) DEF IInv, TypeOK
    <2>2. CASE return(c)
      BY <1>0, <2>1, <2>2 DEF IInv, TypeOK, StoreTypeOK, PCs, Versions
    <2>3. CASE /\ all[c] /\ goto(c, "fnext") /\ UNCHANGED <<incoming, flushVars>>
               /\ frame' = [frame EXCEPT ![c] = NoFrame]
               /\ page' = [page EXCEPT ![c] = NoPage]
      BY <1>0, <2>1, <2>3 DEF IInv, TypeOK, StoreTypeOK, PCs
    <2> QED BY <1>1, <2>2, <2>3
  <1>6. PinAccounting'
    BY <1>0, <1>2, <1>3, <1>4, PinReleased DEF Pinning
  <1>7. \A d \in Clients \ {c} : pc[d] \in Choosing => pins'[frame[d]] = 0
    <2> SUFFICES ASSUME NEW d \in Clients \ {c}, pc[d] \in Choosing
                 PROVE  pins'[frame[d]] = 0
      OBVIOUS
    <2>1. frame[d] \in Frames /\ pins[frame[d]] = 0 /\ frame[c] # frame[d]
      BY VictimFacts
    <2> QED BY <1>0, <2>1 DEF IInv, TypeOK
  <1>8. LockStep(c)
    BY <1>2, UnpinnedPlace
  <1>9. Located(c)' /\ VictimKept(c)' /\ InTransit(c)'
    BY <1>2, UnpinnedPlace
  <1>10. FlushProgress(c)'
    <2>1. CASE all'[c]
      <3>1. \A q \in PageIds : Passed(c, q)' => Passed(c, q)
        BY <1>0, <1>2, <2>1 DEF Passed
      <3> QED BY <1>0, <1>2, <2>1, <3>1, StoreKept, FlushKept
    <2>2. CASE ~all'[c]
      BY <2>2 DEF FlushProgress
    <2> QED BY <2>1, <2>2
  <1>11. ClientOK(c)'
    BY <1>9, <1>10 DEF ClientOK
  <1> QED BY <1>0, <1>2, <1>3, <1>5, <1>6, <1>7, <1>8, <1>11, StoreKept,
             CalmStep

-----------------------------------------------------------------------------
(* flush_page and flush_all. *)

(* A flush latches its page for reading and finds it dirty or clean. *)
LEMMA FlushLatchStep ==
    ASSUME IInv, NEW c \in Clients, FlushLatch(c)
    PROVE  IInv'
  <1>0. /\ pc[c] = "fpinned"
        /\ UNCHANGED <<storeVars, poolVars, localVars, historyVars>>
    BY DEF FlushLatch
  <1>1. /\ frame[c] \in Frames /\ page[c] \in PageIds
        /\ pages[page[c]] = frame[c] /\ tag[frame[c]] = page[c]
    BY <1>0, PinFacts DEF Pinning
  <1>2. page[c] # NoPage /\ page[c] # NoFrame
    BY <1>1, SMTT(40) DEF PageIds
  <1>3. CASE dirty[frame[c]]
    <2>1. goto(c, "fwrite") /\ pc'[c] = "fwrite"
      BY <1>3 DEF FlushLatch, IInv, TypeOK
    <2>2. \A d \in Clients : frame[d] = frame[c] => pc[d] \notin Exclusive
      BY DEF FlushLatch, Writers
    <2>3. LockStep(c)
      BY <1>0, <2>1, <2>2 DEF LockStep, Metadata, Exclusive
    <2>4. ~poisoned[frame[c]]
      BY DEF FlushLatch, check
    <2>5. Located(c)' /\ VictimKept(c)'
      BY <1>0, <1>1, <2>1, <2>4, LatchedPlace
    <2>6. InTransit(c)'
      BY <2>1 DEF InTransit, Replacing
    <2>7. \A q \in PageIds : Passed(c, q)' => Passed(c, q)
      BY <1>0, <2>1 DEF Passed
    <2> QED BY <1>0, <2>1, <2>3, <2>5, <2>6, <2>7, StoreKept, MoveStep
            DEF Pinning, PCs
  <1>4. CASE ~dirty[frame[c]]
    <2>1. goto(c, "fdrop") /\ pc'[c] = "fdrop"
      BY <1>4 DEF FlushLatch, IInv, TypeOK
    <2>2. Located(c)' /\ VictimKept(c)' /\ InTransit(c)' /\ LockStep(c)
      BY <1>0, <1>1, <2>1, PinnedPlace
    <2>3. store[page[c]] = latest[page[c]]
      BY <1>1, <1>2, <1>4 DEF IInv, Coherent
    <2>4. \A q \in PageIds : Passed(c, q)' => Passed(c, q) \/ store'[q] = latest[q]
      BY <1>0, <2>3 DEF Passed
    <2> QED BY <1>0, <2>1, <2>2, <2>4, StoreKept, MoveStep DEF Pinning, PCs
  <1> QED BY <1>3, <1>4

(* What flush_page writes is the latest version of its page. *)
LEMMA FlushWriteStep ==
    ASSUME IInv, NEW c \in Clients, FlushWrite(c)
    PROVE  IInv'
  <1>0. /\ pc[c] = "fwrite" /\ goto(c, "fclean")
        /\ store' = [store EXCEPT ![page[c]] = bytes[frame[c]]]
        /\ UNCHANGED <<count, durableCount, durable, poolVars, localVars,
                       historyVars>>
    BY DEF FlushWrite, write_page
  <1>1. /\ frame[c] \in Frames /\ page[c] \in PageIds
        /\ pages[page[c]] = frame[c] /\ tag[frame[c]] = page[c]
    BY <1>0, PinFacts DEF Pinning
  <1>2. bytes[frame[c]] = latest[page[c]] /\ latest[page[c]] \in Versions
    <2>1. page[c] # NoPage /\ pc[c] \in Shared
      BY <1>0, <1>1, SMT DEF Shared, PageIds
    <2>2. bytes[frame[c]] = latest[page[c]]
      BY <1>1, <2>1, LatchFacts
    <2> QED BY <1>1, <2>2 DEF IInv, TypeOK
  <1>3. Settles /\ StoreTypeOK' /\ store'[page[c]] = latest[page[c]]
    BY <1>0, <1>1, <1>2 DEF Settles, IInv, TypeOK, StoreTypeOK
  <1>4. pc'[c] = "fclean"
    BY <1>0 DEF IInv, TypeOK
  <1>5. \A d \in Clients \ {c} : frame[d] = frame[c] => pc[d] \notin Exclusive
    BY <1>0 DEF IInv, LatchExclusive, Shared
  <1>6. LockStep(c)
    BY <1>0, <1>4, <1>5 DEF LockStep, Metadata, Exclusive
  <1>7. ~poisoned[frame[c]]
    BY <1>0 DEF IInv, ClientOK, Located, Shared
  <1>8. Located(c)' /\ VictimKept(c)'
    BY <1>0, <1>1, <1>4, <1>7, LatchedPlace
  <1>9. InTransit(c)'
    BY <1>0, <1>3, <1>4 DEF InTransit, Replacing
  <1>10. \A q \in PageIds : Passed(c, q)' => Passed(c, q) \/ store'[q] = latest[q]
    BY <1>0, <1>3 DEF Passed
  <1> QED BY <1>0, <1>3, <1>6, <1>8, <1>9, <1>10, MoveStep DEF Pinning, PCs

(* An error of flush_page: the page stays dirty, flush_all gives up. *)
LEMMA FlushFailsStep ==
    ASSUME IInv, NEW c \in Clients, FlushPoisoned(c) \/ FlushWriteFails(c)
    PROVE  IInv'
  <1>0. pc[c] \in {"fpinned", "fwrite"} /\ flush_fails(c)
    BY DEF FlushPoisoned, FlushWriteFails
  <1>1. /\ frame[c] \in Frames /\ page[c] \in PageIds
        /\ pages[page[c]] = frame[c] /\ tag[frame[c]] = page[c]
    BY <1>0, PinFacts DEF Pinning
  <1>2. /\ Settles /\ StoreTypeOK'
        /\ UNCHANGED <<count, durableCount, durable>>
    <2>1. CASE FlushPoisoned(c)
      BY <2>1, StoreKept DEF FlushPoisoned
    <2>2. CASE FlushWriteFails(c)
      <3>1. page[c] # NoPage /\ pc[c] \in Shared
        BY <1>1, <2>2, SMTT(40) DEF FlushWriteFails, Shared, PageIds
      <3>2. bytes[frame[c]] = latest[page[c]]
        BY <1>1, <3>1, LatchFacts
      <3> QED BY <1>1, <2>2, <3>2 DEF FlushWriteFails, write_page_fails,
                      Settles, IInv, TypeOK, StoreTypeOK, Versions
    <2> QED BY <2>1, <2>2
  <1>3. TypeOK' /\ Alone(c)
    BY <1>0, <1>2 DEF flush_fails, Alone, IInv, TypeOK, PCs, Pinning
  <1>4. /\ pc'[c] = "fdrop" /\ all'[c] = FALSE
        /\ UNCHANGED <<poolVars, frame, page, historyVars>>
    BY <1>0 DEF flush_fails, IInv, TypeOK
  <1>5. Located(c)' /\ VictimKept(c)' /\ InTransit(c)' /\ LockStep(c)
    BY <1>1, <1>4, PinnedPlace
  <1>6. ClientOK(c)'
    BY <1>4, <1>5 DEF ClientOK, FlushProgress
  <1> QED BY <1>0, <1>2, <1>3, <1>4, <1>5, <1>6, QuietStep DEF Pinning

(* The pages flush_all does not see in its snapshot are stored already. *)
LEMMA FlushAllStep ==
    ASSUME IInv, NEW c \in Clients, FlushAll(c)
    PROVE  IInv'
  <1> USE DEF FlushAll
  <1>1. TypeOK' /\ Alone(c)
    <2>1. asked' \in [Clients -> [PageIds -> Versions]]
      BY DEF IInv, TypeOK, Versions
    <2>2. todo' \in [Clients -> SUBSET PageIds]
      BY DEF IInv, TypeOK, Resident
    <2> QED BY <2>1, <2>2 DEF Alone, IInv, TypeOK, StoreTypeOK, PCs
  <1>2. /\ pc[c] = "idle" /\ pc'[c] = "fnext" /\ todo'[c] = Resident
        /\ all'[c]
        /\ asked'[c] = [p \in PageIds |-> IF p < count THEN latest[p] ELSE -1]
        /\ UNCHANGED <<storeVars, poolVars, frame, page, incoming, historyVars>>
    BY DEF IInv, TypeOK
  <1>3. frame[c] = NoFrame /\ page[c] = NoPage
    BY <1>2 DEF IInv, ClientOK, Located
  <1>4. Located(c)' /\ VictimKept(c)' /\ InTransit(c)' /\ LockStep(c)
    BY <1>2, <1>3, UnpinnedPlace
  <1>5. FlushProgress(c)'
    <2> SUFFICES ASSUME NEW p \in PageIds, asked'[c][p] # -1
                 PROVE  /\ p < count /\ asked'[c][p] <= latest[p]
                        /\ Passed(c, p)' => Stored(p, asked[c][p])'
      BY <1>2 DEF FlushProgress
    <2>1. p < count /\ asked'[c][p] = latest[p] /\ latest[p] \in Int
      BY <1>2, SMTT(40) DEF IInv, TypeOK, Versions
    <2>2. Passed(c, p)' => store[p] = latest[p]
      BY <1>2, <2>1 DEF Passed, Resident, IInv, Coherent
    <2> QED BY <1>2, <2>1, <2>2, SMT DEF Stored
  <1>6. ClientOK(c)'
    BY <1>4, <1>5 DEF ClientOK
  <1> QED BY <1>1, <1>2, <1>4, <1>6, StoreKept, QuietStep DEF Pinning

(* A page evicted since the snapshot was written back by its eviction. *)
LEMMA FlushAbsentStep ==
    ASSUME IInv, NEW c \in Clients, NEW p \in PageIds, FlushAbsent(c, p)
    PROVE  IInv'
  <1>0. /\ pc[c] = "fnext" /\ pages[p] = NoFrame
        /\ todo' = [todo EXCEPT ![c] = @ \ {p}]
        /\ UNCHANGED <<storeVars, poolVars, pc, frame, page, incoming, all,
                       asked, historyVars>>
    BY DEF FlushAbsent, next_page
  <1>1. TypeOK' /\ Alone(c)
    BY <1>0 DEF Alone, IInv, TypeOK, StoreTypeOK
  <1>2. ClientOK(c)
    BY DEF IInv
  <1>3. frame[c] = NoFrame /\ page[c] = NoPage /\ all[c]
    BY <1>0, <1>2 DEF ClientOK, Located
  <1>4. Located(c)' /\ VictimKept(c)' /\ InTransit(c)' /\ LockStep(c)
    BY <1>0, <1>3, UnpinnedPlace
  <1>5. FlushProgress(c)'
    <2> SUFFICES ASSUME NEW q \in PageIds, all[c], asked[c][q] # -1
                 PROVE  /\ q < count /\ asked[c][q] <= latest[q]
                        /\ Passed(c, q)' => Stored(q, asked[c][q])
      BY <1>0 DEF FlushProgress, Stored
    <2>1. /\ q < count /\ asked[c][q] <= latest[q]
          /\ Passed(c, q) => Stored(q, asked[c][q])
      BY <1>2 DEF ClientOK, FlushProgress
    <2>2. q # p => (Passed(c, q)' => Passed(c, q))
      BY <1>0 DEF Passed, IInv, TypeOK
    <2>3. q = p => store[q] = latest[q]
      BY <1>0, <2>1 DEF IInv, Coherent
    <2>4. latest[q] \in Int /\ asked[c][q] \in Int
      BY SMTT(40) DEF IInv, TypeOK, Versions
    <2> QED BY <2>1, <2>2, <2>3, <2>4 DEF Stored
  <1>6. ClientOK(c)'
    BY <1>4, <1>5 DEF ClientOK
  <1> QED BY <1>0, <1>1, <1>4, <1>6, StoreKept, QuietStep

(* flush_all has passed every page when it syncs. *)
LEMMA SyncStep ==
    ASSUME IInv, NEW c \in Clients, Sync(c)
    PROVE  IInv'
  <1>0. /\ pc[c] = "fnext" /\ todo[c] = {} /\ return(c) /\ promise(c)
        /\ durable' = store /\ durableCount' = count
        /\ UNCHANGED <<count, store, poolVars, latest>>
    BY DEF Sync, sync
  <1>1. /\ pc'[c] = "idle" /\ frame'[c] = NoFrame /\ page'[c] = NoPage
        /\ all'[c] = FALSE
    BY <1>0 DEF IInv, TypeOK
  <1>2. Alone(c)
    BY <1>0 DEF Alone, IInv, TypeOK
  <1>3. TypeOK'
    <2>1. StoreTypeOK'
      BY <1>0, SMT DEF IInv, TypeOK, StoreTypeOK
    <2>2. acked' \in [PageIds -> Versions]
      BY <1>0, SMT DEF promise, IInv, TypeOK
    <2> QED BY <1>0, <2>1, <2>2 DEF IInv, TypeOK, PCs, Versions
  <1>4. LockStep(c)
    BY <1>1, UnpinnedPlace
  <1>5. ClientOK(c)'
    BY <1>1, UnpinnedPlace DEF ClientOK, FlushProgress
  <1>6. \A d \in Clients \ {c} : pc[d] \in Choosing => pins'[frame[d]] = 0
    BY <1>0, VictimFacts
  <1>7. PinAccounting'
    BY <1>0, <1>1, <1>2, PinsKept DEF Pinning
  <1>8. /\ MetadataExclusive' /\ LatchExclusive'
        /\ \A d \in Clients : ClientOK(d)'
        /\ MappingOK' /\ Coherent'
    BY <1>0, <1>1, <1>2, <1>4, <1>5, <1>6, MemoryStep DEF Settles
  <1>9. ASSUME NEW p \in PageIds, acked'[p] # -1
        PROVE  Stored(p, acked[p])'
    <2>1. acked'[p] \in {asked[c][p], acked[p]}
      BY <1>0 DEF promise
    <2>2. acked[p] # -1 => Stored(p, acked[p])
      BY DEF IInv, AckedOK
    <2>3. asked[c][p] # -1 => Stored(p, asked[c][p])
      <3>1. all[c] /\ Passed(c, p)
        BY <1>0 DEF Passed, IInv, ClientOK, Located
      <3> QED BY <3>1 DEF IInv, ClientOK, FlushProgress
    <2> QED BY <1>0, <1>9, <2>1, <2>2, <2>3 DEF Stored
  <1>10. AckedOK' /\ FlushAllDurable'
    BY <1>0, <1>9 DEF AckedOK, FlushAllDurable, Stored
  <1> QED BY <1>3, <1>7, <1>8, <1>10 DEF IInv

-----------------------------------------------------------------------------
(* Every step of the pool, and stuttering, preserves the invariant. *)
LEMMA NextIInv ==
    ASSUME IInv, [Next]_vars
    PROVE  IInv'
  <1>1. CASE UNCHANGED vars
    <2> USE <1>1
    <2>1. TypeOK' /\ MetadataExclusive' /\ LatchExclusive'
      BY DEF IInv, TypeOK, StoreTypeOK, MetadataExclusive, LatchExclusive
    <2>2. Mapped' = Mapped /\ \A f \in Frames : Holders(f)' = Holders(f)
      BY DEF Mapped, Resident, Holders
    <2>3. ASSUME NEW c \in Clients PROVE ClientOK(c)'
      BY <2>2 DEF IInv, ClientOK, Located, VictimKept, InTransit, FlushProgress,
                  Passed, Stored
    <2>4. MappingOK' /\ PinAccounting'
      BY <2>2 DEF IInv, MappingOK, PinAccounting
    <2>5. Coherent' /\ AckedOK' /\ FlushAllDurable'
      BY DEF IInv, Coherent, Writing, AckedOK, Stored, FlushAllDurable
    <2> QED BY <2>1, <2>3, <2>4, <2>5 DEF IInv
  <1>2. CASE Crash
    BY <1>2, CrashIInv
  <1>3. ASSUME NEW c \in Clients, ReplaceStep(c) PROVE IInv'
    BY <1>3, VictimStep, ErrorStep, ReadPageStep, LatchVictimStep,
       FlushVictimStep, InstallPinStep, InstallNewPageStep
       DEF ReplaceStep, LoadStep
  <1>4. ASSUME NEW c \in Clients, CallbackStep(c) PROVE IInv'
    BY <1>4, ReadStep, WriteStep, WriteEndsStep, WritePanicsStep, DropStep
       DEF CallbackStep
  <1>5. ASSUME NEW c \in Clients, FlushStep(c) PROVE IInv'
    BY <1>5, FlushAllStep, PinHitStep, FlushAbsentStep, ErrorStep,
       FlushLatchStep, FlushFailsStep, FlushWriteStep, FlushCleanStep, DropStep,
       SyncStep DEF FlushStep
  <1>6. ASSUME NEW c \in Clients,
               \/ \E p \in PageIds : \/ PinHit(c, p) \/ PinMiss(c, p)
                                     \/ AccessPanics(c, p)
               \/ NewPage(c)
        PROVE  IInv'
    BY <1>6, PinHitStep, PinMissStep, AccessPanicsStep, NewPageStep
  <1> QED BY <1>1, <1>2, <1>3, <1>4, <1>5, <1>6 DEF Next, ClientStep

(* The invariant holds in every reachable state, for any number of         *)
(* clients, frames, pages, pins and versions.                              *)
THEOREM Invariance == Spec => []IInv
  <1>1. IInv /\ [Next]_vars => IInv'
    BY NextIInv
  <1> QED BY <1>1, InitIInv, PTL DEF Spec

(* No pin counter overflows, no index leaves its range (TypeOK). *)
THEOREM TypeCorrect == Spec => []TypeOK
  <1>1. IInv => TypeOK
    BY DEF IInv
  <1> QED BY <1>1, Invariance, PTL

(* State.pages and the descriptors' tags agree, and a pin keeps its page.  *)
THEOREM MappingCorrect == Spec => []MappingConsistent
  <1>1. IInv => MappingConsistent
    <2> SUFFICES ASSUME IInv PROVE MappingConsistent
      OBVIOUS
    <2>1. \A c \in Clients : pc[c] \in Pinning => /\ page[c] # NoPage
                                                  /\ pages[page[c]] = frame[c]
      BY DEF IInv, ClientOK, Located
    <2> QED BY <2>1 DEF IInv, MappingOK, MappingConsistent
  <1> QED BY <1>1, Invariance, PTL

(* BufferDesc.pins counts the pins that exist: none leaks, none is dropped *)
(* twice.                                                                  *)
THEOREM PinsCorrect == Spec => []PinAccounting
  <1>1. IInv => PinAccounting
    BY DEF IInv
  <1> QED BY <1>1, Invariance, PTL

(* with_victim: nobody pins, latches or waits for a victim, so the content *)
(* lock is taken under the metadata mutex without waiting.                 *)
THEOREM VictimSafe == Spec => []VictimExclusive
  <1>1. IInv => VictimExclusive
    BY VictimFacts DEF VictimExclusive
  <1> QED BY <1>1, Invariance, PTL

(* A read callback sees the last complete write of its page. *)
THEOREM ReadsCorrect == Spec => []ReadsLatest
  <1>1. IInv => ReadsLatest
    <2> SUFFICES ASSUME IInv, NEW c \in Clients, pc[c] = "read"
                 PROVE  bytes[frame[c]] = latest[page[c]]
      BY DEF ReadsLatest
    <2>1. page[c] \in PageIds /\ tag[frame[c]] = page[c]
      BY PinFacts DEF Pinning
    <2>2. page[c] # NoPage /\ pc[c] \in Shared
      BY <2>1, SMT DEF PageIds, Shared
    <2> QED BY <2>1, <2>2, LatchFacts
  <1> QED BY <1>1, Invariance, PTL

(* No complete write is lost by eviction, flush or failed write. *)
THEOREM NoLostWrite == Spec => []Coherent
  <1>1. IInv => Coherent
    BY DEF IInv
  <1> QED BY <1>1, Invariance, PTL

(* What a flush_all that returned Ok has seen is durable. *)
THEOREM FlushAllCorrect == Spec => []FlushAllDurable
  <1>1. IInv => FlushAllDurable
    BY DEF IInv
  <1> QED BY <1>1, Invariance, PTL

(* write_page never carries anything but the latest version: flush_victim  *)
(* and flush_page read the bytes under the content lock, and no other      *)
(* operation changes an allocated page of the store.                       *)
THEOREM WritebackCurrent == Spec => NoStaleWriteback
  <1> DEFINE A == \/ Crash
                  \/ \A p \in PageIds : p < count =>
                        store'[p] \in {store[p], latest[p], Torn}
  <1>1. ASSUME IInv, Next PROVE A
    <2> SUFFICES ASSUME NEW c \in Clients, ClientStep(c)
                 PROVE  \A p \in PageIds : p < count =>
                            store'[p] \in {store[p], latest[p], Torn}
      BY <1>1 DEF Next
    <2>1. CASE store' = store
      BY <2>1
    <2>2. CASE FlushVictim(c) \/ FlushVictimFails(c)
      <3>1. pc[c] = "evict"
        BY <2>2 DEF FlushVictim, FlushVictimFails
      <3>2. tag[frame[c]] # NoPage => bytes[frame[c]] = latest[tag[frame[c]]]
        BY <1>1, <3>1, LatchFacts
      <3> QED BY <1>1, <2>2, <3>2 DEF FlushVictim, FlushVictimFails, write_page,
                      write_page_fails, IInv, TypeOK, StoreTypeOK
    <2>3. CASE FlushWrite(c) \/ FlushWriteFails(c)
      <3>1. pc[c] \in Shared /\ pc[c] \in Pinning
        BY <2>3 DEF FlushWrite, FlushWriteFails, Shared, Pinning
      <3>2. page[c] \in PageIds /\ tag[frame[c]] = page[c]
        BY <1>1, <3>1, PinFacts
      <3>3. page[c] # NoPage
        BY <3>2, SMTT(40) DEF PageIds
      <3>4. bytes[frame[c]] = latest[page[c]]
        BY <1>1, <3>1, <3>2, <3>3, LatchFacts
      <3> QED BY <1>1, <2>3, <3>4 DEF FlushWrite, FlushWriteFails, write_page,
                      write_page_fails, IInv, TypeOK, StoreTypeOK
    <2>4. CASE InstallNewPage(c)
      <3>1. PICK q \in PageIds : allocate_page(q)
        BY <2>4 DEF InstallNewPage
      <3> QED BY <1>1, <3>1, SMT DEF allocate_page, IInv, TypeOK, StoreTypeOK
    <2>5. CASE ReplaceStep(c)
      BY <2>1, <2>2, <2>4, <2>5 DEF ReplaceStep, LoadStep, Victim, VictimFails,
         VictimPanics, ReadPage, ReadPageFails, LatchVictim, InstallPin,
         AllocatePageFails
    <2>6. CASE CallbackStep(c)
      BY <2>1, <2>6 DEF CallbackStep, Read, ReadEnds, Write, WriteEnds,
                        WritePanics, Drop
    <2>7. CASE FlushStep(c)
      BY <2>1, <2>3, <2>7 DEF FlushStep, FlushAll, FlushPage, FlushNext,
         flush_pin, FlushAbsent, FlushRefused, FlushLatch, FlushPoisoned,
         FlushClean, FlushDrop, Sync, sync, SyncFails
    <2>8. CASE \/ \E p \in PageIds : \/ PinHit(c, p) \/ PinMiss(c, p)
                                     \/ AccessPanics(c, p)
               \/ NewPage(c)
      BY <2>1, <2>8 DEF PinHit, PinMiss, AccessPanics, NewPage
    <2> QED BY <2>5, <2>6, <2>7, <2>8 DEF ClientStep
  <1>2. IInv /\ [Next]_vars => [A]_vars
    BY <1>1
  <1> QED BY <1>2, Invariance, PTL DEF Spec, NoStaleWriteback

(* A crash keeps what flush_all promised and nobody has written since. *)
THEOREM FlushedSurvives == Spec => FlushedSurvivesCrash
  <1> DEFINE A == Crash => \A p \in PageIds :
                    acked[p] # -1 /\ acked[p] = latest[p] =>
                        p < count' /\ store'[p] = acked[p]
  <1>1. IInv => A
    <2> SUFFICES ASSUME IInv, Crash, NEW p \in PageIds, acked[p] # -1,
                        acked[p] = latest[p]
                 PROVE  p < count' /\ store'[p] = acked[p]
      OBVIOUS
    <2>1. p < durableCount /\ durable[p] = acked[p] /\ store[p] = acked[p]
      BY DEF IInv, FlushAllDurable
    <2>2. Survivors(p) = {acked[p]}
      BY <2>1 DEF Survivors
    <2>3. p < count'
      BY <2>1, SMT DEF Crash, CrashStore, PageIds, IInv, TypeOK, StoreTypeOK
    <2>4. store'[p] \in Survivors(p)
      BY <2>3 DEF Crash, CrashStore
    <2> QED BY <2>2, <2>3, <2>4
  <1>2. IInv /\ [Next]_vars => [A]_vars
    BY <1>1
  <1> QED BY <1>2, Invariance, PTL DEF Spec, FlushedSurvivesCrash

-----------------------------------------------------------------------------
USE DEF sweepVars, clockVars, allVars

(* How many probes ago the hand was at the frame: 0 for the last probe.    *)
Behind(f) == IF f < hand THEN hand - 1 - f ELSE hand - 1 - f + Capacity

(* What a sweep in progress may rely on.  It runs under the metadata mutex *)
(* on a full pool, so a frame open when it began stays open.  Only its own *)
(* probes take reference bits away: a frame that lost its bit has been     *)
(* probed.  An open frame that has been probed had its bit then, has lost  *)
(* it, and has not been probed again.                                      *)
SweepInv ==
    /\ ClockTypeOK
    /\ probes > 0 =>
          /\ \E c \in Clients : pc[c] = "victim"
          /\ Mapped = Capacity
          /\ \A f \in open : pins[f] = 0
          /\ \A f \in Frames : referenced[f] => f \in recent
          /\ \A f \in recent : ~referenced[f] => Behind(f) < probes
          /\ \A f \in open : Behind(f) < probes =>
                f \in recent /\ ~referenced[f] /\ probes <= Behind(f) + Capacity

-----------------------------------------------------------------------------
(* The hand stays a frame index: the remainder is the successor, wrapping. *)
LEMMA NextHand ==
    ASSUME ClockTypeOK
    PROVE  /\ next_hand = IF hand + 1 = Capacity THEN 0 ELSE hand + 1
           /\ next_hand \in Frames
  BY SMTT(40) DEF ClockTypeOK, next_hand, Frames

(* The distances to the hand: bounded by the capacity, largest at the hand. *)
LEMMA BehindFacts ==
    ASSUME ClockTypeOK, NEW f \in Frames
    PROVE  /\ Behind(f) \in Frames
           /\ f = hand <=> Behind(f) = Capacity - 1
  BY SMT DEF ClockTypeOK, Behind, Frames

(* A probe is one step further from every frame but the one it looks at. *)
LEMMA BehindMoves ==
    ASSUME ClockTypeOK, hand' = next_hand, NEW f \in Frames
    PROVE  Behind(f)' = IF f = hand THEN 0 ELSE Behind(f) + 1
  <1>1. hand' = IF hand + 1 = Capacity THEN 0 ELSE hand + 1
    BY NextHand
  <1> QED BY <1>1, SMT DEF ClockTypeOK, Behind, Frames

-----------------------------------------------------------------------------
(* Every step with the policy is a step of BufferPool or, for a probe that *)
(* does not end the sweep, a stuttering step of it.                        *)
LEMMA ClockStepIsPoolStep ==
    ASSUME ClockTypeOK, [ClockNext]_allVars
    PROVE  [Next]_vars
  <1>1. CASE UNCHANGED allVars
    BY <1>1
  <1>2. CASE ClockCrash
    BY <1>2 DEF ClockCrash, Next
  <1>3. ASSUME NEW c \in Clients, PoolStep(c) PROVE [Next]_vars
    <2>1. ReplaceStep(c) \/ CallbackStep(c) \/ FlushStep(c) \/ NewPage(c)
            \/ \E p \in PageIds : PinMiss(c, p)
      BY <1>3 DEF PoolStep, ReplaceStep
    <2> QED BY <2>1 DEF Next, ClientStep
  <1>4. ASSUME NEW c \in Clients, PolicyStep(c) PROVE [Next]_vars
    <2>1. CASE SkipPinned(c) \/ SecondChance(c)
      BY <2>1 DEF SkipPinned, SecondChance
    <2>2. CASE Answer(c) \/ AllPinned(c)
      <3>1. Victim(c, hand) \/ VictimFails(c)
        BY <2>2 DEF Answer, AllPinned
      <3> QED BY <3>1 DEF ClockTypeOK, Next, ClientStep, ReplaceStep
    <2>3. CASE InstallPin(c) \/ InstallNewPage(c)
      BY <2>3 DEF Next, ClientStep, ReplaceStep
    <2>4. CASE \E p \in PageIds : PinHit(c, p)
      BY <2>4 DEF Next, ClientStep
    <2> QED BY <1>4, <2>1, <2>2, <2>3, <2>4 DEF PolicyStep
  <1> QED BY <1>1, <1>2, <1>3, <1>4 DEF ClockNext

(* While a sweep holds the metadata mutex no other call takes a pin, loads *)
(* a page or asks the policy; pins are only dropped.                       *)
LEMMA SweepUndisturbed ==
    ASSUME IInv, NEW c \in Clients, pc[c] = "victim", Mapped = Capacity,
           NEW d \in Clients, PoolStep(d)
    PROVE  /\ pc'[c] = "victim" /\ Mapped' = Capacity
           /\ \A f \in Frames : pins[f] = 0 => pins'[f] = 0
  <1>1. ~MetadataFree
    BY DEF MetadataFree, Metadata
  <1>2. pc[d] \in Metadata => d = c
    BY DEF IInv, MetadataExclusive, Metadata
  <1>3. ~LoadStep(d)
    BY <1>2 DEF LoadStep, ReadPage, ReadPageFails, LatchVictim, FlushVictim,
                FlushVictimFails, AllocatePageFails, Metadata
  <1>4. CallbackStep(d) \/ FlushStep(d)
    <2>1. ~(Mapped < Capacity)
      BY SMT
    <2> QED BY <1>1, <1>3, <2>1 DEF PoolStep, PinMiss, NewPage
  <1>5. d # c /\ pages' = pages
    BY <1>1, <1>4 DEF CallbackStep, Read, ReadEnds, Write, WriteEnds, WritePanics,
       Drop, FlushStep, FlushAll, FlushPage, FlushNext, next_page, flush_pin,
       FlushAbsent, FlushRefused, FlushLatch, FlushPoisoned, FlushWrite,
       FlushWriteFails, flush_fails, FlushClean, FlushDrop, Sync, SyncFails
  <1>6. pc'[c] = pc[c]
    BY <1>1, <1>4, <1>5 DEF CallbackStep, Read, ReadEnds, Write, WriteEnds,
       WritePanics, Drop, FlushStep, FlushAll, FlushPage, FlushNext, next_page,
       flush_pin, FlushAbsent, FlushRefused, FlushLatch, FlushPoisoned, FlushWrite,
       FlushWriteFails, flush_fails, FlushClean, FlushDrop, Sync, SyncFails,
       IInv, TypeOK
  <1>7. \/ pins' = pins
        \/ pc[d] \in Pinning /\ pins' = [pins EXCEPT ![frame[d]] = @ - 1]
    BY <1>1, <1>4 DEF CallbackStep, Read, ReadEnds, Write, WriteEnds, Pinning,
       WritePanics, Drop, FlushStep, FlushAll, FlushPage, FlushNext, next_page,
       flush_pin, FlushAbsent, FlushRefused, FlushLatch, FlushPoisoned, FlushWrite,
       FlushWriteFails, flush_fails, FlushClean, FlushDrop, Sync, SyncFails
  <1>8. ASSUME NEW f \in Frames, pins[f] = 0 PROVE pins'[f] = 0
    <2>1. pc[d] \in Pinning => frame[d] # f
      BY <1>8, PinFacts, SMT
    <2> QED BY <1>7, <1>8, <2>1 DEF IInv, TypeOK
  <1> QED BY <1>5, <1>6, <1>8 DEF Mapped, Resident

-----------------------------------------------------------------------------
(* A probe that does not end the sweep. *)
LEMMA ProbeStep ==
    ASSUME SweepInv, IInv, NEW c \in Clients, SkipPinned(c) \/ SecondChance(c)
    PROVE  SweepInv'
  <1> USE DEF SweepInv
  <1>0. /\ pc[c] = "victim" /\ Mapped = Capacity
        /\ UNCHANGED vars
    BY DEF SkipPinned, SecondChance, Sweeping
  <1>1. /\ probes < 2 * Capacity
        /\ hand' = next_hand /\ probes' = probes + 1
        /\ open' = opened /\ recent' = marked
        /\ found' \in {found, found \union {hand}}
    BY DEF SkipPinned, SecondChance, Sweeping, probe
  <1>2. ClockTypeOK'
    <2>1. hand' \in Frames
      BY <1>1, NextHand
    <2>2. referenced' \in [Frames -> BOOLEAN]
      BY DEF SkipPinned, SecondChance, ClockTypeOK
    <2> QED BY <1>1, <2>1, <2>2, SMT DEF ClockTypeOK, opened, marked
  <1>3. (\E d \in Clients : pc'[d] = "victim") /\ Mapped' = Capacity
    BY <1>0 DEF Mapped, Resident
  <1>4. \A f \in open' : pins'[f] = 0
    BY <1>0, <1>1, SMTT(40) DEF opened, ClockTypeOK
  <1>5. ASSUME NEW f \in Frames
        PROVE  /\ f # hand => referenced'[f] = referenced[f]
               /\ referenced'[f] => referenced[f]
               /\ referenced[f] => f \in recent'
               /\ f \in recent' /\ ~referenced[f] => Behind(f) < probes
    <2>1. f # hand => referenced'[f] = referenced[f]
      BY DEF SkipPinned, SecondChance, ClockTypeOK
    <2>2. referenced'[hand] => referenced[hand]
      BY DEF SkipPinned, SecondChance, ClockTypeOK
    <2>3. CASE probes = 0
      BY <1>1, <2>1, <2>2, <2>3 DEF marked
    <2>4. CASE probes # 0
      BY <1>1, <2>1, <2>2, <2>4, SMT DEF marked, ClockTypeOK
    <2> QED BY <2>3, <2>4
  <1>6. ASSUME NEW f \in recent', ~referenced'[f]
        PROVE  Behind(f)' < probes'
    <2>1. f \in Frames
      BY <1>1 DEF marked, ClockTypeOK
    <2>2. Behind(f)' = IF f = hand THEN 0 ELSE Behind(f) + 1
      BY <1>1, <2>1, BehindMoves
    <2>3. Behind(f) \in Nat /\ probes \in Nat
      BY <2>1, BehindFacts, SMT DEF Frames, ClockTypeOK
    <2>4. f # hand => Behind(f) < probes
      BY <1>5, <1>6, <2>1
    <2> QED BY <1>1, <2>2, <2>3, <2>4, SMTT(40)
  <1>7. ASSUME NEW f \in open', Behind(f)' < probes'
        PROVE  /\ f \in recent' /\ ~referenced'[f]
               /\ probes' <= Behind(f)' + Capacity
    <2>1. f \in Frames
      BY <1>1 DEF opened, ClockTypeOK
    <2>2. Behind(f)' = IF f = hand THEN 0 ELSE Behind(f) + 1
      BY <1>1, <2>1, BehindMoves
    <2>3. Behind(f) \in 0 .. Capacity - 1 /\ probes \in Nat
      BY <2>1, BehindFacts, SMT DEF Frames, ClockTypeOK
    <2>4. CASE f = hand
      <3>1. pins[f] = 0
        BY <1>0, <1>4
      <3>2. SecondChance(c) /\ referenced[f]
        BY <2>4, <3>1 DEF SkipPinned, SecondChance
      <3>3. f \in recent' /\ ~referenced'[f]
        BY <1>1, <2>1, <2>4, <3>2, SMT DEF SecondChance, marked, ClockTypeOK
      <3>4. probes > 0 => ~(Behind(f) < probes)
        BY <1>1, <3>2, SMT DEF opened
      <3> QED BY <1>1, <2>2, <2>3, <2>4, <3>3, <3>4, SMTT(40)
    <2>5. CASE f # hand
      <3>1. Behind(f) < probes
        BY <1>1, <1>7, <2>2, <2>3, <2>5, SMT
      <3>2. probes > 0 /\ open' = open /\ recent' = recent
        BY <1>1, <2>3, <3>1, SMT DEF opened, marked
      <3>3. f \in recent /\ ~referenced[f] /\ probes <= Behind(f) + Capacity
        BY <3>1, <3>2
      <3>4. referenced'[f] = referenced[f]
        BY <1>5, <2>1, <2>5
      <3> QED BY <1>1, <2>2, <2>3, <2>5, <3>2, <3>3, <3>4, SMT
    <2> QED BY <2>4, <2>5
  <1> QED BY <1>2, <1>3, <1>4, <1>5, <1>6, <1>7

(* Every step of the pool with the policy. *)
LEMMA NextSweepInv ==
    ASSUME SweepInv, IInv, [ClockNext]_allVars
    PROVE  SweepInv'
  <1>1. CASE UNCHANGED allVars
    BY <1>1 DEF SweepInv, ClockTypeOK, Behind, Mapped, Resident
  <1>2. ASSUME probes' = 0, ClockTypeOK' PROVE SweepInv'
    BY <1>2, SMT DEF SweepInv
  <1>3. CASE ClockCrash
    <2>1. probes' = 0 /\ ClockTypeOK'
      BY <1>3, SMT DEF ClockCrash, EndSweep, ClockTypeOK, Frames
    <2> QED BY <1>2, <2>1
  <1>4. ASSUME NEW c \in Clients, PoolStep(c) PROVE SweepInv'
    <2>1. ClockTypeOK' /\ UNCHANGED clockVars
      BY <1>4 DEF PoolStep, SweepInv, ClockTypeOK
    <2>2. CASE probes = 0
      BY <1>2, <2>1, <2>2
    <2>3. CASE probes > 0
      <3>1. PICK d \in Clients : pc[d] = "victim"
        BY <2>3 DEF SweepInv
      <3>2. /\ pc'[d] = "victim" /\ Mapped' = Capacity
            /\ \A f \in Frames : pins[f] = 0 => pins'[f] = 0
        BY <1>4, <2>3, <3>1, SweepUndisturbed DEF SweepInv
      <3>3. \A f : Behind(f)' = Behind(f)
        BY <2>1 DEF Behind
      <3> QED BY <2>1, <2>3, <3>2, <3>3 DEF SweepInv, ClockTypeOK
    <2> QED BY <2>2, <2>3, SMTT(40) DEF SweepInv, ClockTypeOK
  <1>5. ASSUME NEW c \in Clients, PolicyStep(c) PROVE SweepInv'
    <2>1. CASE SkipPinned(c) \/ SecondChance(c)
      BY <2>1, ProbeStep
    <2>2. CASE Answer(c) \/ AllPinned(c)
      <3>1. probes' = 0 /\ ClockTypeOK'
        BY <2>2, NextHand, SMT DEF Answer, AllPinned, EndSweep, SweepInv, ClockTypeOK
      <3> QED BY <1>2, <3>1
    <2>3. CASE \E p \in PageIds : PinHit(c, p) /\ access(pages[p])
      <3>1. PICK p \in PageIds : PinHit(c, p) /\ access(pages[p])
        BY <2>3
      <3>2. probes = 0
        BY <3>1, SMT DEF PinHit, MetadataFree, Metadata, SweepInv, ClockTypeOK
      <3>3. probes' = 0 /\ ClockTypeOK'
        BY <3>1, <3>2 DEF access, SweepInv, ClockTypeOK
      <3> QED BY <1>2, <3>3
    <2>4. CASE /\ InstallPin(c) \/ InstallNewPage(c)
               /\ load(frame[c])
      <3>1. pc[c] = "install"
        BY <2>4 DEF InstallPin, InstallNewPage
      <3>2. probes = 0
        BY <3>1, SMT DEF IInv, MetadataExclusive, Metadata, SweepInv, ClockTypeOK
      <3>3. probes' = 0 /\ ClockTypeOK'
        BY <2>4, <3>2 DEF load, access, SweepInv, ClockTypeOK
      <3> QED BY <1>2, <3>3
    <2> QED BY <1>5, <2>1, <2>2, <2>3, <2>4 DEF PolicyStep
  <1> QED BY <1>1, <1>3, <1>4, <1>5 DEF ClockNext

-----------------------------------------------------------------------------
(* The invariant of the sweep holds in every reachable state, together     *)
(* with the pool's.                                                        *)
THEOREM ClockInvariance == ClockSpec => [](SweepInv /\ IInv)
  <1>1. ClockInit => SweepInv /\ IInv
    <2>1. ClockInit => SweepInv
      BY SMTT(40) DEF ClockInit, SweepInv, ClockTypeOK, Frames
    <2> QED BY <2>1, InitIInv DEF ClockInit
  <1>2. SweepInv /\ IInv /\ [ClockNext]_allVars => (SweepInv /\ IInv)'
    <2> SUFFICES ASSUME SweepInv, IInv, [ClockNext]_allVars
                 PROVE  SweepInv' /\ IInv'
      OBVIOUS
    <2>1. [Next]_vars
      BY ClockStepIsPoolStep DEF SweepInv
    <2> QED BY <2>1, NextIInv, NextSweepInv
  <1> QED BY <1>1, <1>2, PTL DEF ClockSpec

(* The hand, the probe counter and the frames a sweep records stay in      *)
(* their ranges: the index into `referenced` never leaves the vector.      *)
THEOREM ClockTypeCorrect == ClockSpec => []ClockTypeOK
  <1>1. SweepInv => ClockTypeOK
    BY DEF SweepInv
  <1> QED BY <1>1, ClockInvariance, PTL

(* ClockStrategy::victim answers None only when every frame was pinned as  *)
(* it began.                                                               *)
THEOREM SweepCorrect == ClockSpec => []SweepFindsOpenFrame
  <1>1. SweepInv => SweepFindsOpenFrame
    <2> SUFFICES ASSUME SweepInv, probes = 2 * Capacity, NEW f \in open
                 PROVE  FALSE
      BY DEF SweepFindsOpenFrame
    <2>1. f \in Frames /\ Behind(f) \in 0 .. Capacity - 1
      BY BehindFacts DEF SweepInv, ClockTypeOK, Frames
    <2>2. probes <= Behind(f) + Capacity
      BY <2>1, SMTT(40) DEF SweepInv
    <2> QED BY <2>1, <2>2, SMT
  <1> QED BY <1>1, ClockInvariance, PTL

(* A frame referenced before the sweep is chosen only if no frame was open *)
(* and unreferenced when the sweep began.                                  *)
THEOREM SecondChanceCorrect == ClockSpec => SecondChanceFirst
  <1> DEFINE A == \A c \in Clients :
                     Answer(c) /\ hand \in marked => opened \subseteq marked
  <1>1. SweepInv => A
    <2> SUFFICES ASSUME SweepInv, NEW c \in Clients, Answer(c), hand \in marked,
                        NEW f \in opened
                 PROVE  f \in marked
      OBVIOUS
    <2>1. probes > 0
      BY SMT DEF SweepInv, ClockTypeOK, Answer, marked
    <2>2. hand \in recent /\ f \in open /\ f \in Frames /\ hand \in Frames
      BY <2>1, SMT DEF SweepInv, ClockTypeOK, opened, marked
    <2>3. Behind(hand) < probes
      BY <2>1, <2>2 DEF SweepInv, Answer
    <2>4. Behind(hand) = Capacity - 1 /\ Behind(f) \in 0 .. Capacity - 1
      BY <2>2, BehindFacts DEF SweepInv, Frames
    <2>5. Behind(f) < probes
      BY <2>3, <2>4, SMT DEF SweepInv, ClockTypeOK
    <2>6. f \in recent
      BY <2>1, <2>2, <2>5 DEF SweepInv
    <2> QED BY <2>1, <2>6, SMT DEF marked
  <1>2. SweepInv /\ [ClockNext]_allVars => [A]_allVars
    BY <1>1
  <1> QED BY <1>2, ClockInvariance, PTL DEF ClockSpec, SecondChanceFirst

(* The pool with the CLOCK policy implements BufferPool, whose policy is   *)
(* arbitrary: a sweep refines Victim or VictimFails, its inner probes      *)
(* nothing.  So what is proved of the pool holds whatever the clock does.  *)
THEOREM ClockImplementsPool == ClockSpec => Spec
  <1>1. ClockInit => Init
    BY DEF ClockInit
  <1>2. SweepInv /\ [ClockNext]_allVars => [Next]_vars
    BY ClockStepIsPoolStep DEF SweepInv
  <1> QED BY <1>1, <1>2, ClockInvariance, PTL DEF ClockSpec, Spec
=============================================================================
