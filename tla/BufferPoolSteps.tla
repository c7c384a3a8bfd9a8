-------------------------- MODULE BufferPoolSteps ---------------------------
(***************************************************************************)
(* What BufferPool's inductive invariant gives a client where it stands,   *)
(* that it holds in a pool that has just been opened, lemmas for steps     *)
(* that leave most of the pool alone, and one lemma for each step that     *)
(* finds, empties and fills a frame for pin or new_page: it preserves the  *)
(* invariant.                                                              *)
(***************************************************************************)
EXTENDS BufferPoolInvariant, FiniteSetTheorems, TLAPS

USE PageStoreAssumption, BufferPoolAssumption, ZenonT(8), SMTT(20)
USE DEF vars, storeVars, poolVars, descVars, clientVars, localVars, flushVars,
        historyVars, goto, return, NoFrame, NoPage, Torn

-----------------------------------------------------------------------------
(* What the invariant says of a client that holds a pin. *)
LEMMA PinFacts ==
    ASSUME IInv, NEW c \in Clients, pc[c] \in Pinning
    PROVE  /\ frame[c] \in Frames
           /\ page[c] \in PageIds
           /\ pages[page[c]] = frame[c]
           /\ tag[frame[c]] = page[c]
           /\ page[c] < count
           /\ pins[frame[c]] \in 1 .. MaxPins
  <1>1. /\ frame[c] \in Frames /\ page[c] \in PageIds
        /\ pages[page[c]] = frame[c] /\ tag[frame[c]] = page[c]
        /\ page[c] < count
    BY SMT DEF IInv, TypeOK, ClientOK, Located, MappingOK, Pinning
  <1>2. pins[frame[c]] # 0
    <2>1. c \in Holders(frame[c]) /\ IsFiniteSet(Holders(frame[c]))
      BY FS_Subset DEF Holders
    <2>2. Cardinality(Holders(frame[c])) # 0
      BY <2>1, FS_EmptySet
    <2> QED BY <1>1, <2>2 DEF IInv, PinAccounting
  <1> QED BY <1>1, <1>2, SMT DEF IInv, TypeOK

(* What it says of a client that replaces the page of a frame. *)
LEMMA VictimFacts ==
    ASSUME IInv, NEW c \in Clients, pc[c] \in Choosing
    PROVE  /\ frame[c] \in Frames
           /\ pins[frame[c]] = 0
           /\ Holders(frame[c]) = {}
           /\ \A d \in Clients \ {c} : pc[d] \notin Metadata
                                       /\ frame[d] # frame[c]
  <1>1. frame[c] \in Frames /\ pins[frame[c]] = 0
    BY DEF IInv, TypeOK, ClientOK, Located, VictimKept, Choosing, Replacing
  <1>2. Holders(frame[c]) = {}
    <2>1. IsFiniteSet(Holders(frame[c]))
      BY FS_Subset DEF Holders
    <2>2. Cardinality(Holders(frame[c])) = 0
      BY <1>1 DEF IInv, PinAccounting
    <2> QED BY <2>1, <2>2, FS_EmptySet
  <1>3. ASSUME NEW d \in Clients \ {c}
        PROVE  pc[d] \notin Metadata /\ frame[d] # frame[c]
    <2>1. pc[d] \notin Metadata
      BY DEF IInv, MetadataExclusive, Metadata, Choosing, Replacing
    <2>2. d \notin Holders(frame[c])
      BY <1>2
    <2>3. pc[d] \notin Pinning \/ frame[d] # frame[c]
      BY <2>2 DEF Holders
    <2>4. pc[d] \in {"idle", "fnext"} => frame[d] # frame[c]
      BY <1>1, SMT DEF IInv, ClientOK, Located, Frames
    <2>5. pc[d] \in PCs
      BY DEF IInv, TypeOK
    <2> QED BY <2>1, <2>3, <2>4, <2>5 DEF PCs
  <1> QED BY <1>1, <1>2, <1>3

(* A frame that nobody writes to, or that somebody reads, holds the latest *)
(* version of its page.                                                    *)
LEMMA LatchFacts ==
    ASSUME IInv, NEW c \in Clients,
           pc[c] \in Shared \/ pc[c] = "evict" \/ pc[c] = "install"
    PROVE  tag[frame[c]] # NoPage => bytes[frame[c]] = latest[tag[frame[c]]]
  <1>1. ~poisoned[frame[c]] /\ frame[c] \in Frames
    BY DEF IInv, TypeOK, ClientOK, Located, Shared, Exclusive
  <1>2. ASSUME NEW d \in Clients, pc[d] = "write", frame[d] = frame[c]
        PROVE  FALSE
    <2>1. pc[c] \in Shared \union Exclusive /\ c # d
      BY <1>2 DEF Shared, Exclusive
    <2>2. pc[d] \in Exclusive
      BY <1>2 DEF Exclusive
    <2> QED BY <1>2, <2>1, <2>2 DEF IInv, LatchExclusive
  <1> QED BY <1>1, <1>2 DEF IInv, Coherent, Writing

-----------------------------------------------------------------------------
(* A pool that has just been opened. *)
LEMMA OpenedType ==
    /\ PoolInit /\ StoreTypeOK
    /\ latest \in [PageIds -> Versions] /\ acked \in [PageIds -> Versions]
    => TypeOK
  <1> SUFFICES ASSUME PoolInit, StoreTypeOK, latest \in [PageIds -> Versions],
                      acked \in [PageIds -> Versions]
               PROVE  TypeOK
    OBVIOUS
  <1> USE DEF PoolInit
  <1>1. /\ asked \in [Clients -> [PageIds -> Versions]]
        /\ incoming \in [Clients -> Versions]
        /\ bytes \in [Frames -> Versions \union {Partial}]
    BY DEF Versions
  <1>2. /\ dirty \in [Frames -> BOOLEAN]
        /\ poisoned \in [Frames -> BOOLEAN]
        /\ metaPoisoned \in BOOLEAN
        /\ all \in [Clients -> BOOLEAN]
    OBVIOUS
  <1>3. /\ pins \in [Frames -> 0 .. MaxPins]
        /\ pc \in [Clients -> PCs]
        /\ todo \in [Clients -> SUBSET PageIds]
    BY SMT DEF PCs
  <1>4. /\ pages \in [PageIds -> Frames \union {NoFrame}]
        /\ tag \in [Frames -> PageIds \union {NoPage}]
        /\ frame \in [Clients -> Frames \union {NoFrame}]
        /\ page \in [Clients -> PageIds \union {NoPage}]
    OBVIOUS
  <1> QED BY <1>1, <1>2, <1>3, <1>4 DEF TypeOK

(* A pool just opened holds no page and no pin, and nobody uses it. *)
LEMMA OpenedPool ==
    PoolInit =>
        /\ MetadataExclusive /\ LatchExclusive
        /\ \A c \in Clients : ClientOK(c)
        /\ MappingOK /\ PinAccounting
        /\ latest = store => Coherent
  <1> HAVE PoolInit
  <1> USE DEF PoolInit
  <1>1. Resident = {} /\ Mapped = 0
    BY FS_EmptySet DEF Resident, Mapped
  <1>2. PinAccounting
    <2> SUFFICES ASSUME NEW f \in Frames PROVE pins[f] = Cardinality(Holders(f))
      BY DEF PinAccounting
    <2>1. Holders(f) = {}
      BY DEF Holders, Pinning
    <2> QED BY <2>1, FS_EmptySet
  <1>3. MappingOK
    BY <1>1, SMT DEF MappingOK, Frames
  <1>4. MetadataExclusive /\ LatchExclusive
    BY DEF MetadataExclusive, LatchExclusive, Metadata, Exclusive
  <1>5. ASSUME NEW c \in Clients PROVE ClientOK(c)
    BY DEF ClientOK, Located, VictimKept, InTransit, FlushProgress, Metadata,
           Exclusive, Shared, Pinning, Choosing, Replacing
  <1>6. latest = store => Coherent
    BY DEF Coherent
  <1> QED BY <1>2, <1>3, <1>4, <1>5, <1>6

(* A pool opened on an empty store satisfies the invariant. *)
LEMMA InitIInv == Init => IInv
  <1> SUFFICES ASSUME Init PROVE IInv
    OBVIOUS
  <1> USE DEF Init, StoreInit
  <1>1. StoreTypeOK
    BY SMT DEF StoreTypeOK, Versions
  <1>2. latest \in [PageIds -> Versions] /\ acked \in [PageIds -> Versions]
    BY DEF Versions
  <1>3. TypeOK
    BY <1>1, <1>2, OpenedType
  <1>4. AckedOK /\ FlushAllDurable
    BY DEF AckedOK, FlushAllDurable
  <1> QED BY <1>3, <1>4, OpenedPool DEF IInv

(* A crash leaves a pool that has just been opened on what survived. *)
LEMMA CrashIInv ==
    ASSUME IInv, Crash
    PROVE  IInv'
  <1>1. /\ count' \in durableCount .. count /\ durableCount' = count'
        /\ durable' = store' /\ latest' = store'
    BY DEF Crash, CrashStore, IInv, TypeOK, StoreTypeOK
  <1>0. PoolInit'
    BY DEF Crash, PoolInit
  <1>2. store' \in [PageIds -> Versions]
    <2>1. \A p \in PageIds : Survivors(p) \subseteq Versions
      BY SMT DEF Survivors, IInv, TypeOK, StoreTypeOK, Versions
    <2>2. 0 \in Versions
      BY DEF Versions
    <2> QED BY <2>1, <2>2 DEF Crash, CrashStore
  <1>3. StoreTypeOK'
    BY <1>1, <1>2, SMT DEF StoreTypeOK, IInv, TypeOK
  <1>4. acked' \in [PageIds -> Versions]
    BY <1>2 DEF Crash, Versions
  <1>5. TypeOK'
    <2>1. /\ (latest \in [PageIds -> Versions])'
          /\ (acked \in [PageIds -> Versions])'
      BY <1>1, <1>2, <1>4
    <2> QED BY <1>0, <1>3, <2>1, OpenedType, PTL
  <1>6. AckedOK' /\ FlushAllDurable'
    BY <1>1, <1>2, SMT DEF Crash, AckedOK, FlushAllDurable, Stored, Versions
  <1>7. /\ (MetadataExclusive /\ LatchExclusive)'
        /\ (\A c \in Clients : ClientOK(c))'
        /\ (MappingOK /\ PinAccounting /\ Coherent)'
    <2>1. (latest = store)'
      BY <1>1
    <2> QED BY <1>0, <2>1, OpenedPool, PTL
  <1> QED BY <1>5, <1>6, <1>7 DEF IInv

-----------------------------------------------------------------------------
(* Most steps change one client and leave the frames alone.                *)

(* No other client moves. *)
Alone(c) ==
    \A d \in Clients \ {c} :
        /\ pc'[d] = pc[d] /\ frame'[d] = frame[d] /\ page'[d] = page[d]
        /\ incoming'[d] = incoming[d]
        /\ all'[d] = all[d] /\ todo'[d] = todo[d] /\ asked'[d] = asked[d]

(* The client takes only locks that are free. *)
LockStep(c) ==
    /\ \/ pc'[c] \notin Metadata
       \/ pc[c] \in Metadata
       \/ \A d \in Clients : pc[d] \notin Metadata
    /\ \A d \in Clients \ {c} : frame[d] = frame'[c] =>
          /\ pc'[c] \in Exclusive => pc[d] \notin Shared \union Exclusive
          /\ pc'[c] \in Shared => pc[d] \notin Exclusive

(* The store changes to the latest version, or is torn where it was older. *)
Settles ==
    \A q \in PageIds : \/ store'[q] = store[q]
                       \/ store'[q] = latest[q]
                       \/ store'[q] = Torn /\ store[q] # latest[q]

(* Where a client holds a pin and no lock. *)
LEMMA PinnedPlace ==
    ASSUME NEW c \in Clients, pc'[c] \in {"pinned", "fpinned", "fdrop"},
           frame'[c] \in Frames, page'[c] \in PageIds,
           pages'[page'[c]] = frame'[c]
    PROVE  Located(c)' /\ VictimKept(c)' /\ InTransit(c)' /\ LockStep(c)
  BY SMT DEF Located, VictimKept, InTransit, LockStep, Metadata, Choosing,
         Replacing, Shared, Exclusive, Frames, PageIds

(* Where it holds a pin and a content lock. *)
LEMMA LatchedPlace ==
    ASSUME NEW c \in Clients, pc'[c] \in {"read", "write", "fwrite", "fclean"},
           frame'[c] \in Frames, page'[c] \in PageIds,
           pages'[page'[c]] = frame'[c], ~poisoned'[frame'[c]]
    PROVE  Located(c)' /\ VictimKept(c)'
  BY SMT DEF Located, VictimKept, Metadata, Choosing, Replacing, Frames, PageIds

(* Where it is in no call, or between the pages of flush_all. *)
LEMMA UnpinnedPlace ==
    ASSUME NEW c \in Clients, pc'[c] \in {"idle", "fnext"},
           frame'[c] = NoFrame, page'[c] = NoPage, pc'[c] = "fnext" => all'[c]
    PROVE  Located(c)' /\ VictimKept(c)' /\ InTransit(c)' /\ LockStep(c)
  BY DEF Located, VictimKept, InTransit, LockStep, Metadata, Choosing,
         Replacing, Shared, Exclusive, Pinning

(* A step that takes a lock nobody else holds keeps both locks exclusive. *)
LEMMA LocksKept ==
    ASSUME IInv, NEW c \in Clients, Alone(c), LockStep(c)
    PROVE  MetadataExclusive' /\ LatchExclusive'
  <1>1. MetadataExclusive'
    BY DEF IInv, MetadataExclusive, Alone, LockStep
  <1>2. ASSUME NEW a \in Clients, NEW b \in Clients, a # b,
               pc'[a] \in Exclusive, frame'[a] = frame'[b],
               pc'[b] \in Shared \union Exclusive
        PROVE  FALSE
    <2>1. CASE a # c /\ b # c
      BY <1>2, <2>1 DEF IInv, LatchExclusive, Alone
    <2>2. CASE a = c
      BY <1>2, <2>2 DEF Alone, LockStep
    <2>3. CASE b = c
      BY <1>2, <2>3 DEF Alone, LockStep
    <2> QED BY <2>1, <2>2, <2>3
  <1> QED BY <1>1, <1>2 DEF LatchExclusive

(* A version written to the store stays there while the store settles. *)
LEMMA StoredKept ==
    ASSUME TypeOK, NEW p \in PageIds, NEW v \in Versions, Stored(p, v),
           Settles, latest' = latest, count' = count
    PROVE  Stored(p, v)'
  BY DEF TypeOK, StoreTypeOK, Stored, Settles, Versions

(* Such a step preserves the invariant if the client's new place is right  *)
(* and the pins are: first what is in memory, then what is durable.        *)
LEMMA MemoryStep ==
    ASSUME IInv, NEW c \in Clients, Alone(c), LockStep(c), Settles,
           UNCHANGED <<count, pages, tag, dirty, bytes, poisoned, latest>>,
           pc[c] # "write", pc'[c] # "write", ClientOK(c)',
           \A d \in Clients \ {c} : pc[d] \in Choosing => pins'[frame[d]] = 0
    PROVE  /\ MetadataExclusive' /\ LatchExclusive'
           /\ \A d \in Clients : ClientOK(d)'
           /\ MappingOK' /\ Coherent'
  <1>1. MetadataExclusive' /\ LatchExclusive'
    BY LocksKept
  <1>2. Resident' = Resident /\ Mapped' = Mapped
    BY DEF Resident, Mapped
  <1>3. MappingOK'
    BY <1>2 DEF IInv, MappingOK
  <1>4. Coherent'
    <2>1. \A f \in Frames : Writing(f) => Writing(f)'
      BY DEF Writing, Alone
    <2>2. ASSUME NEW p \in PageIds, store[p] = latest[p]
          PROVE  store'[p] = latest'[p]
      BY <2>2 DEF Settles
    <2>3. \A f \in Frames : tag[f] # NoPage => tag[f] \in PageIds
      BY DEF IInv, TypeOK
    <2> QED BY <2>1, <2>2, <2>3 DEF IInv, Coherent
  <1>5. ASSUME NEW d \in Clients \ {c} PROVE ClientOK(d)'
    <2>1. ClientOK(d)
      BY DEF IInv
    <2>2. Located(d)'
      BY <2>1 DEF ClientOK, Located, Alone
    <2>3. VictimKept(d)'
      BY <2>1, <1>2 DEF ClientOK, VictimKept, Alone
    <2>4. InTransit(d)'
      <3>0. /\ pc'[d] = pc[d] /\ frame'[d] = frame[d] /\ page'[d] = page[d]
            /\ incoming'[d] = incoming[d]
        BY DEF Alone
      <3>1. pc[d] = "install" /\ tag[frame[d]] # NoPage =>
                tag[frame[d]] \in PageIds
        BY VictimFacts, SMT DEF Choosing, Replacing, IInv, TypeOK
      <3>2. pc[d] = "fclean" => page[d] \in PageIds
        BY PinFacts DEF Pinning
      <3>3. \A q \in PageIds : store[q] = latest[q] => store'[q] = latest[q]
        BY DEF Settles
      <3> QED BY <2>1, <3>0, <3>1, <3>2, <3>3, SMT DEF ClientOK, InTransit
    <2>5. FlushProgress(d)'
      <3>0. all'[d] = all[d] /\ asked'[d] = asked[d]
        BY DEF Alone
      <3> SUFFICES ASSUME NEW p \in PageIds, NEW v, all[d], asked[d][p] = v,
                          v # -1
                   PROVE  /\ p < count /\ v <= latest[p]
                          /\ Passed(d, p)' => Stored(p, v)'
        BY <3>0 DEF FlushProgress, Stored
      <3>1. v \in Versions
        BY SMT DEF IInv, TypeOK
      <3>2. Passed(d, p)' => Passed(d, p)
        BY DEF Passed, Alone
      <3> QED BY <2>1, <3>1, <3>2, StoredKept DEF ClientOK, FlushProgress, IInv
    <2> QED BY <2>2, <2>3, <2>4, <2>5 DEF ClientOK
  <1> QED BY <1>1, <1>3, <1>4, <1>5

(* A step that changes neither the mapping nor a frame keeps the invariant. *)
LEMMA CalmStep ==
    ASSUME IInv, NEW c \in Clients, Alone(c), LockStep(c), Settles,
           UNCHANGED <<count, durableCount, durable, pages, tag, dirty, bytes,
                       poisoned, latest, acked>>,
           pc[c] # "write", pc'[c] # "write",
           TypeOK', ClientOK(c)', PinAccounting',
           \A d \in Clients \ {c} : pc[d] \in Choosing => pins'[frame[d]] = 0
    PROVE  IInv'
  <1>1. /\ MetadataExclusive' /\ LatchExclusive'
        /\ \A d \in Clients : ClientOK(d)'
        /\ MappingOK' /\ Coherent'
    BY MemoryStep
  <1>2. AckedOK'
    BY StoredKept DEF IInv, AckedOK, TypeOK, Stored
  <1>3. FlushAllDurable'
    BY <1>2 DEF IInv, FlushAllDurable, AckedOK, Stored
  <1> QED BY <1>1, <1>2, <1>3 DEF IInv

-----------------------------------------------------------------------------
(* The pin counters follow the pins.                                       *)

(* A frame has finitely many pin holders. *)
LEMMA HoldersType ==
    ASSUME NEW f
    PROVE  IsFiniteSet(Holders(f)) /\ Cardinality(Holders(f)) \in Nat
  BY FS_Subset, FS_CardinalityType DEF Holders

(* Pins still count their holders when a client keeps its pin, or has none. *)
LEMMA PinsKept ==
    ASSUME IInv, NEW c \in Clients, Alone(c), pins' = pins,
           pc'[c] \in Pinning <=> pc[c] \in Pinning,
           pc[c] \in Pinning => frame'[c] = frame[c]
    PROVE  PinAccounting'
  <1>1. ASSUME NEW f \in Frames PROVE Holders(f)' = Holders(f)
    BY DEF Holders, Alone
  <1> QED BY <1>1 DEF IInv, PinAccounting

(* Pins still count their holders when resident_pin adds one. *)
LEMMA PinTaken ==
    ASSUME IInv, NEW c \in Clients, Alone(c), NEW f \in Frames,
           pc[c] \notin Pinning, pc'[c] \in Pinning, frame'[c] = f,
           pins' = [pins EXCEPT ![f] = pins[f] + 1]
    PROVE  PinAccounting'
  <1>1. Holders(f)' = Holders(f) \union {c} /\ c \notin Holders(f)
    BY DEF Holders, Alone
  <1>2. Cardinality(Holders(f)') = Cardinality(Holders(f)) + 1
    BY <1>1, HoldersType, FS_AddElement
  <1>3. ASSUME NEW g \in Frames, g # f PROVE Holders(g)' = Holders(g)
    BY <1>3 DEF Holders, Alone
  <1> QED BY <1>2, <1>3 DEF IInv, TypeOK, PinAccounting

(* Pins still count their holders when PinnedBuffer::drop takes one away. *)
LEMMA PinReleased ==
    ASSUME IInv, NEW c \in Clients, Alone(c), NEW f \in Frames, frame[c] = f,
           pc[c] \in Pinning, pc'[c] \notin Pinning,
           pins' = [pins EXCEPT ![f] = pins[f] - 1]
    PROVE  PinAccounting'
  <1>1. Holders(f)' = Holders(f) \ {c} /\ c \in Holders(f)
    BY DEF Holders, Alone
  <1>2. Cardinality(Holders(f)') = Cardinality(Holders(f)) - 1
    <2>1. \A S : IsFiniteSet(S) /\ c \in S =>
                    Cardinality(S \ {c}) = Cardinality(S) - 1
      BY FS_RemoveElement
    <2> QED BY <1>1, <2>1, HoldersType
  <1>3. ASSUME NEW g \in Frames, g # f PROVE Holders(g)' = Holders(g)
    BY <1>3 DEF Holders, Alone
  <1> QED BY <1>2, <1>3 DEF IInv, TypeOK, PinAccounting

-----------------------------------------------------------------------------
(* The flush a client has in progress goes on: it passes a page only when  *)
(* the store has its latest version.                                       *)
LEMMA FlushKept ==
    ASSUME IInv, NEW c \in Clients, Settles, count' = count, latest' = latest,
           all'[c] => all[c], asked'[c] = asked[c],
           \A p \in PageIds : Passed(c, p)' =>
                Passed(c, p) \/ store'[p] = latest[p]
    PROVE  FlushProgress(c)'
  <1> SUFFICES ASSUME NEW p \in PageIds, NEW v, all[c], asked[c][p] = v, v # -1
               PROVE  /\ p < count /\ v <= latest[p]
                      /\ Passed(c, p)' => Stored(p, v)'
    BY DEF FlushProgress, Stored
  <1>1. v \in Versions /\ latest[p] \in Versions
    BY DEF IInv, TypeOK
  <1>2. p < count /\ v <= latest[p] /\ (Passed(c, p) => Stored(p, v))
    BY DEF IInv, ClientOK, FlushProgress
  <1>3. store'[p] = latest[p] => Stored(p, v)'
    BY <1>1, <1>2 DEF Stored, Versions
  <1>4. Stored(p, v) => Stored(p, v)'
    BY <1>1, StoredKept DEF IInv
  <1> QED BY <1>2, <1>3, <1>4

(* A step that changes no frame. *)
LEMMA QuietStep ==
    ASSUME IInv, NEW c \in Clients, Alone(c), LockStep(c), Settles,
           UNCHANGED <<count, durableCount, durable, pages, descVars,
                       historyVars>>,
           pc[c] # "write", pc'[c] # "write",
           pc'[c] \in Pinning <=> pc[c] \in Pinning,
           pc[c] \in Pinning => frame'[c] = frame[c],
           TypeOK', ClientOK(c)'
    PROVE  IInv'
  <1>1. PinAccounting'
    BY PinsKept
  <1>2. \A d \in Clients \ {c} : pc[d] \in Choosing => pins'[frame[d]] = 0
    BY VictimFacts
  <1> QED BY <1>1, <1>2, CalmStep

(* A call that returns an error without having had a pin. *)
LEMMA ReturnStep ==
    ASSUME IInv, NEW c \in Clients, pc[c] \notin Pinning, return(c), Settles,
           UNCHANGED <<count, durableCount, durable, pages, descVars,
                       historyVars>>,
           metaPoisoned' \in BOOLEAN, StoreTypeOK'
    PROVE  IInv'
  <1>1. TypeOK'
    BY DEF IInv, TypeOK, PCs, Versions
  <1>2. Alone(c) /\ pc'[c] = "idle" /\ frame'[c] = NoFrame /\ page'[c] = NoPage
        /\ all'[c] = FALSE
    BY DEF IInv, TypeOK, Alone
  <1>3. LockStep(c)
    BY <1>2, UnpinnedPlace
  <1>4. ClientOK(c)'
    BY <1>2, UnpinnedPlace DEF ClientOK, FlushProgress
  <1> QED BY <1>1, <1>2, <1>3, <1>4, QuietStep DEF Pinning

(* A client moves on and keeps all it has. *)
LEMMA MoveStep ==
    ASSUME IInv, NEW c \in Clients, NEW l \in PCs, goto(c, l),
           UNCHANGED <<localVars, count, durableCount, durable, pages, descVars,
                       metaPoisoned, historyVars>>,
           Settles, StoreTypeOK',
           pc[c] # "write", l # "write", l \in Pinning <=> pc[c] \in Pinning,
           LockStep(c), Located(c)', VictimKept(c)', InTransit(c)',
           \A p \in PageIds : Passed(c, p)' =>
                Passed(c, p) \/ store'[p] = latest[p]
    PROVE  IInv'
  <1>1. TypeOK'
    BY DEF IInv, TypeOK
  <1>2. Alone(c) /\ pc'[c] = l
    BY DEF IInv, TypeOK, Alone
  <1>3. ClientOK(c)'
    BY FlushKept DEF ClientOK
  <1> QED BY <1>1, <1>2, <1>3, QuietStep

(* A step that leaves the store alone. *)
LEMMA StoreKept ==
    ASSUME IInv, UNCHANGED storeVars
    PROVE  StoreTypeOK' /\ Settles
  BY DEF IInv, TypeOK, StoreTypeOK, Settles

-----------------------------------------------------------------------------
(* pin and new_page, from the hit or miss to the installed page. *)

(* new_page locks the metadata without a page of its own. *)
LEMMA NewPageStep ==
    ASSUME IInv, NEW c \in Clients, NewPage(c)
    PROVE  IInv'
  <1> USE DEF NewPage, MetadataFree
  <1>1. pc[c] = "idle" /\ pc'[c] = "victim" /\ frame'[c] = NoFrame
        /\ page'[c] = NoPage
    BY DEF IInv, TypeOK, ClientOK, Located
  <1>2. LockStep(c)
    BY <1>1 DEF LockStep, Shared, Exclusive
  <1>3. Located(c)' /\ VictimKept(c)' /\ InTransit(c)'
    BY <1>1 DEF Located, VictimKept, InTransit, Pinning, Shared, Exclusive,
                Choosing, Replacing
  <1>4. \A p \in PageIds : Passed(c, p)' => Passed(c, p)
    BY <1>1 DEF Passed
  <1> QED BY <1>1, <1>2, <1>3, <1>4, StoreKept, MoveStep
          DEF PCs, Metadata, Pinning

(* A pin that finds its page absent keeps the metadata, so it stays absent. *)
LEMMA PinMissStep ==
    ASSUME IInv, NEW c \in Clients, NEW p \in PageIds, PinMiss(c, p)
    PROVE  IInv'
  <1> USE DEF PinMiss, MetadataFree
  <1>1. TypeOK' /\ Alone(c)
    BY DEF IInv, TypeOK, StoreTypeOK, PCs, Metadata, Alone
  <1>2. pc[c] = "idle" /\ pc'[c] = "victim" /\ frame'[c] = NoFrame
        /\ page'[c] = p
    BY DEF IInv, TypeOK, ClientOK, Located
  <1>3. LockStep(c)
    BY <1>2 DEF LockStep, Shared, Exclusive
  <1>4. Located(c)' /\ VictimKept(c)' /\ InTransit(c)'
    BY <1>2 DEF Located, VictimKept, InTransit, Pinning, Shared, Exclusive,
                Choosing, Replacing, PageIds
  <1>5. \A q \in PageIds : Passed(c, q)' => Passed(c, q)
    BY <1>2 DEF Passed
  <1>6. ClientOK(c)'
    BY <1>4, <1>5, StoreKept, FlushKept DEF ClientOK
  <1> QED BY <1>1, <1>2, <1>3, <1>6, StoreKept, QuietStep DEF Pinning

(* State::victim answers the next vacant frame or one without pins. *)
LEMMA VictimStep ==
    ASSUME IInv, NEW c \in Clients, NEW f \in Frames, Victim(c, f)
    PROVE  IInv'
  <1> USE DEF Victim, victim, check
  <1>1. TypeOK' /\ Alone(c)
    BY DEF IInv, TypeOK, StoreTypeOK, PCs, Metadata, Alone
  <1>2. /\ pc[c] = "victim" /\ frame'[c] = f /\ page'[c] = page[c]
        /\ pc'[c] = IF page[c] = NoPage THEN "latch" ELSE "load"
    BY DEF IInv, TypeOK
  <1>3. LockStep(c)
    BY <1>2, SMT DEF LockStep, Shared, Exclusive, Metadata
  <1>4. Located(c)' /\ InTransit(c)'
    BY <1>2, SMT DEF Located, InTransit, Pinning, Shared, Exclusive, Replacing,
                Frames
  <1>5. VictimKept(c)'
    <2>1. Mapped' = Mapped
      BY DEF Mapped, Resident
    <2>2. VictimKept(c) /\ pc[c] \in Metadata
      BY <1>2 DEF IInv, ClientOK, Metadata
    <2>3. pins[f] = 0
      <3>1. CASE Mapped < Capacity
        <4>1. tag[f] = NoPage
          BY <3>1, SMT DEF IInv, MappingOK, Frames
        <4>2. \A d \in Clients : pc[d] \notin Pinning \/ frame[d] # f
          BY <4>1, PinFacts, SMT DEF PageIds
        <4>3. Holders(f) = {}
          BY <4>2 DEF Holders
        <4> QED BY <4>3, FS_EmptySet DEF IInv, PinAccounting
      <3> QED BY <3>1
    <2> QED BY <1>2, <2>1, <2>2, <2>3 DEF VictimKept
  <1>6. \A q \in PageIds : Passed(c, q)' => Passed(c, q)
    BY <1>2 DEF Passed
  <1>7. ClientOK(c)'
    BY <1>4, <1>5, <1>6, StoreKept, FlushKept DEF ClientOK
  <1> QED BY <1>1, <1>2, <1>3, <1>7, StoreKept, QuietStep, SMT DEF Pinning

(* The errors of pin, new_page and flush_all that leave all as it was. *)
LEMMA ErrorStep ==
    ASSUME IInv, NEW c \in Clients,
           \/ VictimFails(c) \/ VictimPanics(c) \/ ReadPageFails(c)
           \/ AllocatePageFails(c) \/ SyncFails(c)
           \/ \E p \in PageIds : FlushRefused(c, p)
    PROVE  IInv'
  <1>1. /\ pc[c] \in {"victim", "load", "install", "fnext"} /\ return(c)
        /\ UNCHANGED <<storeVars, pages, descVars, historyVars>>
        /\ metaPoisoned' \in {metaPoisoned, TRUE}
    BY DEF VictimFails, VictimPanics, ReadPageFails, AllocatePageFails,
           SyncFails, FlushRefused, next_page
  <1>2. metaPoisoned' \in BOOLEAN
    BY <1>1 DEF IInv, TypeOK
  <1> QED BY <1>1, <1>2, StoreKept, ReturnStep DEF Pinning

(* A policy that panics in access drops the pin it was told of. *)
LEMMA AccessPanicsStep ==
    ASSUME IInv, NEW c \in Clients, NEW p \in PageIds, AccessPanics(c, p)
    PROVE  IInv'
  <1> USE DEF AccessPanics
  <1>1. TypeOK' /\ Alone(c)
    BY DEF IInv, TypeOK, StoreTypeOK, Alone
  <1>2. ClientOK(c)'
    BY ZenonT(40) DEF IInv, ClientOK, Located, VictimKept, InTransit, FlushProgress,
           Passed, Stored, Mapped, Resident
  <1>3. LockStep(c)
    BY DEF LockStep, Metadata, Shared, Exclusive
  <1> QED BY <1>1, <1>2, <1>3, StoreKept, QuietStep

(* read_page of an absent page returns its latest version. *)
LEMMA ReadPageStep ==
    ASSUME IInv, NEW c \in Clients, ReadPage(c)
    PROVE  IInv'
  <1> USE DEF ReadPage, read_page, allocated
  <1>1. page[c] \in PageIds /\ page[c] < count /\ pages[page[c]] = NoFrame
    BY DEF IInv, TypeOK, ClientOK, Located, VictimKept, Metadata
  <1>2. store[page[c]] = latest[page[c]] /\ store[page[c]] \in Versions
    BY <1>1 DEF IInv, Coherent, TypeOK, StoreTypeOK
  <1>3. TypeOK' /\ Alone(c)
    BY <1>2 DEF IInv, TypeOK, StoreTypeOK, PCs, Metadata, Alone
  <1>4. pc[c] = "load" /\ pc'[c] = "latch" /\ incoming'[c] = store[page[c]]
    BY DEF IInv, TypeOK
  <1>5. LockStep(c)
    BY <1>4 DEF LockStep, Metadata, Shared, Exclusive
  <1>6. ClientOK(c)
    BY DEF IInv
  <1>7. Located(c)' /\ InTransit(c)'
    BY <1>1, <1>2, <1>4, <1>6 DEF ClientOK, Located, InTransit, Pinning, Shared,
                                  Exclusive
  <1>8. VictimKept(c)'
    <2>1. Mapped' = Mapped
      BY DEF Mapped, Resident
    <2> QED BY <1>4, <1>6, <2>1 DEF ClientOK, VictimKept, Metadata, Choosing,
                                    Replacing
  <1>9. \A q \in PageIds : Passed(c, q)' => Passed(c, q)
    BY <1>4 DEF Passed
  <1>10. ClientOK(c)'
    BY <1>7, <1>8, <1>9, StoreKept, FlushKept DEF ClientOK
  <1> QED BY <1>3, <1>4, <1>5, <1>10, StoreKept, QuietStep DEF Pinning

(* The victim's content lock is free, for nobody has it pinned. *)
LEMMA LatchVictimStep ==
    ASSUME IInv, NEW c \in Clients, LatchVictim(c)
    PROVE  IInv'
  <1> USE DEF LatchVictim
  <1>1. CASE ~check(frame[c])
    <2>1. metaPoisoned' \in BOOLEAN
      BY DEF IInv, TypeOK
    <2> QED BY <1>1, <2>1, StoreKept, ReturnStep DEF Pinning
  <1>2. CASE check(frame[c])
    <2>1. pc[c] = "latch" /\ pc'[c] = "evict"
      BY <1>2 DEF IInv, TypeOK
    <2>2. LockStep(c)
      <3>1. \A d \in Clients \ {c} : frame[d] # frame[c]
        BY <2>1, VictimFacts DEF Choosing, Replacing
      <3> QED BY <1>2, <2>1, <3>1 DEF LockStep, Metadata
    <2>3. ClientOK(c)
      BY DEF IInv
    <2>4. Located(c)' /\ InTransit(c)'
      BY <1>2, <2>1, <2>3 DEF check, ClientOK, Located, InTransit, Pinning,
                              Shared, Exclusive, Replacing
    <2>5. VictimKept(c)'
      <3>1. Mapped' = Mapped
        BY DEF Mapped, Resident
      <3> QED BY <1>2, <2>1, <2>3, <3>1 DEF ClientOK, VictimKept, Metadata,
                                            Choosing, Replacing
    <2>6. \A q \in PageIds : Passed(c, q)' => Passed(c, q)
      BY <1>2, <2>1 DEF Passed
    <2>7. goto(c, "evict") /\ UNCHANGED localVars
      BY <1>2
    <2> QED BY <2>1, <2>2, <2>4, <2>5, <2>6, <2>7, StoreKept, MoveStep
            DEF Pinning, PCs, Metadata
  <1> QED BY <1>1, <1>2

(* A dirty victim holds the latest version of its page. *)
LEMMA FlushVictimStep ==
    ASSUME IInv, NEW c \in Clients, FlushVictim(c) \/ FlushVictimFails(c)
    PROVE  IInv'
  <1> DEFINE f == frame[c]
  <1>0. pc[c] = "evict"
    BY DEF FlushVictim, FlushVictimFails
  <1>1. /\ f \in Frames
        /\ tag[f] # NoPage => /\ tag[f] \in PageIds
                              /\ bytes[f] = latest[tag[f]]
                              /\ bytes[f] \in Versions
        /\ \A d \in Clients \ {c} : frame[d] # f
    <2>1. pc[c] \in Choosing
      BY <1>0 DEF Choosing, Replacing
    <2> QED BY <1>0, <2>1, VictimFacts, LatchFacts, SMT DEF IInv, TypeOK
  <1>2. CASE FlushVictimFails(c)
    <2>1. Settles /\ StoreTypeOK'
      BY <1>1, <1>2 DEF FlushVictimFails, write_page_fails, Settles, IInv,
                        TypeOK, StoreTypeOK, Versions
    <2>2. metaPoisoned' \in BOOLEAN
      BY <1>2 DEF FlushVictimFails, IInv, TypeOK
    <2> QED BY <1>0, <1>2, <2>1, <2>2, ReturnStep
            DEF FlushVictimFails, write_page_fails, Pinning
  <1>3. CASE FlushVictim(c)
    <2> USE <1>3 DEF FlushVictim, write_page
    <2>1. pc'[c] = "install"
      BY DEF IInv, TypeOK
    <2>2. /\ Settles /\ StoreTypeOK'
          /\ tag[f] # NoPage => store'[tag[f]] = latest[tag[f]]
      <3>1. StoreTypeOK /\ store \in [PageIds -> Versions]
        BY DEF IInv, TypeOK, StoreTypeOK
      <3>2. CASE dirty[f] /\ tag[f] # NoPage
        BY <1>1, <3>1, <3>2 DEF Settles, StoreTypeOK
      <3>3. CASE ~(dirty[f] /\ tag[f] # NoPage)
        <4>1. UNCHANGED storeVars
          BY <3>3
        <4>2. tag[f] # NoPage => store[tag[f]] = latest[tag[f]]
          BY <1>1, <3>3 DEF IInv, Coherent
        <4> QED BY <3>1, <4>1, <4>2 DEF Settles, StoreTypeOK
      <3> QED BY <3>2, <3>3
    <2>3. LockStep(c)
      BY <1>0, <1>1, <2>1 DEF LockStep, Metadata
    <2>4. ClientOK(c)
      BY DEF IInv
    <2>5. Located(c)' /\ InTransit(c)'
      BY <1>0, <2>1, <2>2, <2>4 DEF ClientOK, Located, InTransit, Pinning,
                                    Shared, Exclusive, Replacing
    <2>6. VictimKept(c)'
      <3>1. Mapped' = Mapped
        BY DEF Mapped, Resident
      <3> QED BY <1>0, <2>1, <2>4, <3>1 DEF ClientOK, VictimKept, Metadata,
                                            Choosing, Replacing
    <2>7. \A q \in PageIds : Passed(c, q)' => Passed(c, q)
      BY <1>0, <2>1 DEF Passed
    <2>8. goto(c, "install") /\ UNCHANGED <<localVars, count, durableCount,
                durable, pages, descVars, metaPoisoned, historyVars>>
      OBVIOUS
    <2> QED BY <1>0, <2>2, <2>3, <2>5, <2>6, <2>7, <2>8, MoveStep
            DEF Pinning, PCs, Metadata
  <1> QED BY <1>2, <1>3

(* What the mapping counts after State::install. *)
LEMMA RemapCount ==
    ASSUME IInv, NEW c \in Clients, pc[c] = "install", NEW p \in PageIds,
           pages[p] = NoFrame, pages' = remap(p, frame[c])
    PROVE  /\ tag[frame[c]] = NoPage => /\ frame[c] = Mapped
                                        /\ Mapped' = Mapped + 1
                                        /\ Mapped < Capacity
           /\ tag[frame[c]] # NoPage => Mapped' = Mapped /\ frame[c] < Mapped
  <1> DEFINE f == frame[c]
  <1>1. f \in Frames /\ (Mapped < Capacity => f = Mapped)
    BY VictimFacts DEF IInv, ClientOK, VictimKept, Choosing, Replacing
  <1>2. (tag[f] # NoPage <=> f < Mapped) /\ Mapped <= Capacity
    BY <1>1 DEF IInv, MappingOK
  <1>3. IsFiniteSet(Resident) /\ p \notin Resident /\ Mapped \in Nat
    <2>1. IsFiniteSet(PageIds)
      BY FS_Interval, SMT DEF PageIds
    <2> QED BY <2>1, FS_Subset, FS_CardinalityType DEF Resident, Mapped
  <1>4. Resident' = (Resident \ {tag[f]}) \union {p}
    BY <1>1, SMT DEF Resident, remap, Frames
  <1>5. CASE tag[f] = NoPage
    <2>1. Resident' = Resident \union {p}
      BY <1>4, <1>5, SMT DEF Resident, PageIds
    <2>2. Mapped' = Mapped + 1
      BY <1>3, <2>1, FS_AddElement DEF Mapped
    <2> QED BY <1>1, <1>2, <1>3, <1>5, <2>2, SMT DEF Frames
  <1>6. CASE tag[f] # NoPage
    <2>1. tag[f] \in Resident
      BY <1>1, <1>6, SMT DEF IInv, TypeOK, MappingOK, Resident, Frames
    <2>2. IsFiniteSet(Resident \ {tag[f]})
          /\ Cardinality(Resident \ {tag[f]}) = Cardinality(Resident) - 1
      BY <1>3, <2>1, FS_RemoveElement
    <2>3. Cardinality((Resident \ {tag[f]}) \union {p})
            = Cardinality(Resident \ {tag[f]}) + 1
      BY <1>3, <2>2, FS_AddElement
    <2>4. Cardinality(Resident) \in Nat
      BY <1>3 DEF Mapped
    <2>5. Cardinality(Resident') = Cardinality(Resident)
      BY <1>4, <2>2, <2>3, <2>4, SMT
    <2> QED BY <1>2, <1>6, <2>5 DEF Mapped
  <1> QED BY <1>5, <1>6

(* The frame takes the new page, in the version the store has. *)
LEMMA InstallStep ==
    ASSUME IInv, NEW c \in Clients, pc[c] = "install", NEW p \in PageIds,
           pages[p] = NoFrame, NEW v \in Versions, install(c, p, v),
           StoreTypeOK', latest' \in [PageIds -> Versions],
           UNCHANGED <<durableCount, durable, acked>>,
           p < count', count <= count',
           \A q \in PageIds : q < count' => q < count \/ q = p,
           \A q \in PageIds : q < count =>
                store'[q] = store[q] /\ latest'[q] = latest[q],
           store'[p] = v, latest'[p] = v
    PROVE  IInv'
  <1> DEFINE f == frame[c]
  <1>1. /\ f \in Frames /\ pins[f] = 0
        /\ \A d \in Clients \ {c} : pc[d] \notin Metadata /\ frame[d] # f
    BY VictimFacts DEF Choosing, Replacing
  <1>2. ClientOK(c)
    BY DEF IInv
  <1>3. /\ \A q \in PageIds : pages'[q] = IF q = p THEN f
                                          ELSE IF q = tag[f] THEN NoFrame
                                          ELSE pages[q]
        /\ tag'[f] = p /\ bytes'[f] = v /\ dirty'[f] = FALSE
        /\ \A g \in Frames : g # f => /\ tag'[g] = tag[g]
                                      /\ bytes'[g] = bytes[g]
                                      /\ dirty'[g] = dirty[g]
        /\ poisoned' = poisoned
    BY <1>1 DEF install, remap, IInv, TypeOK
  <1>4. \/ /\ pc'[c] = "pinned" /\ page'[c] = p /\ frame'[c] = f
           /\ UNCHANGED flushVars
           /\ pins' = [pins EXCEPT ![f] = 1]
        \/ /\ pc'[c] = "idle" /\ page'[c] = NoPage /\ frame'[c] = NoFrame
           /\ all'[c] = FALSE
           /\ pins' = [pins EXCEPT ![f] = 0]
    BY DEF install, IInv, TypeOK
  <1>5. Alone(c)
    BY SMT DEF Alone, install, IInv, TypeOK
  <1>6. TypeOK'
    <2>1. /\ pages' \in [PageIds -> Frames \union {NoFrame}]
          /\ tag' \in [Frames -> PageIds \union {NoPage}]
          /\ bytes' \in [Frames -> Versions \union {Partial}]
      <3>1. pages' = remap(p, f) /\ bytes' = [bytes EXCEPT ![f] = v]
            /\ tag' = [tag EXCEPT ![f] = p]
        BY DEF install
      <3>2. pages' \in [PageIds -> Frames \union {NoFrame}]
        BY <1>1, <3>1 DEF remap, IInv, TypeOK
      <3>3. /\ tag \in [Frames -> PageIds \union {NoPage}]
            /\ bytes \in [Frames -> Versions \union {Partial}]
        BY DEF IInv, TypeOK
      <3>4. tag' \in [Frames -> PageIds \union {NoPage}]
        BY <1>1, <3>1, <3>3
      <3>5. bytes' \in [Frames -> Versions \union {Partial}]
        BY <1>1, <3>1, <3>3
      <3> QED BY <3>2, <3>4, <3>5
    <2>2. pins' \in [Frames -> 0 .. MaxPins]
      <3>1. pins \in [Frames -> 0 .. MaxPins] /\ MaxPins \in Nat \ {0}
        BY DEF IInv, TypeOK
      <3> QED BY <1>1, <1>4, <3>1, SMT
    <2>3. /\ dirty' \in [Frames -> BOOLEAN]
          /\ poisoned' \in [Frames -> BOOLEAN]
          /\ metaPoisoned' \in BOOLEAN
      BY DEF install, IInv, TypeOK
    <2>4. \/ /\ pc' = [pc EXCEPT ![c] = "pinned"]
             /\ page' = [page EXCEPT ![c] = p]
             /\ incoming' = [incoming EXCEPT ![c] = 0]
             /\ UNCHANGED <<frame, flushVars>>
          \/ return(c)
      BY DEF install
    <2>5. /\ pc' \in [Clients -> PCs]
          /\ frame' \in [Clients -> Frames \union {NoFrame}]
          /\ page' \in [Clients -> PageIds \union {NoPage}]
          /\ incoming' \in [Clients -> Versions]
          /\ todo' \in [Clients -> SUBSET PageIds]
          /\ asked' \in [Clients -> [PageIds -> Versions]]
      <3>1. 0 \in Versions /\ -1 \in Versions
            /\ "pinned" \in PCs /\ "idle" \in PCs
        BY DEF Versions, PCs, Pinning
      <3>2. CASE return(c)
        BY <3>1, <3>2 DEF IInv, TypeOK
      <3>3. CASE /\ pc' = [pc EXCEPT ![c] = "pinned"]
                 /\ page' = [page EXCEPT ![c] = p]
                 /\ incoming' = [incoming EXCEPT ![c] = 0]
                 /\ UNCHANGED <<frame, flushVars>>
        BY <3>1, <3>3 DEF IInv, TypeOK
      <3> QED BY <2>4, <3>2, <3>3
    <2>6. all' \in [Clients -> BOOLEAN] /\ acked' \in [PageIds -> Versions]
      BY DEF install, IInv, TypeOK
    <2> QED BY <2>1, <2>2, <2>3, <2>4, <2>5, <2>6 DEF TypeOK
  <1>7. MetadataExclusive' /\ LatchExclusive'
    <2>1. LockStep(c)
      BY <1>4 DEF LockStep, Metadata, Exclusive, Shared
    <2> QED BY <1>5, <2>1, LocksKept
  <1>8. PinAccounting'
    <2>1. CASE pc'[c] = "pinned"
      BY <1>1, <1>4, <1>5, <2>1, PinTaken, SMT DEF Pinning
    <2>2. CASE pc'[c] = "idle"
      <3>1. pins' = pins
        BY <1>1, <1>4, <2>2 DEF IInv, TypeOK
      <3> QED BY <1>5, <2>2, <3>1, PinsKept DEF Pinning
    <2> QED BY <1>4, <2>1, <2>2
  <1>9. MappingOK'
    <2>1. \A g \in Frames : g # f /\ tag[g] # NoPage =>
                /\ tag[g] \in PageIds /\ pages[tag[g]] = g
                /\ tag[g] # p /\ tag[g] # tag[f]
      BY <1>1, SMT DEF IInv, TypeOK, MappingOK, Frames
    <2>2. \A q \in PageIds : pages[q] # NoFrame => tag[pages[q]] = q /\ q < count
      BY DEF IInv, MappingOK
    <2>3. \A q \in PageIds : pages'[q] # NoFrame =>
                tag'[pages'[q]] = q /\ q < count'
      <3> SUFFICES ASSUME NEW q \in PageIds, pages'[q] # NoFrame, q # p
                   PROVE  tag'[pages'[q]] = q /\ q < count'
        BY <1>3
      <3>1. pages'[q] = pages[q] /\ pages[q] \in Frames /\ q # tag[f]
        BY <1>3, SMT DEF IInv, TypeOK
      <3>2. q < count /\ tag[pages[q]] = q
        BY <2>2, <3>1
      <3>3. q < count'
        BY <3>2, SMT DEF IInv, TypeOK, StoreTypeOK, PageIds
      <3> QED BY <1>3, <3>1, <3>2, <3>3
    <2>4. \A g \in Frames : tag'[g] # NoPage => pages'[tag'[g]] = g
      BY <1>3, <2>1, SMT
    <2>5. Mapped' <= Capacity /\ \A g \in Frames : tag'[g] # NoPage <=> g < Mapped'
      <3>1. /\ \A g \in Frames : tag[g] # NoPage <=> g < Mapped
            /\ Mapped <= Capacity
        BY DEF IInv, MappingOK
      <3>2. p # NoPage
        BY SMT DEF PageIds
      <3>3. pages' = remap(p, f)
        BY DEF install
      <3>4. CASE tag[f] = NoPage
        <4>1. f = Mapped /\ Mapped' = Mapped + 1 /\ Mapped < Capacity
          BY <3>3, <3>4, RemapCount
        <4>2. \A g \in Frames : g < Mapped' <=> g = f \/ g < Mapped
          BY <1>1, <4>1, SMT DEF Frames
        <4>3. Mapped' <= Capacity
          BY <1>1, <4>1, SMT DEF Frames
        <4> QED BY <1>3, <3>1, <3>2, <4>2, <4>3
      <3>5. CASE tag[f] # NoPage
        <4>1. Mapped' = Mapped /\ f < Mapped
          BY <3>3, <3>5, RemapCount
        <4> QED BY <1>3, <3>1, <3>2, <4>1
      <3> QED BY <3>4, <3>5
    <2> QED BY <2>3, <2>4, <2>5 DEF MappingOK
  <1>10. Coherent'
    <2>1. ASSUME NEW q \in PageIds, q < count', pages'[q] = NoFrame
          PROVE  store'[q] = latest'[q]
      <3>1. q # p /\ q < count
        BY <1>1, <1>3, <2>1, SMT DEF Frames
      <3>2. store[q] = latest[q]
        <4>1. CASE q = tag[f]
          <5>1. tag[f] # NoPage
            BY <4>1, SMT DEF PageIds
          <5> QED BY <1>2, <4>1, <5>1 DEF ClientOK, InTransit
        <4>2. CASE q # tag[f]
          <5>1. pages[q] = NoFrame
            BY <1>3, <2>1, <3>1, <4>2
          <5> QED BY <3>1, <5>1 DEF IInv, Coherent
        <4> QED BY <4>1, <4>2
      <3> QED BY <3>1, <3>2
    <2>2. ASSUME NEW g \in Frames, g # f, tag'[g] # NoPage
          PROVE  /\ ~dirty'[g] => store'[tag'[g]] = latest'[tag'[g]]
                 /\ \/ bytes'[g] = latest'[tag'[g]]
                    \/ dirty'[g] /\ poisoned'[g]
                    \/ dirty'[g] /\ Writing(g)'
      <3>1. /\ tag'[g] = tag[g] /\ bytes'[g] = bytes[g] /\ dirty'[g] = dirty[g]
            /\ poisoned'[g] = poisoned[g]
        BY <1>3, <2>2
      <3>2. tag[g] \in PageIds /\ tag[g] < count
        BY <2>2, <3>1, SMT DEF IInv, TypeOK, MappingOK, Frames
      <3>3. Writing(g) => Writing(g)'
        BY <1>5 DEF Writing, Alone
      <3>4. /\ ~dirty[g] => store[tag[g]] = latest[tag[g]]
            /\ \/ bytes[g] = latest[tag[g]]
               \/ dirty[g] /\ poisoned[g]
               \/ dirty[g] /\ Writing(g)
        BY <2>2, <3>1 DEF IInv, Coherent
      <3>5. /\ store'[tag[g]] = store[tag[g]]
            /\ latest'[tag[g]] = latest[tag[g]]
        BY <3>2
      <3> QED BY <3>1, <3>3, <3>4, <3>5
    <2> QED BY <1>3, <2>1, <2>2 DEF Coherent
  <1>11. ASSUME NEW d \in Clients, all'[d] => all[d] /\ asked'[d] = asked[d],
                \A q \in PageIds : all'[d] /\ Passed(d, q)' => Passed(d, q)
         PROVE  FlushProgress(d)'
    <2> SUFFICES ASSUME NEW q \in PageIds, NEW w, all'[d], asked'[d][q] = w,
                        w # -1
                 PROVE  /\ q < count' /\ w <= latest'[q]
                        /\ Passed(d, q)' => Stored(q, w)'
      BY DEF FlushProgress, Stored
    <2>1. /\ q < count /\ w <= latest[q]
          /\ Passed(d, q) => Stored(q, w)
      BY <1>11 DEF IInv, ClientOK, FlushProgress
    <2>2. q < count'
      BY <2>1, SMT DEF IInv, TypeOK, StoreTypeOK, PageIds
    <2> QED BY <1>11, <2>1, <2>2 DEF Stored
  <1>12. ASSUME NEW d \in Clients \ {c} PROVE ClientOK(d)'
    <2>1. ClientOK(d) /\ pc[d] \notin Metadata /\ frame[d] # f
      BY <1>1 DEF IInv
    <2>2. pc[d] \in Pinning => /\ page[d] \in PageIds /\ page[d] < count
                               /\ page[d] # p /\ page[d] # tag[f]
                               /\ pages[page[d]] = frame[d]
      <3> SUFFICES ASSUME pc[d] \in Pinning
                   PROVE  /\ page[d] \in PageIds /\ page[d] < count
                          /\ page[d] # p /\ page[d] # tag[f]
                          /\ pages[page[d]] = frame[d]
        OBVIOUS
      <3>1. /\ frame[d] \in Frames /\ page[d] \in PageIds
            /\ pages[page[d]] = frame[d] /\ page[d] < count
        BY PinFacts
      <3>2. tag[f] # NoPage => pages[tag[f]] = f
        BY <1>1 DEF IInv, MappingOK
      <3> QED BY <2>1, <3>1, <3>2, SMT DEF Frames, PageIds
    <2>3. Located(d)'
      <3>1. pc[d] \in Pinning => pages'[page[d]] = frame[d]
        BY <1>3, <2>2
      <3> QED BY <1>3, <1>5, <2>1, <3>1 DEF ClientOK, Located, Alone
    <2>4. VictimKept(d)'
      BY <1>5, <2>1 DEF VictimKept, Alone, Choosing, Replacing, Metadata
    <2>5. InTransit(d)'
      <3>1. pc[d] = "write" => dirty'[frame[d]] = dirty[frame[d]]
        BY <1>3, <2>1, PinFacts DEF Pinning
      <3> QED BY <1>5, <2>1, <2>2, <3>1, SMT
              DEF ClientOK, InTransit, Alone, Replacing, Metadata, Pinning
    <2>6. FlushProgress(d)'
      BY <1>5, <1>11 DEF Alone, Passed
    <2> QED BY <2>3, <2>4, <2>5, <2>6 DEF ClientOK
  <1>13. ClientOK(c)'
    <2>1. Located(c)' /\ VictimKept(c)' /\ InTransit(c)'
      <3>1. CASE pc'[c] = "pinned"
        BY <1>1, <1>3, <1>4, <3>1, PinnedPlace
      <3>2. CASE pc'[c] = "idle"
        BY <1>4, <3>2, UnpinnedPlace
      <3> QED BY <1>4, <3>1, <3>2
    <2>2. \A q \in PageIds : all'[c] /\ Passed(c, q)' => Passed(c, q)
      BY <1>4 DEF Passed
    <2>3. all'[c] => all[c] /\ asked'[c] = asked[c]
      BY <1>4
    <2> QED BY <1>11, <2>1, <2>2, <2>3 DEF ClientOK
  <1>14. AckedOK' /\ FlushAllDurable'
    <2>1. ASSUME NEW q \in PageIds, acked[q] # -1
          PROVE  /\ q < count /\ q < count'
                 /\ store'[q] = store[q] /\ latest'[q] = latest[q]
      BY <2>1, SMT DEF IInv, AckedOK, Stored, TypeOK, StoreTypeOK, PageIds
    <2>2. AckedOK'
      BY <2>1 DEF IInv, AckedOK, Stored
    <2>3. FlushAllDurable'
      BY <2>1 DEF IInv, FlushAllDurable
    <2> QED BY <2>2, <2>3
  <1> QED BY <1>6, <1>7, <1>8, <1>9, <1>10, <1>12, <1>13, <1>14 DEF IInv

(* A miss installs the page it read. *)
LEMMA InstallPinStep ==
    ASSUME IInv, NEW c \in Clients, InstallPin(c)
    PROVE  IInv'
  <1> USE DEF InstallPin
  <1>1. /\ page[c] \in PageIds /\ pages[page[c]] = NoFrame
        /\ page[c] < count /\ incoming[c] = latest[page[c]]
        /\ incoming[c] \in Versions
    BY SMT DEF IInv, TypeOK, ClientOK, VictimKept, InTransit, Metadata, Replacing
  <1>2. store[page[c]] = latest[page[c]]
    BY <1>1 DEF IInv, Coherent
  <1>3. StoreTypeOK' /\ latest' \in [PageIds -> Versions] /\ count <= count'
    BY SMT DEF IInv, TypeOK, StoreTypeOK
  <1> QED BY <1>1, <1>2, <1>3, InstallStep

(* new_page installs the page it allocated, zeroed. *)
LEMMA InstallNewPageStep ==
    ASSUME IInv, NEW c \in Clients, InstallNewPage(c)
    PROVE  IInv'
  <1> USE DEF InstallNewPage, allocate_page
  <1>1. PICK p \in PageIds : /\ allocate_page(p) /\ install(c, p, 0)
                             /\ latest' = [latest EXCEPT ![p] = 0]
    OBVIOUS
  <1>2. pages[p] = NoFrame
    BY <1>1, SMT DEF IInv, MappingOK, PageIds
  <1>3. /\ StoreTypeOK' /\ latest' \in [PageIds -> Versions] /\ 0 \in Versions
        /\ store'[p] = 0 /\ latest'[p] = 0
    BY <1>1, SMTT(40) DEF IInv, TypeOK, StoreTypeOK, Versions
  <1>4. /\ p < count' /\ count <= count'
        /\ \A q \in PageIds : q < count' => q < count \/ q = p
        /\ \A q \in PageIds : q < count =>
                store'[q] = store[q] /\ latest'[q] = latest[q]
    BY <1>1, SMT DEF IInv, TypeOK, StoreTypeOK, PageIds
  <1> QED BY <1>1, <1>2, <1>3, <1>4, InstallStep
=============================================================================
