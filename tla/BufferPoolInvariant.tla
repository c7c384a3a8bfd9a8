------------------------ MODULE BufferPoolInvariant ------------------------
(***************************************************************************)
(* The inductive invariant behind BufferPool's safety properties: what the *)
(* locks exclude, what each client may rely on where it stands, and what   *)
(* the store and the frames hold between the steps of a replacement or a   *)
(* flush.                                                                  *)
(***************************************************************************)
EXTENDS BufferPool

(* One client at a time holds the metadata mutex. *)
MetadataExclusive ==
    \A c, d \in Clients : pc[c] \in Metadata /\ pc[d] \in Metadata => c = d

(* A content lock has one writer, or readers only. *)
LatchExclusive ==
    \A c, d \in Clients :
        c # d /\ pc[c] \in Exclusive /\ frame[c] = frame[d]
            => pc[d] \notin Shared \union Exclusive

(* A client knows its frame and its page where it uses them. *)
Located(c) ==
    /\ pc[c] \in {"idle", "fnext", "victim"} <=> frame[c] = NoFrame
    /\ pc[c] \in {"idle", "fnext"} => page[c] = NoPage
    /\ pc[c] \in Pinning \union {"load"} => page[c] # NoPage
    /\ pc[c] \in Pinning => pages[page[c]] = frame[c]
    /\ pc[c] \in Shared \union Exclusive => ~poisoned[frame[c]]
    /\ pc[c] = "fnext" => all[c]

(* The page a miss loads stays absent and the victim it chose stays free. *)
VictimKept(c) ==
    /\ pc[c] \in Metadata /\ page[c] # NoPage => pages[page[c]] = NoFrame
    /\ pc[c] \in Choosing =>
          /\ pins[frame[c]] = 0
          /\ Mapped < Capacity => frame[c] = Mapped

(* What a replacement or a flush has read or written is still the latest,  *)
(* and what a callback is writing is marked dirty.                         *)
InTransit(c) ==
    /\ pc[c] \in Replacing /\ page[c] # NoPage =>
          page[c] < count /\ incoming[c] = latest[page[c]]
    /\ pc[c] = "install" /\ tag[frame[c]] # NoPage =>
          store[tag[frame[c]]] = latest[tag[frame[c]]]
    /\ pc[c] = "fclean" => store[page[c]] = latest[page[c]]
    /\ pc[c] = "write" => dirty[frame[c]]

(* Version v of the page, or a later one, has been written to the store. *)
Stored(p, v) ==
    /\ p < count
    /\ v <= latest[p]
    /\ store[p] >= v \/ store[p] = Torn
    /\ v = latest[p] => store[p] = v

(* Whether flush_all is done with the page: flushed, absent or clean. *)
Passed(c, p) ==
    /\ p \notin todo[c]
    /\ pc[c] \in {"fpinned", "fwrite"} => page[c] # p

(* What flush_all saw when it began it has stored as far as it has come. *)
FlushProgress(c) ==
    \A p \in PageIds : all[c] /\ asked[c][p] # -1 =>
        /\ p < count /\ asked[c][p] <= latest[p]
        /\ Passed(c, p) => Stored(p, asked[c][p])

ClientOK(c) ==
    Located(c) /\ VictimKept(c) /\ InTransit(c) /\ FlushProgress(c)

(* MappingConsistent for the pool alone, and its bounds. *)
MappingOK ==
    /\ \A p \in PageIds : pages[p] # NoFrame => tag[pages[p]] = p /\ p < count
    /\ \A f \in Frames : tag[f] # NoPage => pages[tag[f]] = f
    /\ \A f \in Frames : tag[f] # NoPage <=> f < Mapped
    /\ Mapped <= Capacity

AckedOK ==
    \A p \in PageIds : acked[p] # -1 => Stored(p, acked[p])

IInv ==
    /\ TypeOK
    /\ MetadataExclusive /\ LatchExclusive
    /\ \A c \in Clients : ClientOK(c)
    /\ MappingOK /\ PinAccounting
    /\ Coherent
    /\ AckedOK /\ FlushAllDurable
=============================================================================
