------------------------- MODULE AsyncLoadProofs ----------------------------
(***************************************************************************)
(* The loading protocol of crates/storage/src/models/buffer_pool.rs, for   *)
(* any frames, pages and finitely many backends.  LoadInv is the inductive *)
(* invariant behind the properties that its Stateright model checks on     *)
(* small instances; here are the facts about its states, a lemma for each  *)
(* step, and the theorems: the invariants and the action properties for    *)
(* every number of frames, pages and backends.                             *)
(***************************************************************************)
EXTENDS AsyncLoad, FiniteSetTheorems, TLAPS

USE AsyncLoadAssumption, ZenonT(40), SMTT(40) DEF vars, with_pins

-----------------------------------------------------------------------------
(* The variants of enum Frame: their tags and fields, that they are frame  *)
(* states, and that there are no others.                                   *)
LEMMA FrameFields ==
    /\ Free.kind = "Free"
    /\ \A p, b : /\ Reserved(p, b).kind = "Reserved"
                 /\ Reserved(p, b).target = p /\ Reserved(p, b).owner = b
    /\ \A q, p, b : /\ Flushing(q, p, b).kind = "Flushing"
                    /\ Flushing(q, p, b).page = q
                    /\ Flushing(q, p, b).target = p /\ Flushing(q, p, b).owner = b
    /\ \A p, io : /\ Loading(p, io).kind = "Loading" /\ Loading(p, io).page = p
                  /\ Loading(p, io).io_started = io
    /\ \A p, n, d : /\ Ready(p, n, d).kind = "Ready" /\ Ready(p, n, d).page = p
                    /\ Ready(p, n, d).pin_count = n /\ Ready(p, n, d).dirty = d
  BY DEF Free, Reserved, Flushing, Loading, Ready

(* What the constructors of a frame state build is a frame state. *)
LEMMA FrameMembers ==
    /\ Free \in FrameStates
    /\ \A p \in Pages, b \in Backends : Reserved(p, b) \in FrameStates
    /\ \A q, p \in Pages, b \in Backends : Flushing(q, p, b) \in FrameStates
    /\ \A p \in Pages, io \in BOOLEAN : Loading(p, io) \in FrameStates
    /\ \A p \in Pages, n \in 0 .. Cardinality(Backends), d \in BOOLEAN :
           Ready(p, n, d) \in FrameStates
  BY SMT DEF FrameStates

(* Each frame state was built by one of the constructors of enum Frame. *)
LEMMA FrameCases ==
    ASSUME NEW v \in FrameStates
    PROVE  \/ v = Free
           \/ \E p \in Pages, b \in Backends : v = Reserved(p, b)
           \/ \E q, p \in Pages, b \in Backends : v = Flushing(q, p, b)
           \/ \E p \in Pages, io \in BOOLEAN : v = Loading(p, io)
           \/ \E p \in Pages, n \in 0 .. Cardinality(Backends), d \in BOOLEAN :
                  v = Ready(p, n, d)
  BY SMT DEF FrameStates

(* The fields of a frame state have the types enum Frame gives them. *)
LEMMA FrameTypes ==
    ASSUME NEW v \in FrameStates
    PROVE  /\ v.kind \in {"Free", "Reserved", "Flushing", "Loading", "Ready"}
           /\ v.kind = "Reserved" => v.target \in Pages /\ v.owner \in Backends
           /\ v.kind = "Flushing" =>
                  v.page \in Pages /\ v.target \in Pages /\ v.owner \in Backends
           /\ v.kind = "Loading" => v.page \in Pages /\ v.io_started \in BOOLEAN
           /\ v.kind = "Ready" =>
                  /\ v.page \in Pages /\ v.dirty \in BOOLEAN
                  /\ v.pin_count \in 0 .. Cardinality(Backends)
  <1>1. CASE v = Free
    BY <1>1, FrameFields
  <1>2. CASE \E p \in Pages, b \in Backends : v = Reserved(p, b)
    BY <1>2, FrameFields, SMT
  <1>3. CASE \E q, p \in Pages, b \in Backends : v = Flushing(q, p, b)
    BY <1>3, FrameFields, SMT
  <1>4. CASE \E p \in Pages, io \in BOOLEAN : v = Loading(p, io)
    BY <1>4, FrameFields, SMT
  <1>5. CASE \E p \in Pages, n \in 0 .. Cardinality(Backends), d \in BOOLEAN :
                 v = Ready(p, n, d)
    BY <1>5, FrameFields, SMT
  <1> QED BY <1>1, <1>2, <1>3, <1>4, <1>5, FrameCases

-----------------------------------------------------------------------------
(* The variants of enum Backend. *)
LEMMA BackendFields ==
    /\ Idle.kind = "Idle"
    /\ \A k, p, r : /\ Wants(k, p, r).kind = k /\ Wants(k, p, r).page = p
                    /\ Wants(k, p, r).retry = r
    /\ \A k, f, p, r : /\ Awaits(k, f, p, r).kind = k /\ Awaits(k, f, p, r).frame = f
                       /\ Awaits(k, f, p, r).page = p /\ Awaits(k, f, p, r).retry = r
    /\ \A k, f, p : /\ Holds(k, f, p).kind = k /\ Holds(k, f, p).frame = f
                    /\ Holds(k, f, p).page = p
  BY DEF Idle, Wants, Awaits, Holds

(* What the constructors of a backend state build is a backend state. *)
LEMMA BackendMembers ==
    /\ Idle \in BackendStates
    /\ \A k \in {"Request", "Miss"}, p \in Pages, r \in BOOLEAN : Wants(k, p, r) \in BackendStates
    /\ \A k \in {"Reserved", "Waiting"}, f \in Frames, p \in Pages, r \in BOOLEAN :
           Awaits(k, f, p, r) \in BackendStates
    /\ \A k \in {"Pinned", "Reading", "Writing"}, f \in Frames, p \in Pages :
           Holds(k, f, p) \in BackendStates
  BY SMT DEF BackendStates

(* The fields of a backend state have the types enum Backend gives them. *)
LEMMA BackendTypes ==
    ASSUME NEW r \in BackendStates
    PROVE  /\ r.kind \in {"Idle", "Request", "Miss", "Reserved", "Waiting",
                          "Pinned", "Reading", "Writing"}
           /\ r.kind \in {"Request", "Miss"} => r.page \in Pages /\ r.retry \in BOOLEAN
           /\ r.kind \in {"Reserved", "Waiting"} =>
                  r.frame \in Frames /\ r.page \in Pages /\ r.retry \in BOOLEAN
           /\ r.kind \in {"Pinned", "Reading", "Writing"} => r.frame \in Frames /\ r.page \in Pages
  <1>1. \/ r = Idle
        \/ \E k \in {"Request", "Miss"}, p \in Pages, t \in BOOLEAN : r = Wants(k, p, t)
        \/ \E k \in {"Reserved", "Waiting"}, f \in Frames, p \in Pages, t \in BOOLEAN :
               r = Awaits(k, f, p, t)
        \/ \E k \in {"Pinned", "Reading", "Writing"}, f \in Frames, p \in Pages : r = Holds(k, f, p)
    BY SMT DEF BackendStates
  <1>2. CASE r = Idle
    BY <1>2, BackendFields
  <1>3. CASE \E k \in {"Request", "Miss"}, p \in Pages, t \in BOOLEAN : r = Wants(k, p, t)
    BY <1>3, BackendFields, SMT
  <1>4. CASE \E k \in {"Reserved", "Waiting"}, f \in Frames, p \in Pages, t \in BOOLEAN :
                 r = Awaits(k, f, p, t)
    BY <1>4, BackendFields, SMT
  <1>5. CASE \E k \in {"Pinned", "Reading", "Writing"}, f \in Frames, p \in Pages : r = Holds(k, f, p)
    BY <1>5, BackendFields, SMT
  <1> QED BY <1>1, <1>2, <1>3, <1>4, <1>5

-----------------------------------------------------------------------------
(* A writer of a frame is the only backend that accesses it. *)
WriterAlone ==
    \A b, c \in Backends :
        /\ backends[b].kind = "Writing" /\ backends[c].kind \in {"Reading", "Writing"}
        /\ backends[b].frame = backends[c].frame
        => b = c

(* The inductive invariant: the five need each other.  A pin is counted    *)
(* exactly only while the mapping names its frame, and the owner of a      *)
(* frame and its waiters tell which frames no pin can be on.               *)
LoadInv == TypeOK /\ MappingBijection /\ PinAccounting /\ Ownership /\ WriterAlone

Holding == {"Pinned", "Reading", "Writing"}

(* Sets of backends are finite and no larger than the set of them all. *)
LEMMA SomeBackends ==
    ASSUME NEW S \in SUBSET Backends
    PROVE  /\ IsFiniteSet(S)
           /\ Cardinality(S) \in 0 .. Cardinality(Backends)
  <1>1. IsFiniteSet(S) /\ Cardinality(S) <= Cardinality(Backends)
    BY FS_Subset
  <1>2. Cardinality(S) \in Nat /\ Cardinality(Backends) \in Nat
    BY <1>1, FS_CardinalityType
  <1> QED BY <1>1, <1>2, SMT

(* The pins of a frame are countable: at most one for each backend. *)
LEMMA PinsFinite ==
    ASSUME NEW f
    PROVE  /\ IsFiniteSet(Pins(f))
           /\ Cardinality(Pins(f)) \in 0 .. Cardinality(Backends)
  <1>1. Pins(f) \in SUBSET Backends
    BY DEF Pins
  <1> QED BY <1>1, SomeBackends

(* What the pin set of a frame is when one backend has changed. *)
LEMMA PinsAfter ==
    ASSUME NEW b \in Backends, NEW s, TypeOK, become(b, s)
    PROVE  \A f : Pins(f)' = IF s.kind \in Holding /\ s.frame = f THEN Pins(f) \union {b}
                             ELSE Pins(f) \ {b}
  <1>1. \A c \in Backends : backends'[c] = IF c = b THEN s ELSE backends[c]
    BY DEF become, TypeOK
  <1> QED BY <1>1 DEF Pins, Holding

(* A backend that holds a pin: its frame is ready with its page and counts *)
(* the pin.                                                                *)
LEMMA HolderFacts ==
    ASSUME LoadInv, NEW b \in Backends, backends[b].kind \in Holding
    PROVE  LET f == backends[b].frame IN
           /\ f \in Frames /\ b \in Pins(f)
           /\ frames[f] \in FrameStates /\ frames[f].kind = "Ready"
           /\ frames[f].page = backends[b].page /\ backends[b].page \in Pages
           /\ frames[f].pin_count = Cardinality(Pins(f))
           /\ frames[f].pin_count - 1 \in 0 .. Cardinality(Backends)
  <1> DEFINE f == backends[b].frame
  <1>1. f \in Frames /\ backends[b].page \in Pages
    BY BackendTypes DEF LoadInv, TypeOK, Holding
  <1>2. b \in Pins(f)
    BY DEF Pins, Holding
  <1>3. /\ frames[f] \in FrameStates /\ frames[f].kind = "Ready"
        /\ frames[f].page = backends[b].page /\ frames[f].pin_count = Cardinality(Pins(f))
    BY <1>1, <1>2 DEF LoadInv, TypeOK, PinAccounting
  <1>4. Cardinality(Pins(f)) # 0
    BY <1>2, PinsFinite, FS_EmptySet
  <1>5. Cardinality(Pins(f)) \in 0 .. Cardinality(Backends)
    BY PinsFinite
  <1> HIDE DEF f
  <1>6. Cardinality(Pins(f)) - 1 \in 0 .. Cardinality(Backends)
    <2>1. Cardinality(Backends) \in Nat
      BY FS_CardinalityType
    <2> QED BY <1>4, <1>5, <2>1, SMT
  <1> QED BY <1>1, <1>2, <1>3, <1>6 DEF f

(* A frame that is reserved: its owner is a backend that reserves it. *)
LEMMA OwnerFacts ==
    ASSUME LoadInv, NEW f \in Frames, frames[f].kind \in {"Reserved", "Flushing"}
    PROVE  LET b == frames[f].owner IN
           /\ b \in Backends /\ frames[f].target \in Pages
           /\ backends[b].kind = "Reserved" /\ backends[b].frame = f
           /\ backends[b].page = frames[f].target /\ backends[b].retry \in BOOLEAN
  <1>1. frames[f] \in FrameStates
    BY DEF LoadInv, TypeOK
  <1>2. frames[f].owner \in Backends /\ frames[f].target \in Pages
    BY <1>1, FrameTypes
  <1>3. backends[frames[f].owner] \in BackendStates
    BY <1>2 DEF LoadInv, TypeOK
  <1>4. /\ backends[frames[f].owner].kind = "Reserved" /\ backends[frames[f].owner].frame = f
        /\ backends[frames[f].owner].page = frames[f].target
    BY DEF LoadInv, Ownership
  <1> QED BY <1>2, <1>3, <1>4, BackendTypes

(* A step of a backend that holds, reserves and waits for nothing after it, *)
(* and neither held nor reserved a frame before.                            *)
LEMMA Quiet ==
    ASSUME LoadInv, NEW b \in Backends, NEW s \in BackendStates, become(b, s),
           backends[b].kind \in {"Idle", "Request", "Miss", "Waiting"},
           s.kind \in {"Idle", "Request", "Miss"}, UNCHANGED <<frames, page_table>>
    PROVE  LoadInv'
  <1>1. \A c \in Backends : backends'[c] = IF c = b THEN s ELSE backends[c]
    BY DEF become, LoadInv, TypeOK
  <1>2. TypeOK'
    BY DEF LoadInv, TypeOK, become
  <1>3. MappingBijection'
    BY DEF LoadInv, MappingBijection, Published
  <1>4. PinAccounting'
    <2>1. \A f : Pins(f)' = Pins(f)
      BY <1>1 DEF Pins
    <2>2. \A f, c : c \in Pins(f) => backends'[c] = backends[c]
      BY <1>1 DEF Pins
    <2> QED BY <2>1, <2>2 DEF LoadInv, PinAccounting
  <1>5. Ownership'
    <2>1. \A f \in Frames : frames[f].kind \in {"Reserved", "Flushing"} =>
              backends'[frames[f].owner] = backends[frames[f].owner]
      BY <1>1, OwnerFacts
    <2> QED BY <1>1, <2>1, SMT DEF LoadInv, Ownership
  <1>6. WriterAlone'
    BY <1>1 DEF LoadInv, WriterAlone
  <1> QED BY <1>2, <1>3, <1>4, <1>5, <1>6 DEF LoadInv

-----------------------------------------------------------------------------
(* What the page table says of a page and its frame. *)
LEMMA MappedFacts ==
    ASSUME LoadInv, NEW p \in Pages, page_table[p] # NoFrame
    PROVE  /\ page_table[p] \in Frames
           /\ frames[page_table[p]].kind \in {"Ready", "Loading", "Flushing"}
           /\ frames[page_table[p]].page = p
  BY SMT DEF LoadInv, TypeOK, MappingBijection, Published

(* The frames a backend joins another's load with: its own reservation is  *)
(* given back.                                                             *)
released(b) ==
    IF backends[b].kind = "Reserved" THEN [frames EXCEPT ![backends[b].frame] = Free]
    ELSE frames

(* State::join on the frame of a published page. *)
LEMMA JoinStep ==
    ASSUME LoadInv, NEW b \in Backends, backends[b].kind \in {"Request", "Miss", "Reserved"},
           backends[b].kind = "Reserved" => frames[backends[b].frame].kind = "Reserved",
           NEW p, NEW t, NEW f, p = backends[b].page, t = backends[b].retry,
           f = page_table[p], f # NoFrame, join(released(b), b, f, p, t), UNCHANGED page_table
    PROVE  LoadInv'
  <1> DEFINE r == backends[b]
  <1>1. p \in Pages /\ t \in BOOLEAN /\ (r.kind = "Reserved" => r.frame \in Frames)
    BY BackendTypes DEF LoadInv, TypeOK
  <1>2. /\ f \in Frames /\ frames[f].kind \in {"Ready", "Loading", "Flushing"}
        /\ frames[f].page = p
    BY <1>1, MappedFacts
  <1>3. \A h \in Frames : /\ released(b)[h] = frames[h] \/ (released(b)[h] = Free
                                 /\ r.kind = "Reserved" /\ h = r.frame)
                          /\ (r.kind = "Reserved" /\ h = r.frame) => released(b)[h] = Free
    BY DEF released, LoadInv, TypeOK
  <1>4. released(b) \in [Frames -> FrameStates] /\ released(b)[f] = frames[f]
    BY <1>1, <1>2, FrameMembers DEF released, LoadInv, TypeOK
  <1>5. r.kind = "Reserved" => frames[r.frame].owner = b
    BY DEF LoadInv, Ownership
  <1>6. ASSUME NEW h \in Frames, frames[h].kind \in {"Reserved", "Flushing"},
               released(b)[h] = frames[h]
        PROVE  frames[h].owner # b
    BY <1>3, <1>6, OwnerFacts, FrameFields, SMT DEF LoadInv, TypeOK
  <1>7. \A c \in Backends : (backends[c].kind = "Reserved" /\ c # b) =>
             released(b)[backends[c].frame] = frames[backends[c].frame]
    BY <1>3, <1>5, BackendTypes, SMT DEF LoadInv, TypeOK, Ownership
  <1>8. \A c \in Backends : backends[c].kind = "Waiting" =>
             released(b)[backends[c].frame] = frames[backends[c].frame]
    BY <1>3, BackendTypes, SMT DEF LoadInv, TypeOK, Ownership
  <1> HIDE DEF r
  <1>9. CASE frames[f].kind = "Ready"
    <2>1. /\ frames' = [released(b) EXCEPT ![f] = Ready(p, frames[f].pin_count + 1, frames[f].dirty)]
          /\ become(b, Holds("Pinned", f, p))
      BY <1>2, <1>4, <1>9, SMT DEF join
    <2>2. \A h \in Frames : frames'[h] = IF h = f THEN Ready(p, frames[f].pin_count + 1, frames[f].dirty)
                                         ELSE released(b)[h]
      BY <1>4, <2>1
    <2>3. \A c \in Backends : backends'[c] = IF c = b THEN Holds("Pinned", f, p) ELSE backends[c]
      BY <2>1 DEF become, LoadInv, TypeOK
    <2>4. Pins(f)' = Pins(f) \union {b} /\ \A h : h # f => Pins(h)' = Pins(h)
      <3>1. \A h : b \notin Pins(h)
        BY DEF Pins
      <3>2. \A h : Pins(h)' = IF h = f THEN Pins(h) \union {b} ELSE Pins(h) \ {b}
        BY <2>1, PinsAfter, BackendFields, SMT DEF Holding, LoadInv
      <3> QED BY <3>1, <3>2, Zenon
    <2>5. Cardinality(Pins(f)') = frames[f].pin_count + 1
      <3>1. b \notin Pins(f)
        BY DEF Pins
      <3>2. Cardinality(Pins(f) \union {b}) = Cardinality(Pins(f)) + 1
        BY <3>1, PinsFinite, FS_AddElement, Zenon
      <3> QED BY <1>2, <1>9, <2>4, <3>2 DEF LoadInv, PinAccounting
    <2>6. TypeOK'
      <3>1. frames[f].pin_count + 1 \in 0 .. Cardinality(Backends)
        <4>1. Pins(f)' \in SUBSET Backends
          BY <2>4 DEF Pins
        <4> QED BY <2>5, <4>1, SomeBackends
      <3>2. Ready(p, frames[f].pin_count + 1, frames[f].dirty) \in FrameStates
        <4>1. frames[f].dirty \in BOOLEAN
          BY <1>2, <1>9, FrameTypes DEF LoadInv, TypeOK
        <4> QED BY <1>1, <3>1, <4>1, FrameMembers
      <3>3. Holds("Pinned", f, p) \in BackendStates
        BY <1>1, <1>2, BackendMembers
      <3> QED BY <1>4, <2>1, <3>2, <3>3, Zenon DEF LoadInv, TypeOK, become
    <2>7. MappingBijection'
      BY <1>2, <1>3, <1>9, <2>2, FrameFields, SMT DEF LoadInv, TypeOK, MappingBijection, Published, r
    <2>8. PinAccounting'
      <3>1. ASSUME NEW h \in Frames, h # f
            PROVE  (IF frames'[h].kind = "Ready"
                    THEN /\ frames'[h].pin_count = Cardinality(Pins(h)')
                         /\ \A c \in Pins(h)' : backends'[c].page = frames'[h].page
                    ELSE Pins(h)' = {})
        <4>1. Pins(h)' = Pins(h) /\ \A c \in Pins(h) : backends'[c] = backends[c]
          BY <2>3, <2>4, <3>1 DEF Pins
        <4>2. frames'[h] = frames[h] \/ (frames'[h].kind = "Free" /\ frames[h].kind = "Reserved")
          BY <1>3, <2>2, <3>1, FrameFields, SMT DEF r
        <4> QED BY <4>1, <4>2 DEF LoadInv, PinAccounting
      <3>2. /\ frames'[f].kind = "Ready" /\ frames'[f].pin_count = Cardinality(Pins(f)')
            /\ \A c \in Pins(f)' : backends'[c].page = frames'[f].page
        <4>1. \A c \in Pins(f) : backends'[c] = backends[c] /\ backends[c].page = p
          BY <1>2, <1>9, <2>3, Zenon DEF Pins, LoadInv, PinAccounting
        <4>2. backends'[b].page = p
          BY <2>3, BackendFields, SMT
        <4>3. /\ frames'[f].kind = "Ready" /\ frames'[f].page = p
              /\ frames'[f].pin_count = frames[f].pin_count + 1
          BY <1>2, <2>2, FrameFields, SMT
        <4> QED BY <2>4, <2>5, <4>1, <4>2, <4>3
      <3> QED BY <3>1, <3>2 DEF PinAccounting
    <2>9. Ownership'
      <3>1. ASSUME NEW c \in Backends
            PROVE  /\ backends'[c].kind = "Reserved" =>
                          /\ frames'[backends'[c].frame].kind \in {"Reserved", "Flushing"}
                          /\ frames'[backends'[c].frame].owner = c
                          /\ frames'[backends'[c].frame].target = backends'[c].page
                   /\ backends'[c].kind = "Waiting" =>
                          /\ frames'[backends'[c].frame].kind = "Loading"
                          /\ frames'[backends'[c].frame].page = backends'[c].page
        <4>1. backends[c].kind \in {"Reserved", "Waiting"} =>
                  backends[c].frame \in Frames /\ backends[c].frame # f
          BY <1>9, BackendTypes DEF LoadInv, TypeOK, Ownership
        <4> QED BY <1>7, <1>8, <2>2, <2>3, <4>1, BackendFields, SMT DEF LoadInv, Ownership
      <3>2. ASSUME NEW h \in Frames, frames'[h].kind \in {"Reserved", "Flushing"}
            PROVE  LET o == backends'[frames'[h].owner] IN
                   o.kind = "Reserved" /\ o.frame = h /\ o.page = frames'[h].target
        <4>1. h # f /\ frames'[h] = frames[h] /\ released(b)[h] = frames[h]
          BY <1>3, <2>2, <3>2, FrameFields, SMT
        <4>2. frames[h].owner # b /\ frames[h].owner \in Backends
          BY <1>6, <3>2, <4>1, OwnerFacts
        <4> QED BY <2>3, <3>2, <4>1, <4>2, SMT DEF LoadInv, Ownership
      <3> QED BY <3>1, <3>2 DEF Ownership
    <2>10. WriterAlone'
      BY <2>3, BackendFields, SMT DEF LoadInv, WriterAlone
    <2> QED BY <2>6, <2>7, <2>8, <2>9, <2>10 DEF LoadInv
  <1>10. CASE frames[f].kind # "Ready"
    <2> DEFINE s == IF frames[f].kind = "Loading" THEN Awaits("Waiting", f, p, t)
                    ELSE Wants("Request", p, t)
    <2>1. frames' = released(b) /\ backends' = [backends EXCEPT ![b] = s]
      BY <1>2, <1>4, <1>10 DEF join, become
    <2>2. \A c \in Backends : backends'[c] = IF c = b THEN s ELSE backends[c]
      BY <2>1 DEF LoadInv, TypeOK
    <2>3. s \in BackendStates /\ s.kind \in {"Waiting", "Request"}
      BY <1>1, <1>2, BackendMembers, BackendFields, SMT
    <2>4. s.kind = "Waiting" => s.frame = f /\ s.page = p /\ frames[f].kind = "Loading"
      BY BackendFields, SMT
    <2> HIDE DEF s
    <2>5. TypeOK'
      BY <1>4, <2>1, <2>3 DEF LoadInv, TypeOK
    <2>6. MappingBijection'
      BY <1>2, <1>3, <2>1, FrameFields, SMT DEF LoadInv, TypeOK, MappingBijection, Published, r
    <2>7. PinAccounting'
      <3>1. ASSUME NEW h \in Frames
            PROVE  (IF frames'[h].kind = "Ready"
                    THEN /\ frames'[h].pin_count = Cardinality(Pins(h)')
                         /\ \A c \in Pins(h)' : backends'[c].page = frames'[h].page
                    ELSE Pins(h)' = {})
        <4>1. Pins(h)' = Pins(h) /\ \A c \in Pins(h) : backends'[c] = backends[c]
          BY <2>2, <2>3 DEF Pins
        <4>2. frames'[h] = frames[h] \/ (frames'[h].kind = "Free" /\ frames[h].kind = "Reserved")
          BY <1>3, <2>1, FrameFields DEF r
        <4> QED BY <4>1, <4>2 DEF LoadInv, PinAccounting
      <3> QED BY <3>1 DEF PinAccounting
    <2>8. Ownership'
      <3>1. ASSUME NEW c \in Backends
            PROVE  /\ backends'[c].kind = "Reserved" =>
                          /\ frames'[backends'[c].frame].kind \in {"Reserved", "Flushing"}
                          /\ frames'[backends'[c].frame].owner = c
                          /\ frames'[backends'[c].frame].target = backends'[c].page
                   /\ backends'[c].kind = "Waiting" =>
                          /\ frames'[backends'[c].frame].kind = "Loading"
                          /\ frames'[backends'[c].frame].page = backends'[c].page
        <4>1. CASE c = b
          BY <1>2, <1>4, <2>1, <2>2, <2>3, <2>4, <4>1, SMT
        <4>2. CASE c # b
          BY <1>7, <1>8, <2>1, <2>2, <4>2, SMT DEF LoadInv, Ownership
        <4> QED BY <4>1, <4>2
      <3>2. ASSUME NEW h \in Frames, frames'[h].kind \in {"Reserved", "Flushing"}
            PROVE  LET o == backends'[frames'[h].owner] IN
                   o.kind = "Reserved" /\ o.frame = h /\ o.page = frames'[h].target
        <4>1. frames'[h] = frames[h] /\ released(b)[h] = frames[h]
          BY <1>3, <2>1, <3>2, FrameFields
        <4>2. frames[h].owner # b /\ frames[h].owner \in Backends
          BY <1>6, <3>2, <4>1, OwnerFacts
        <4> QED BY <2>2, <3>2, <4>1, <4>2, SMT DEF LoadInv, Ownership
      <3> QED BY <3>1, <3>2 DEF Ownership
    <2>9. WriterAlone'
      BY <2>2, <2>3 DEF LoadInv, WriterAlone
    <2> QED BY <2>5, <2>6, <2>7, <2>8, <2>9 DEF LoadInv
  <1> QED BY <1>9, <1>10

(* State::join and a lookup: the whole of Lookup. *)
LEMMA LookupStep ==
    ASSUME LoadInv, NEW b \in Backends, Lookup(b)
    PROVE  LoadInv'
  <1>1. PICK p, t, f : p = backends[b].page /\ t = backends[b].retry /\ f = page_table[p]
    OBVIOUS
  <1>2. backends[b].kind \in {"Request", "Miss"} /\ UNCHANGED page_table
    BY DEF Lookup
  <1>3. CASE f = NoFrame
    <2>1. become(b, Wants("Miss", p, t)) /\ UNCHANGED frames
      BY <1>1, <1>3 DEF Lookup
    <2>2. Wants("Miss", p, t) \in BackendStates /\ Wants("Miss", p, t).kind = "Miss"
      <3>1. p \in Pages /\ t \in BOOLEAN
        BY <1>1, <1>2, BackendTypes DEF LoadInv, TypeOK
      <3> QED BY <3>1, BackendMembers, BackendFields, SMT
    <2> QED BY <1>2, <2>1, <2>2, Quiet
  <1>4. CASE f # NoFrame
    <2>1. join(frames, b, f, p, t) /\ released(b) = frames
      BY <1>1, <1>2, <1>4 DEF Lookup, released
    <2> QED BY <1>1, <1>2, <1>4, <2>1, JoinStep
  <1> QED BY <1>3, <1>4

(* A backend asks for a page, or gives up waiting for one. *)
LEMMA RequestStep ==
    ASSUME LoadInv, NEW b \in Backends, NEW p \in Pages, Request(b, p)
    PROVE  LoadInv'
  <1>1. \A t \in BOOLEAN : Wants("Request", p, t) \in BackendStates
    BY BackendMembers
  <1>2. Wants("Request", p, FALSE) \in BackendStates
    BY <1>1, Zenon
  <1>3. Wants("Request", p, FALSE).kind = "Request"
    BY DEF Wants
  <1>4. backends[b].kind = "Idle"
    BY BackendFields DEF Request
  <1> QED BY <1>2, <1>3, <1>4, Quiet, Zenon DEF Request

(* Cancel leaves the frame to the read that is in progress. *)
LEMMA CancelStep ==
    ASSUME LoadInv, NEW b \in Backends, Cancel(b)
    PROVE  LoadInv'
  <1>1. Idle \in BackendStates /\ Idle.kind = "Idle"
    BY BackendMembers, BackendFields
  <1> QED BY <1>1, Quiet DEF Cancel
-----------------------------------------------------------------------------
(* A frame without a pin is held by nobody. *)
LEMMA Unpinned ==
    ASSUME LoadInv, NEW f \in Frames, frames[f].kind = "Ready" => frames[f].pin_count = 0
    PROVE  Pins(f) = {}
  BY PinsFinite, FS_EmptySet DEF LoadInv, PinAccounting

(* A victim nobody holds is reserved, its mapping dropped or kept for the  *)
(* write-back.                                                             *)
LEMMA ReserveStep ==
    ASSUME LoadInv, NEW b \in Backends, NEW f \in Frames, Reserve(b, f)
    PROVE  LoadInv'
  <1>1. PICK p, t, v : p = backends[b].page /\ t = backends[b].retry /\ v = frames[f]
    OBVIOUS
  <1>2. /\ backends[b].kind = "Miss" /\ p \in Pages /\ t \in BOOLEAN
        /\ v \in FrameStates /\ v.kind \in {"Free", "Ready"}
    BY <1>1, BackendTypes DEF Reserve, eligible, LoadInv, TypeOK
  <1>3. Pins(f) = {}
    BY <1>1, Unpinned DEF Reserve, eligible
  <1>4. PICK w : /\ w = IF must_flush(f) THEN Flushing(v.page, p, b) ELSE Reserved(p, b)
                 /\ frames' = [frames EXCEPT ![f] = w]
    BY <1>1 DEF Reserve
  <1>5. /\ w \in FrameStates /\ w.kind \in {"Reserved", "Flushing"} /\ w.owner = b /\ w.target = p
        /\ w.kind = "Flushing" => v.kind = "Ready" /\ w.page = v.page
    BY <1>1, <1>2, <1>4, FrameMembers, FrameFields, FrameTypes, SMT DEF must_flush
  <1>6. /\ w.kind = "Flushing" => UNCHANGED page_table
        /\ w.kind = "Reserved" =>
               page_table' = [q \in Pages |-> IF v.kind = "Ready" /\ q = v.page THEN NoFrame
                                              ELSE page_table[q]]
    BY <1>1, <1>4, FrameFields, SMT DEF Reserve
  <1>7. \A h \in Frames : frames'[h] = IF h = f THEN w ELSE frames[h]
    BY <1>4 DEF LoadInv, TypeOK
  <1>8. become(b, Awaits("Reserved", f, p, t))
    BY <1>1 DEF Reserve
  <1>9. \A c \in Backends : backends'[c] = IF c = b THEN Awaits("Reserved", f, p, t) ELSE backends[c]
    BY <1>8 DEF become, LoadInv, TypeOK
  <1>10. TypeOK'
    <2>1. Awaits("Reserved", f, p, t) \in BackendStates
      BY <1>2, BackendMembers
    <2>2. page_table' \in [Pages -> Frames \union {NoFrame}]
      BY <1>5, <1>6 DEF LoadInv, TypeOK
    <2> QED BY <1>4, <1>5, <1>8, <2>1, <2>2 DEF LoadInv, TypeOK, become
  <1>11. MappingBijection'
    <2>1. v.kind = "Ready" => v.page \in Pages /\ page_table[v.page] = f
      BY <1>1, <1>2, FrameTypes DEF LoadInv, MappingBijection, Published
    <2>2. CASE w.kind = "Flushing"
      BY <1>1, <1>5, <1>6, <1>7, <2>2, SMT DEF LoadInv, TypeOK, MappingBijection, Published
    <2>3. CASE w.kind = "Reserved"
      <3>1. ASSUME NEW h \in Frames, Published(h)'
            PROVE  page_table'[frames'[h].page] = h
        <4>1. h # f /\ frames'[h] = frames[h] /\ frames[h].page \in Pages /\ page_table[frames[h].page] = h
          BY <1>7, <2>3, <3>1, FrameTypes, SMT DEF LoadInv, TypeOK, MappingBijection, Published
        <4> QED BY <1>6, <2>1, <2>3, <4>1
      <3>2. ASSUME NEW q \in Pages, page_table'[q] # NoFrame
            PROVE  Published(page_table[q])' /\ frames'[page_table'[q]].page = q
                   /\ page_table'[q] = page_table[q]
        <4>1. page_table'[q] = page_table[q] /\ ~(v.kind = "Ready" /\ q = v.page)
          BY <1>6, <2>3, <3>2
        <4>2. /\ page_table[q] \in Frames /\ frames[page_table[q]].page = q
              /\ frames[page_table[q]].kind \in {"Ready", "Loading", "Flushing"}
          BY <3>2, <4>1, MappedFacts
        <4>3. page_table[q] # f
          BY <1>1, <1>2, <4>1, <4>2
        <4>4. frames'[page_table[q]] = frames[page_table[q]]
          BY <1>7, <4>2, <4>3
        <4> QED BY <4>1, <4>2, <4>4 DEF Published
      <3> QED BY <3>1, <3>2 DEF MappingBijection, Published
    <2> QED BY <1>5, <2>2, <2>3
  <1>12. PinAccounting'
    <2>1. \A h : Pins(h)' = Pins(h)
      <3>1. \A h : b \notin Pins(h)
        BY <1>2 DEF Pins
      <3>2. \A h : Pins(h)' = Pins(h) \ {b}
        BY <1>8, PinsAfter, BackendFields, SMT DEF Holding, LoadInv
      <3> QED BY <3>1, <3>2
    <2>2. \A h, c : c \in Pins(h) => backends'[c] = backends[c]
      BY <1>2, <1>9 DEF Pins
    <2> QED BY <1>3, <1>5, <1>7, <2>1, <2>2, SMT DEF LoadInv, PinAccounting
  <1>13. Ownership'
    <2>1. ASSUME NEW c \in Backends, c # b, backends[c].kind \in {"Reserved", "Waiting"}
          PROVE  /\ backends'[c] = backends[c] /\ backends[c].frame \in Frames
                 /\ frames'[backends[c].frame] = frames[backends[c].frame]
      <3>1. backends[c].frame \in Frames /\ backends[c].frame # f
        BY <1>1, <1>2, <2>1, BackendTypes DEF LoadInv, TypeOK, Ownership
      <3> QED BY <1>7, <1>9, <2>1, <3>1
    <2>2. ASSUME NEW h \in Frames, h # f, frames[h].kind \in {"Reserved", "Flushing"}
          PROVE  backends'[frames[h].owner] = backends[frames[h].owner]
      BY <1>2, <1>9, <2>2, OwnerFacts
    <2>4. ASSUME NEW c \in Backends
          PROVE  LET r == backends'[c] IN
                 /\ r.kind = "Reserved" => /\ frames'[r.frame].kind \in {"Reserved", "Flushing"}
                                           /\ frames'[r.frame].owner = c
                                           /\ frames'[r.frame].target = r.page
                 /\ r.kind = "Waiting" => /\ frames'[r.frame].kind = "Loading"
                                          /\ frames'[r.frame].page = r.page
      BY <1>5, <1>7, <1>9, <2>1, <2>2, BackendFields, SMT DEF LoadInv, Ownership
    <2>5. ASSUME NEW h \in Frames, frames'[h].kind \in {"Reserved", "Flushing"}
          PROVE  LET r == backends'[frames'[h].owner] IN
                 r.kind = "Reserved" /\ r.frame = h /\ r.page = frames'[h].target
      BY <1>5, <1>7, <1>9, <2>1, <2>2, BackendFields, <2>5, SMT DEF LoadInv, Ownership
    <2> QED BY <2>4, <2>5 DEF Ownership
  <1>14. WriterAlone'
    BY <1>9, BackendFields, SMT DEF LoadInv, WriterAlone
  <1> QED BY <1>10, <1>11, <1>12, <1>13, <1>14 DEF LoadInv

(* A reservation is published, or given back to the winner of the race. *)
LEMMA PublishStep ==
    ASSUME LoadInv, NEW b \in Backends, Publish(b)
    PROVE  LoadInv'
  <1>1. PICK p, t, f, g : /\ p = backends[b].page /\ t = backends[b].retry
                          /\ f = page_table[p] /\ g = backends[b].frame
    OBVIOUS
  <1>2. /\ backends[b].kind = "Reserved" /\ p \in Pages /\ t \in BOOLEAN /\ g \in Frames
        /\ frames[g].kind = "Reserved" /\ frames[g].owner = b
    BY <1>1, BackendTypes DEF Publish, LoadInv, TypeOK, Ownership
  <1>3. CASE f # NoFrame
    <2>1. join(released(b), b, f, p, t) /\ UNCHANGED page_table
      BY <1>1, <1>2, <1>3 DEF Publish, released
    <2> QED BY <1>1, <1>2, <1>3, <2>1, JoinStep
  <1>4. CASE f = NoFrame
    <2>1. /\ page_table' = [page_table EXCEPT ![p] = g]
          /\ frames' = [frames EXCEPT ![g] = Loading(p, FALSE)]
          /\ become(b, Awaits("Waiting", g, p, t))
      BY <1>1, <1>4, Zenon DEF Publish
    <2>2. PICK w : w = Loading(p, FALSE)
      BY Zenon
    <2>3. w \in FrameStates /\ w.kind = "Loading" /\ w.page = p
      <3>1. \A io \in BOOLEAN : Loading(p, io) \in FrameStates
        BY <1>2, FrameMembers
      <3>2. w \in FrameStates
        BY <2>2, <3>1, Zenon
      <3> QED BY <2>2, <3>2 DEF Loading
    <2>4. \A h \in Frames : frames'[h] = IF h = g THEN w ELSE frames[h]
      BY <2>1, <2>2 DEF LoadInv, TypeOK
    <2>5. \A c \in Backends : backends'[c] = IF c = b THEN Awaits("Waiting", g, p, t) ELSE backends[c]
      BY <2>1 DEF become, LoadInv, TypeOK
    <2>6. \A q \in Pages : page_table'[q] = IF q = p THEN g ELSE page_table[q]
      BY <2>1 DEF LoadInv, TypeOK
    <2>7. TypeOK'
      <3>1. Awaits("Waiting", g, p, t) \in BackendStates
        BY <1>2, BackendMembers
      <3>2. frames' \in [Frames -> FrameStates]
        BY <2>1, <2>2, <2>3, Zenon DEF LoadInv, TypeOK
      <3>3. page_table' \in [Pages -> Frames \union {NoFrame}]
        BY <1>2, <2>1 DEF LoadInv, TypeOK
      <3> QED BY <2>1, <3>1, <3>2, <3>3, Zenon DEF LoadInv, TypeOK, become
    <2>8. MappingBijection'
      <3>1. ASSUME NEW h \in Frames, Published(h)'
            PROVE  page_table'[frames'[h].page] = h
        <4>1. CASE h = g
          BY <1>2, <2>3, <2>4, <2>6, <4>1
        <4>2. CASE h # g
          <5>1. /\ frames'[h] = frames[h] /\ frames[h].page \in Pages
                /\ page_table[frames[h].page] = h
            BY <2>4, <3>1, <4>2, FrameTypes DEF LoadInv, TypeOK, MappingBijection, Published
          <5> QED BY <1>1, <1>4, <2>6, <5>1, Zenon
        <4> QED BY <4>1, <4>2
      <3>2. ASSUME NEW q \in Pages, page_table'[q] # NoFrame
            PROVE  /\ frames'[page_table'[q]].kind \in {"Ready", "Loading", "Flushing"}
                   /\ frames'[page_table'[q]].page = q
        <4>1. CASE q = p
          BY <1>2, <2>3, <2>4, <2>6, <4>1
        <4>2. CASE q # p
          <5>1. page_table'[q] = page_table[q]
            BY <2>6, <4>2
          <5>2. /\ page_table[q] \in Frames /\ frames[page_table[q]].page = q
                /\ frames[page_table[q]].kind \in {"Ready", "Loading", "Flushing"}
            BY <3>2, <5>1, MappedFacts
          <5> QED BY <1>2, <2>4, <5>1, <5>2
        <4> QED BY <4>1, <4>2
      <3> QED BY <3>1, <3>2 DEF MappingBijection, Published
    <2>9. PinAccounting'
      <3>1. \A h : Pins(h)' = Pins(h)
        <4>1. \A h : b \notin Pins(h)
          BY <1>2 DEF Pins
        <4>2. \A h : Pins(h)' = Pins(h) \ {b}
          BY <2>1, PinsAfter, BackendFields, SMT DEF Holding, LoadInv
        <4> QED BY <4>1, <4>2
      <3>2. \A h, c : c \in Pins(h) => backends'[c] = backends[c]
        BY <1>2, <2>5 DEF Pins
      <3> QED BY <1>2, <2>3, <2>4, <3>1, <3>2, SMT DEF LoadInv, PinAccounting
    <2>10. Ownership'
      <3>1. ASSUME NEW c \in Backends, c # b, backends[c].kind \in {"Reserved", "Waiting"}
            PROVE  /\ backends'[c] = backends[c] /\ backends[c].frame \in Frames
                   /\ frames'[backends[c].frame] = frames[backends[c].frame]
        <4>1. backends[c].frame \in Frames /\ backends[c].frame # g
          BY <1>2, <3>1, BackendTypes, SMT DEF LoadInv, TypeOK, Ownership
        <4> QED BY <2>4, <2>5, <3>1, <4>1
      <3>2. ASSUME NEW h \in Frames, h # g, frames[h].kind \in {"Reserved", "Flushing"}
            PROVE  backends'[frames[h].owner] = backends[frames[h].owner]
        BY <1>1, <2>5, <3>2, OwnerFacts, SMT
      <3>3. /\ backends'[b].kind = "Waiting" /\ backends'[b].frame = g /\ backends'[b].page = p
            /\ frames'[g] = w
        BY <1>2, <2>4, <2>5, BackendFields, SMT
      <3>4. ASSUME NEW c \in Backends
            PROVE  LET r == backends'[c] IN
                   /\ r.kind = "Reserved" => /\ frames'[r.frame].kind \in {"Reserved", "Flushing"}
                                             /\ frames'[r.frame].owner = c
                                             /\ frames'[r.frame].target = r.page
                   /\ r.kind = "Waiting" => /\ frames'[r.frame].kind = "Loading"
                                            /\ frames'[r.frame].page = r.page
        BY <2>3, <2>4, <2>5, <3>1, <3>2, <3>3, SMT DEF LoadInv, Ownership
      <3>5. ASSUME NEW h \in Frames, frames'[h].kind \in {"Reserved", "Flushing"}
            PROVE  LET r == backends'[frames'[h].owner] IN
                   r.kind = "Reserved" /\ r.frame = h /\ r.page = frames'[h].target
        BY <2>3, <2>4, <2>5, <3>1, <3>2, <3>3, <3>5, SMT DEF LoadInv, Ownership
      <3> QED BY <3>4, <3>5 DEF Ownership
    <2>11. WriterAlone'
      BY <2>5, BackendFields, SMT DEF LoadInv, WriterAlone
    <2> QED BY <2>7, <2>8, <2>9, <2>10, <2>11 DEF LoadInv
  <1> QED BY <1>3, <1>4

-----------------------------------------------------------------------------
(* Submission: the frame stays what it is. *)
LEMMA SubmitStep ==
    ASSUME LoadInv, NEW f \in Frames, Submit(f)
    PROVE  LoadInv'
  <1>1. PICK w : w = Loading(frames[f].page, TRUE) /\ frames' = [frames EXCEPT ![f] = w]
    BY Zenon DEF Submit
  <1>2. frames[f].kind = "Loading" /\ frames[f].page \in Pages /\ UNCHANGED <<backends, page_table>>
    BY FrameTypes DEF Submit, LoadInv, TypeOK
  <1>3. w \in FrameStates
    <2>1. \A io \in BOOLEAN : Loading(frames[f].page, io) \in FrameStates
      BY <1>2, FrameMembers
    <2> QED BY <1>1, <2>1, Zenon
  <1>4. w.kind = "Loading" /\ w.page = frames[f].page
    BY <1>1 DEF Loading
  <1>5. \A h \in Frames : frames'[h] = IF h = f THEN w ELSE frames[h]
    BY <1>1 DEF LoadInv, TypeOK
  <1>6. TypeOK'
    BY <1>1, <1>2, <1>3, Zenon DEF LoadInv, TypeOK
  <1>7. MappingBijection'
    BY <1>2, <1>4, <1>5, SMT DEF LoadInv, TypeOK, MappingBijection, Published
  <1>8. PinAccounting'
    <2>1. \A h : Pins(h)' = Pins(h)
      BY <1>2 DEF Pins
    <2> QED BY <1>2, <1>4, <1>5, <2>1 DEF LoadInv, PinAccounting
  <1>9. Ownership'
    <2>1. \A c \in Backends : backends[c].kind \in {"Reserved", "Waiting"} => backends[c].frame \in Frames
      BY BackendTypes DEF LoadInv, TypeOK
    <2> QED BY <1>2, <1>4, <1>5, <2>1, SMT DEF LoadInv, Ownership
  <1>10. WriterAlone'
    BY <1>2 DEF LoadInv, WriterAlone
  <1> QED BY <1>6, <1>7, <1>8, <1>9, <1>10 DEF LoadInv

-----------------------------------------------------------------------------
(* Loads: a frame that is read into is held by nobody and reserved by      *)
(* nobody, and its waiters are the only backends the completion changes.   *)
LEMMA LoadingFacts ==
    ASSUME LoadInv, NEW f \in Frames, frames[f].kind = "Loading"
    PROVE  /\ frames[f].page \in Pages /\ page_table[frames[f].page] = f
           /\ Pins(f) = {} /\ Waiters(f) \in SUBSET Backends
           /\ \A b \in Backends : backends[b].kind = "Reserved" => backends[b].frame # f
           /\ \A b \in Waiters(f) : /\ backends[b].kind = "Waiting" /\ backends[b].frame = f
                                    /\ backends[b].page = frames[f].page
  <1>1. frames[f].page \in Pages /\ page_table[frames[f].page] = f
    BY FrameTypes DEF LoadInv, TypeOK, MappingBijection, Published
  <1>2. Pins(f) = {}
    BY DEF LoadInv, PinAccounting
  <1>3. \A b \in Backends : backends[b].kind = "Reserved" => backends[b].frame # f
    BY DEF LoadInv, Ownership
  <1>4. \A b \in Waiters(f) : /\ backends[b].kind = "Waiting" /\ backends[b].frame = f
                              /\ backends[b].page = frames[f].page
    BY SMT DEF LoadInv, Ownership, Waiters
  <1> QED BY <1>1, <1>2, <1>3, <1>4 DEF Waiters

(* A completed read turns the waiters of its frame into its pins. *)
LEMMA LoadSucceedsStep ==
    ASSUME LoadInv, NEW f \in Frames, LoadSucceeds(f)
    PROVE  LoadInv'
  <1>1. PICK p, n, W : p = frames[f].page /\ n = Cardinality(Waiters(f)) /\ W = Waiters(f)
    OBVIOUS
  <1>2. /\ frames[f].kind = "Loading" /\ p \in Pages /\ page_table[p] = f /\ Pins(f) = {}
        /\ W \in SUBSET Backends
        /\ \A b \in Backends : backends[b].kind = "Reserved" => backends[b].frame # f
        /\ \A b \in W : /\ backends[b].kind = "Waiting" /\ backends[b].frame = f
                        /\ backends[b].page = p
    BY <1>1, LoadingFacts, SMT DEF LoadSucceeds
  <1>3. PICK w : w = Ready(p, n, FALSE) /\ frames' = [frames EXCEPT ![f] = w]
    BY <1>1, Zenon DEF LoadSucceeds
  <1>4. w \in FrameStates /\ w.kind = "Ready" /\ w.page = p /\ w.pin_count = n
    <2>1. n \in 0 .. Cardinality(Backends)
      BY <1>1, <1>2, SomeBackends
    <2>2. \A d \in BOOLEAN : Ready(p, n, d) \in FrameStates
      BY <1>2, <2>1, FrameMembers
    <2>3. w \in FrameStates
      BY <1>3, <2>2, Zenon
    <2> QED BY <1>3, <2>3 DEF Ready
  <1>5. \A h \in Frames : frames'[h] = IF h = f THEN w ELSE frames[h]
    BY <1>3 DEF LoadInv, TypeOK
  <1>6. /\ UNCHANGED page_table
        /\ backends' = [b \in Backends |-> IF b \in W THEN Holds("Pinned", f, backends[b].page)
                                           ELSE backends[b]]
    BY <1>1 DEF LoadSucceeds
  <1>7. \A b \in Backends : backends'[b] = IF b \in W THEN Holds("Pinned", f, p) ELSE backends[b]
    BY <1>2, <1>6
  <1>8. Pins(f)' = W /\ \A h : h # f => Pins(h)' = Pins(h)
    <2>1. Pins(f)' = W
      <3>1. \A b \in Backends \ W : ~(backends[b].kind \in Holding /\ backends[b].frame = f)
        BY <1>2 DEF Pins, Holding
      <3> QED BY <1>2, <1>7, <3>1, BackendFields, SMT DEF Pins, Holding
    <2>2. ASSUME NEW h, h # f PROVE Pins(h)' = Pins(h)
      BY <1>2, <1>7, <2>2, BackendFields, SMT DEF Pins
    <2> QED BY <2>1, <2>2
  <1>9. TypeOK'
    <2>1. Holds("Pinned", f, p) \in BackendStates
      BY <1>2, BackendMembers
    <2>2. backends' \in [Backends -> BackendStates]
      BY <1>6, <1>7, <2>1 DEF LoadInv, TypeOK
    <2> QED BY <1>3, <1>4, <1>6, <2>2, Zenon DEF LoadInv, TypeOK
  <1>10. MappingBijection'
    BY <1>1, <1>2, <1>4, <1>5, <1>6, SMT DEF LoadInv, TypeOK, MappingBijection, Published
  <1>11. PinAccounting'
    <2>1. \A h, c : h # f /\ c \in Pins(h) => backends'[c] = backends[c]
      BY <1>2, <1>7 DEF Pins
    <2>2. \A c \in W : backends'[c].page = p
      BY <1>2, <1>7, BackendFields, SMT
    <2>3. /\ frames'[f].kind = "Ready" /\ frames'[f].pin_count = Cardinality(Pins(f)')
          /\ \A c \in Pins(f)' : backends'[c].page = frames'[f].page
      BY <1>1, <1>4, <1>5, <1>8, <2>2
    <2>4. ASSUME NEW h \in Frames, h # f
          PROVE  IF frames'[h].kind = "Ready"
                 THEN /\ frames'[h].pin_count = Cardinality(Pins(h)')
                      /\ \A c \in Pins(h)' : backends'[c].page = frames'[h].page
                 ELSE Pins(h)' = {}
      <3>1. frames'[h] = frames[h] /\ Pins(h)' = Pins(h)
        BY <1>5, <1>8, <2>4
      <3> QED BY <2>1, <2>4, <3>1 DEF LoadInv, PinAccounting
    <2> QED BY <2>3, <2>4 DEF PinAccounting
  <1>12. Ownership'
    <2>1. ASSUME NEW c \in Backends, backends'[c].kind \in {"Reserved", "Waiting"}
          PROVE  /\ backends'[c] = backends[c] /\ backends[c].frame \in Frames
                 /\ frames'[backends[c].frame] = frames[backends[c].frame]
      <3>1. c \notin W /\ backends'[c] = backends[c]
        BY <1>7, <2>1, BackendFields, SMT
      <3>2. backends[c].frame # f
        BY <1>1, <1>2, <2>1, <3>1 DEF Waiters
      <3>3. backends[c].frame \in Frames
        BY <2>1, <3>1, BackendTypes DEF LoadInv, TypeOK
      <3> QED BY <1>5, <3>1, <3>2, <3>3
    <2>2. ASSUME NEW h \in Frames, frames'[h].kind \in {"Reserved", "Flushing"}
          PROVE  frames'[h] = frames[h] /\ backends'[frames[h].owner] = backends[frames[h].owner]
      <3>1. frames'[h] = frames[h]
        BY <1>4, <1>5, <2>2
      <3> QED BY <1>2, <1>7, <2>2, <3>1, OwnerFacts
    <2> QED BY <2>1, <2>2, SMT DEF LoadInv, Ownership
  <1>13. WriterAlone'
    BY <1>7, BackendFields, SMT DEF LoadInv, WriterAlone
  <1> QED BY <1>9, <1>10, <1>11, <1>12, <1>13 DEF LoadInv

(* A failed read frees the frame, unmaps the page and sends its waiters back. *)
LEMMA LoadFailsStep ==
    ASSUME LoadInv, NEW f \in Frames, LoadFails(f)
    PROVE  LoadInv'
  <1>1. PICK p, W : p = frames[f].page /\ W = Waiters(f)
    OBVIOUS
  <1>2. /\ frames[f].kind = "Loading" /\ p \in Pages /\ page_table[p] = f /\ Pins(f) = {}
        /\ W \in SUBSET Backends
        /\ \A b \in Backends : backends[b].kind = "Reserved" => backends[b].frame # f
        /\ \A b \in W : /\ backends[b].kind = "Waiting" /\ backends[b].frame = f
                        /\ backends[b].page = p
    <2>1. frames[f].kind = "Loading"
      BY Zenon DEF LoadFails
    <2>2. /\ frames[f].page \in Pages /\ page_table[frames[f].page] = f
          /\ Pins(f) = {} /\ Waiters(f) \in SUBSET Backends
          /\ \A b \in Backends : backends[b].kind = "Reserved" => backends[b].frame # f
          /\ \A b \in Waiters(f) : /\ backends[b].kind = "Waiting" /\ backends[b].frame = f
                                   /\ backends[b].page = frames[f].page
      BY <2>1, LoadingFacts, Zenon
    <2> QED BY <1>1, <2>1, <2>2, Zenon
  <1>3. /\ frames' = [frames EXCEPT ![f] = Free] /\ page_table' = [page_table EXCEPT ![p] = NoFrame]
        /\ backends' = [b \in Backends |-> IF b \in W THEN Wants("Request", backends[b].page, TRUE)
                                           ELSE backends[b]]
    BY <1>1 DEF LoadFails, retried
  <1>4. PICK s : s = Wants("Request", p, TRUE)
    BY Zenon
  <1>5. s \in BackendStates /\ s.kind = "Request"
    <2>1. \A t \in BOOLEAN : Wants("Request", p, t) \in BackendStates
      BY <1>2, BackendMembers
    <2>2. s \in BackendStates
      BY <1>4, <2>1, Zenon
    <2> QED BY <1>4, <2>2 DEF Wants
  <1>6. \A b \in Backends : backends'[b] = IF b \in W THEN s ELSE backends[b]
    BY <1>2, <1>3, <1>4, Zenon
  <1>7. \A h \in Frames : frames'[h] = IF h = f THEN Free ELSE frames[h]
    BY <1>3 DEF LoadInv, TypeOK
  <1>8. \A q \in Pages : page_table'[q] = IF q = p THEN NoFrame ELSE page_table[q]
    BY <1>3 DEF LoadInv, TypeOK
  <1>9. TypeOK'
    <2>1. backends' \in [Backends -> BackendStates]
      BY <1>3, <1>5, <1>6, Zenon DEF LoadInv, TypeOK
    <2>2. frames' \in [Frames -> FrameStates]
      BY <1>3, FrameMembers DEF LoadInv, TypeOK
    <2>3. page_table' \in [Pages -> Frames \union {NoFrame}]
      BY <1>3, Zenon DEF LoadInv, TypeOK
    <2> QED BY <2>1, <2>2, <2>3 DEF TypeOK
  <1>10. MappingBijection'
    <2>1. ASSUME NEW h \in Frames, Published(h)' PROVE page_table'[frames'[h].page] = h
      <3>1. h # f /\ frames'[h] = frames[h] /\ frames[h].page \in Pages /\ page_table[frames[h].page] = h
        BY <1>7, <2>1, FrameFields, FrameTypes, SMT DEF LoadInv, TypeOK, MappingBijection, Published
      <3> QED BY <1>2, <1>8, <3>1
    <2>2. ASSUME NEW q \in Pages, page_table'[q] # NoFrame
          PROVE  /\ frames'[page_table'[q]].kind \in {"Ready", "Loading", "Flushing"}
                 /\ frames'[page_table'[q]].page = q
      <3>1. q # p /\ page_table'[q] = page_table[q]
        BY <1>8, <2>2
      <3>2. /\ page_table[q] \in Frames /\ frames[page_table[q]].page = q
            /\ frames[page_table[q]].kind \in {"Ready", "Loading", "Flushing"}
        BY <2>2, <3>1, MappedFacts
      <3> QED BY <1>1, <1>7, <3>1, <3>2
    <2> QED BY <2>1, <2>2 DEF MappingBijection, Published
  <1>11. PinAccounting'
    <2>1. \A h : Pins(h)' = Pins(h)
      BY <1>2, <1>5, <1>6 DEF Pins
    <2>2. \A h, c : c \in Pins(h) => backends'[c] = backends[c]
      BY <1>2, <1>6 DEF Pins
    <2> QED BY <1>2, <1>7, <2>1, <2>2, FrameFields, SMT DEF LoadInv, PinAccounting
  <1>12. Ownership'
    <2>1. ASSUME NEW c \in Backends, backends'[c].kind \in {"Reserved", "Waiting"}
          PROVE  /\ backends'[c] = backends[c] /\ backends[c].frame \in Frames
                 /\ frames'[backends[c].frame] = frames[backends[c].frame]
      <3>1. c \notin W /\ backends'[c] = backends[c]
        BY <1>5, <1>6, <2>1
      <3>2. backends[c].frame # f
        BY <1>1, <1>2, <2>1, <3>1 DEF Waiters
      <3>3. backends[c].frame \in Frames
        BY <2>1, <3>1, BackendTypes DEF LoadInv, TypeOK
      <3> QED BY <1>7, <3>1, <3>2, <3>3
    <2>2. ASSUME NEW h \in Frames, frames'[h].kind \in {"Reserved", "Flushing"}
          PROVE  frames'[h] = frames[h] /\ backends'[frames[h].owner] = backends[frames[h].owner]
      <3>1. frames'[h] = frames[h]
        BY <1>7, <2>2, FrameFields, Zenon
      <3> QED BY <1>2, <1>6, <2>2, <3>1, OwnerFacts
    <2> QED BY <2>1, <2>2, SMT DEF LoadInv, Ownership
  <1>13. WriterAlone'
    BY <1>5, <1>6 DEF LoadInv, WriterAlone
  <1> QED BY <1>9, <1>10, <1>11, <1>12, <1>13 DEF LoadInv
(* Write-backs: the old page leaves the table, or stays, dirty. *)
LEMMA FlushSucceedsStep ==
    ASSUME LoadInv, NEW f \in Frames, FlushSucceeds(f)
    PROVE  LoadInv'
  <1>1. PICK v, p, w : v = frames[f] /\ p = v.page /\ w = Reserved(v.target, v.owner)
    OBVIOUS
  <1>2. /\ v.kind = "Flushing" /\ p \in Pages /\ v.target \in Pages /\ v.owner \in Backends
        /\ page_table[p] = f /\ UNCHANGED backends
    BY <1>1, FrameTypes DEF FlushSucceeds, LoadInv, TypeOK, MappingBijection, Published
  <1>3. w \in FrameStates /\ w.kind = "Reserved" /\ w.target = v.target /\ w.owner = v.owner
    BY <1>1, <1>2, FrameMembers, FrameFields, SMT
  <1>4. frames' = [frames EXCEPT ![f] = w] /\ page_table' = [page_table EXCEPT ![p] = NoFrame]
    BY <1>1 DEF FlushSucceeds
  <1>5. \A h \in Frames : frames'[h] = IF h = f THEN w ELSE frames[h]
    BY <1>4 DEF LoadInv, TypeOK
  <1>6. \A q \in Pages : page_table'[q] = IF q = p THEN NoFrame ELSE page_table[q]
    BY <1>4 DEF LoadInv, TypeOK
  <1>7. TypeOK'
    BY <1>2, <1>3, <1>4 DEF LoadInv, TypeOK
  <1>8. MappingBijection'
    <2>1. ASSUME NEW h \in Frames, Published(h)' PROVE page_table'[frames'[h].page] = h
      <3>1. h # f /\ frames'[h] = frames[h] /\ frames[h].page \in Pages /\ page_table[frames[h].page] = h
        BY <1>3, <1>5, <2>1, FrameTypes, SMT DEF LoadInv, TypeOK, MappingBijection, Published
      <3> QED BY <1>2, <1>6, <3>1
    <2>2. ASSUME NEW q \in Pages, page_table'[q] # NoFrame
          PROVE  /\ frames'[page_table'[q]].kind \in {"Ready", "Loading", "Flushing"}
                 /\ frames'[page_table'[q]].page = q
      <3>1. q # p /\ page_table'[q] = page_table[q]
        BY <1>6, <2>2
      <3>2. /\ page_table[q] \in Frames /\ frames[page_table[q]].page = q
            /\ frames[page_table[q]].kind \in {"Ready", "Loading", "Flushing"}
        BY <2>2, <3>1, MappedFacts
      <3> QED BY <1>1, <1>5, <3>1, <3>2
    <2> QED BY <2>1, <2>2 DEF MappingBijection, Published
  <1>9. PinAccounting'
    <2>1. \A h : Pins(h)' = Pins(h)
      BY <1>2 DEF Pins
    <2> QED BY <1>1, <1>2, <1>3, <1>5, <2>1 DEF LoadInv, PinAccounting
  <1>10. Ownership'
    <2>1. \A c \in Backends : backends[c].kind \in {"Reserved", "Waiting"} => backends[c].frame \in Frames
      BY BackendTypes DEF LoadInv, TypeOK
    <2> QED BY <1>1, <1>2, <1>3, <1>5, <2>1, SMTT(60) DEF LoadInv, Ownership
  <1>11. WriterAlone'
    BY <1>2 DEF LoadInv, WriterAlone
  <1> QED BY <1>7, <1>8, <1>9, <1>10, <1>11 DEF LoadInv

(* A failed write-back leaves the old page ready, dirty and without a pin. *)
LEMMA FlushFailsStep ==
    ASSUME LoadInv, NEW f \in Frames, FlushFails(f)
    PROVE  LoadInv'
  <1>1. PICK v, o, s : /\ v = frames[f] /\ o = v.owner
                       /\ s = Wants("Request", v.target, backends[o].retry)
    OBVIOUS
  <1>2. PICK w : w = Ready(v.page, 0, TRUE)
    BY Zenon
  <1>3. /\ v.kind = "Flushing" /\ v.page \in Pages /\ v.target \in Pages /\ UNCHANGED page_table
        /\ o \in Backends /\ backends[o].kind = "Reserved" /\ backends[o].frame = f
        /\ backends[o].retry \in BOOLEAN
    BY <1>1, FrameTypes, OwnerFacts, ZenonT(40) DEF FlushFails, LoadInv, TypeOK
  <1>4. s \in BackendStates /\ s.kind = "Request"
    BY <1>1, <1>3, BackendMembers, BackendFields, SMT
  <1>5. w \in FrameStates /\ w.kind = "Ready" /\ w.page = v.page /\ w.pin_count = 0
    <2>1. 0 \in 0 .. Cardinality(Backends)
      BY FS_CardinalityType, SMT
    <2>2. \A d \in BOOLEAN : Ready(v.page, 0, d) \in FrameStates
      BY <1>3, <2>1, FrameMembers
    <2>3. w \in FrameStates
      BY <1>2, <2>2, Zenon
    <2> QED BY <1>2, <2>3 DEF Ready
  <1>6. frames' = [frames EXCEPT ![f] = w] /\ become(o, s)
    BY <1>1, <1>2 DEF FlushFails
  <1>7. \A h \in Frames : frames'[h] = IF h = f THEN w ELSE frames[h]
    BY <1>6 DEF LoadInv, TypeOK
  <1>8. \A c \in Backends : backends'[c] = IF c = o THEN s ELSE backends[c]
    BY <1>6 DEF become, LoadInv, TypeOK
  <1>9. TypeOK'
    BY <1>3, <1>4, <1>5, <1>6 DEF LoadInv, TypeOK, become
  <1>10. MappingBijection'
    BY <1>1, <1>3, <1>5, <1>7, SMT DEF LoadInv, TypeOK, MappingBijection, Published
  <1>11. PinAccounting'
    <2>1. \A h : Pins(h)' = Pins(h)
      BY <1>3, <1>4, <1>8 DEF Pins
    <2>2. \A h, c : c \in Pins(h) => backends'[c] = backends[c]
      BY <1>3, <1>8 DEF Pins
    <2>3. Pins(f) = {} /\ Cardinality(Pins(f)) = 0
      BY <1>1, <1>3, Unpinned, FS_EmptySet, Zenon
    <2> QED BY <1>5, <1>7, <2>1, <2>2, <2>3, ZenonT(40) DEF LoadInv, PinAccounting
  <1>12. Ownership'
    <2>1. ASSUME NEW c \in Backends, backends'[c].kind \in {"Reserved", "Waiting"}
          PROVE  /\ backends'[c] = backends[c] /\ backends[c].frame \in Frames
                 /\ frames'[backends[c].frame] = frames[backends[c].frame]
      <3>1. c # o /\ backends'[c] = backends[c]
        BY <1>4, <1>8, <2>1
      <3>2. backends[c].frame # f
        BY <1>1, <1>3, <2>1, <3>1, SMT DEF LoadInv, Ownership
      <3>3. backends[c].frame \in Frames
        BY <2>1, <3>1, BackendTypes, Zenon DEF LoadInv, TypeOK
      <3> QED BY <1>7, <3>1, <3>2, <3>3
    <2>2. ASSUME NEW h \in Frames, frames'[h].kind \in {"Reserved", "Flushing"}
          PROVE  frames'[h] = frames[h] /\ backends'[frames[h].owner] = backends[frames[h].owner]
      <3>1. frames'[h] = frames[h] /\ h # f
        BY <1>5, <1>7, <2>2
      <3> QED BY <1>3, <1>8, <2>2, <3>1, OwnerFacts, ZenonT(40)
    <2> QED BY <2>1, <2>2, SMT DEF LoadInv, Ownership
  <1>13. WriterAlone'
    BY <1>4, <1>8 DEF LoadInv, WriterAlone
  <1> QED BY <1>9, <1>10, <1>11, <1>12, <1>13 DEF LoadInv

-----------------------------------------------------------------------------
(* The frame f becomes w. *)
settle(f, w) == frames' = [frames EXCEPT ![f] = w]

(* A holder stays on its frame, which keeps its page and its pins: what    *)
(* Read, Write and EndAccess have in common.                               *)
LEMMA AccessStep ==
    ASSUME LoadInv, NEW b \in Backends, backends[b].kind \in Holding,
           NEW f, NEW p, f = backends[b].frame, p = backends[b].page,
           NEW s \in BackendStates, s.kind \in Holding, s.frame = f, s.page = p, become(b, s),
           NEW w \in FrameStates, w.kind = "Ready", w.page = p,
           w.pin_count = frames[f].pin_count, settle(f, w),
           UNCHANGED page_table, WriterAlone'
    PROVE  LoadInv'
  <1>1. /\ f \in Frames /\ b \in Pins(f) /\ frames[f].kind = "Ready" /\ frames[f].page = p
        /\ p \in Pages
    BY HolderFacts, ZenonT(40)
  <1>2. \A h \in Frames : frames'[h] = IF h = f THEN w ELSE frames[h]
    BY <1>1 DEF settle, LoadInv, TypeOK
  <1>3. \A c \in Backends : backends'[c] = IF c = b THEN s ELSE backends[c]
    BY DEF become, LoadInv, TypeOK
  <1>4. TypeOK'
    <2>1. frames' \in [Frames -> FrameStates]
      BY <1>1, ZenonT(40) DEF settle, LoadInv, TypeOK
    <2> QED BY <2>1 DEF LoadInv, TypeOK, become
  <1>5. MappingBijection'
    BY <1>1, <1>2, SMT DEF LoadInv, TypeOK, MappingBijection, Published
  <1>6. PinAccounting'
    <2>1. \A h : Pins(h)' = Pins(h)
      <3>1. \A h : Pins(h)' = IF h = f THEN Pins(h) \union {b} ELSE Pins(h) \ {b}
        BY PinsAfter DEF LoadInv
      <3>2. \A h : h # f => b \notin Pins(h)
        BY DEF Pins
      <3> QED BY <1>1, <3>1, <3>2, ZenonT(40)
    <2>2. \A c \in Backends : backends[c].kind \in Holding => backends'[c].page = backends[c].page
      BY <1>3, ZenonT(40)
    <2>3. \A h : \A c \in Pins(h) : backends'[c].page = backends[c].page
      BY <2>2, ZenonT(40) DEF Pins, Holding
    <2> QED BY <1>1, <1>2, <2>1, <2>3, SMT DEF LoadInv, PinAccounting
  <1>7. Ownership'
    <2>1. ASSUME NEW c \in Backends, backends'[c].kind \in {"Reserved", "Waiting"}
          PROVE  /\ backends'[c] = backends[c] /\ backends[c].frame \in Frames
                 /\ frames'[backends[c].frame] = frames[backends[c].frame]
      <3>1. backends'[c] = backends[c]
        BY <1>3, <2>1, ZenonT(40) DEF Holding
      <3>2. backends[c].frame # f /\ backends[c].frame \in Frames
        BY <1>1, <2>1, <3>1, BackendTypes, SMTT(60) DEF LoadInv, TypeOK, Ownership
      <3> QED BY <1>2, <3>1, <3>2, ZenonT(40)
    <2>2. ASSUME NEW h \in Frames, frames'[h].kind \in {"Reserved", "Flushing"}
          PROVE  frames'[h] = frames[h] /\ backends'[frames[h].owner] = backends[frames[h].owner]
      <3>1. frames'[h] = frames[h]
        BY <1>2, <2>2
      <3> QED BY <1>3, <2>2, <3>1, OwnerFacts DEF Holding
    <2>3. \A c \in Backends : LET r == backends'[c] IN
            /\ r.kind = "Reserved" => /\ frames'[r.frame].kind \in {"Reserved", "Flushing"}
                                      /\ frames'[r.frame].owner = c
                                      /\ frames'[r.frame].target = r.page
            /\ r.kind = "Waiting" => /\ frames'[r.frame].kind = "Loading"
                                     /\ frames'[r.frame].page = r.page
      BY <2>1, SMTT(60) DEF LoadInv, Ownership
    <2>4. \A h \in Frames : frames'[h].kind \in {"Reserved", "Flushing"} =>
            LET r == backends'[frames'[h].owner] IN
            r.kind = "Reserved" /\ r.frame = h /\ r.page = frames'[h].target
      BY <2>2, SMTT(60) DEF LoadInv, Ownership
    <2> QED BY <2>3, <2>4, ZenonT(40) DEF Ownership
  <1> QED BY <1>4, <1>5, <1>6, <1>7 DEF LoadInv
(* Read pins the frame for readers: there is no writer on it. *)
LEMMA ReadStep ==
    ASSUME LoadInv, NEW b \in Backends, Read(b)
    PROVE  LoadInv'
  <1>1. PICK f, p, w, s : /\ f = backends[b].frame /\ p = backends[b].page /\ w = frames[f]
                          /\ s = Holds("Reading", f, p)
    OBVIOUS
  <1>2. backends[b].kind \in Holding /\ become(b, s) /\ UNCHANGED <<frames, page_table>>
    BY <1>1, ZenonT(40) DEF Read, Holding
  <1>3. /\ w \in FrameStates /\ w.kind = "Ready" /\ w.page = p /\ f \in Frames /\ p \in Pages
        /\ w.pin_count = frames[f].pin_count /\ settle(f, w)
    BY <1>1, <1>2, HolderFacts, Zenon DEF LoadInv, TypeOK, settle
  <1>4. s \in BackendStates /\ s.kind = "Reading" /\ s.frame = f /\ s.page = p
    <2>1. s \in BackendStates
      BY <1>1, <1>3, BackendMembers, Zenon
    <2>2. s.kind = "Reading" /\ s.frame = f /\ s.page = p
      BY <1>1 DEF Holds
    <2> QED BY <2>1, <2>2
  <1>5. WriterAlone'
    <2>1. \A c \in Backends : backends[c].kind = "Writing" => backends[c].frame # f
      BY <1>1 DEF Read, Accessing
    <2>2. \A c \in Backends : backends'[c] = IF c = b THEN s ELSE backends[c]
      BY <1>2 DEF become, LoadInv, TypeOK
    <2> QED BY <1>4, <2>1, <2>2 DEF LoadInv, WriterAlone
  <1> QED BY <1>1, <1>2, <1>3, <1>4, <1>5, AccessStep, Zenon DEF Holding

(* Write marks the page dirty: there is neither a reader nor a writer. *)
LEMMA WriteStep ==
    ASSUME LoadInv, NEW b \in Backends, Write(b)
    PROVE  LoadInv'
  <1>1. PICK f, p, n, s : /\ f = backends[b].frame /\ p = backends[b].page
                          /\ n = frames[f].pin_count /\ s = Holds("Writing", f, p)
    OBVIOUS
  <1>2. PICK w : w = Ready(p, n, TRUE)
    BY Zenon
  <1>3. backends[b].kind \in Holding /\ become(b, s) /\ UNCHANGED page_table
    BY <1>1, Zenon DEF Write, Holding
  <1>4. f \in Frames /\ p \in Pages /\ frames[f].page = p /\ n \in 0 .. Cardinality(Backends)
    BY <1>1, <1>3, HolderFacts, FrameTypes, Zenon DEF LoadInv, TypeOK
  <1>5. w \in FrameStates /\ w.kind = "Ready" /\ w.page = p /\ w.pin_count = frames[f].pin_count
    <2>1. \A d \in BOOLEAN : Ready(p, n, d) \in FrameStates
      BY <1>4, FrameMembers
    <2>2. w \in FrameStates
      BY <1>2, <2>1, Zenon
    <2> QED BY <1>1, <1>2, <2>2, Zenon DEF Ready
  <1>6. settle(f, w)
    BY <1>1, <1>2, <1>4, ZenonT(40) DEF Write, LoadInv, TypeOK, settle
  <1>7. s \in BackendStates /\ s.kind = "Writing" /\ s.frame = f /\ s.page = p
    <2>1. s \in BackendStates
      BY <1>1, <1>4, BackendMembers
    <2>2. s.kind = "Writing" /\ s.frame = f /\ s.page = p
      BY <1>1 DEF Holds
    <2> QED BY <2>1, <2>2
  <1>8. WriterAlone'
    <2>1. \A c \in Backends : backends[c].kind \in {"Reading", "Writing"} => backends[c].frame # f
      BY <1>1 DEF Write, Accessing, blocks_write
    <2>2. \A c \in Backends : backends'[c] = IF c = b THEN s ELSE backends[c]
      BY <1>3 DEF become, LoadInv, TypeOK
    <2> QED BY <1>7, <2>1, <2>2 DEF LoadInv, WriterAlone
  <1> QED BY <1>1, <1>3, <1>5, <1>6, <1>7, <1>8, AccessStep, Zenon DEF Holding

(* EndAccess keeps the pin and drops the access. *)
LEMMA EndAccessStep ==
    ASSUME LoadInv, NEW b \in Backends, EndAccess(b)
    PROVE  LoadInv'
  <1>1. PICK f, p, w, s : /\ f = backends[b].frame /\ p = backends[b].page /\ w = frames[f]
                          /\ s = Holds("Pinned", f, p)
    OBVIOUS
  <1>2. backends[b].kind \in Holding /\ become(b, s) /\ UNCHANGED <<frames, page_table>>
    BY <1>1 DEF EndAccess, Holding
  <1>3. /\ w \in FrameStates /\ w.kind = "Ready" /\ w.page = p /\ f \in Frames /\ p \in Pages
        /\ w.pin_count = frames[f].pin_count /\ settle(f, w)
    BY <1>1, <1>2, HolderFacts, Zenon DEF LoadInv, TypeOK, settle
  <1>4. s \in BackendStates /\ s.kind = "Pinned" /\ s.frame = f /\ s.page = p
    <2>1. s \in BackendStates
      BY <1>1, <1>3, BackendMembers
    <2>2. s.kind = "Pinned" /\ s.frame = f /\ s.page = p
      BY <1>1 DEF Holds
    <2> QED BY <2>1, <2>2
  <1>5. WriterAlone'
    <2>1. \A c \in Backends : backends'[c] = IF c = b THEN s ELSE backends[c]
      BY <1>2 DEF become, LoadInv, TypeOK
    <2> QED BY <1>4, <2>1, ZenonT(40) DEF LoadInv, WriterAlone
  <1> QED BY <1>1, <1>2, <1>3, <1>4, <1>5, AccessStep, ZenonT(40) DEF Holding

(* Unpin gives one pin back: the count it decrements is not zero. *)
LEMMA UnpinStep ==
    ASSUME LoadInv, NEW b \in Backends, Unpin(b)
    PROVE  LoadInv'
  <1>1. PICK f, p, v : f = backends[b].frame /\ p = backends[b].page /\ v = frames[f]
    OBVIOUS
  <1>2. PICK w : w = Ready(p, v.pin_count - 1, v.dirty)
    OBVIOUS
  <1>3. backends[b].kind \in Holding /\ become(b, Idle) /\ UNCHANGED page_table
    BY ZenonT(40) DEF Unpin, Holding
  <1>4. /\ f \in Frames /\ b \in Pins(f) /\ p \in Pages /\ v.page = p /\ v.kind = "Ready"
        /\ v.pin_count = Cardinality(Pins(f)) /\ v.dirty \in BOOLEAN
    BY <1>1, <1>3, HolderFacts, FrameTypes, ZenonT(40)
  <1>5. /\ v.pin_count - 1 \in 0 .. Cardinality(Backends)
        /\ v.pin_count - 1 = Cardinality(Pins(f) \ {b})
    <2>1. IsFiniteSet(Pins(f)) /\ Cardinality(Pins(f)) \in 0 .. Cardinality(Backends)
      BY PinsFinite
    <2>2. Cardinality(Pins(f) \ {b}) = Cardinality(Pins(f)) - 1
      BY <1>4, <2>1, FS_RemoveElement, Zenon
    <2>3. Cardinality(Pins(f) \ {b}) \in Nat
      BY <2>1, FS_RemoveElement, FS_CardinalityType
    <2>4. Cardinality(Backends) \in Nat
      BY FS_CardinalityType
    <2> QED BY <1>4, <2>1, <2>2, <2>3, <2>4, SMT
  <1>6. /\ w \in FrameStates /\ w.kind = "Ready" /\ w.page = p
        /\ w.pin_count = v.pin_count - 1
    <2>1. w \in FrameStates
      BY <1>2, <1>4, <1>5, FrameMembers
    <2>2. w.kind = "Ready" /\ w.page = p /\ w.pin_count = v.pin_count - 1
      BY <1>2 DEF Ready
    <2> QED BY <2>1, <2>2
  <1>7. frames' = [frames EXCEPT ![f] = w]
    BY <1>1, <1>2, <1>4, Zenon DEF Unpin, LoadInv, TypeOK
  <1>8. \A h \in Frames : frames'[h] = IF h = f THEN w ELSE frames[h]
    BY <1>7 DEF LoadInv, TypeOK
  <1>9. \A c \in Backends : backends'[c] = IF c = b THEN Idle ELSE backends[c]
    BY <1>3 DEF become, LoadInv, TypeOK
  <1>10. Idle \in BackendStates /\ Idle.kind = "Idle"
    BY BackendMembers, BackendFields
  <1>11. TypeOK'
    BY <1>3, <1>6, <1>7, <1>10, Zenon DEF LoadInv, TypeOK, become
  <1>12. MappingBijection'
    BY <1>1, <1>3, <1>4, <1>6, <1>8, SMT DEF LoadInv, TypeOK, MappingBijection, Published
  <1>13. PinAccounting'
    <2>1. \A h : Pins(h)' = Pins(h) \ {b}
      BY <1>3, <1>10, PinsAfter DEF LoadInv, Holding
    <2>2. \A h : h # f => Pins(h) \ {b} = Pins(h)
      BY <1>1 DEF Pins
    <2>3. \A h : \A c \in Pins(h) \ {b} : backends'[c] = backends[c]
      BY <1>9 DEF Pins
    <2>4. ASSUME NEW h \in Frames, h # f
          PROVE  /\ frames'[h] = frames[h] /\ Pins(h)' = Pins(h)
                 /\ \A c \in Pins(h) : backends'[c] = backends[c]
      BY <1>8, <2>1, <2>2, <2>3, <2>4
    <2>5. /\ frames'[f] = w /\ Pins(f)' = Pins(f) \ {b}
          /\ \A c \in Pins(f) \ {b} : backends'[c].page = p
      <3>1. frames'[f] = w /\ Pins(f)' = Pins(f) \ {b}
        BY <1>4, <1>8, <2>1, Zenon
      <3>2. \A c \in Pins(f) : backends[c].page = p
        BY <1>1, <1>4, Zenon DEF LoadInv, PinAccounting
      <3> QED BY <2>3, <3>1, <3>2, Zenon
    <2>6. /\ frames'[f].kind = "Ready" /\ frames'[f].pin_count = Cardinality(Pins(f)')
          /\ \A c \in Pins(f)' : backends'[c].page = frames'[f].page
      BY <1>5, <1>6, <2>5
    <2> QED BY <2>4, <2>6, ZenonT(40) DEF LoadInv, PinAccounting
  <1>14. Ownership'
    <2>1. ASSUME NEW c \in Backends, backends'[c].kind \in {"Reserved", "Waiting"}
          PROVE  /\ backends'[c] = backends[c] /\ backends[c].frame \in Frames
                 /\ frames'[backends[c].frame] = frames[backends[c].frame]
      <3>1. backends'[c] = backends[c]
        BY <1>9, <1>10, <2>1
      <3>2. backends[c].frame # f /\ backends[c].frame \in Frames
        BY <1>1, <1>4, <2>1, <3>1, BackendTypes, SMT DEF LoadInv, TypeOK, Ownership
      <3> QED BY <1>8, <3>1, <3>2
    <2>2. ASSUME NEW h \in Frames, frames'[h].kind \in {"Reserved", "Flushing"}
          PROVE  frames'[h] = frames[h] /\ backends'[frames[h].owner] = backends[frames[h].owner]
      <3>1. frames'[h] = frames[h]
        BY <1>6, <1>8, <2>2
      <3> QED BY <1>3, <1>9, <2>2, <3>1, OwnerFacts, Zenon DEF Holding
    <2> QED BY <2>1, <2>2, SMT DEF LoadInv, Ownership
  <1>15. WriterAlone'
    BY <1>9, <1>10 DEF LoadInv, WriterAlone
  <1> QED BY <1>11, <1>12, <1>13, <1>14, <1>15 DEF LoadInv
-----------------------------------------------------------------------------
(* Nothing is published, pinned or reserved at the start. *)
LEMMA InitLoadInv ==
    Init => LoadInv
  <1> SUFFICES ASSUME Init PROVE LoadInv
    OBVIOUS
  <1>1. (\A f \in Frames : frames[f].kind = "Free") /\ (\A b \in Backends : backends[b].kind = "Idle")
    BY FrameFields, BackendFields DEF Init
  <1>2. TypeOK
    BY FrameMembers, BackendMembers DEF Init, TypeOK
  <1>3. MappingBijection
    BY <1>1 DEF Init, MappingBijection, Published
  <1>4. PinAccounting
    BY <1>1 DEF PinAccounting, Pins
  <1>5. Ownership /\ WriterAlone
    BY <1>1 DEF Ownership, WriterAlone
  <1> QED BY <1>2, <1>3, <1>4, <1>5 DEF LoadInv

(* Every step of a backend and of an I/O operation preserves the invariant. *)
LEMMA NextLoadInv ==
    ASSUME LoadInv, [Next]_vars
    PROVE  LoadInv'
  <1>1. ASSUME NEW b \in Backends, BackendStep(b) PROVE LoadInv'
    BY <1>1, RequestStep, LookupStep, ReserveStep, PublishStep, CancelStep, ReadStep, WriteStep,
       EndAccessStep, UnpinStep DEF BackendStep
  <1>2. ASSUME NEW f \in Frames, IoStep(f) PROVE LoadInv'
    BY <1>2, SubmitStep, LoadSucceedsStep, LoadFailsStep, FlushSucceedsStep, FlushFailsStep
       DEF IoStep
  <1>3. CASE UNCHANGED vars
    <2>1. frames' = frames /\ backends' = backends /\ page_table' = page_table
      BY <1>3
    <2>2. TypeOK' /\ MappingBijection'
      BY <2>1 DEF LoadInv, TypeOK, MappingBijection, Published
    <2>3. PinAccounting'
      BY <2>1 DEF LoadInv, PinAccounting, Pins
    <2>4. Ownership' /\ WriterAlone'
      BY <2>1, Zenon DEF LoadInv, Ownership, WriterAlone
    <2> QED BY <2>2, <2>3, <2>4 DEF LoadInv
  <1> QED BY <1>1, <1>2, <1>3 DEF Next

(* Types, mapping, pins, reservations and exclusive writers hold together   *)
(* in every reachable state of the protocol, whatever fails.                *)
THEOREM LoadInvariance ==
    Spec => []LoadInv
  <1>1. Init => LoadInv
    BY InitLoadInv
  <1>2. LoadInv /\ [Next]_vars => LoadInv'
    BY NextLoadInv
  <1> QED BY <1>1, <1>2, PTL DEF Spec

(* Frames, backends and the table keep their types: a pin count neither     *)
(* goes below zero nor above the number of backends.                        *)
THEOREM TypesKept ==
    Spec => []TypeOK
  <1>1. LoadInv => TypeOK
    BY DEF LoadInv
  <1> QED BY <1>1, LoadInvariance, PTL

(* A page never has two published frames, and the table names the one. *)
THEOREM MappingIsBijective ==
    Spec => []MappingBijection
  <1>1. LoadInv => MappingBijection
    BY DEF LoadInv
  <1> QED BY <1>1, LoadInvariance, PTL

(* Pin counts are exact: no frame in use is evicted or loaded into. *)
THEOREM PinsAccounted ==
    Spec => []PinAccounting
  <1>1. LoadInv => PinAccounting
    BY DEF LoadInv
  <1> QED BY <1>1, LoadInvariance, PTL

(* Reservations and waiters agree with their frames on the page. *)
THEOREM ReservationsOwned ==
    Spec => []Ownership
  <1>1. LoadInv => Ownership
    BY DEF LoadInv
  <1> QED BY <1>1, LoadInvariance, PTL

(* No reader and no second writer on a frame that is being written. *)
THEOREM WritersExclude ==
    Spec => []WriterExclusive
  <1>1. ASSUME LoadInv PROVE WriterExclusive
    <2>1. SUFFICES ASSUME NEW f \in Frames, NEW b \in Accessing(f, {"Writing"})
                   PROVE  Cardinality(Accessing(f, {"Reading", "Writing"})) = 1
      BY DEF WriterExclusive
    <2>2. Accessing(f, {"Reading", "Writing"}) = {b}
      BY <1>1 DEF LoadInv, WriterAlone, Accessing
    <2> QED BY <2>2, FS_Singleton
  <1> QED BY <1>1, LoadInvariance, PTL

-----------------------------------------------------------------------------
(* What join does to a frame: it adds a pin to one that is ready. *)
LEMMA JoinKeeps ==
    ASSUME NEW fs, DOMAIN fs = Frames, NEW b, NEW g, NEW p, NEW t, join(fs, b, g, p, t),
           NEW f \in Frames
    PROVE  \/ frames'[f] = fs[f]
           \/ /\ fs[f].kind = "Ready" /\ frames'[f].kind = "Ready"
              /\ frames'[f].page = fs[f].page /\ frames'[f].dirty = fs[f].dirty
  <1>1. \/ frames' = fs
        \/ /\ fs[g].kind = "Ready"
           /\ frames' = [fs EXCEPT ![g] = Ready(fs[g].page, fs[g].pin_count + 1, fs[g].dirty)]
    BY DEF join
  <1>2. CASE f = g
    BY <1>1, <1>2, FrameFields, SMT
  <1>3. CASE f # g
    BY <1>1, <1>3, ZenonT(40)
  <1> QED BY <1>2, <1>3

(* What a backend may do to a frame that holds a page: nothing while it is  *)
(* read or written back, and a ready frame keeps a dirty page.              *)
Kept(f) ==
    \/ frames'[f] = frames[f]
    \/ /\ frames[f].kind = "Ready"
       /\ frames[f].dirty => HasUnsaved(frames'[f]) /\ frames'[f].page = frames[f].page

(* Every step of a backend respects the frames of the I/O in progress. *)
LEMMA BackendKeeps ==
    ASSUME LoadInv, NEW b \in Backends, BackendStep(b), NEW f \in Frames, Published(f)
    PROVE  Kept(f)
  <1>1. CASE UNCHANGED frames
    BY <1>1 DEF Kept
  <1>2. CASE Lookup(b)
    <2>1. PICK g, p, t, fs : /\ p = backends[b].page /\ t = backends[b].retry
                             /\ g = page_table[p] /\ fs = frames
      OBVIOUS
    <2>2. join(fs, b, g, p, t) \/ UNCHANGED frames
      BY <1>2, <2>1, Zenon DEF Lookup
    <2>3. DOMAIN fs = Frames
      BY <2>1 DEF LoadInv, TypeOK
    <2> QED BY <1>1, <2>1, <2>2, <2>3, JoinKeeps, Zenon DEF Kept, HasUnsaved
  <1>3. ASSUME NEW g \in Frames, Reserve(b, g) PROVE Kept(f)
    <2>1. CASE f # g
      BY <1>3, <2>1 DEF Reserve, Kept, LoadInv, TypeOK
    <2>2. CASE f = g
      <3>1. frames[f].kind = "Ready"
        BY <1>3, <2>2, Zenon DEF Reserve, eligible, Published
      <3>2. ASSUME frames[f].dirty
            PROVE  frames'[f] = Flushing(frames[f].page, backends[b].page, b)
        BY <1>3, <2>2, <3>1, <3>2 DEF Reserve, must_flush, LoadInv, TypeOK
      <3>3. ASSUME frames[f].dirty
            PROVE  frames'[f].kind = "Flushing" /\ frames'[f].page = frames[f].page
        BY <3>2, <3>3, FrameFields, SMTT(60)
      <3>4. frames[f].dirty => HasUnsaved(frames'[f]) /\ frames'[f].page = frames[f].page
        BY <3>3 DEF HasUnsaved
      <3> QED BY <3>1, <3>4, ZenonT(40) DEF Kept
    <2> QED BY <2>1, <2>2
  <1>4. CASE Publish(b)
    <2>1. PICK h, g, p, t, fs : /\ h = backends[b].frame /\ p = backends[b].page
                                /\ t = backends[b].retry /\ g = page_table[p]
                                /\ fs = [frames EXCEPT ![h] = Free]
      BY Zenon
    <2>2. f # h /\ fs[f] = frames[f] /\ DOMAIN fs = Frames
      BY <1>4, <2>1, Zenon DEF Publish, Published, LoadInv, TypeOK
    <2>3. \/ join(fs, b, g, p, t)
          \/ frames' = [frames EXCEPT ![h] = Loading(p, FALSE)]
      BY <1>4, <2>1, Zenon DEF Publish
    <2>4. CASE join(fs, b, g, p, t)
      BY <2>2, <2>4, JoinKeeps, SMT DEF Kept, HasUnsaved
    <2>5. CASE frames' = [frames EXCEPT ![h] = Loading(p, FALSE)]
      BY <2>2, <2>5, SMT DEF Kept
    <2> QED BY <2>3, <2>4, <2>5, Zenon
  <1>5. CASE Write(b) \/ Unpin(b)
    <2>1. PICK h : h = backends[b].frame
      OBVIOUS
    <2>2. backends[b].kind \in Holding
      BY <1>5, Zenon DEF Write, Unpin, Holding
    <2>3. h \in Frames /\ frames[h].kind = "Ready"
      BY <2>1, <2>2, HolderFacts, ZenonT(40)
    <2>4. CASE f # h
      BY <1>5, <2>1, <2>3, <2>4, Zenon DEF Write, Unpin, Kept, LoadInv, TypeOK
    <2>5. CASE f = h
      <3>1. PICK v : v = frames[f]
        OBVIOUS
      <3>2. CASE Write(b)
        <4>1. frames' = [frames EXCEPT ![f] = Ready(v.page, v.pin_count, TRUE)]
          BY <2>1, <2>5, <3>1, <3>2, Zenon DEF Write
        <4>2. frames'[f] = Ready(v.page, v.pin_count, TRUE)
          BY <4>1 DEF LoadInv, TypeOK
        <4> QED BY <2>3, <2>5, <3>1, <4>2, SMT DEF Kept, HasUnsaved, Ready
      <3>3. CASE Unpin(b)
        <4>1. frames' = [frames EXCEPT ![f] = Ready(v.page, v.pin_count - 1, v.dirty)]
          BY <2>1, <2>5, <3>1, <3>3, Zenon DEF Unpin
        <4>2. frames'[f] = Ready(v.page, v.pin_count - 1, v.dirty)
          BY <4>1 DEF LoadInv, TypeOK
        <4> QED BY <2>3, <2>5, <3>1, <4>2, FrameFields, SMTT(60) DEF Kept, HasUnsaved
      <3> QED BY <1>5, <3>2, <3>3
    <2> QED BY <2>4, <2>5
  <1> QED BY <1>1, <1>2, <1>3, <1>4, <1>5, ZenonT(40) DEF BackendStep, Request, Cancel, Read, EndAccess

(* I/O on one frame leaves the others alone. *)
LEMMA IoElsewhere ==
    ASSUME LoadInv, NEW g \in Frames, IoStep(g), NEW f \in Frames, f # g
    PROVE  frames'[f] = frames[f]
  BY Zenon DEF IoStep, Submit, LoadSucceeds, LoadFails, FlushSucceeds, FlushFails, LoadInv, TypeOK

(* A read or a write-back owns its frame until it completes, also when the  *)
(* backend that asked for it has cancelled.                                 *)
THEOREM IoOwnership ==
    Spec => IoOwnsFrame
  <1>1. ASSUME LoadInv, [Next]_vars
        PROVE  [\A f \in Frames : frames[f].kind \in {"Loading", "Flushing"} =>
                    frames'[f] = frames[f] \/ IoStep(f)]_vars
    <2>1. SUFFICES ASSUME Next, NEW f \in Frames, frames[f].kind \in {"Loading", "Flushing"}
                   PROVE  frames'[f] = frames[f] \/ IoStep(f)
      BY <1>1
    <2>2. ASSUME NEW b \in Backends, BackendStep(b) PROVE frames'[f] = frames[f]
      BY <1>1, <2>1, <2>2, BackendKeeps DEF Kept, Published
    <2>3. ASSUME NEW g \in Frames, IoStep(g) PROVE frames'[f] = frames[f] \/ IoStep(f)
      BY <1>1, <2>3, IoElsewhere
    <2> QED BY <2>1, <2>2, <2>3 DEF Next
  <1> QED BY <1>1, LoadInvariance, PTL DEF Spec, IoOwnsFrame

(* A dirty page stays in its frame and in the table until a flush of it has *)
(* succeeded; a failed flush leaves it where it was.                        *)
THEOREM DirtyPagesWrittenBack ==
    Spec => DirtyWrittenBack
  <1>1. ASSUME LoadInv, [Next]_vars
        PROVE  [\A f \in Frames : LET v == frames[f] IN
                    HasUnsaved(v) =>
                       \/ FlushSucceeds(f)
                       \/ /\ HasUnsaved(frames'[f])
                          /\ frames'[f].page = v.page
                          /\ page_table'[v.page] = f]_vars
    <2>1. SUFFICES ASSUME Next, NEW f \in Frames, HasUnsaved(frames[f]), ~FlushSucceeds(f)
                   PROVE  /\ HasUnsaved(frames'[f]) /\ frames'[f].page = frames[f].page
                          /\ page_table'[frames[f].page] = f
      BY <1>1
    <2>2. LoadInv'
      BY <1>1, NextLoadInv
    <2>3. HasUnsaved(frames'[f]) /\ frames'[f].page = frames[f].page
      <3>1. ASSUME NEW b \in Backends, BackendStep(b)
            PROVE  HasUnsaved(frames'[f]) /\ frames'[f].page = frames[f].page
        BY <1>1, <2>1, <3>1, BackendKeeps DEF Kept, Published, HasUnsaved
      <3>2. ASSUME NEW g \in Frames, IoStep(g), f # g
            PROVE  HasUnsaved(frames'[f]) /\ frames'[f].page = frames[f].page
        BY <1>1, <2>1, <3>2, IoElsewhere
      <3>3. ASSUME IoStep(f)
            PROVE  HasUnsaved(frames'[f]) /\ frames'[f].page = frames[f].page
        <4>1. FlushFails(f)
          BY <2>1, <3>3, Zenon DEF IoStep, Submit, LoadSucceeds, LoadFails, HasUnsaved
        <4>2. frames'[f] = Ready(frames[f].page, 0, TRUE)
          BY <1>1, <4>1 DEF FlushFails, LoadInv, TypeOK
        <4> QED BY <4>2, SMT DEF HasUnsaved, Ready
      <3> QED BY <2>1, <3>1, <3>2, <3>3 DEF Next
    <2>4. page_table'[frames'[f].page] = f
      BY <2>2, <2>3 DEF LoadInv, MappingBijection, Published, HasUnsaved
    <2> QED BY <2>3, <2>4
  <1> QED BY <1>1, LoadInvariance, PTL DEF Spec, DirtyWrittenBack
=============================================================================
