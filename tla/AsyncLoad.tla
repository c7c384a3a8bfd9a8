------------------------------ MODULE AsyncLoad ------------------------------
(***************************************************************************)
(* The asynchronous victim-reservation and page-loading protocol proposed  *)
(* in crates/storage/src/models/buffer_pool.rs, where it is a Stateright   *)
(* model.  A miss reserves a frame, writes its dirty page back, publishes  *)
(* a loading mapping that other requests join, and the completion of the   *)
(* read hands a pin to every waiter.  Each action is one atomic step of    *)
(* the protocol; I/O succeeds or fails.                                    *)
(***************************************************************************)
EXTENDS Naturals, FiniteSets

CONSTANTS Frames, Pages, Backends,
    NoFrame       \* the None of a page table entry

ASSUME AsyncLoadAssumption == NoFrame \notin Frames /\ IsFiniteSet(Backends)

VARIABLES
    frames,       \* the state of each frame
    backends,     \* the request or the pin of each backend
    page_table,   \* the frame of each published page
    event         \* what the last step did (it serves the source's checks)

vars == <<frames, backends, page_table, event>>

NoEvent == [kind |-> "None"]

(* enum Frame. *)
Free == [kind |-> "Free"]
Reserved(p, b) == [kind |-> "Reserved", target |-> p, owner |-> b]
Flushing(old, p, b) ==
    [kind |-> "Flushing", page |-> old, target |-> p, owner |-> b]
Loading(p, io) == [kind |-> "Loading", page |-> p, io_started |-> io]
Ready(p, n, d) == [kind |-> "Ready", page |-> p, pin_count |-> n, dirty |-> d]
with_pins(v, n) == Ready(v.page, n, v.dirty)

FrameStates ==
    {Free}
    \union {Reserved(p, b) : p \in Pages, b \in Backends}
    \union {Flushing(q, p, b) : q, p \in Pages, b \in Backends}
    \union {Loading(p, io) : p \in Pages, io \in BOOLEAN}
    \union {Ready(p, n, d) : p \in Pages, n \in 0 .. Cardinality(Backends),
                             d \in BOOLEAN}

(* enum Backend; retry tells that a load this request waited for failed. *)
Idle == [kind |-> "Idle"]
Wants(k, p, retry) == [kind |-> k, page |-> p, retry |-> retry]
Awaits(k, f, p, retry) == [kind |-> k, frame |-> f, page |-> p, retry |-> retry]
Holds(k, f, p) == [kind |-> k, frame |-> f, page |-> p]

BackendStates ==
    {Idle}
    \union {Wants(k, p, r) : k \in {"Request", "Miss"}, p \in Pages,
                             r \in BOOLEAN}
    \union {Awaits(k, f, p, r) : k \in {"Reserved", "Waiting"}, f \in Frames,
                                 p \in Pages, r \in BOOLEAN}
    \union {Holds(k, f, p) : k \in {"Pinned", "Reading", "Writing"},
                             f \in Frames, p \in Pages}

Published(f) == frames[f].kind \in {"Ready", "Loading", "Flushing"}
Waiters(f) ==
    {b \in Backends : backends[b].kind = "Waiting" /\ backends[b].frame = f}
Pins(f) ==
    {b \in Backends : /\ backends[b].kind \in {"Pinned", "Reading", "Writing"}
                      /\ backends[b].frame = f}
Accessing(f, kinds) ==
    {b \in Backends : backends[b].kind \in kinds /\ backends[b].frame = f}

Init ==
    /\ frames = [f \in Frames |-> Free]
    /\ backends = [b \in Backends |-> Idle]
    /\ page_table = [p \in Pages |-> NoFrame]
    /\ event = NoEvent

-----------------------------------------------------------------------------
become(b, s) == backends' = [backends EXCEPT ![b] = s]

Request(b, p) ==
    /\ backends[b] = Idle
    /\ become(b, Wants("Request", p, FALSE))
    /\ event' = NoEvent
    /\ UNCHANGED <<frames, page_table>>

(* State::join on the frames fs: a pin, a place among the waiters, or, when *)
(* the frame is being flushed, another request.                             *)
join(fs, b, f, p, retry) ==
    \/ /\ fs[f].kind = "Ready"
       /\ frames' = [fs EXCEPT ![f] = with_pins(@, @.pin_count + 1)]
       /\ become(b, Holds("Pinned", f, p))
    \/ /\ fs[f].kind = "Loading"
       /\ frames' = fs
       /\ become(b, Awaits("Waiting", f, p, retry))
    \/ /\ fs[f].kind \notin {"Ready", "Loading"}
       /\ frames' = fs
       /\ become(b, Wants("Request", p, retry))

(* A request looks its page up unless the page is being flushed; a miss    *)
(* only once somebody has published it.                                    *)
Lookup(b) ==
    LET r == backends[b]  f == page_table[r.page] IN
    /\ \/ r.kind = "Request" /\ (f # NoFrame => frames[f].kind # "Flushing")
       \/ /\ r.kind = "Miss" /\ f # NoFrame
          /\ frames[f].kind \in {"Ready", "Loading"}
    /\ IF f # NoFrame
       THEN join(frames, b, f, r.page, r.retry)
       ELSE become(b, Wants("Miss", r.page, r.retry)) /\ UNCHANGED frames
    /\ event' = NoEvent
    /\ UNCHANGED page_table

(* A victim is chosen and reserved in one step: a frame that is free or    *)
(* has no pin.  A dirty page stays mapped until it is written back.        *)
eligible_unpinned(f) == frames[f].kind \in {"Free", "Ready"}
eligible(f) ==
    \/ frames[f].kind = "Free"
    \/ frames[f].kind = "Ready" /\ frames[f].pin_count = 0

must_flush_never(f) == FALSE
must_flush(f) == frames[f].kind = "Ready" /\ frames[f].dirty

Reserve(b, f) ==
    LET r == backends[b]  v == frames[f] IN
    /\ r.kind = "Miss"
    /\ eligible(f)
    /\ IF must_flush(f)
       THEN /\ frames' = [frames EXCEPT ![f] = Flushing(v.page, r.page, b)]
            /\ UNCHANGED page_table
       ELSE /\ frames' = [frames EXCEPT ![f] = Reserved(r.page, b)]
            /\ page_table' = [p \in Pages |->
                                 IF v.kind = "Ready" /\ p = v.page THEN NoFrame
                                 ELSE page_table[p]]
    /\ become(b, Awaits("Reserved", f, r.page, r.retry))
    /\ event' = NoEvent

(* The recheck of the mapping and its publication are one step: the loser  *)
(* of a race releases its frame and joins the winner.                      *)
PublishUnchecked(b) ==
    LET r == backends[b] IN
    /\ r.kind = "Reserved" /\ frames[r.frame].kind = "Reserved"
    /\ page_table' = [page_table EXCEPT ![r.page] = r.frame]
    /\ frames' = [frames EXCEPT ![r.frame] = Loading(r.page, FALSE)]
    /\ become(b, Awaits("Waiting", r.frame, r.page, r.retry))
    /\ event' = NoEvent

Publish(b) ==
    LET r == backends[b]  winner == page_table[r.page] IN
    /\ r.kind = "Reserved" /\ frames[r.frame].kind = "Reserved"
    /\ IF winner # NoFrame
       THEN /\ join([frames EXCEPT ![r.frame] = Free], b, winner, r.page,
                    r.retry)
            /\ event' = [kind |-> "RaceReleased", frame |-> r.frame]
            /\ UNCHANGED page_table
       ELSE /\ page_table' = [page_table EXCEPT ![r.page] = r.frame]
            /\ frames' = [frames EXCEPT ![r.frame] = Loading(r.page, FALSE)]
            /\ become(b, Awaits("Waiting", r.frame, r.page, r.retry))
            /\ event' = NoEvent

Submit(f) ==
    /\ frames[f].kind = "Loading" /\ ~frames[f].io_started
    /\ frames' = [frames EXCEPT ![f] = Loading(@.page, TRUE)]
    /\ event' = NoEvent
    /\ UNCHANGED <<backends, page_table>>

(* The read completes: every waiter gets a pin. *)
LoadSucceeds(f) ==
    /\ frames[f].kind = "Loading" /\ frames[f].io_started
    /\ frames' = [frames EXCEPT ![f] =
                     Ready(@.page, Cardinality(Waiters(f)), FALSE)]
    /\ backends' = [b \in Backends |->
                       IF b \in Waiters(f)
                       THEN Holds("Pinned", f, backends[b].page)
                       ELSE backends[b]]
    /\ event' = IF \E b \in Waiters(f) : backends[b].retry
                THEN [kind |-> "RetrySucceeded"] ELSE NoEvent
    /\ UNCHANGED page_table

(* It fails: the frame is free, the page absent, and the waiters retry. *)
retried_never(f) == backends
retried(f) ==
    [b \in Backends |-> IF b \in Waiters(f)
                        THEN Wants("Request", backends[b].page, TRUE)
                        ELSE backends[b]]

LoadFails(f) ==
    LET p == frames[f].page IN
    /\ frames[f].kind = "Loading" /\ frames[f].io_started
    /\ frames' = [frames EXCEPT ![f] = Free]
    /\ backends' = retried(f)
    /\ page_table' = [page_table EXCEPT ![p] = NoFrame]
    /\ event' = [kind |-> "LoadFailed", frame |-> f, page |-> p]

FlushSucceeds(f) ==
    LET v == frames[f] IN
    /\ v.kind = "Flushing"
    /\ page_table' = [page_table EXCEPT ![v.page] = NoFrame]
    /\ frames' = [frames EXCEPT ![f] = Reserved(v.target, v.owner)]
    /\ event' = NoEvent
    /\ UNCHANGED backends

(* The old page stays, dirty; the owner of the reservation asks again. *)
FlushFailureIgnored(f) ==
    LET v == frames[f] IN
    /\ v.kind = "Flushing"
    /\ frames' = [frames EXCEPT ![f] = Ready(v.page, 0, TRUE)]
    /\ event' = [kind |-> "FlushFailed", frame |-> f, page |-> v.page]
    /\ UNCHANGED <<backends, page_table>>

FlushFails(f) ==
    LET v == frames[f] IN
    /\ v.kind = "Flushing"
    /\ frames' = [frames EXCEPT ![f] = Ready(v.page, 0, TRUE)]
    /\ become(v.owner, Wants("Request", v.target, backends[v.owner].retry))
    /\ event' = [kind |-> "FlushFailed", frame |-> f, page |-> v.page]
    /\ UNCHANGED page_table

(* A waiter gives up; the I/O keeps the frame. *)
CancelFreesFrame(b) ==
    LET r == backends[b] IN
    /\ r.kind = "Waiting"
    /\ become(b, Idle)
    /\ event' = NoEvent
    /\ IF Waiters(r.frame) = {b}
       THEN /\ frames' = [frames EXCEPT ![r.frame] = Free]
            /\ page_table' = [page_table EXCEPT ![r.page] = NoFrame]
       ELSE UNCHANGED <<frames, page_table>>

Cancel(b) ==
    /\ backends[b].kind = "Waiting"
    /\ become(b, Idle)
    /\ event' = NoEvent
    /\ UNCHANGED <<frames, page_table>>

Read(b) ==
    LET r == backends[b] IN
    /\ r.kind = "Pinned"
    /\ Accessing(r.frame, {"Writing"}) = {}
    /\ become(b, Holds("Reading", r.frame, r.page))
    /\ event' = NoEvent
    /\ UNCHANGED <<frames, page_table>>

blocks_write_writers == {"Writing"}
blocks_write == {"Reading", "Writing"}

Write(b) ==
    LET r == backends[b] IN
    /\ r.kind = "Pinned"
    /\ Accessing(r.frame, blocks_write) = {}
    /\ become(b, Holds("Writing", r.frame, r.page))
    /\ frames' = [frames EXCEPT ![r.frame] = Ready(@.page, @.pin_count, TRUE)]
    /\ event' = NoEvent
    /\ UNCHANGED page_table

EndAccess(b) ==
    LET r == backends[b] IN
    /\ r.kind \in {"Reading", "Writing"}
    /\ become(b, Holds("Pinned", r.frame, r.page))
    /\ event' = NoEvent
    /\ UNCHANGED <<frames, page_table>>

UnpinKept(b) ==
    /\ backends[b].kind = "Pinned"
    /\ frames' = [frames EXCEPT ![backends[b].frame] = with_pins(@, @.pin_count - 1)]
    /\ event' = NoEvent
    /\ UNCHANGED <<backends, page_table>>

Unpin(b) ==
    /\ backends[b].kind = "Pinned"
    /\ frames' = [frames EXCEPT ![backends[b].frame] = with_pins(@, @.pin_count - 1)]
    /\ become(b, Idle)
    /\ event' = NoEvent
    /\ UNCHANGED page_table

BackendStep(b) ==
    \/ \E p \in Pages : Request(b, p)
    \/ Lookup(b)
    \/ \E f \in Frames : Reserve(b, f)
    \/ Publish(b)
    \/ Cancel(b)
    \/ Read(b) \/ Write(b) \/ EndAccess(b) \/ Unpin(b)

IoStep(f) ==
    \/ Submit(f)
    \/ LoadSucceeds(f) \/ LoadFails(f)
    \/ FlushSucceeds(f) \/ FlushFails(f)

Next == (\E b \in Backends : BackendStep(b)) \/ (\E f \in Frames : IoStep(f))

Spec == Init /\ [][Next]_vars

(* I/O completes, well or badly; backends may do nothing for ever. *)
FairSpec == Spec /\ \A f \in Frames : WF_vars(IoStep(f))

-----------------------------------------------------------------------------
TypeOK ==
    /\ frames \in [Frames -> FrameStates]
    /\ backends \in [Backends -> BackendStates]
    /\ page_table \in [Pages -> Frames \union {NoFrame}]

(* "mapping bijection" and "unique published page": a page has at most one *)
(* frame that is ready, loading or being flushed, and the table names it.  *)
MappingBijection ==
    /\ \A f \in Frames : Published(f) => page_table[frames[f].page] = f
    /\ \A p \in Pages : page_table[p] # NoFrame =>
          Published(page_table[p]) /\ frames[page_table[p]].page = p

(* "pin accounting and no pinned eviction", "access requires ready         *)
(* matching pinned frame": a frame's pin count is the number of backends   *)
(* that hold it, they hold the page it has, and no other frame is held.    *)
PinAccounting ==
    \A f \in Frames :
        IF frames[f].kind = "Ready"
        THEN /\ frames[f].pin_count = Cardinality(Pins(f))
             /\ \A b \in Pins(f) : backends[b].page = frames[f].page
        ELSE Pins(f) = {}

(* "reservation and waiter ownership": who reserved a frame and who waits  *)
(* for it agree with the frame on the page.                                *)
Ownership ==
    /\ \A b \in Backends : LET r == backends[b] IN
          /\ r.kind = "Reserved" => /\ frames[r.frame].kind \in
                                          {"Reserved", "Flushing"}
                                    /\ frames[r.frame].owner = b
                                    /\ frames[r.frame].target = r.page
          /\ r.kind = "Waiting" => /\ frames[r.frame].kind = "Loading"
                                   /\ frames[r.frame].page = r.page
    /\ \A f \in Frames : frames[f].kind \in {"Reserved", "Flushing"} =>
          LET r == backends[frames[f].owner] IN
          /\ r.kind = "Reserved"
          /\ r.frame = f /\ r.page = frames[f].target

(* "writer exclusivity": a writer of a frame is alone on it. *)
WriterExclusive ==
    \A f \in Frames : Accessing(f, {"Writing"}) # {} =>
        Cardinality(Accessing(f, {"Reading", "Writing"})) = 1

(* "An I/O operation owns its frame until completion": whatever backends   *)
(* do, cancelling included, a frame that is read into or written back      *)
(* changes only when that operation is submitted or completes.             *)
IoOwnsFrame ==
    [][\A f \in Frames : frames[f].kind \in {"Loading", "Flushing"} =>
           frames'[f] = frames[f] \/ IoStep(f)]_vars

HasUnsaved(v) == v.kind = "Flushing" \/ (v.kind = "Ready" /\ v.dirty)

(* "Dirty data is written back first": a dirty page stays in its frame and *)
(* in the table until a flush of it has succeeded.                         *)
DirtyWrittenBack ==
    [][\A f \in Frames : LET v == frames[f] IN
          HasUnsaved(v) =>
             \/ FlushSucceeds(f)
             \/ /\ HasUnsaved(frames'[f])
                /\ frames'[f].page = v.page
                /\ page_table'[v.page] = f]_vars

(* A waiter gets its pin, or learns of the failure: no load is abandoned,  *)
(* even when the backend that started it has cancelled.                    *)
WaitersServed ==
    \A b \in Backends : backends[b].kind = "Waiting"
                            ~> backends[b].kind # "Waiting"
=============================================================================
