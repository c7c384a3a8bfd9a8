------------------------------ MODULE ClockPool ------------------------------
(***************************************************************************)
(* The buffer pool with the CLOCK policy of crates/storage/src/            *)
(* replacement.rs.  A sweep of ClockStrategy::victim is modelled probe by  *)
(* probe: it runs under the metadata mutex, which keeps new pins out, but  *)
(* a PinnedBuffer may be dropped between any two probes.                   *)
(***************************************************************************)
EXTENDS BufferPool

VARIABLES
    referenced,    \* ClockStrategy.referenced
    hand,          \* ClockStrategy.hand
    probes,        \* iterations done by the sweep in progress
    open,          \* history: the frames without pins when it began
    recent,        \* history: the frames referenced when it began
    found          \* history: the frames it found eligible

sweepVars == <<probes, open, recent, found>>
clockVars == <<referenced, hand, sweepVars>>
allVars == <<vars, clockVars>>

ClockInit ==
    /\ Init
    /\ referenced = [f \in Frames |-> FALSE]
    /\ hand = 0
    /\ probes = 0
    /\ open = {} /\ recent = {} /\ found = {}

-----------------------------------------------------------------------------
access(f) ==
    /\ referenced' = [referenced EXCEPT ![f] = TRUE]
    /\ UNCHANGED <<hand, sweepVars>>

(* The trait's default, which ClockStrategy keeps. *)
load(f) == access(f)

next_hand_unwrapped == hand + 1
next_hand == (hand + 1) % Capacity

(* The frames open, and those referenced, when the sweep began. *)
opened == IF probes = 0 THEN {f \in Frames : pins[f] = 0} ELSE open
marked == IF probes = 0 THEN {f \in Frames : referenced[f]} ELSE recent

Sweeping(c) ==
    /\ pc[c] = "victim"
    /\ Mapped = Capacity
    /\ probes < 2 * Capacity

(* One iteration moves the hand whatever it finds. *)
probe_uncounted(eligible) ==
    /\ hand' = next_hand
    /\ found' = IF eligible THEN found \union {hand} ELSE found
    /\ UNCHANGED <<probes, open, recent>>

probe(eligible) ==
    /\ hand' = next_hand
    /\ probes' = probes + 1
    /\ found' = IF eligible THEN found \union {hand} ELSE found
    /\ open' = opened
    /\ recent' = marked

SkipPinned(c) ==
    /\ Sweeping(c)
    /\ pins[hand] # 0
    /\ probe(FALSE)
    /\ UNCHANGED <<vars, referenced>>

SecondChanceKept(c) ==
    /\ Sweeping(c)
    /\ pins[hand] = 0 /\ referenced[hand]
    /\ probe(TRUE)
    /\ UNCHANGED <<vars, referenced>>

SecondChance(c) ==
    /\ Sweeping(c)
    /\ pins[hand] = 0 /\ referenced[hand]
    /\ probe(TRUE)
    /\ referenced' = [referenced EXCEPT ![hand] = FALSE]
    /\ UNCHANGED vars

EndSweep == probes' = 0 /\ open' = {} /\ recent' = {} /\ found' = {}

(* The hand's frame is the answer; pin and new_page then check it. *)
AnswerFirstOpen(c) ==
    /\ Sweeping(c)
    /\ pins[hand] = 0
    /\ IF check(hand) THEN Victim(c, hand) ELSE VictimFails(c)
    /\ hand' = next_hand
    /\ EndSweep
    /\ UNCHANGED referenced

Answer(c) ==
    /\ Sweeping(c)
    /\ pins[hand] = 0 /\ ~referenced[hand]
    /\ IF check(hand) THEN Victim(c, hand) ELSE VictimFails(c)
    /\ hand' = next_hand
    /\ EndSweep
    /\ UNCHANGED referenced

(* Two sweeps without an answer: None, and AllPinned for the caller. *)
AllPinned(c) ==
    /\ pc[c] = "victim"
    /\ probes = 2 * Capacity
    /\ VictimFails(c)
    /\ EndSweep
    /\ UNCHANGED <<referenced, hand>>

(* The steps that call the policy, and those that do not. *)
PolicyStep(c) ==
    \/ \E p \in PageIds : PinHit(c, p) /\ access(pages[p])
    \/ SkipPinned(c) \/ SecondChance(c) \/ Answer(c) \/ AllPinned(c)
    \/ (InstallPin(c) \/ InstallNewPage(c)) /\ UNCHANGED metaPoisoned
                                            /\ load(frame[c])

PoolStep(c) ==
    /\ \/ \E p \in PageIds : PinMiss(c, p)
       \/ NewPage(c)
       \/ \E f \in Frames : Mapped < Capacity /\ Victim(c, f)
       \/ LoadStep(c)
       \/ CallbackStep(c)
       \/ FlushStep(c)
    /\ UNCHANGED clockVars

ClockCrash ==
    /\ Crash
    /\ referenced' = [f \in Frames |-> FALSE]
    /\ hand' = 0
    /\ EndSweep

ClockNext == ClockCrash \/ \E c \in Clients : PolicyStep(c) \/ PoolStep(c)

ClockSpec == ClockInit /\ [][ClockNext]_allVars

(* As in BufferPool: the holder of the metadata mutex keeps running. *)
HolderStep(c) == pc[c] \in Metadata /\ (PolicyStep(c) \/ PoolStep(c))

ClockFairSpec ==
    ClockSpec /\ \A c \in Clients : WF_allVars(HolderStep(c))

-----------------------------------------------------------------------------
ClockTypeOK ==
    /\ referenced \in [Frames -> BOOLEAN]
    /\ hand \in Frames
    /\ probes \in 0 .. 2 * Capacity
    /\ open \subseteq Frames /\ recent \subseteq Frames /\ found \subseteq Frames

(* AllPinned is returned only when every frame was pinned when the sweep   *)
(* began: a frame without pins is reached twice, and loses its reference   *)
(* bit at most once in between.                                            *)
SweepFindsOpenFrame ==
    probes = 2 * Capacity => open = {}

(* Second chance: a frame referenced before the sweep is evicted only if   *)
(* no frame was open and unreferenced when the sweep began.                *)
SecondChanceFirst ==
    [][\A c \in Clients :
          Answer(c) /\ hand \in marked => opened \subseteq marked]_allVars

(* VictimStrategy's contract: "None only if it found no eligible buffer". *)
NoneOnlyIfNoneFound ==
    probes = 2 * Capacity => found = {}

(* A sweep ends, and the metadata mutex with it, whatever the clients with *)
(* pins do.                                                                *)
SweepEnds ==
    \A c \in Clients : pc[c] \in Metadata ~> pc[c] \notin Metadata
=============================================================================
