------------------------------- MODULE HeapMap -------------------------------
(***************************************************************************)
(* What crates/heapam promises the users of one open HeapTable: a map from *)
(* CTIDs to tuples.  An insertion takes an address that was never used, a  *)
(* replacement keeps the address, and a deleted address stays dead.  A     *)
(* crash or a failed open leaves no map; what an open finds is not said    *)
(* here.                                                                   *)
(***************************************************************************)
CONSTANTS
    Ctids,        \* the addresses
    Tuples,       \* what can be stored
    Unused, Dead  \* an address not given out yet, a deleted one

VARIABLES
    rows,         \* what each address holds
    opened        \* whether there is a handle

mapVars == <<rows, opened>>

Contents == Tuples \union {Unused, Dead}
NoRows == [c \in Ctids |-> Unused]

MapInit == rows = NoRows /\ opened = FALSE

(* One address at a time: unused, then a tuple, then dead for ever. *)
Follows(old, new) ==
    \/ old = Unused /\ new \in Tuples
    \/ old \in Tuples /\ new \in Tuples \union {Dead}

Change ==
    /\ opened /\ opened' = TRUE
    /\ \E c \in Ctids :
          /\ Follows(rows[c], rows'[c])
          /\ \A d \in Ctids \ {c} : rows'[d] = rows[d]
    /\ rows' \in [Ctids -> Contents]

Open == ~opened /\ opened' = TRUE /\ rows' \in [Ctids -> Contents]
Close == opened /\ opened' = FALSE /\ rows' = NoRows

MapNext == Change \/ Open \/ Close

MapSpec == MapInit /\ [][MapNext]_mapVars
=============================================================================
