----------------------------- MODULE MCClockPool -----------------------------
(* ClockPool on small instances. *)
EXTENDS ClockPool, TLC

CONSTANTS c1, c2, c3

Symmetry == Permutations({c1, c2, c3})
=============================================================================
