----------------------------- MODULE MCAsyncLoad -----------------------------
(* AsyncLoad on the instances of the source's own test. *)
EXTENDS AsyncLoad, TLC

CONSTANTS f1, f2, p1, p2, b1, b2, b3
=============================================================================
