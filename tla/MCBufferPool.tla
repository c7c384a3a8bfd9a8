---------------------------- MODULE MCBufferPool ----------------------------
(* BufferPool on small instances: c1 and c2 are clients that pin, f1 and f2 *)
(* also flush.                                                              *)
EXTENDS BufferPoolInvariant, TLC

CONSTANTS c1, c2, c3, f1, f2

OneFlusher == {f1}
TwoFlushers == {f1, f2}
Pinners == {c1, c2, c3}

(* Clients are interchangeable within their kind. *)
Symmetry == Permutations({c1, c2, c3}) \union Permutations({f1, f2})
=============================================================================
