----------------------------- MODULE MCHeapTable -----------------------------
(* HeapTable with pages of six cells after the header: two short tuples    *)
(* fill one exactly, and so does one long tuple.                           *)
EXTENDS HeapTable

Short == <<7>>
Long == <<7, 8, 7, 8>>
Sizes == {<<>>, Short, Long, Long \o Short}

Crashing == [changes |-> 4, scans |-> 0, crashes |-> 1]
Scanned == [changes |-> 5, scans |-> 1, crashes |-> 0]
SomeBudgets == {Crashing, Scanned}
=============================================================================
