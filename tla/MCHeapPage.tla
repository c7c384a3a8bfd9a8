----------------------------- MODULE MCHeapPage -----------------------------
(* HeapPage with ten cells after the header: tuples of one, two and three   *)
(* cells leave every amount of free space, none included, and one of eight  *)
(* fills a page alone.                                                      *)
EXTENDS HeapPage

Sizes == {<<>>, <<7>>, <<8>>, <<7, 8>>, <<7, 8, 9>>,
          <<1, 2, 3, 4, 5, 6, 7, 8>>, <<1, 2, 3, 4, 5, 6, 7, 8, 9>>}
=============================================================================
