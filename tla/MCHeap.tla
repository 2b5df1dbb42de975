------------------------------- MODULE MCHeap -------------------------------
(* Two tasks, blocks of one or two cells behind a header of one.  Sums stay  *)
(* below Word, as the assumption says.                                       *)
EXTENDS Heap

OneOrTwo == {1, 2}
=============================================================================
