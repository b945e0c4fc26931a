------------------------------- MODULE MCHeap -------------------------------
(***************************************************************************)
(* Heap for TLC: two heaps of two cells.  The first cell may be stored in   *)
(* any CAR and the second in any CDR, which makes lists, shared structure   *)
(* and cycles.                                                              *)
(***************************************************************************)
EXTENDS Heap

CONSTANT Nothing
MCCarRefs == {Nothing, <<0, 0>>}
MCCdrRefs == {Nothing, <<0, 1>>}
MCStale   == {<<1, 1>>}

\* Three heaps of one cell, for the costlier properties.
MCCdrRefsByOne == {Nothing, <<1, 0>>}
MCStaleByOne   == {<<2, 0>>}
=============================================================================
