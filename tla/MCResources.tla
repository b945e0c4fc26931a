---------------------------- MODULE MCResources ----------------------------
(* Two streams on two descriptors; three cells of each kind, and for the   *)
(* loader three libraries that require each other, one with a parser. No   *)
(* part treats a cell or an address unlike another, so that the parts may  *)
(* share them and two of each may be exchanged.                            *)
EXTENDS Resources, TLC

CONSTANTS Library1, Library2, Library3, Reader1

MCContents ==
  Library1 :> << <<"plain", None>>, <<"require", Library3>>, <<"try", Library2>> >>
  @@ Library2 :> << <<"require", Library1>>, <<"plain", None>> >>
  @@ Library3 :> << <<"try", Library2>>, <<"plain", None>> >>
  @@ Reader1 :> << <<"plain", None>> >>

MCParser == Library1 :> None @@ Library2 :> None @@ Library3 :> Reader1 @@ Reader1 :> None

Symmetric == Permutations(Streams) \union Permutations(Fds)
=============================================================================
