------------------------------ MODULE MCTables ------------------------------
(* Tables with two names in one bucket and one in another, and two keys in  *)
(* one slot of the hash table.                                              *)
EXTENDS Tables

CONSTANTS a, b, c, x, y

MCNameHash == [n \in Names |-> IF n = c THEN 1 ELSE 0]
MCIndex    == [k \in Keys |-> 0]
=============================================================================
