----------------------------- MODULE MCControl -----------------------------
(* Control with two tags beside none: errobj and one of the program's own.  *)
EXTENDS Control

CONSTANT loop

\* What the program throws.
MCTags == {errobj, all, loop}
=============================================================================
