------------------------------ MODULE Objects ------------------------------
(***************************************************************************)
(* The objects that reading, printing, saving and the functions on lists   *)
(* work with, as values.                                                   *)
(***************************************************************************)
EXTENDS Integers, Sequences, SequencesExt

Nil        == [type |-> "nil"]
Symbol(s)  == [type |-> "symbol", pname |-> s]
Number(n)  == [type |-> "flonum", value |-> n]
String(s)  == [type |-> "string", data |-> s]
Array(s)   == [type |-> "array", elems |-> s]
Pair(a, d) == [type |-> "cons", car |-> a, cdr |-> d]

\* The objects of s as a list that ends in x, and as a list.
ListThen(s, x) == FoldRight(Pair, s, x)
List(s)        == ListThen(s, Nil)

Consp(x) == x.type = "cons"

\* The elements of a list, and what it ends in.
RECURSIVE Elements(_), Ending(_)
Elements(l) == IF Consp(l) THEN <<l.car>> \o Elements(l.cdr) ELSE <<>>
Ending(l)   == IF Consp(l) THEN Ending(l.cdr) ELSE l
=============================================================================
