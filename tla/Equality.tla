------------------------------ MODULE Equality ------------------------------
(***************************************************************************)
(* equal? and sxhash (sliba.c), by which a hash table finds its keys, on   *)
(* objects as they lie in memory: a number has a sign beside its           *)
(* magnitude, so that there are two zeros, and a string has a dimension    *)
(* beside its buffer, which readline lets end before the buffer does.      *)
(* Characters are numbers here.                                            *)
(***************************************************************************)
EXTENDS Objects, Bitwise

CONSTANTS LongBits   \* the width of an unsigned long

Flonum(neg, mag) == [type |-> "flonum", neg |-> neg, mag |-> mag]
Chars(type, dim, buffer) == [type |-> type, dim |-> dim, data |-> buffer]
Doubles(s)       == [type |-> "doubles", elems |-> s]
Longs(s)         == [type |-> "longs", data |-> s]
Subr(name)       == [type |-> "subr", pname |-> name]
Other(name)      == [type |-> "other", name |-> name]

Value(x) == IF x.neg THEN -x.mag ELSE x.mag
Data(x)  == SubSeq(x.data, 1, x.dim)

-----------------------------------------------------------------------------
\* equal and array_equal.  Symbols and procedures are equal when they are the same.
RECURSIVE Equal(_, _)
Equal(a, b) ==
  LET all(Same(_, _)) == /\ Len(a.elems) = Len(b.elems)
                         /\ \A j \in DOMAIN a.elems : Same(a.elems[j], b.elems[j])
      number(x, y) == Value(x) = Value(y) IN
  /\ a.type = b.type
  /\ CASE a.type = "cons" -> Equal(a.car, b.car) /\ Equal(a.cdr, b.cdr)
       [] a.type = "flonum" -> number(a, b)
       [] a.type = "array" -> all(Equal)
       [] a.type = "doubles" -> all(number)
       [] a.type = "longs" -> a.data = b.data
       [] a.type \in {"string", "bytes"} -> a.dim = b.dim /\ Data(a) = Data(b)
       [] OTHER -> a = b

\* HASH_COMBINE, from hash on.
Combined(hash, hashes, n) == FoldLeft(LAMBDA h, x : ((h * 17 + 1) ^^ x) % n, hash, hashes)

\* The conversion of a double to an unsigned long.
Unsigned(x) == Value(x) % 2^LongBits

\* Mutant of HashChars: to the end of the buffer.
HashBuffer(obj, n) == Combined(0, obj.data, n)

HashChars(obj, n) == Combined(0, Data(obj), n)

\* c_sxhash and array_sxhash.
RECURSIVE Sxhash(_, _)
Sxhash(obj, n) ==
  LET each(s, Hash(_)) == [j \in DOMAIN s |-> Hash(s[j])]
      sxhash(x) == Sxhash(x, n) IN
  CASE obj.type = "cons" ->
         Combined(sxhash(obj.car), each(Append(Elements(obj.cdr), Ending(obj.cdr)), sxhash), n)
    [] obj.type \in {"symbol", "subr"} -> Combined(0, obj.pname, n)
    [] obj.type = "flonum" -> Unsigned(obj) % n
    [] obj.type \in {"string", "bytes"} -> HashChars(obj, n)
    [] obj.type = "longs" -> Combined(0, each(obj.data, LAMBDA x : x % n), n)
    [] obj.type = "doubles" -> Combined(0, each(obj.elems, LAMBDA x : Unsigned(x) % n), n)
    [] obj.type = "array" -> Combined(0, each(obj.elems, sxhash), n)
    [] OTHER -> 0

-----------------------------------------------------------------------------
\* What is equal has the same hash in a table of any size, and a slot of the table: or
\* href would look for a key where hset did not put it, or fail ("sxhash inconsistency").
\* Equal is an equivalence, and one of the contents: a string is not equal to a byte
\* array, nor a cons to a longer list.
HashAgrees(a, b, c, n) ==
  /\ Equal(a, b) => Sxhash(a, n) = Sxhash(b, n)
  /\ Sxhash(a, n) \in 0 .. n - 1
  /\ Equal(a, a) /\ (Equal(a, b) <=> Equal(b, a))
  /\ Equal(a, b) /\ Equal(b, c) => Equal(a, c)
=============================================================================
