------------------------------ MODULE Ranges ------------------------------
(***************************************************************************)
(* Sets of address ranges (Ars.h, Ars_impl.h, Ars.cpp): a list of ranges   *)
(* of pages in increasing order, in an address space that wraps.           *)
(* Attributes are left out. What may raise an exception is the set of its  *)
(* outcomes: none if it raises one.                                        *)
(***************************************************************************)
EXTENDS Integers, Sequences, SequencesExt

CONSTANTS Space,    \* bytes of the address space, 2^32
          PageSize

ASSUME SizeAssumption == PageSize \in Nat \ {0} /\ Space \in Nat /\ Space % PageSize = 0

Arg(base, pages) == [base |-> base, pages |-> pages]
End(a) == (a.base + a.pages * PageSize) % Space

\* Mutant of LastByte: the byte after the last.
LastByteOver(a) == End(a)
LastByte(a) == (End(a) - 1) % Space

\* The operators < and <= of two ranges; SE_ADDRESS_WRAP of the constructor.
Precedes(a, b) == LastByte(a) < b.base
Reaches(a, b)  == a.base <= b.base /\ LastByte(a) >= b.base
Wraps(a) == LastByte(a) < a.base
In(x, a) == a.base <= x /\ x <= LastByte(a)

FContains(list, x) == \E i \in DOMAIN list : In(x, list[i])

\* The pages of the first i ranges, and of all.
Counted(list) == LET count[i \in 0 .. Len(list)] == IF i = 0 THEN 0 ELSE count[i - 1] + list[i].pages IN count
CPages(list)  == Counted(list)[Len(list)]

\* Insert stops at the first range that a precedes, equals or reaches into: it goes
\* before it, is there already, or overlaps. A range that begins inside one of the
\* list is not noticed.
Insert(list, a) ==
  LET stops == {i \in DOMAIN list : Precedes(a, list[i]) \/ a = list[i] \/ Reaches(a, list[i])}
      i == CHOOSE j \in stops : \A k \in stops : j <= k
  IN IF stops = {} THEN {Append(list, a)}
     ELSE IF Precedes(a, list[i]) THEN {InsertAt(list, i, a)}
     ELSE IF a = list[i] THEN {list}
     ELSE {}

\* Complement: what lies between base and the next range is accepted; the rest of the
\* space at the end, of which the number of bytes wraps to 0 when base has.
Accept(s, a) ==
  IF a.base = s.base THEN {[s EXCEPT !.base = End(a)]}
  ELSE IF a.base > s.base
  THEN {[set |-> set, base |-> End(a)] :
           set \in Insert(s.set, Arg(s.base, (a.base - s.base) \div PageSize))}
  ELSE {}

Walked(list) ==
  LET walk[i \in 0 .. Len(list)] ==
        IF i = 0 THEN {[set |-> <<>>, base |-> 0]} ELSE UNION {Accept(s, list[i]) : s \in walk[i - 1]}
  IN walk

Remaining(list, s) == IF list = <<>> THEN Space \div PageSize
                      ELSE ((Space - s.base) % Space) \div PageSize

Complement(list) ==
  UNION {Insert(s.set, Arg(s.base, Remaining(list, s))) : s \in Walked(list)[Len(list)]}

\* A list as Insert means to keep it: in increasing order, nothing twice, no wrap.
Ascending(list) == \A i \in DOMAIN list : (list[i].pages = 0 \/ ~ Wraps(list[i])) /\ \A j \in 1 .. i - 1 : Precedes(list[j], list[i])
=============================================================================
