------------------------------- MODULE Lists -------------------------------
(***************************************************************************)
(* The functions on lists (slib.c, sliba.c) on a memory of conses, because *)
(* which cells of the arguments they change, and which their results       *)
(* share, is half of what they promise.  A pointer is the index of a cons; *)
(* 0 is (), and a negative number any other object.  A function that       *)
(* allocates or stores returns the memory and the value.  Lists are not    *)
(* circular.                                                               *)
(***************************************************************************)
EXTENDS Integers, Sequences, SequencesExt

Nil   == 0
Wrong == -99                \* what a call that ends in err returns
Consp(x) == x > 0

CAR(m, x) == m.car[x]
CDR(m, x) == m.cdr[x]
Car(m, x) == IF Consp(x) THEN CAR(m, x) ELSE IF x = Nil THEN Nil ELSE Wrong
Cdr(m, x) == IF Consp(x) THEN CDR(m, x) ELSE IF x = Nil THEN Nil ELSE Wrong
Setcar(m, x, v) == [m EXCEPT !.car[x] = v]
Setcdr(m, x, v) == [m EXCEPT !.cdr[x] = v]

Result(m, v) == [m |-> m, v |-> v]
Kons(m, a, d) == Result([car |-> Append(m.car, a), cdr |-> Append(m.cdr, d)], Len(m.car) + 1)

RECURSIVE Cells(_, _), Ending(_, _)
Cells(m, l)  == IF Consp(l) THEN <<l>> \o Cells(m, CDR(m, l)) ELSE <<>>
Ending(m, l) == IF Consp(l) THEN Ending(m, CDR(m, l)) ELSE l
Items(m, l)  == LET cells == Cells(m, l) IN [i \in DOMAIN cells |-> CAR(m, cells[i])]

-----------------------------------------------------------------------------
(* What only looks.                                                        *)

\* nlength
Nlength(m, l) == IF Ending(m, l) = Nil THEN Len(Cells(m, l)) ELSE Wrong

RECURSIVE Memq(_, _, _), Ass(_, _, _), Nth(_, _, _), LastCell(_, _), Getprop(_, _, _)

Memq(m, x, l) == IF Consp(l) THEN IF CAR(m, l) = x THEN l ELSE Memq(m, x, CDR(m, l))
                 ELSE IF l = Nil THEN Nil ELSE Wrong

\* assq; assv, assoc and ass differ in the comparison.
Ass(m, x, l) == IF Consp(l)
                THEN LET tmp == CAR(m, l) IN
                     IF Consp(tmp) /\ CAR(m, tmp) = x THEN tmp ELSE Ass(m, x, CDR(m, l))
                ELSE IF l = Nil THEN Nil ELSE Wrong

Nth(m, n, l) == IF n > 0 /\ Consp(l) THEN Nth(m, n - 1, CDR(m, l))
                ELSE IF Consp(l) THEN CAR(m, l) ELSE Wrong

LastCell(m, l) == IF ~ Consp(l) THEN Wrong
              ELSE IF Consp(CDR(m, l)) THEN LastCell(m, CDR(m, l)) ELSE l

\* getprop, from the cdr of the property list on.
Getprop(m, l, key) == IF l = Nil THEN Nil
                      ELSE IF Car(m, l) = key THEN Car(m, Cdr(m, l))
                      ELSE Getprop(m, Cdr(m, Cdr(m, l)), key)

-----------------------------------------------------------------------------
(* What copies.                                                            *)

RECURSIVE MakeList(_, _, _), CopyList(_, _), Butlast(_, _), FillFrom(_, _, _), AppendAll(_, _)

MakeList(m, n, l) == IF n = 0 THEN Result(m, l) ELSE LET r == Kons(m, Nil, l) IN MakeList(r.m, n - 1, r.v)

CopyList(m, l) == IF l = Nil THEN Result(m, Nil)
                  ELSE LET r == CopyList(m, CDR(m, l)) IN Kons(r.m, CAR(m, l), r.v)

Butlast(m, l) == IF ~ Consp(l) THEN Result(m, Wrong)
                 ELSE IF CDR(m, l) = Nil THEN Result(m, Nil)
                 ELSE LET r == Butlast(m, CDR(m, l)) IN
                      IF r.v = Wrong THEN r ELSE Kons(r.m, CAR(m, l), r.v)

\* The cells from p on get the items of the list l; the first p that does not.
FillFrom(m, p, l) == IF l = Nil THEN Result(m, p)
                     ELSE FillFrom(Setcar(m, p, CAR(m, l)), CDR(m, p), CDR(m, l))

Append2(m, l1, l2) ==
  IF Wrong \in {Nlength(m, l1), Nlength(m, l2)} THEN Result(m, Wrong)
  ELSE LET new == MakeList(m, Nlength(m, l1) + Nlength(m, l2), Nil)
           first == FillFrom(new.m, new.v, l1) IN
       Result(FillFrom(first.m, first.v, l2).m, new.v)

\* append of a sequence of arguments.
AppendAll(m, args) ==
  IF args = <<>> THEN Result(m, Nil)
  ELSE IF Len(args) = 1 THEN Result(m, args[1])
  ELSE LET rest == AppendAll(m, Tail(args)) IN
       IF rest.v = Wrong THEN rest ELSE Append2(rest.m, args[1], rest.v)

\* mapcar1: each new cell goes behind the one before it.  The function is applied to
\* an item, and allocates nothing here.
Mapcar(m, fcn, l) ==
  LET behind(r, x) == LET c == Kons(r.m, fcn[x], CDR(r.m, r.v)) IN Result(Setcdr(c.m, r.v, c.v), c.v)
      first == Kons(m, fcn[Car(m, l)], Nil) IN
  IF l = Nil THEN Result(m, Nil)
  ELSE Result(FoldLeft(behind, first, Items(m, Cdr(m, l))).m, first.v)

-----------------------------------------------------------------------------
(* What stores into its arguments.                                         *)

RECURSIVE Reverse2(_, _, _), Delq(_, _, _)

Reverse2(m, oldp, newp) == IF Consp(oldp) THEN Reverse2(Setcdr(m, oldp, newp), CDR(m, oldp), oldp)
                           ELSE Result(m, newp)
Nreverse(m, l) == Reverse2(m, l, Nil)

\* Mutant of Nconc: the first cell is taken for the last.
NconcFirst(m, a, b) == IF a = Nil THEN Result(m, b) ELSE Result(Setcdr(m, a, b), a)

Nconc(m, a, b) == IF a = Nil THEN Result(m, b)
                  ELSE IF LastCell(m, a) = Wrong THEN Result(m, Wrong)
                  ELSE Result(Setcdr(m, LastCell(m, a), b), a)

Delq(m, elem, l) == IF l = Nil THEN Result(m, Nil)
                    ELSE LET r == Delq(m, elem, CDR(m, l)) IN
                         IF CAR(m, l) = elem THEN r ELSE Result(Setcdr(r.m, l, r.v), l)

Subset(m, fcn, l) ==
  LET kept == FoldLeft(LAMBDA r, x : IF fcn[x] THEN Kons(r.m, x, r.v) ELSE r, Result(m, Nil), Items(m, l))
  IN Nreverse(kept.m, kept.v)

\* lqsort, where rand() returns r at every level and pred tells of two items whether
\* one is less.
RECURSIVE Lqsort(_, _, _, _)
Lqsort(m, l, pred, r) ==
  LET items == Items(m, l)  n == Len(items)  j == (r % n) + 1
      part(s, in) == FoldLeft(LAMBDA t, k : IF k # j /\ pred[<<items[k], items[j]>>] = in
                                            THEN Kons(t.m, items[k], t.v) ELSE t,
                              s, [k \in 1 .. n |-> k])
      less == part(Result(m, Nil), TRUE)
      notless == part(Result(less.m, Nil), FALSE)
      before == Lqsort(notless.m, less.v, pred, r)
      after == Lqsort(before.m, notless.v, pred, r)
      mark == Kons(after.m, items[j], after.v) IN
  IF n = 0 THEN Result(m, Nil) ELSE Nconc(mark.m, before.v, mark.v)

-----------------------------------------------------------------------------
Old(m, n) == [car |-> SubSeq(m.car, 1, n), cdr |-> SubSeq(m.cdr, 1, n)]
Sorted(s) == \A i, j \in DOMAIN s : i < j => s[i] <= s[j]

\* r is a list of these items in cells that are all new, and no old cell has changed.
Fresh(m, r, items) ==
  /\ Items(r.m, r.v) = items /\ Ending(r.m, r.v) = Nil
  /\ Old(r.m, Len(m.car)) = m
  /\ \A c \in Range(Cells(r.m, r.v)) : c > Len(m.car)

\* r is a list of these cells in this order, of which no car has changed, nor any cdr
\* of another cell; and nothing was allocated.
Relinked(m, r, cells, changed) ==
  /\ Cells(r.m, r.v) = cells /\ r.m.car = m.car
  /\ \A c \in DOMAIN m.cdr \ changed : CDR(r.m, c) = CDR(m, c)

\* On two proper lists that may share their ends: the functions that copy return new
\* cells with the items in order and leave their arguments alone, append its last
\* argument too, which other Lisps share; the functions that store keep to the cells
\* of the list they are given; a sort returns each item as often as it was there, in
\* the order of the predicate, whether that is strict or not.
ListsAsDefined(m, a, b, x, r) ==
  LET as == Items(m, a)  bs == Items(m, b)  cs == Cells(m, a)
      without == SelectSeq(as, LAMBDA y : y # x)
      pairs == FoldRight(LAMBDA y, t : LET p == Kons(t.m, y, x) IN Kons(p.m, p.v, t.v), as, Result(m, Nil))
      plist == FoldRight(LAMBDA y, t : LET v == Kons(t.m, x, t.v) IN Kons(v.m, y, v.v), as, Result(m, Nil))
      found == Ass(pairs.m, x, pairs.v)
      items == Range(as)
      before == [p \in items \X items |-> p[1] < p[2]]
      notAfter == [p \in items \X items |-> p[1] <= p[2]] IN
  /\ Nlength(m, a) = Len(as)
  /\ Memq(m, x, a) = IF x \in Range(as) THEN cs[CHOOSE i \in DOMAIN as : as[i] = x /\ \A j \in 1 .. i - 1 : as[j] # x]
                     ELSE Nil
  /\ IF x \in Range(as) THEN found = Nth(pairs.m, Len(Items(m, a)) - Len(Items(m, Memq(m, x, a))), pairs.v)
     ELSE found = Nil
  /\ Getprop(plist.m, plist.v, x) = IF x \in Range(as) THEN x ELSE Nil
  /\ \A n \in 0 .. Len(as) : Nth(m, n, a) = IF n < Len(as) THEN as[n + 1] ELSE Wrong
  /\ Fresh(m, CopyList(m, a), as)
  /\ a # Nil => Fresh(m, Butlast(m, a), Front(as))
  /\ Fresh(m, AppendAll(m, <<a, b>>), as \o bs)
  /\ Fresh(m, AppendAll(m, <<a, b, a>>), as \o bs \o as)
  /\ Fresh(m, Mapcar(m, [y \in items |-> y - 1], a), [i \in DOMAIN as |-> as[i] - 1])
  /\ Fresh(m, Subset(m, [y \in items |-> y # x], a), without)
  /\ \A r1 \in {Lqsort(m, a, before, r), Lqsort(m, a, notAfter, r)} :
       LET s == Items(r1.m, r1.v) IN
       /\ Fresh(m, r1, s) /\ Sorted(s)
       /\ \A y \in Range(as) \union Range(s) : Len(SelectSeq(s, LAMBDA z : z = y)) = Len(SelectSeq(as, LAMBDA z : z = y))
  /\ Relinked(m, Nreverse(m, a), Reverse(cs), Range(cs))
  /\ Relinked(m, Delq(m, x, a), SelectSeq(cs, LAMBDA c : CAR(m, c) # x), Range(cs))
  /\ (Range(cs) \intersect Range(Cells(m, b)) = {}) =>
       Relinked(m, Nconc(m, a, b), cs \o Cells(m, b), IF a = Nil THEN {} ELSE {LastCell(m, a)})
=============================================================================
