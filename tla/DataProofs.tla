----------------------------- MODULE DataProofs -----------------------------
(***************************************************************************)
(* What is proved of the parts that copy data: the collector of -g1        *)
(* (CopyGC), the loader of Windows images with its sets of address ranges  *)
(* (Loader, Ranges), and the operations of arrays and strings (Strings).   *)
(***************************************************************************)
EXTENDS CopyGC, Loader, Strings, NaturalsInduction, WellFoundedInduction, SequenceTheorems, FiniteSetTheorems, TLAPS

-----------------------------------------------------------------------------
(* The collector that copies.                                              *)

Spec == Init /\ [][Next]_vars

\* NIL is no cell and no object's name.
Program == HeapSize \in Nat /\ NRegs \in Nat /\ NIL \notin Cell \union Nat

Pointer == Cell \union {NIL}
Content == [type : {"cons", "user"}, mark : {0, 1}, car : Pointer, cdr : Pointer, name : Nat]
Built   == [type : {"cons", "user"}, car : Name \union {NIL}, cdr : Name \union {NIL}]
States  == [mem : [Cell -> Content], org : 0 .. 1, heap : 0 .. HeapSize, to : Pointer]

TypeOK ==
  /\ mem \in [Cell -> Content] /\ org \in 0 .. 1 /\ heap \in 0 .. HeapSize /\ end \in 0 .. HeapSize
  /\ regs \in [1 .. NRegs -> Pointer] /\ locals \subseteq Cell /\ scan \in Nat
  /\ pc \in {"eval", "repl", "registers", "scan"}
  /\ built \in [Name -> Built] /\ rooted \in [1 .. NRegs -> Name \union {NIL}]

\* The name of what w points to, in a memory m.
NameIn(m, w) == IF w = NIL THEN NIL ELSE m[w].name

Named(m, C) == /\ \A c \in C : m[c].name \in Name
               /\ \A c, d \in C : m[c].name = m[d].name => c = d

Marked(m, o, e) == {x \in Used(1 - o, e) : m[x].mark = 1}

\* The two spaces while o is filled from the other: an object is in both just if it
\* is marked in the old one, which then has its address in the new one.
Separate(m, o, h, e) ==
  /\ Named(m, Used(o, h)) /\ Named(m, Used(1 - o, e))
  /\ \A c \in Used(o, h) : m[c].mark = 0
  /\ \A x \in Used(1 - o, e) :
       IF m[x].mark = 1 THEN m[x].car \in Used(o, h) /\ m[m[x].car].name = m[x].name
       ELSE \A c \in Used(o, h) : m[c].name # m[x].name

\* As many cells were taken in the new space as have moved.
MarksCounted(m, o, h, e) == Cardinality(Marked(m, o, e)) = h

\* A cell has what the program made of the object in it.
Sound(m, c) ==
  LET b == built[m[c].name] IN
  /\ m[c].type = b.type
  /\ m[c].type = "cons" => NameIn(m, m[c].car) = b.car /\ NameIn(m, m[c].cdr) = b.cdr
  /\ m[c].type = "user" => b.car = NIL /\ b.cdr = NIL /\ m[c].name \in open

Points(m, c, A, D) == m[c].type = "cons" => m[c].car \in A \union {NIL} /\ m[c].cdr \in D \union {NIL}

\* Between two steps of the collector: the first a fields car and the first d fields
\* cdr of the new space were relocated, the others have their old values.
Halfway(s, e, a, d) ==
  LET new == Used(s.org, s.heap)  old == Used(1 - s.org, e) IN
  /\ s \in States /\ Separate(s.mem, s.org, s.heap, e) /\ MarksCounted(s.mem, s.org, s.heap, e)
  /\ \A c \in new : /\ Sound(s.mem, c)
                    /\ Points(s.mem, c, IF c[2] < a THEN new ELSE old, IF c[2] < d THEN new ELSE old)
  /\ \A c \in old : s.mem[c].mark = 0 => Sound(s.mem, c) /\ Points(s.mem, c, old, old)

\* Outside of a collection.
Whole(m, o, h) ==
  LET new == Used(o, h) IN
  /\ Named(m, new)
  /\ \A c \in new : m[c].mark = 0 /\ Sound(m, c) /\ Points(m, c, new, new)

Collecting == pc \in {"registers", "scan"}
Scanned == IF pc = "scan" THEN scan ELSE 0
Moved(i) == pc = "registers" => i <= scan

New == Used(org, heap)
Old == Used(1 - org, end)
Memory == [mem |-> mem, org |-> org, heap |-> heap, to |-> NIL]

CellsInv == IF Collecting THEN Halfway(Memory, end, Scanned, Scanned)
            ELSE end = 0 /\ Whole(mem, org, heap)

RootsInv ==
  /\ \A i \in 1 .. NRegs : /\ regs[i] \in (IF Moved(i) THEN New ELSE Old) \union {NIL}
                           /\ NameOf(regs[i]) = rooted[i]
  /\ locals \subseteq New
  /\ Collecting => locals = {}
  /\ pc = "scan" => scan <= heap

CopyInv == TypeOK /\ CellsInv /\ RootsInv

-----------------------------------------------------------------------------
(* Spaces.                                                                 *)

LEMMA UsedFact ==
  ASSUME Program, NEW o \in 0 .. 1, NEW h \in 0 .. HeapSize
  PROVE  /\ Used(o, h) \subseteq Cell /\ 1 - o \in 0 .. 1 /\ 1 - (1 - o) = o
         /\ \A e : Used(o, h) \intersect Used(1 - o, e) = {}
         /\ \A c \in Used(o, h) : c = <<o, c[2]>> /\ c[2] \in 0 .. HeapSize - 1 /\ c[2] < h
         /\ \A i \in 0 .. HeapSize - 1 : <<o, i>> \in Cell /\ (i < h => <<o, i>> \in Used(o, h))
         /\ \A c \in Used(o, h) : c # NIL
  BY DEF Used, Cell, Spaces, Program

LEMMA GrowFact ==
  ASSUME Program, NEW o \in 0 .. 1, NEW h \in 0 .. HeapSize, h < HeapSize
  PROVE  /\ <<o, h>> \in Cell /\ <<o, h>> \notin Used(o, h) /\ \A e : <<o, h>> \notin Used(1 - o, e)
         /\ Used(o, h + 1) = Used(o, h) \union {<<o, h>>} /\ h + 1 \in 0 .. HeapSize
  BY DEF Used, Cell, Spaces, Program

LEMMA NoneUsed == ASSUME Program, NEW o PROVE Used(o, 0) = {}
  BY DEF Used, Cell, Spaces, Program

LEMMA FiniteUsed ==
  ASSUME Program, NEW o \in 0 .. 1, NEW h \in 0 .. HeapSize, NEW S \in SUBSET Used(o, h)
  PROVE  IsFiniteSet(S) /\ Cardinality(S) <= HeapSize /\ Cardinality(S) \in Nat
<1> DEFINE T == 0 .. HeapSize - 1  f == [c \in Used(o, h) |-> c[2]]
<1>1. HeapSize \in Nat
  BY DEF Program
<1>2. IsFiniteSet(T) /\ Cardinality(T) = HeapSize
  BY <1>1, FS_Interval
<1>3. IsFiniteSet(Cell)
  <2>1. IsFiniteSet(Spaces)
    <3>1. 0 \in Int /\ 1 \in Int
      OBVIOUS
    <3> QED
      BY <3>1, FS_Interval, Zenon DEF Spaces
  <2> QED
    BY <1>2, <2>1, FS_Product DEF Cell
<1>4. S \subseteq Cell
  BY DEF Used
<1>5. IsFiniteSet(S) /\ Cardinality(S) \in Nat
  BY <1>3, <1>4, FS_Subset, FS_CardinalityType
<1>6. f \in [Used(o, h) -> T] /\ \A c, d \in Used(o, h) : f[c] = f[d] => c = d
  BY UsedFact
<1>7. ASSUME HeapSize < Cardinality(S) PROVE FALSE
  <2> DEFINE g == [c \in S |-> f[c]]
  <2>1. g \in [S -> T] /\ \A c, d \in S : g[c] = g[d] => c = d
    BY <1>6
  <2> HIDE DEF g, T
  <2>2. \E c, d \in S : c # d /\ g[c] = g[d]
    BY <1>2, <1>5, <1>7, <2>1, FS_PigeonHole
  <2> QED
    BY <2>1, <2>2
<1> QED
  BY <1>1, <1>5, <1>7

-----------------------------------------------------------------------------
(* gc_relocate.                                                            *)

\* From s to t the object at x has come into the new space, if it was not there.
Relocated(s, t, x, e) ==
  LET new == Used(s.org, s.heap)  old == Used(1 - s.org, e) IN
  /\ t \in States /\ t.org = s.org /\ s.heap <= t.heap
  /\ Separate(t.mem, t.org, t.heap, e) /\ MarksCounted(t.mem, t.org, t.heap, e)
  /\ t.to \in Used(t.org, t.heap) \union {NIL} /\ NameIn(t.mem, t.to) = NameIn(s.mem, x)
  /\ \A c \in new : c \in Used(t.org, t.heap) /\ t.mem[c] = s.mem[c]
  /\ \A c \in old : t.mem[c].name = s.mem[c].name /\ (t.mem[c].mark = 0 => t.mem[c] = s.mem[c])
  /\ \A c \in Used(t.org, t.heap) \ new :
       c[2] >= s.heap /\ \E y \in old : s.mem[y].mark = 0 /\ t.mem[c] = s.mem[y]

\* There is room for what has not moved.
LEMMA RoomFact ==
  ASSUME Program, NEW m \in [Cell -> Content], NEW o \in 0 .. 1, NEW h \in 0 .. HeapSize,
         NEW e \in 0 .. HeapSize, MarksCounted(m, o, h, e), NEW x \in Used(1 - o, e), m[x].mark # 1
  PROVE  /\ h < HeapSize
         /\ Cardinality(Marked(m, o, e) \union {x}) = h + 1
<1> DEFINE S == Marked(m, o, e)
<1>1. 1 - o \in 0 .. 1
  BY UsedFact
<1>2. S \in SUBSET Used(1 - o, e) /\ S \union {x} \in SUBSET Used(1 - o, e) /\ x \notin S
  BY DEF Marked
<1>3. IsFiniteSet(S)
  BY <1>1, <1>2, FiniteUsed
<1>4. Cardinality(S \union {x}) = Cardinality(S) + 1
  BY <1>2, <1>3, FS_AddElement
<1>5. Cardinality(S \union {x}) <= HeapSize
  BY <1>1, <1>2, FiniteUsed
<1>6. Cardinality(S) = h /\ HeapSize \in Nat
  BY DEF MarksCounted, Program
<1> HIDE DEF S
<1>7. h < HeapSize
  BY <1>4, <1>5, <1>6
<1> QED
  BY <1>4, <1>6, <1>7 DEF S

\* What is left of an object that has moved to w.
Forward(c, w) == [c EXCEPT !.mark = 1, !.car = w]
Move(s, x, w, n) == [s EXCEPT !.mem = [@ EXCEPT ![w] = s.mem[x], ![x].mark = 1, ![x].car = w],
                              !.heap = n, !.to = w]

LEMMA ForwardFact ==
  ASSUME NEW c \in Content, NEW w \in Pointer
  PROVE  /\ Forward(c, w) \in Content /\ Forward(c, w).mark = 1 /\ Forward(c, w).car = w
         /\ Forward(c, w).name = c.name
  BY DEF Content, Forward

MovedTo(s, t, x, w, n) ==
  /\ t \in States /\ t.org = s.org /\ t.heap = n /\ t.to = w
  /\ t.mem[w] = s.mem[x]
  /\ t.mem[x].mark = 1 /\ t.mem[x].car = w /\ t.mem[x].name = s.mem[x].name
  /\ \A c \in Cell \ {x, w} : t.mem[c] = s.mem[c]

LEMMA MoveFact ==
  ASSUME NEW s \in States, NEW x \in Cell, NEW w \in Cell, x # w, NEW n \in 0 .. HeapSize,
         NEW t, t = Move(s, x, w, n)
  PROVE  MovedTo(s, t, x, w, n)
<1> DEFINE m == [s.mem EXCEPT ![w] = s.mem[x], ![x].mark = 1, ![x].car = w]
<1>1. s.mem \in [Cell -> Content]
  BY DEF States
<1>2. m[w] = s.mem[x] /\ \A c \in Cell \ {x, w} : m[c] = s.mem[c]
  BY <1>1
<1>3. m[x] = Forward(s.mem[x], w)
  BY <1>1 DEF Forward
<1>4. s.mem[x] \in Content /\ w \in Pointer
  BY <1>1 DEF Pointer
<1>5. m[x] \in Content /\ m[x].mark = 1 /\ m[x].car = w /\ m[x].name = s.mem[x].name
  BY <1>3, <1>4, ForwardFact
<1>6. m \in [Cell -> Content]
  BY <1>1, <1>2, <1>5
<1>7. t.mem = m /\ t.org = s.org /\ t.heap = n /\ t.to = w
  <2>1. t = [s EXCEPT !.mem = m, !.heap = n, !.to = w]
    BY DEF Move
  <2> HIDE DEF m
  <2> QED
    BY ONLY s \in States, <2>1 DEF States
<1>8. t \in States
  <2>1. t = [mem |-> m, org |-> s.org, heap |-> n, to |-> w]
    <3>1. t = [s EXCEPT !.mem = m, !.heap = n, !.to = w]
      BY DEF Move
    <3> HIDE DEF m
    <3> QED
      BY ONLY s \in States, <3>1 DEF States
  <2> HIDE DEF m
  <2> QED
    BY <1>4, <1>6, <2>1 DEF States
<1> QED
  BY <1>2, <1>5, <1>7, <1>8 DEF MovedTo

LEMMA RelocateFact ==
  ASSUME Program, NEW s \in States, NEW e \in 0 .. HeapSize,
         Separate(s.mem, s.org, s.heap, e), MarksCounted(s.mem, s.org, s.heap, e),
         NEW x \in Used(1 - s.org, e) \union {NIL}, NEW t, t = Relocate(s, x)
  PROVE  Relocated(s, t, x, e)
<1> PICK m, o, h : m = s.mem /\ o = s.org /\ h = s.heap
  OBVIOUS
<1> DEFINE new == Used(o, h)  old == Used(1 - o, e)
<1>0. x \in old \union {NIL} /\ Separate(m, o, h, e) /\ MarksCounted(m, o, h, e)
  OBVIOUS
<1>1. /\ m \in [Cell -> Content] /\ o \in 0 .. 1 /\ h \in 0 .. HeapSize /\ 1 - o \in 0 .. 1
      /\ HeapSize \in Nat /\ s.to \in Pointer
  BY DEF States, Program
<1>2. new \subseteq Cell /\ old \subseteq Cell /\ new \intersect old = {} /\ NIL \notin Cell
  BY <1>1, UsedFact DEF Program
<1>3. ASSUME NEW w \in new \union {NIL}, t = [s EXCEPT !.to = w], NameIn(m, w) = NameIn(m, x)
      PROVE  Relocated(s, t, x, e)
  <2>1. t.mem = m /\ t.org = o /\ t.heap = h /\ t.to = w
    BY <1>3 DEF States
  <2>2. t \in States
    BY <1>1, <1>2, <1>3, <2>1 DEF States, Pointer
  <2> QED
    BY <1>0, <1>1, <1>3, <2>1, <2>2 DEF Relocated
<1>4. CASE x = NIL
  BY <1>3, <1>4 DEF Relocate
<1>5. CASE x # NIL /\ m[x].mark = 1
  <2>1. m[x].car \in new /\ m[m[x].car].name = m[x].name
    BY <1>5 DEF Separate
  <2>2. m[x].car # NIL
    BY <1>2, <2>1
  <2>3. NameIn(m, m[x].car) = NameIn(m, x)
    BY <1>5, <2>1, <2>2 DEF NameIn
  <2>4. t = [s EXCEPT !.to = m[x].car]
    BY <1>5 DEF Relocate
  <2> QED
    BY <1>3, <2>1, <2>3, <2>4
<1>6. CASE x # NIL /\ m[x].mark # 1
  <2> DEFINE w == <<o, h>>
  <2>1. x \in old /\ x \in Cell
    BY <1>2, <1>6
  <2>2. h < HeapSize /\ Cardinality(Marked(m, o, e) \union {x}) = h + 1
    <3>1. x \in old /\ m[x].mark # 1 /\ MarksCounted(m, o, h, e) /\ e \in 0 .. HeapSize
      BY <1>0, <1>6, <2>1
    <3> HIDE DEF old
    <3>2. m \in [Cell -> Content] /\ o \in 0 .. 1 /\ h \in 0 .. HeapSize
      BY <1>1
    <3> QED
      BY ONLY Program, <3>1, <3>2, RoomFact DEF old
  <2>3. w \in Cell /\ w \notin new /\ w \notin old /\ Used(o, h + 1) = new \union {w} /\ h + 1 \in 0 .. HeapSize
    BY <1>1, <2>2, GrowFact
  <2>4. t = Move(s, x, w, h + 1)
    BY <1>6 DEF Relocate, Move
  <2>5. w # x /\ w # NIL
    BY <1>2, <2>1, <2>3
  <2>6. w[2] = h
    OBVIOUS
  <2> HIDE DEF w
  <2>7. /\ t \in States /\ t.org = o /\ t.heap = h + 1 /\ t.to = w
        /\ t.mem[w] = m[x]
        /\ t.mem[x].mark = 1 /\ t.mem[x].car = w /\ t.mem[x].name = m[x].name
        /\ \A c \in Cell \ {x, w} : t.mem[c] = m[c]
    <3> PICK n : n = h + 1
      OBVIOUS
    <3>1. n \in 0 .. HeapSize /\ w \in Cell /\ x \in Cell /\ x # w /\ s \in States /\ t = Move(s, x, w, n)
      BY <2>1, <2>3, <2>4, <2>5
    <3>2. MovedTo(s, t, x, w, n)
      BY ONLY <3>1, MoveFact
    <3> QED
      BY ONLY <3>1, <3>2, n = h + 1, m = s.mem /\ o = s.org /\ h = s.heap DEF MovedTo
  <2>8. \A c \in new : t.mem[c] = m[c]
    BY <1>2, <2>1, <2>3, <2>7
  <2>9. /\ \A c \in old \ {x} : t.mem[c] = m[c]
        /\ \A c \in old : t.mem[c].name = m[c].name /\ (t.mem[c].mark = 0 => t.mem[c] = m[c])
    BY <1>2, <2>3, <2>7
  <2>10. m[x].mark = 0
    BY <1>1, <1>6, <2>1 DEF Content
  <2>11. Separate(t.mem, o, h + 1, e)
    <3>1. Named(m, new) /\ Named(m, old) /\ \A c \in new : m[c].mark = 0
      BY DEF Separate
    <3>2. \A c \in new : m[c].name # m[x].name
      BY <1>6, <2>1 DEF Separate
    <3>3. Named(t.mem, new \union {w})
      BY <2>1, <2>7, <2>8, <3>1, <3>2 DEF Named
    <3>4. Named(t.mem, old)
      BY <2>9, <3>1 DEF Named
    <3>5. \A c \in new \union {w} : t.mem[c].mark = 0
      BY <2>7, <2>8, <2>10, <3>1
    <3>6. ASSUME NEW y \in old
          PROVE  IF t.mem[y].mark = 1
                 THEN t.mem[y].car \in new \union {w} /\ t.mem[t.mem[y].car].name = t.mem[y].name
                 ELSE \A c \in new \union {w} : t.mem[c].name # t.mem[y].name
      <4>1. CASE y = x
        BY <2>7, <4>1
      <4>2. CASE y # x
        <5>1. t.mem[y] = m[y] /\ m[y].name # m[x].name
          BY <2>1, <2>9, <3>1, <4>2 DEF Named
        <5>2. IF m[y].mark = 1 THEN m[y].car \in new /\ m[m[y].car].name = m[y].name
              ELSE \A c \in new : m[c].name # m[y].name
          BY DEF Separate
        <5> QED
          BY <2>7, <2>8, <5>1, <5>2
      <4> QED
        BY <4>1, <4>2
    <3> QED
      BY ONLY <2>3, <3>3, <3>4, <3>5, <3>6 DEF Separate
  <2>12. MarksCounted(t.mem, o, h + 1, e)
    <3>1. Marked(t.mem, o, e) = Marked(m, o, e) \union {x}
      BY <2>1, <2>7, <2>9 DEF Marked
    <3> QED
      BY <2>2, <3>1 DEF MarksCounted
  <2>13. NameIn(t.mem, t.to) = NameIn(m, x)
    BY <1>6, <2>5, <2>7 DEF NameIn
  <2>14. \A c \in Used(t.org, t.heap) \ new : c[2] >= h /\ \E y \in old : m[y].mark = 0 /\ t.mem[c] = m[y]
    BY <1>1, <2>1, <2>3, <2>6, <2>7, <2>10
  <2>15. t.org = o /\ t.heap = h + 1 /\ h <= t.heap /\ t.to \in Used(t.org, t.heap)
    BY <1>1, <2>3, <2>7
  <2> QED
    BY <2>3, <2>7, <2>8, <2>9, <2>11, <2>12, <2>13, <2>14, <2>15 DEF Relocated
<1> QED
  BY <1>4, <1>5, <1>6

-----------------------------------------------------------------------------
(* The invariant half way through a step.                                  *)

\* What has a name keeps it when an object moves.
LEMMA NamesKept ==
  ASSUME Program, NEW s \in States, NEW e \in 0 .. HeapSize, NEW t, NEW x, Relocated(s, t, x, e),
         NEW w \in Used(s.org, s.heap) \union Used(1 - s.org, e) \union {NIL}
  PROVE  NameIn(t.mem, w) = NameIn(s.mem, w)
  BY DEF Relocated, NameIn

LEMMA MovedHalfway ==
  ASSUME Program, TypeOK, NEW s, NEW e \in 0 .. HeapSize, NEW a \in Nat, NEW d \in Nat,
         Halfway(s, e, a, d), a <= s.heap, d <= s.heap,
         NEW x \in Used(1 - s.org, e) \union {NIL}, NEW t, t = Relocate(s, x)
  PROVE  Relocated(s, t, x, e) /\ Halfway(t, e, a, d)
<1> PICK o, h, k : o = s.org /\ h = s.heap /\ k = t.heap
  OBVIOUS
<1> DEFINE new == Used(o, h)  old == Used(1 - o, e)  newer == Used(o, k)
<1>1. s \in States
  BY DEF Halfway
<1>2. Relocated(s, t, x, e)
  <2>1. Separate(s.mem, s.org, s.heap, e) /\ MarksCounted(s.mem, s.org, s.heap, e)
    BY DEF Halfway
  <2> QED
    BY ONLY Program, <1>1, <2>1, e \in 0 .. HeapSize, x \in Used(1 - s.org, e) \union {NIL},
            t = Relocate(s, x), RelocateFact
<1>3. /\ t \in States /\ t.org = o /\ new \subseteq newer
      /\ Separate(t.mem, t.org, t.heap, e) /\ MarksCounted(t.mem, t.org, t.heap, e)
      /\ \A c \in new : t.mem[c] = s.mem[c]
      /\ \A c \in old : t.mem[c].mark = 0 => t.mem[c] = s.mem[c]
      /\ \A c \in newer \ new : c[2] >= h /\ \E y \in old : s.mem[y].mark = 0 /\ t.mem[c] = s.mem[y]
  BY <1>2 DEF Relocated
<1>4. \A w \in new \union old \union {NIL} : NameIn(t.mem, w) = NameIn(s.mem, w)
  BY ONLY <1>1, <1>2, Program, e \in 0 .. HeapSize, o = s.org /\ h = s.heap, NamesKept
<1>5. /\ \A c \in new : /\ Sound(s.mem, c)
                        /\ Points(s.mem, c, IF c[2] < a THEN new ELSE old, IF c[2] < d THEN new ELSE old)
      /\ \A c \in old : s.mem[c].mark = 0 => Sound(s.mem, c) /\ Points(s.mem, c, old, old)
  BY DEF Halfway
\* A cell that is what a cell was is as sound.
<1>6. ASSUME NEW c, NEW y, NEW A, NEW D, NEW AA, NEW DD, t.mem[c] = s.mem[y],
             Sound(s.mem, y), Points(s.mem, y, A, D),
             A \subseteq new \union old, D \subseteq new \union old, A \subseteq AA, D \subseteq DD
      PROVE  Sound(t.mem, c) /\ Points(t.mem, c, AA, DD)
  <2>1. Points(t.mem, c, AA, DD)
    BY <1>6 DEF Points
  <2>2. s.mem[y].type = "cons" => /\ NameIn(t.mem, s.mem[y].car) = NameIn(s.mem, s.mem[y].car)
                                  /\ NameIn(t.mem, s.mem[y].cdr) = NameIn(s.mem, s.mem[y].cdr)
    BY <1>4, <1>6 DEF Points
  <2>3. Sound(t.mem, c)
    BY <1>6, <2>2 DEF Sound
  <2> QED
    BY <2>1, <2>3
<1> HIDE DEF new, old, newer
<1>7. \A c \in new : /\ Sound(t.mem, c)
                     /\ Points(t.mem, c, IF c[2] < a THEN newer ELSE old, IF c[2] < d THEN newer ELSE old)
  <2> SUFFICES ASSUME NEW c \in new
               PROVE  /\ Sound(t.mem, c)
                      /\ Points(t.mem, c, IF c[2] < a THEN newer ELSE old, IF c[2] < d THEN newer ELSE old)
    OBVIOUS
  <2> DEFINE A == IF c[2] < a THEN new ELSE old  D == IF c[2] < d THEN new ELSE old
             AA == IF c[2] < a THEN newer ELSE old  DD == IF c[2] < d THEN newer ELSE old
  <2>1. /\ A \subseteq new \union old /\ D \subseteq new \union old /\ A \subseteq AA /\ D \subseteq DD
    BY <1>3
  <2>2. t.mem[c] = s.mem[c] /\ Sound(s.mem, c) /\ Points(s.mem, c, A, D)
    BY <1>3, <1>5
  <2> HIDE DEF A, D, AA, DD
  <2>3. Sound(t.mem, c) /\ Points(t.mem, c, AA, DD)
    BY <1>6, <2>1, <2>2
  <2> QED
    BY <2>3 DEF AA, DD
<1>8. ASSUME NEW c, NEW y \in old, s.mem[y].mark = 0, t.mem[c] = s.mem[y]
      PROVE  Sound(t.mem, c) /\ Points(t.mem, c, old, old)
  BY <1>5, <1>6, <1>8
<1>9. \A c \in newer \ new : /\ Sound(t.mem, c)
                             /\ Points(t.mem, c, IF c[2] < a THEN newer ELSE old, IF c[2] < d THEN newer ELSE old)
  <2> SUFFICES ASSUME NEW c \in newer \ new
               PROVE  /\ Sound(t.mem, c)
                      /\ Points(t.mem, c, IF c[2] < a THEN newer ELSE old, IF c[2] < d THEN newer ELSE old)
    OBVIOUS
  <2>1. c[2] >= h /\ Sound(t.mem, c) /\ Points(t.mem, c, old, old)
    BY <1>3, <1>8
  <2>2. ~ (c[2] < a) /\ ~ (c[2] < d)
    <3>1. h \in Nat /\ c[2] \in Int
      <4>1. h \in 0 .. HeapSize /\ k \in 0 .. HeapSize /\ o \in 0 .. 1
        BY <1>1, <1>3 DEF States
      <4> QED
        BY <4>1, UsedFact DEF newer, Program
    <3> QED
      BY <2>1, <3>1
  <2> QED
    BY <2>1, <2>2
<1>10. \A c \in old : t.mem[c].mark = 0 => Sound(t.mem, c) /\ Points(t.mem, c, old, old)
  BY <1>3, <1>8
<1> QED
  BY <1>2, <1>3, <1>7, <1>9, <1>10 DEF Halfway, newer, old

\* The same fields, or one of them written in a cell of the new space.
LEMMA FieldsSet ==
  ASSUME Program, NEW s, NEW e \in 0 .. HeapSize, NEW a, NEW d, NEW aa, NEW dd, Halfway(s, e, a, d),
         NEW c \in Used(s.org, s.heap), NEW u \in States, u.org = s.org, u.heap = s.heap,
         \A x \in Cell \ {c} : u.mem[x] = s.mem[x],
         u.mem[c].type = s.mem[c].type, u.mem[c].mark = s.mem[c].mark, u.mem[c].name = s.mem[c].name,
         NameIn(s.mem, u.mem[c].car) = NameIn(s.mem, s.mem[c].car),
         NameIn(s.mem, u.mem[c].cdr) = NameIn(s.mem, s.mem[c].cdr),
         Points(u.mem, c, IF c[2] < aa THEN Used(s.org, s.heap) ELSE Used(1 - s.org, e),
                          IF c[2] < dd THEN Used(s.org, s.heap) ELSE Used(1 - s.org, e)),
         \A x \in Used(s.org, s.heap) \ {c} : (x[2] < a <=> x[2] < aa) /\ (x[2] < d <=> x[2] < dd)
  PROVE  Halfway(u, e, aa, dd)
<1> PICK o, h : o = s.org /\ h = s.heap
  OBVIOUS
<1> DEFINE new == Used(o, h)  old == Used(1 - o, e)
<1>1. /\ s \in States /\ Separate(s.mem, o, h, e) /\ MarksCounted(s.mem, o, h, e)
      /\ \A x \in new : /\ Sound(s.mem, x)
                        /\ Points(s.mem, x, IF x[2] < a THEN new ELSE old, IF x[2] < d THEN new ELSE old)
      /\ \A x \in old : s.mem[x].mark = 0 => Sound(s.mem, x) /\ Points(s.mem, x, old, old)
  BY DEF Halfway
<1>2. o \in 0 .. 1 /\ h \in 0 .. HeapSize /\ s.mem \in [Cell -> Content] /\ u.mem \in [Cell -> Content]
  BY <1>1 DEF States
<1>3. new \subseteq Cell /\ old \subseteq Cell /\ new \intersect old = {} /\ NIL \notin Cell
  BY <1>2, UsedFact DEF Program
<1>4. /\ c \in new /\ c \in Cell /\ \A x \in old : u.mem[x] = s.mem[x]
      /\ \A x \in Cell : u.mem[x].mark = s.mem[x].mark /\ u.mem[x].name = s.mem[x].name
  BY <1>3
<1> HIDE DEF new, old
<1>5. \A w \in Pointer : NameIn(u.mem, w) = NameIn(s.mem, w)
  BY <1>4 DEF NameIn, Pointer
<1>6. Separate(u.mem, o, h, e)
  <2>1. Separate(s.mem, o, h, e)
    BY <1>1
  <2>2. Named(u.mem, new) /\ Named(u.mem, old)
    BY <1>3, <1>4, <2>1 DEF Separate, Named, new, old
  <2>3. \A x \in new : u.mem[x].mark = 0
    BY <1>3, <1>4, <2>1 DEF Separate, new
  <2>4. \A x \in old : IF u.mem[x].mark = 1
                       THEN u.mem[x].car \in new /\ u.mem[u.mem[x].car].name = u.mem[x].name
                       ELSE \A y \in new : u.mem[y].name # u.mem[x].name
    BY <1>3, <1>4, <2>1 DEF Separate, new, old
  <2> QED
    BY ONLY <2>2, <2>3, <2>4 DEF Separate, new, old
<1>7. MarksCounted(u.mem, o, h, e)
  <2>1. Marked(u.mem, o, e) = Marked(s.mem, o, e)
    BY <1>4 DEF Marked, old
  <2> QED
    BY <1>1, <2>1 DEF MarksCounted
<1>8. ASSUME NEW x \in Cell, x # c, Sound(s.mem, x) PROVE Sound(u.mem, x)
  <2>1. u.mem[x] = s.mem[x] /\ s.mem[x].car \in Pointer /\ s.mem[x].cdr \in Pointer
    BY <1>2, <1>8 DEF Content
  <2>2. NameIn(u.mem, s.mem[x].car) = NameIn(s.mem, s.mem[x].car)
        /\ NameIn(u.mem, s.mem[x].cdr) = NameIn(s.mem, s.mem[x].cdr)
    BY <1>5, <2>1
  <2> QED
    BY <1>8, <2>1, <2>2 DEF Sound
<1>9. Sound(u.mem, c)
  <2>1. Sound(s.mem, c) /\ u.mem[c].car \in Pointer /\ u.mem[c].cdr \in Pointer
    BY <1>1, <1>2, <1>4 DEF Content
  <2>2. NameIn(u.mem, u.mem[c].car) = NameIn(s.mem, s.mem[c].car)
        /\ NameIn(u.mem, u.mem[c].cdr) = NameIn(s.mem, s.mem[c].cdr)
    BY <1>5, <2>1
  <2> QED
    BY <2>1, <2>2 DEF Sound
<1>10. ASSUME NEW x \in new
       PROVE  /\ Sound(u.mem, x)
              /\ Points(u.mem, x, IF x[2] < aa THEN new ELSE old, IF x[2] < dd THEN new ELSE old)
  <2>1. CASE x = c
    BY <1>9, <2>1 DEF new, old
  <2>2. CASE x # c
    <3>1. u.mem[x] = s.mem[x] /\ (x[2] < a <=> x[2] < aa) /\ (x[2] < d <=> x[2] < dd)
      BY <1>3, <2>2 DEF new
    <3>2. Points(s.mem, x, IF x[2] < aa THEN new ELSE old, IF x[2] < dd THEN new ELSE old) /\ Sound(s.mem, x)
      BY <1>1, <3>1
    <3>3. Sound(u.mem, x)
      BY <1>3, <1>8, <2>2, <3>2
    <3> QED
      BY <3>1, <3>2, <3>3 DEF Points
  <2> QED
    BY <2>1, <2>2
<1>11. \A x \in old : u.mem[x].mark = 0 => Sound(u.mem, x) /\ Points(u.mem, x, old, old)
  BY <1>1, <1>3, <1>4, <1>8 DEF Points
<1> QED
  BY <1>6, <1>7, <1>10, <1>11 DEF Halfway, new, old

\* What is known of a step of the collector is the invariant of the next state.
LEMMA HalfwayNext ==
  ASSUME NEW u, NEW e, NEW a, Halfway(u, e, a, a), UNCHANGED <<built, open>>,
         Memory' = u, end' = e, Scanned' = a, Collecting'
  PROVE  CellsInv'
  BY DEF CellsInv, Halfway, Sound

-----------------------------------------------------------------------------
(* The steps of the collector.                                             *)

LEMMA MemoryState == ASSUME Program, TypeOK PROVE Memory \in States
  BY DEF Memory, States, TypeOK, Pointer

LEMMA CollectStep == ASSUME Program, CopyInv, Collect PROVE CopyInv'
<1>1. TypeOK'
  BY DEF CopyInv, TypeOK, Collect, Program
<1>2. /\ pc \in {"eval", "repl"} /\ org \in 0 .. 1 /\ heap \in 0 .. HeapSize /\ 1 - org \in 0 .. 1 /\ 1 - (1 - org) = org
      /\ NIL \notin Cell
  BY DEF CopyInv, TypeOK, Collect, Program
<1>3. Whole(mem, org, heap)
  BY <1>2 DEF CopyInv, CellsInv, Collecting
<1>4. org' = 1 - org /\ heap' = 0 /\ end' = heap /\ mem' = mem /\ built' = built /\ open' = open /\ Scanned' = 0
      /\ Collecting'
  BY DEF Collect, Scanned, Collecting
<1> PICK u : u = Memory'
  OBVIOUS
<1>5. u \in States /\ u.mem = mem /\ u.org = 1 - org /\ u.heap = 0
  <2>1. u = [mem |-> mem, org |-> 1 - org, heap |-> 0, to |-> NIL]
    BY <1>4 DEF Memory
  <2>2. mem \in [Cell -> Content] /\ NIL \in Pointer /\ 0 \in 0 .. HeapSize
    BY DEF CopyInv, TypeOK, Pointer, Program
  <2> QED
    BY ONLY <1>2, <2>1, <2>2 DEF States
<1>6. Used(1 - org, 0) = {} /\ Used(1 - (1 - org), heap) = Used(org, heap)
  BY <1>2, NoneUsed
<1>7. Separate(mem, 1 - org, 0, heap)
  BY <1>3, <1>6 DEF Separate, Whole, Named
<1>8. MarksCounted(mem, 1 - org, 0, heap)
  <2>1. Marked(mem, 1 - org, heap) = {}
    BY <1>3, <1>6 DEF Marked, Whole
  <2> QED
    BY <2>1, FS_EmptySet DEF MarksCounted
<1>9. Halfway(u, heap, 0, 0)
  BY <1>3, <1>5, <1>6, <1>7, <1>8 DEF Halfway, Whole
<1>10. CellsInv'
  <2> PICK e : e = heap
    OBVIOUS
  <2> QED
    BY <1>4, <1>9, HalfwayNext
<1>11. RootsInv'
  <2>1. \A i \in 1 .. NRegs : regs[i] \in New \union {NIL} /\ NameOf(regs[i]) = rooted[i]
    BY <1>2 DEF CopyInv, RootsInv, Moved
  <2>2. Old' = New
    BY <1>4, <1>6 DEF Old, New
  <2> QED
    BY <1>2, <2>1, <2>2 DEF RootsInv, Collect, Moved, NameOf
<1> QED
  BY <1>1, <1>10, <1>11 DEF CopyInv

LEMMA ScanNewspaceStep == ASSUME Program, CopyInv, ScanNewspace PROVE CopyInv'
<1>1. TypeOK'
  BY DEF CopyInv, TypeOK, ScanNewspace
<1>2. CellsInv'
  <2>1. Halfway(Memory, end, 0, 0)
    BY DEF CopyInv, CellsInv, ScanNewspace, Collecting, Scanned
  <2>2. Memory' = Memory /\ Scanned' = 0 /\ Collecting' /\ UNCHANGED <<end, built, open>>
    BY DEF ScanNewspace, Memory, Scanned, Collecting
  <2> PICK u, e : u = Memory /\ e = end
    OBVIOUS
  <2> QED
    BY <2>1, <2>2, HalfwayNext
<1>3. RootsInv'
  <2>1. heap \in 0 .. HeapSize /\ HeapSize \in Nat
    BY DEF CopyInv, TypeOK, Program
  <2>2. \A i \in 1 .. NRegs : regs[i] \in New \union {NIL} /\ NameOf(regs[i]) = rooted[i]
    BY DEF CopyInv, RootsInv, Moved, ScanNewspace, Program
  <2> QED
    BY <2>1, <2>2 DEF CopyInv, RootsInv, Moved, ScanNewspace, New, NameOf, Collecting
<1> QED
  BY <1>1, <1>2, <1>3 DEF CopyInv

\* What a copied object leaves behind for the locations that were not looked at.
LEMMA RegsKept ==
  ASSUME Program, CopyInv, NEW s, s = Memory, NEW t, NEW x, Relocated(s, t, x, end), mem' = t.mem, heap' = t.heap,
         org' = org, end' = end, NEW w \in New \union Old \union {NIL}
  PROVE  /\ NameOf(w)' = NameOf(w)
         /\ w \in New \union {NIL} => w \in (New \union {NIL})'
         /\ w \in Old \union {NIL} => w \in (Old \union {NIL})'
<1>1. s \in States /\ s.mem = mem /\ s.org = org /\ s.heap = heap /\ end \in 0 .. HeapSize
  BY MemoryState DEF CopyInv, Memory, TypeOK
<1>2. w \in Used(s.org, s.heap) \union Used(1 - s.org, end) \union {NIL}
  BY <1>1 DEF New, Old
<1>3. NameIn(t.mem, w) = NameIn(s.mem, w)
  BY <1>1, <1>2, NamesKept
<1>4. Used(s.org, s.heap) \subseteq Used(t.org, t.heap) /\ t.org = s.org
  BY DEF Relocated
<1> QED
  BY <1>1, <1>3, <1>4 DEF NameOf, NameIn, New, Old

LEMMA ScanRegisterStep == ASSUME Program, CopyInv, ScanRegister PROVE CopyInv'
<1> PICK s, t, i : s = Memory /\ i = scan + 1 /\ t = Relocate(s, regs[i])
  OBVIOUS
<1>1. /\ pc = "registers" /\ scan < NRegs /\ scan' = i /\ mem' = t.mem /\ heap' = t.heap
      /\ regs' = [regs EXCEPT ![i] = t.to] /\ UNCHANGED <<org, end, locals, open, pc, built, rooted>>
  BY DEF ScanRegister, Memory
<1>2. i \in 1 .. NRegs /\ scan \in Nat /\ i \in Nat
  BY <1>1 DEF CopyInv, TypeOK, Program
<1>3. /\ \A j \in 1 .. NRegs : NameOf(regs[j]) = rooted[j]
      /\ \A j \in 1 .. NRegs : regs[j] \in (IF j <= scan THEN New ELSE Old) \union {NIL}
      /\ locals = {}
  BY <1>1 DEF CopyInv, RootsInv, Moved, Collecting
<1>4. s \in States /\ s.mem = mem /\ s.org = org /\ s.heap = heap /\ end \in 0 .. HeapSize
      /\ org \in 0 .. 1 /\ heap \in 0 .. HeapSize
  BY MemoryState DEF CopyInv, TypeOK, Memory
<1>5. regs[i] \in Used(1 - s.org, end) \union {NIL}
  BY <1>2, <1>3, <1>4 DEF Old
<1>6. Relocated(s, t, regs[i], end) /\ Halfway(t, end, 0, 0)
  <2>1. Halfway(s, end, 0, 0)
    BY <1>1 DEF CopyInv, CellsInv, Collecting, Scanned
  <2>2. TypeOK /\ 0 <= s.heap /\ 0 \in Nat
    BY <1>4 DEF CopyInv
  <2> QED
    BY <1>4, <1>5, <2>1, <2>2, MovedHalfway
<1>7. /\ t \in States /\ t.org = org /\ t.to \in Used(t.org, t.heap) \union {NIL}
      /\ NameIn(t.mem, t.to) = NameOf(regs[i])
  BY <1>4, <1>6 DEF Relocated, NameIn, NameOf
<1>8. TypeOK'
  <2>1. t.to \in Pointer /\ t.mem \in [Cell -> Content] /\ t.heap \in 0 .. HeapSize
    BY <1>7 DEF States
  <2> QED
    BY <1>1, <1>2, <2>1 DEF CopyInv, TypeOK
<1>9. CellsInv'
  <2> PICK u, e : u = Memory' /\ e = end
    OBVIOUS
  <2>1. u = [mem |-> t.mem, org |-> t.org, heap |-> t.heap, to |-> NIL]
    BY <1>1, <1>7 DEF Memory
  <2>2. u \in States /\ u.mem = t.mem /\ u.org = t.org /\ u.heap = t.heap
    BY <1>7, <2>1 DEF States, Pointer
  <2>3. Halfway(u, end, 0, 0)
    BY <1>6, <2>2 DEF Halfway
  <2>4. Scanned' = 0 /\ Collecting' /\ UNCHANGED <<end, built, open>>
    BY <1>1 DEF Scanned, Collecting
  <2> QED
    BY <2>3, <2>4, HalfwayNext
<1>10. RootsInv'
  <2>1. ASSUME NEW j \in 1 .. NRegs
        PROVE  regs'[j] \in (IF j <= i THEN New ELSE Old)' \union {NIL} /\ NameOf(regs[j])' = rooted[j]
    <3>1. CASE j = i
      <4>1. regs'[j] = t.to /\ rooted[j] = NameOf(regs[i])
        BY <1>1, <1>2, <1>3, <3>1 DEF CopyInv, TypeOK
      <4>2. t.to \in New' \union {NIL}
        BY <1>1, <1>7 DEF New
      <4>3. NameOf(regs[j])' = NameIn(t.mem, t.to)
        BY <1>1, <4>1 DEF NameOf, NameIn
      <4> QED
        BY <1>2, <1>7, <3>1, <4>1, <4>2, <4>3
    <3>2. CASE j # i
      <4>1. regs'[j] = regs[j]
        BY <1>1, <1>2, <3>2 DEF CopyInv, TypeOK
      <4> PICK w : w = regs[j]
        OBVIOUS
      <4>2. w \in New \union Old \union {NIL}
        BY <1>3
      <4>3. /\ NameOf(w)' = NameOf(w)
            /\ w \in New \union {NIL} => w \in (New \union {NIL})'
            /\ w \in Old \union {NIL} => w \in (Old \union {NIL})'
        BY <1>1, <1>6, <4>2, RegsKept
      <4>4. w \in (IF j <= i THEN New ELSE Old)' \union {NIL}
        BY <1>2, <1>3, <3>2, <4>3
      <4> QED
        BY <1>3, <4>1, <4>3, <4>4 DEF NameOf
    <3> QED
      BY <3>1, <3>2
  <2> QED
    BY <1>1, <1>2, <1>3, <2>1 DEF RootsInv, Moved, Collecting
<1> QED
  BY <1>8, <1>9, <1>10 DEF CopyInv

\* A field of a cell written in a record of the collector.
SetCar(s, c, w) == [s EXCEPT !.mem[c].car = w]
SetCdr(s, c, w) == [mem |-> [s.mem EXCEPT ![c].cdr = w], org |-> s.org, heap |-> s.heap, to |-> NIL]

FieldsWritten(s, u, c) ==
  /\ u \in States /\ u.org = s.org /\ u.heap = s.heap /\ \A x \in Cell \ {c} : u.mem[x] = s.mem[x]
  /\ u.mem[c].type = s.mem[c].type /\ u.mem[c].mark = s.mem[c].mark /\ u.mem[c].name = s.mem[c].name

LEMMA WrittenFact ==
  ASSUME Program, NEW s \in States, NEW c \in Cell, NEW w \in Pointer
  PROVE  /\ LET u == SetCar(s, c, w) IN FieldsWritten(s, u, c) /\ u.mem[c].car = w /\ u.mem[c].cdr = s.mem[c].cdr
         /\ LET u == SetCdr(s, c, w) IN FieldsWritten(s, u, c) /\ u.mem[c].cdr = w /\ u.mem[c].car = s.mem[c].car
<1>1. s.mem \in [Cell -> Content] /\ s.mem[c] \in Content
  BY DEF States
<1> PICK k : k = s.mem[c]
  OBVIOUS
<1>2. LET n == [k EXCEPT !.car = w] IN
      /\ n \in Content /\ n.type = k.type /\ n.mark = k.mark /\ n.name = k.name /\ n.car = w /\ n.cdr = k.cdr
  BY <1>1 DEF Content
<1>3. LET n == [k EXCEPT !.cdr = w] IN
      /\ n \in Content /\ n.type = k.type /\ n.mark = k.mark /\ n.name = k.name /\ n.cdr = w /\ n.car = k.car
  BY <1>1 DEF Content
<1>4. LET m == [s.mem EXCEPT ![c].car = w] IN
      /\ m \in [Cell -> Content] /\ m[c] = [k EXCEPT !.car = w] /\ \A x \in Cell \ {c} : m[x] = s.mem[x]
  BY <1>1, <1>2
<1>5. LET m == [s.mem EXCEPT ![c].cdr = w] IN
      /\ m \in [Cell -> Content] /\ m[c] = [k EXCEPT !.cdr = w] /\ \A x \in Cell \ {c} : m[x] = s.mem[x]
  BY <1>1, <1>3
<1> PICK m : m = [s.mem EXCEPT ![c].car = w]
  OBVIOUS
<1>6. LET u == SetCar(s, c, w) IN u \in States /\ u.org = s.org /\ u.heap = s.heap /\ u.mem = m
  <2>1. m \in [Cell -> Content]
    BY <1>4
  <2>2. SetCar(s, c, w) = [mem |-> m, org |-> s.org, heap |-> s.heap, to |-> s.to]
    BY DEF States, SetCar
  <2> QED
    BY <2>1, <2>2 DEF States
<1> PICK n : n = [s.mem EXCEPT ![c].cdr = w]
  OBVIOUS
<1>7. LET u == SetCdr(s, c, w) IN u \in States /\ u.org = s.org /\ u.heap = s.heap /\ u.mem = n
  <2>1. n \in [Cell -> Content]
    BY <1>5
  <2>2. SetCdr(s, c, w) = [mem |-> n, org |-> s.org, heap |-> s.heap, to |-> NIL]
    BY DEF SetCdr
  <2> QED
    BY <2>1, <2>2 DEF States, Pointer
<1> QED
  BY <1>2, <1>3, <1>4, <1>5, <1>6, <1>7 DEF FieldsWritten

\* The objects that there were have their names, and new cells are above the old ones.
Kept(s, u, e) ==
  /\ u.org = s.org /\ s.heap <= u.heap /\ Used(s.org, s.heap) \subseteq Used(u.org, u.heap)
  /\ \A w \in Used(s.org, s.heap) \union Used(1 - s.org, e) \union {NIL} : NameIn(u.mem, w) = NameIn(s.mem, w)

LEMMA ScannedCell ==
  ASSUME Program, NEW o \in 0 .. 1, NEW e \in 0 .. HeapSize, NEW h \in 0 .. HeapSize, NEW c \in Used(o, h)
  PROVE  /\ c \in Cell /\ Used(1 - o, e) \subseteq Cell /\ c \notin Used(1 - o, e) /\ NIL \notin Cell
         /\ \A n \in 0 .. HeapSize : \A x \in Used(o, n) : x \in Cell /\ x[2] \in Int /\ (x # c => x[2] # c[2])
<1>1. o \in 0 .. 1 /\ 1 - o \in 0 .. 1
  OBVIOUS
<1>2. c \in Cell /\ Used(1 - o, e) \subseteq Cell /\ c \notin Used(1 - o, e) /\ c = <<o, c[2]>> /\ NIL \notin Cell
  BY <1>1, UsedFact DEF Program
<1>3. ASSUME NEW n \in 0 .. HeapSize, NEW x \in Used(o, n) PROVE x \in Cell /\ x[2] \in Int /\ x = <<o, x[2]>>
  BY <1>1, UsedFact
<1> QED
  BY <1>2, <1>3

\* scan_newspace of a cell with two fields: the car is relocated and then written,
LEMMA CarScanned ==
  ASSUME Program, NEW s \in States, NEW e \in 0 .. HeapSize, NEW k \in Nat, NEW g \in Nat, g = k + 1,
         NEW c \in Used(s.org, s.heap), c[2] = k,
         s.mem[c].car \in Used(1 - s.org, e) \union {NIL}, s.mem[c].cdr \in Used(1 - s.org, e) \union {NIL},
         NEW p, Relocated(s, p, s.mem[c].car, e), Halfway(p, e, k, k),
         NEW q, FieldsWritten(p, q, c), q.mem[c].car = p.to, q.mem[c].cdr = p.mem[c].cdr
  PROVE  Halfway(q, e, g, k) /\ Kept(s, q, e) /\ q.mem[c].cdr = s.mem[c].cdr
<1> PICK o : o = s.org
  OBVIOUS
<1> DEFINE old == Used(1 - o, e)
<1>1. o \in 0 .. 1 /\ s.heap \in 0 .. HeapSize /\ p \in States /\ p.org = o /\ p.heap \in 0 .. HeapSize
  BY DEF States, Relocated
<1>2. /\ c \in Cell /\ old \subseteq Cell /\ c \notin old /\ NIL \notin Cell
      /\ \A n \in 0 .. HeapSize : \A x \in Used(o, n) : x \in Cell /\ x[2] \in Int /\ (x # c => x[2] # c[2])
  BY <1>1, ScannedCell
<1> HIDE DEF old
<1>3. s.mem[c].car \in old \union {NIL} /\ s.mem[c].cdr \in old \union {NIL}
  BY DEF old
<1>4. /\ s.heap <= p.heap /\ c \in Used(o, p.heap) /\ p.mem[c] = s.mem[c] /\ p.to \in Used(o, p.heap) \union {NIL}
      /\ NameIn(p.mem, p.to) = NameIn(s.mem, s.mem[c].car)
      /\ Used(o, s.heap) \subseteq Used(o, p.heap)
  BY DEF Relocated
<1>5. \A w \in Used(o, s.heap) \union old \union {NIL} : NameIn(p.mem, w) = NameIn(s.mem, w)
  BY NamesKept DEF old
<1>6. /\ q \in States /\ q.org = o /\ q.heap = p.heap /\ \A x \in Cell \ {c} : q.mem[x] = p.mem[x]
      /\ q.mem[c].type = p.mem[c].type /\ q.mem[c].mark = p.mem[c].mark /\ q.mem[c].name = p.mem[c].name
  BY <1>1 DEF FieldsWritten
<1>7. Halfway(q, e, g, k)
  <2>1. NameIn(p.mem, q.mem[c].car) = NameIn(p.mem, p.mem[c].car)
    BY <1>3, <1>4, <1>5
  <2>2. NameIn(p.mem, q.mem[c].cdr) = NameIn(p.mem, p.mem[c].cdr)
    OBVIOUS
  <2>3. ~ (c[2] < k) /\ c[2] < g
    OBVIOUS
  <2>4. Points(q.mem, c, IF c[2] < g THEN Used(p.org, p.heap) ELSE Used(1 - p.org, e),
                         IF c[2] < k THEN Used(p.org, p.heap) ELSE Used(1 - p.org, e))
    BY <1>1, <1>3, <1>4, <2>3 DEF Points, old
  <2>5. \A x \in Used(p.org, p.heap) \ {c} : (x[2] < k <=> x[2] < g) /\ (x[2] < k <=> x[2] < k)
    BY <1>1, <1>2
  <2>6. c \in Used(p.org, p.heap) /\ q.org = p.org /\ q.heap = p.heap /\ q \in States
    BY <1>1, <1>4, <1>6
  <2> QED
    BY <1>1, <1>6, <2>1, <2>2, <2>4, <2>5, <2>6, FieldsSet
<1>8. \A w \in Used(o, s.heap) \union old \union {NIL} : NameIn(q.mem, w) = NameIn(s.mem, w)
  <2> SUFFICES ASSUME NEW w \in Used(o, s.heap) \union old \union {NIL}
               PROVE  NameIn(q.mem, w) = NameIn(s.mem, w)
    OBVIOUS
  <2>1. w \in Cell \union {NIL}
    BY <1>1, <1>2
  <2>2. NameIn(q.mem, w) = NameIn(p.mem, w)
    BY <1>6, <2>1 DEF NameIn
  <2> QED
    BY <1>5, <2>2
<1> QED
  BY <1>1, <1>4, <1>6, <1>7, <1>8 DEF Kept, old

\* and then the cdr.
LEMMA CdrScanned ==
  ASSUME Program, NEW q \in States, NEW e \in 0 .. HeapSize, NEW k \in Nat, NEW g \in Nat, g = k + 1,
         NEW c \in Used(q.org, q.heap), c[2] = k,
         q.mem[c].cdr \in Used(1 - q.org, e) \union {NIL}, q.mem[c].type = "cons",
         NEW r, Relocated(q, r, q.mem[c].cdr, e), Halfway(r, e, g, k),
         NEW u, FieldsWritten(r, u, c), u.mem[c].cdr = r.to, u.mem[c].car = r.mem[c].car
  PROVE  Halfway(u, e, g, g) /\ Kept(q, u, e)
<1> PICK o : o = q.org
  OBVIOUS
<1> DEFINE old == Used(1 - o, e)
<1>1. o \in 0 .. 1 /\ q.heap \in 0 .. HeapSize /\ r \in States /\ r.org = o /\ r.heap \in 0 .. HeapSize
  BY DEF States, Relocated
<1>2. /\ c \in Cell /\ old \subseteq Cell /\ c \notin old /\ NIL \notin Cell
      /\ \A n \in 0 .. HeapSize : \A x \in Used(o, n) : x \in Cell /\ x[2] \in Int /\ (x # c => x[2] # c[2])
  BY <1>1, ScannedCell
<1> HIDE DEF old
<1>3. q.mem[c].cdr \in old \union {NIL}
  BY DEF old
<1>4. /\ q.heap <= r.heap /\ c \in Used(o, r.heap) /\ r.mem[c] = q.mem[c] /\ r.to \in Used(o, r.heap) \union {NIL}
      /\ NameIn(r.mem, r.to) = NameIn(q.mem, q.mem[c].cdr)
      /\ Used(o, q.heap) \subseteq Used(o, r.heap)
  BY DEF Relocated
<1>5. \A w \in Used(o, q.heap) \union old \union {NIL} : NameIn(r.mem, w) = NameIn(q.mem, w)
  BY NamesKept DEF old
<1>6. /\ u \in States /\ u.org = o /\ u.heap = r.heap /\ \A x \in Cell \ {c} : u.mem[x] = r.mem[x]
      /\ u.mem[c].type = r.mem[c].type /\ u.mem[c].mark = r.mem[c].mark /\ u.mem[c].name = r.mem[c].name
  BY <1>1 DEF FieldsWritten
<1>7. Halfway(u, e, g, g)
  <2>1. NameIn(r.mem, u.mem[c].cdr) = NameIn(r.mem, r.mem[c].cdr)
    BY <1>3, <1>4, <1>5
  <2>2. NameIn(r.mem, u.mem[c].car) = NameIn(r.mem, r.mem[c].car)
    OBVIOUS
  <2>3. c[2] < g
    OBVIOUS
  <2>4. Points(r.mem, c, IF c[2] < g THEN Used(o, r.heap) ELSE old, IF c[2] < k THEN Used(o, r.heap) ELSE old)
    BY <1>1, <1>4 DEF Halfway, old
  <2>5. r.mem[c].car \in Used(o, r.heap) \union {NIL}
    BY <1>4, <2>3, <2>4 DEF Points
  <2>6. Points(u.mem, c, IF c[2] < g THEN Used(r.org, r.heap) ELSE Used(1 - r.org, e),
                         IF c[2] < g THEN Used(r.org, r.heap) ELSE Used(1 - r.org, e))
    BY <1>1, <1>4, <2>3, <2>5 DEF Points
  <2>7. \A x \in Used(r.org, r.heap) \ {c} : (x[2] < g <=> x[2] < g) /\ (x[2] < k <=> x[2] < g)
    BY <1>1, <1>2
  <2>8. c \in Used(r.org, r.heap) /\ u.org = r.org /\ u.heap = r.heap /\ u \in States
    BY <1>1, <1>4, <1>6
  <2> QED
    BY <1>1, <1>6, <2>1, <2>2, <2>6, <2>7, <2>8, FieldsSet
<1>8. \A w \in Used(o, q.heap) \union old \union {NIL} : NameIn(u.mem, w) = NameIn(q.mem, w)
  <2> SUFFICES ASSUME NEW w \in Used(o, q.heap) \union old \union {NIL}
               PROVE  NameIn(u.mem, w) = NameIn(q.mem, w)
    OBVIOUS
  <2>1. w \in Cell \union {NIL}
    BY <1>1, <1>2
  <2>2. NameIn(u.mem, w) = NameIn(r.mem, w)
    BY <1>6, <2>1 DEF NameIn
  <2> QED
    BY <1>5, <2>2
<1> QED
  BY <1>1, <1>4, <1>6, <1>7, <1>8 DEF Kept, old

LEMMA KeptTwice == ASSUME Program, NEW s \in States, NEW q \in States, NEW u \in States, NEW e, Kept(s, q, e), Kept(q, u, e)
                   PROVE  Kept(s, u, e)
  BY DEF Kept, States, Program

LEMMA ScanStep == ASSUME Program, CopyInv, Scan PROVE CopyInv'
<1>1. PICK s, c, k, g, e : s = Memory /\ c = <<org, scan>> /\ k = scan /\ g = scan + 1 /\ e = end
  OBVIOUS
<1>2. /\ pc = "scan" /\ scan < heap /\ scan' = g /\ UNCHANGED <<org, end, regs, locals, open, pc, built, rooted>>
      /\ org \in 0 .. 1 /\ heap \in 0 .. HeapSize /\ e \in 0 .. HeapSize /\ HeapSize \in Nat
      /\ k \in Nat /\ k \in 0 .. HeapSize - 1 /\ k < heap /\ g \in Nat /\ g = k + 1
  <2>1. /\ pc = "scan" /\ scan < heap /\ scan' = scan + 1
        /\ UNCHANGED <<org, end, regs, locals, open, pc, built, rooted>>
    BY DEF Scan
  <2>2. /\ org \in 0 .. 1 /\ heap \in 0 .. HeapSize /\ end \in 0 .. HeapSize /\ scan \in Nat
        /\ HeapSize \in Nat
    BY DEF CopyInv, TypeOK, Program
  <2> QED
    BY ONLY <1>1, <2>1, <2>2
<1>3. s \in States /\ s.mem = mem /\ s.org = org /\ s.heap = heap
  BY <1>1, MemoryState DEF CopyInv, Memory
<1>4. Halfway(s, e, k, k)
  BY <1>1, <1>2 DEF CopyInv, CellsInv, Collecting, Scanned
<1>5. c \in Used(s.org, s.heap) /\ c[2] = k /\ c \in Cell
  BY <1>1, <1>2, <1>3, UsedFact
<1>6. \E u \in States : /\ Halfway(u, e, g, g) /\ Kept(s, u, e) /\ mem' = u.mem /\ heap' = u.heap /\ u.to = NIL
  <2>1. CASE mem[c].type = "cons"
    <3>1. s.mem[c].car \in Used(1 - s.org, e) \union {NIL} /\ s.mem[c].cdr \in Used(1 - s.org, e) \union {NIL}
      <4>1. Points(s.mem, c, IF c[2] < k THEN Used(s.org, s.heap) ELSE Used(1 - s.org, e),
                             IF c[2] < k THEN Used(s.org, s.heap) ELSE Used(1 - s.org, e))
        BY <1>4, <1>5 DEF Halfway
      <4>2. ~ (c[2] < k)
        BY <1>2, <1>5
      <4> QED
        BY <1>3, <2>1, <4>1, <4>2 DEF Points
    <3>2. PICK x : x = s.mem[c].car
      OBVIOUS
    <3>3. PICK p : p = Relocate(s, x)
      OBVIOUS
    <3>4. Relocated(s, p, x, e) /\ Halfway(p, e, k, k)
      <4>1. TypeOK /\ k <= s.heap /\ x \in Used(1 - s.org, e) \union {NIL}
        BY <1>2, <1>3, <3>1, <3>2 DEF CopyInv
      <4> QED
        BY <1>2, <1>4, <3>3, <4>1, MovedHalfway
    <3>5. p \in States /\ p.to \in Pointer
      BY <3>4 DEF Relocated, States
    <3>6. PICK q : q = SetCar(p, c, p.to)
      OBVIOUS
    <3>7. FieldsWritten(p, q, c) /\ q.mem[c].car = p.to /\ q.mem[c].cdr = p.mem[c].cdr
      BY <1>5, <3>5, <3>6, WrittenFact
    <3>8. Halfway(q, e, g, k) /\ Kept(s, q, e) /\ q.mem[c].cdr = s.mem[c].cdr /\ q \in States
      <4>1. Relocated(s, p, s.mem[c].car, e) /\ Halfway(p, e, k, k)
        BY <3>2, <3>4
      <4>2. Halfway(q, e, g, k) /\ Kept(s, q, e) /\ q.mem[c].cdr = s.mem[c].cdr
        BY <1>2, <1>3, <1>5, <3>1, <3>7, <4>1, CarScanned
      <4> QED
        BY <3>7, <4>2 DEF FieldsWritten
    <3>9. c \in Used(q.org, q.heap) /\ q.mem[c].type = "cons" /\ g <= q.heap
      <4>1. c \in Used(q.org, q.heap) /\ s.heap <= q.heap
        BY <1>5, <3>8 DEF Kept
      <4>2. p.mem[c] = s.mem[c] /\ q.mem[c].type = p.mem[c].type
        BY <1>5, <3>4, <3>7 DEF Relocated, FieldsWritten
      <4>3. q.heap \in 0 .. HeapSize
        BY <3>8 DEF States
      <4> QED
        BY <1>2, <1>3, <2>1, <4>1, <4>2, <4>3
    <3>10. PICK y : y = q.mem[c].cdr
      OBVIOUS
    <3>11. PICK r : r = Relocate(q, y)
      OBVIOUS
    <3>12. y \in Used(1 - q.org, e) \union {NIL}
      BY <3>1, <3>8, <3>10 DEF Kept
    <3>13. Relocated(q, r, y, e) /\ Halfway(r, e, g, k)
      <4>1. TypeOK /\ k <= q.heap
        BY <1>2, <3>8, <3>9 DEF CopyInv, States
      <4> QED
        BY <1>2, <3>8, <3>9, <3>11, <3>12, <4>1, MovedHalfway
    <3>14. r \in States /\ r.to \in Pointer
      BY <3>13 DEF Relocated, States
    <3>15. PICK u : u = SetCdr(r, c, r.to)
      OBVIOUS
    <3>16. FieldsWritten(r, u, c) /\ u.mem[c].cdr = r.to /\ u.mem[c].car = r.mem[c].car
      BY <1>5, <3>14, <3>15, WrittenFact
    <3>17. Halfway(u, e, g, g) /\ Kept(q, u, e)
      <4>1. Relocated(q, r, q.mem[c].cdr, e) /\ q.mem[c].cdr \in Used(1 - q.org, e) \union {NIL}
        BY <3>10, <3>12, <3>13
      <4> QED
        BY <1>2, <1>5, <3>8, <3>9, <3>13, <3>16, <4>1, CdrScanned
    <3>18. u \in States /\ u.to = NIL
      BY <3>15, <3>16 DEF FieldsWritten, SetCdr
    <3>19. Kept(s, u, e)
      BY <1>3, <3>8, <3>17, <3>18, KeptTwice
    <3>20. mem' = u.mem /\ heap' = u.heap
      <4>1. y = p.mem[c].cdr
        BY <3>7, <3>10, SMTT(60)
      <4>2. LET a == Relocate([mem |-> mem, org |-> org, heap |-> heap, to |-> NIL], mem[<<org, scan>>].car)
                b == Relocate([a EXCEPT !.mem[<<org, scan>>].car = a.to], a.mem[<<org, scan>>].cdr) IN
            mem' = [b.mem EXCEPT ![<<org, scan>>].cdr = b.to] /\ heap' = b.heap
        BY <1>1, <2>1 DEF Scan
      <4>3. p = Relocate([mem |-> mem, org |-> org, heap |-> heap, to |-> NIL], mem[<<org, scan>>].car)
        BY <1>1, <1>3, <3>2, <3>3 DEF Memory
      <4>4. r = Relocate([p EXCEPT !.mem[<<org, scan>>].car = p.to], p.mem[<<org, scan>>].cdr)
        BY <1>1, <3>6, <3>11, <4>1, SMTT(60) DEF SetCar
      <4>5. mem' = [r.mem EXCEPT ![c].cdr = r.to] /\ heap' = r.heap
        BY ONLY <1>1, <4>2, <4>3, <4>4
      <4> QED
        BY <3>15, <4>5 DEF SetCdr
    <3> QED
      BY <3>17, <3>18, <3>19, <3>20
  <2>2. CASE mem[c].type # "cons"
    <3>1. mem' = mem /\ heap' = heap
      BY <1>1, <2>2 DEF Scan
    <3>2. Kept(s, s, e)
      BY <1>2, <1>3 DEF Kept
    <3>3. Halfway(s, e, g, g)
      <4>1. Points(s.mem, c, IF c[2] < g THEN Used(s.org, s.heap) ELSE Used(1 - s.org, e),
                             IF c[2] < g THEN Used(s.org, s.heap) ELSE Used(1 - s.org, e))
        BY <1>3, <2>2 DEF Points
      <4>2. \A x \in Used(s.org, s.heap) \ {c} : x[2] < k <=> x[2] < g
        <5>1. \A x \in Used(s.org, s.heap) : x[2] \in Int /\ (x # c => x[2] # c[2])
          BY <1>2, <1>3, <1>5, ScannedCell
        <5> QED
          BY <1>2, <1>5, <5>1
      <4> QED
        BY <1>2, <1>3, <1>4, <1>5, <4>1, <4>2, FieldsSet
    <3>4. s.to = NIL
      BY <1>1 DEF Memory
    <3> QED
      BY <1>3, <3>1, <3>2, <3>3, <3>4
  <2> QED
    BY <2>1, <2>2
<1>7. PICK u \in States : Halfway(u, e, g, g) /\ Kept(s, u, e) /\ mem' = u.mem /\ heap' = u.heap /\ u.to = NIL
  BY <1>6
<1>8. TypeOK'
  <2>1. mem' \in [Cell -> Content] /\ heap' \in 0 .. HeapSize
    BY <1>7 DEF States
  <2> QED
    BY <1>2, <2>1 DEF CopyInv, TypeOK
<1>9. CellsInv'
  <2>1. u.org = org /\ Memory' = [mem |-> u.mem, org |-> u.org, heap |-> u.heap, to |-> NIL]
    BY <1>2, <1>3, <1>7 DEF Kept, Memory
  <2>2. Memory' = u
    BY <1>7, <2>1 DEF States
  <2>3. Scanned' = g /\ Collecting' /\ UNCHANGED <<built, open>> /\ end' = e
    BY <1>1, <1>2 DEF Scanned, Collecting
  <2> QED
    BY <1>7, <2>2, <2>3, HalfwayNext
<1>10. RootsInv'
  <2>1. /\ New \subseteq New' /\ scan' <= heap'
        /\ \A w \in New \union {NIL} : NameOf(w)' = NameOf(w)
    <3>1. Used(org, heap) \subseteq Used(org, heap') /\ heap <= heap' /\ heap' \in 0 .. HeapSize
      BY <1>2, <1>3, <1>7 DEF Kept, States
    <3>2. \A w \in Used(org, heap) \union {NIL} : NameIn(u.mem, w) = NameIn(mem, w)
      BY <1>3, <1>7 DEF Kept
    <3> QED
      BY <1>2, <1>7, <3>1, <3>2 DEF New, NameOf, NameIn
  <2>2. locals = {} /\ \A i \in 1 .. NRegs : regs[i] \in New \union {NIL} /\ NameOf(regs[i]) = rooted[i]
    BY <1>2 DEF CopyInv, RootsInv, Moved, Collecting
  <2>3. \A i \in 1 .. NRegs : regs'[i] \in New' \union {NIL} /\ NameOf(regs[i])' = rooted[i]
    BY <1>2, <2>1, <2>2 DEF NameOf
  <2> QED
    BY <1>2, <2>1, <2>2, <2>3 DEF RootsInv, Moved
<1> QED
  BY <1>8, <1>9, <1>10 DEF CopyInv

LEMMA FreeOldspaceStep == ASSUME Program, CopyInv, FreeOldspace PROVE CopyInv'
<1>1. /\ pc = "scan" /\ scan = heap /\ pc' = "eval" /\ end' = 0 /\ scan' = 0
      /\ open' = open \ {mem[c].name : c \in {d \in Old : mem[d].mark = 0}}
      /\ mem' = [c \in Cell |-> IF c[1] = org THEN mem[c] ELSE Unused(mem[c].mark)]
      /\ built' = [n \in Name |-> IF \E c \in New : mem[c].name = n THEN built[n] ELSE NoObject]
      /\ UNCHANGED <<org, heap, regs, locals, rooted>>
  BY DEF FreeOldspace, New, Old
<1>2. /\ org \in 0 .. 1 /\ heap \in 0 .. HeapSize /\ end \in 0 .. HeapSize /\ HeapSize \in Nat
      /\ mem \in [Cell -> Content] /\ built \in [Name -> Built] /\ NIL \notin Cell /\ New \subseteq Cell
      /\ \A c \in New : c[1] = org /\ c[2] < heap
  BY DEF CopyInv, TypeOK, Program, New, Used
<1>3. /\ Separate(mem, org, heap, end)
      /\ \A c \in New : Sound(mem, c) /\ Points(mem, c, New, New)
  <2>1. Halfway(Memory, end, heap, heap)
    BY <1>1 DEF CopyInv, CellsInv, Collecting, Scanned
  <2>2. Memory.mem = mem /\ Memory.org = org /\ Memory.heap = heap
    BY DEF Memory
  <2> QED
    BY <1>2, <2>1, <2>2 DEF Halfway, New
<1>4. New' = New /\ \A c \in New : mem'[c] = mem[c]
  BY <1>1, <1>2 DEF New
<1>5. \A w \in New \union {NIL} : NameIn(mem', w) = NameIn(mem, w)
  BY <1>4 DEF NameIn
<1>6. ASSUME NEW c \in New
      PROVE  mem[c].name \in Name /\ built'[mem[c].name] = built[mem[c].name]
             /\ (mem[c].name \in open => mem[c].name \in open')
  <2>1. mem[c].name \in Name
    BY <1>3 DEF Separate, Named, New
  <2>2. \A d \in Old : mem[d].mark = 0 => mem[d].name # mem[c].name
    BY <1>3 DEF Separate, New, Old
  <2> QED
    BY <1>1, <2>1, <2>2
<1>7. TypeOK'
  <2>1. mem' \in [Cell -> Content]
    <3>1. \A c \in Cell : Unused(mem[c].mark) \in Content
      BY <1>2 DEF Unused, Content, Pointer
    <3> QED
      BY <1>1, <1>2, <3>1
  <2>2. built' \in [Name -> Built]
    <3>1. NoObject \in Built
      BY DEF NoObject, Built
    <3> QED
      BY <1>1, <1>2, <3>1
  <2> QED
    BY <1>1, <1>2, <2>1, <2>2 DEF CopyInv, TypeOK
<1>8. CellsInv'
  <2>1. Named(mem', New)
    BY <1>3, <1>4 DEF Separate, Named, New
  <2>2. ASSUME NEW c \in New
        PROVE  mem'[c].mark = 0 /\ Sound(mem, c)' /\ Points(mem', c, New, New)
    <3>1. mem'[c] = mem[c] /\ Sound(mem, c) /\ Points(mem, c, New, New)
      BY <1>3, <1>4
    <3>2. mem[c].mark = 0
      BY <1>3 DEF Separate, New
    <3>3. mem[c].type = "cons" => NameIn(mem', mem[c].car) = NameIn(mem, mem[c].car)
                                  /\ NameIn(mem', mem[c].cdr) = NameIn(mem, mem[c].cdr)
      BY <1>5, <3>1 DEF Points
    <3>4. Sound(mem, c)'
      BY <1>6, <3>1, <3>3 DEF Sound
    <3> QED
      BY <3>1, <3>2, <3>4 DEF Points
  <2>3. Whole(mem, org, heap)'
    BY <1>4, <2>1, <2>2 DEF Whole, New
  <2> QED
    BY <1>1, <2>3 DEF CellsInv, Collecting
<1>9. RootsInv'
  <2>1. locals = {} /\ \A i \in 1 .. NRegs : regs[i] \in New \union {NIL} /\ NameOf(regs[i]) = rooted[i]
    BY <1>1 DEF CopyInv, RootsInv, Moved, Collecting
  <2>2. \A i \in 1 .. NRegs : NameOf(regs[i])' = rooted[i]
    BY <1>1, <1>4, <2>1, ZenonT(60) DEF NameOf
  <2> QED
    BY <1>1, <1>4, <2>1, <2>2 DEF RootsInv, Moved, Collecting
<1> QED
  BY <1>7, <1>8, <1>9 DEF CopyInv

-----------------------------------------------------------------------------
(* The steps of the program.                                               *)

LEMMA EvalFact ==
  ASSUME Program, CopyInv, pc = "eval"
  PROVE  /\ end = 0 /\ Whole(mem, org, heap) /\ locals \subseteq New /\ New \subseteq Cell /\ NIL \notin New
         /\ \A i \in 1 .. NRegs : regs[i] \in New \union {NIL} /\ NameOf(regs[i]) = rooted[i]
         /\ \A c \in New : mem[c].name \in Name
  BY DEF CopyInv, CellsInv, RootsInv, Moved, Collecting, Whole, Named, New, Used, Program

\* There are as many names as cells.
LEMMA FreshName ==
  ASSUME Program, NEW m, NEW o \in 0 .. 1, NEW h \in 0 .. HeapSize, h < HeapSize
  PROVE  \E n \in Name : n \notin {m[c].name : c \in Used(o, h)}
<1> SUFFICES ASSUME \A n \in Name : \E c \in Used(o, h) : m[c].name = n
             PROVE  FALSE
  OBVIOUS
<1> DEFINE T == 0 .. h - 1
           f == [n \in Name |-> CHOOSE c \in Used(o, h) : m[c].name = n]
           g == [n \in Name |-> f[n][2]]
<1>1. HeapSize \in Nat /\ h \in Nat
  BY DEF Program
<1>2. \A n \in Name : f[n] \in Used(o, h) /\ m[f[n]].name = n
  OBVIOUS
<1>3. \A c \in Used(o, h) : c = <<o, c[2]>> /\ c[2] \in T
  BY <1>1, UsedFact
<1> HIDE DEF f
<1>4. g \in [Name -> T] /\ \A a, b \in Name : g[a] = g[b] => a = b
  BY <1>2, <1>3
<1>5. IsFiniteSet(Name) /\ Cardinality(Name) = HeapSize
  <2>1. 1 \in Int /\ HeapSize \in Int
    BY <1>1
  <2>2. IsFiniteSet(1 .. HeapSize) /\ Cardinality(1 .. HeapSize) = IF 1 > HeapSize THEN 0 ELSE HeapSize - 1 + 1
    BY <2>1, FS_Interval
  <2> QED
    BY <1>1, <2>2 DEF Name
<1>6. IsFiniteSet(T) /\ Cardinality(T) = h
  <2>1. 0 \in Int /\ h - 1 \in Int
    BY <1>1
  <2>2. IsFiniteSet(T) /\ Cardinality(T) = IF 0 > h - 1 THEN 0 ELSE h - 1 - 0 + 1
    BY <2>1, FS_Interval
  <2> QED
    BY <1>1, <2>2
<1> HIDE DEF g, T
<1>7. Cardinality(T) < Cardinality(Name)
  BY <1>1, <1>5, <1>6
<1>8. \E a, b \in Name : a # b /\ g[a] = g[b]
  BY <1>4, <1>5, <1>6, <1>7, FS_PigeonHole
<1> QED
  BY <1>4, <1>8

LEMMA NewcellStep ==
  ASSUME Program, CopyInv, NEW type \in {"cons", "user"}, NEW x \in locals \union {NIL}, NEW y \in locals \union {NIL},
         type = "user" => x = NIL /\ y = NIL, Newcell(type, x, y)
  PROVE  CopyInv'
<1>1. PICK w : w = <<org, heap>>
  OBVIOUS
<1>2. PICK name : name = CHOOSE n \in Name : n \notin {mem[c].name : c \in New}
  OBVIOUS
<1>3. PICK z : z = [type |-> type, mark |-> 0, car |-> x, cdr |-> y, name |-> name]
  OBVIOUS
<1>4. /\ pc = "eval" /\ heap < HeapSize /\ mem' = [mem EXCEPT ![w] = z]
      /\ open' = (IF type = "user" THEN open \union {name} ELSE open)
      /\ built' = [built EXCEPT ![name] = [type |-> type, car |-> NameOf(x), cdr |-> NameOf(y)]]
      /\ heap' = heap + 1 /\ locals' = locals \union {w} /\ UNCHANGED <<org, end, scan, regs, pc, rooted>>
  BY <1>1, <1>2, <1>3 DEF Newcell, Evaluating, Fill, New
<1>5. /\ end = 0 /\ Whole(mem, org, heap) /\ locals \subseteq New /\ New \subseteq Cell /\ NIL \notin New
      /\ \A i \in 1 .. NRegs : regs[i] \in New \union {NIL} /\ NameOf(regs[i]) = rooted[i]
      /\ \A c \in New : mem[c].name \in Name
  BY <1>4, EvalFact
<1>6. /\ org \in 0 .. 1 /\ heap \in 0 .. HeapSize /\ mem \in [Cell -> Content] /\ built \in [Name -> Built]
      /\ NIL \notin Cell
  BY DEF CopyInv, TypeOK, Program
<1>7. name \in Name /\ \A c \in New : mem[c].name # name
  <2>1. \E n \in Name : n \notin {mem[c].name : c \in New}
    BY <1>4, <1>6, FreshName DEF New
  <2> QED
    BY <1>2, <2>1
<1>8. w \in Cell /\ w \notin New /\ New' = New \union {w} /\ heap' \in 0 .. HeapSize /\ w # NIL
  <2>1. /\ <<org, heap>> \in Cell /\ <<org, heap>> \notin Used(org, heap) /\ heap + 1 \in 0 .. HeapSize
        /\ Used(org, heap + 1) = Used(org, heap) \union {<<org, heap>>}
    BY <1>4, <1>6, GrowFact
  <2>2. New' = Used(org, heap + 1)
    BY <1>4 DEF New
  <2> QED
    BY ONLY <1>1, <1>4, <1>6, <2>1, <2>2 DEF New
<1>9. z \in Content /\ z.type = type /\ z.mark = 0 /\ z.car = x /\ z.cdr = y /\ z.name = name
  <2>1. x \in Pointer /\ y \in Pointer /\ name \in Nat
    BY <1>5, <1>7 DEF Pointer, Name
  <2> QED
    BY <1>3, <2>1 DEF Content
<1>10. mem' \in [Cell -> Content] /\ mem'[w] = z /\ \A c \in New : mem'[c] = mem[c]
  BY <1>4, <1>5, <1>6, <1>8, <1>9
<1>11. \A p \in New \union {NIL} : NameIn(mem', p) = NameIn(mem, p) /\ NameOf(p)' = NameOf(p)
  BY <1>10 DEF NameIn, NameOf
<1>12. /\ NameOf(x) \in Name \union {NIL} /\ NameOf(y) \in Name \union {NIL}
       /\ NameOf(x) = NameIn(mem, x) /\ NameOf(y) = NameIn(mem, y) /\ x \in New \union {NIL} /\ y \in New \union {NIL}
       /\ (x = NIL => NameOf(x) = NIL) /\ (y = NIL => NameOf(y) = NIL)
  BY <1>5 DEF NameOf, NameIn
<1>13. PICK b : b = [type |-> type, car |-> NameOf(x), cdr |-> NameOf(y)]
  OBVIOUS
<1>14. /\ b \in Built /\ b.type = type /\ b.car = NameOf(x) /\ b.cdr = NameOf(y)
       /\ built' \in [Name -> Built] /\ built'[name] = b /\ \A n \in Name \ {name} : built'[n] = built[n]
  <2>1. b \in Built /\ b.type = type /\ b.car = NameOf(x) /\ b.cdr = NameOf(y)
    BY <1>12, <1>13 DEF Built
  <2>2. built' = [built EXCEPT ![name] = b]
    BY <1>4, <1>13
  <2> QED
    BY <1>6, <1>7, <2>1, <2>2
<1>15. TypeOK'
  <2>1. locals' \subseteq Cell
    BY <1>4, <1>5, <1>8
  <2> QED
    BY <1>4, <1>8, <1>10, <1>14, <2>1 DEF CopyInv, TypeOK
<1>16. ASSUME NEW c \in New PROVE mem'[c].mark = 0 /\ Sound(mem, c)' /\ Points(mem', c, New', New')
  <2>1. mem'[c] = mem[c] /\ mem[c].mark = 0 /\ Sound(mem, c) /\ Points(mem, c, New, New)
    BY <1>5, <1>10 DEF Whole, New
  <2>2. built'[mem[c].name] = built[mem[c].name] /\ (mem[c].name \in open => mem[c].name \in open')
    BY <1>4, <1>5, <1>7, <1>14
  <2>3. mem[c].type = "cons" => NameIn(mem', mem[c].car) = NameIn(mem, mem[c].car)
                                /\ NameIn(mem', mem[c].cdr) = NameIn(mem, mem[c].cdr)
    BY <1>11, <2>1 DEF Points
  <2>4. Sound(mem, c)'
    BY <2>1, <2>2, <2>3 DEF Sound
  <2> QED
    BY <1>8, <2>1, <2>4 DEF Points
<1>17. mem'[w].mark = 0 /\ Sound(mem, w)' /\ Points(mem', w, New', New')
  <2>1. type = "user" => NameOf(x) = NIL /\ NameOf(y) = NIL /\ name \in open'
    BY <1>4, <1>12
  <2>2. NameIn(mem', x) = NameOf(x) /\ NameIn(mem', y) = NameOf(y)
    BY <1>11, <1>12
  <2>3. Sound(mem, w)'
    BY <1>9, <1>10, <1>14, <2>1, <2>2 DEF Sound
  <2>4. Points(mem', w, New', New')
    BY <1>8, <1>9, <1>10, <1>12 DEF Points
  <2> QED
    BY <1>9, <1>10, <2>3, <2>4
<1>18. CellsInv'
  <2>1. Named(mem', New')
    <3>1. Named(mem, New)
      BY <1>5 DEF Whole, New
    <3> QED
      BY <1>7, <1>8, <1>9, <1>10, <3>1 DEF Named
  <2>2. Whole(mem, org, heap)'
    <3>1. \A c \in New' : mem'[c].mark = 0 /\ Sound(mem, c)' /\ Points(mem', c, New', New')
      BY <1>8, <1>16, <1>17
    <3> QED
      BY <2>1, <3>1 DEF Whole, New
  <2> QED
    BY <1>4, <1>5, <2>2 DEF CellsInv, Collecting
<1>19. RootsInv'
  <2>1. \A i \in 1 .. NRegs : regs'[i] \in New' \union {NIL} /\ NameOf(regs[i])' = rooted'[i]
    BY <1>4, <1>5, <1>8, <1>11 DEF NameOf
  <2> QED
    BY <1>4, <1>5, <1>8, <2>1 DEF RootsInv, Moved, Collecting
<1> QED
  BY <1>15, <1>18, <1>19 DEF CopyInv

LEMMA SetcdrStep ==
  ASSUME Program, CopyInv, NEW c \in locals, NEW y \in locals \union {NIL}, Setcdr(c, y)
  PROVE  CopyInv'
<1>1. PICK n : n = mem[c].name
  OBVIOUS
<1>2. /\ pc = "eval" /\ mem[c].type = "cons" /\ mem' = [mem EXCEPT ![c].cdr = y]
      /\ built' = [built EXCEPT ![n].cdr = NameOf(y)]
      /\ UNCHANGED <<org, end, scan, heap, regs, locals, open, pc, rooted>>
  BY <1>1 DEF Setcdr, Evaluating
<1>3. /\ end = 0 /\ Whole(mem, org, heap) /\ locals \subseteq New /\ New \subseteq Cell /\ NIL \notin New
      /\ \A i \in 1 .. NRegs : regs[i] \in New \union {NIL} /\ NameOf(regs[i]) = rooted[i]
      /\ \A d \in New : mem[d].name \in Name
  BY <1>2, EvalFact
<1>4. mem \in [Cell -> Content] /\ built \in [Name -> Built] /\ c \in New /\ c \in Cell /\ n \in Name
      /\ y \in New \union {NIL} /\ y \in Pointer
  BY <1>1, <1>3 DEF CopyInv, TypeOK, Pointer
<1>5. NameOf(y) \in Name \union {NIL} /\ NameOf(y) = NameIn(mem, y)
  BY <1>3, <1>4 DEF NameOf, NameIn
<1>6. /\ mem' \in [Cell -> Content] /\ \A d \in Cell \ {c} : mem'[d] = mem[d]
      /\ mem'[c].type = "cons" /\ mem'[c].mark = mem[c].mark /\ mem'[c].car = mem[c].car /\ mem'[c].cdr = y
      /\ mem'[c].name = n
  <2>1. PICK k : k = [mem[c] EXCEPT !.cdr = y]
    OBVIOUS
  <2>2. mem[c] \in Content
    BY <1>4
  <2>3. k \in Content /\ k.type = mem[c].type /\ k.mark = mem[c].mark /\ k.car = mem[c].car /\ k.cdr = y
        /\ k.name = mem[c].name
    BY ONLY <1>4, <2>1, <2>2 DEF Content
  <2>4. mem' = [mem EXCEPT ![c] = k]
    BY <1>2, <2>1
  <2> QED
    BY <1>1, <1>2, <1>4, <2>3, <2>4
<1>7. /\ built' \in [Name -> Built] /\ \A m \in Name \ {n} : built'[m] = built[m]
      /\ built'[n].type = built[n].type /\ built'[n].car = built[n].car /\ built'[n].cdr = NameOf(y)
  <2>1. PICK b : b = [built[n] EXCEPT !.cdr = NameOf(y)]
    OBVIOUS
  <2>2. built[n] \in Built
    BY <1>4
  <2>3. b \in Built /\ b.type = built[n].type /\ b.car = built[n].car /\ b.cdr = NameOf(y)
    BY ONLY <1>5, <2>1, <2>2 DEF Built
  <2>4. built' = [built EXCEPT ![n] = b]
    BY <1>2, <2>1
  <2> QED
    BY <1>4, <2>3, <2>4
<1>8. \A p \in New \union {NIL} : NameIn(mem', p) = NameIn(mem, p) /\ NameOf(p)' = NameOf(p)
  BY <1>1, <1>3, <1>6 DEF NameIn, NameOf
<1>9. TypeOK'
  BY <1>2, <1>6, <1>7 DEF CopyInv, TypeOK
<1>10. Named(mem, New) /\ \A d \in New : mem[d].mark = 0 /\ Sound(mem, d) /\ Points(mem, d, New, New)
  BY <1>3 DEF Whole, New
<1>11. ASSUME NEW d \in New PROVE mem'[d].mark = 0 /\ Sound(mem, d)' /\ Points(mem', d, New, New)
  <2>1. mem[d].mark = 0 /\ Sound(mem, d) /\ Points(mem, d, New, New)
    BY <1>10
  <2>2. mem[d].type = "cons" => NameIn(mem', mem[d].car) = NameIn(mem, mem[d].car)
                                /\ NameIn(mem', mem[d].cdr) = NameIn(mem, mem[d].cdr)
    BY <1>8, <2>1 DEF Points
  <2>3. CASE d = c
    <3>1. NameIn(mem', y) = NameOf(y)
      BY <1>4, <1>5, <1>8
    <3>2. Sound(mem, c)'
      BY <1>1, <1>2, <1>6, <1>7, <2>1, <2>2, <2>3, <3>1 DEF Sound
    <3>3. Points(mem', c, New, New)
      BY <1>2, <1>4, <1>6, <2>1, <2>3 DEF Points
    <3> QED
      BY <1>6, <2>1, <2>3, <3>2, <3>3
  <2>4. CASE d # c
    <3>1. mem'[d] = mem[d] /\ mem[d].name \in Name \ {n}
      BY <1>1, <1>3, <1>4, <1>6, <1>10, <2>4 DEF Named
    <3>2. built'[mem[d].name] = built[mem[d].name] /\ open' = open
      BY <1>2, <1>7, <3>1
    <3>3. Sound(mem, d)'
      BY <2>1, <2>2, <3>1, <3>2 DEF Sound
    <3> QED
      BY <2>1, <3>1, <3>3 DEF Points
  <2> QED
    BY <2>3, <2>4
<1>12. CellsInv'
  <2>1. Named(mem', New)
    BY <1>1, <1>3, <1>4, <1>6, <1>10 DEF Named
  <2>2. Whole(mem, org, heap)'
    BY <1>2, <1>11, <2>1 DEF Whole, New
  <2> QED
    BY <1>2, <1>3, <2>2 DEF CellsInv, Collecting
<1>13. RootsInv'
  <2>1. New' = New /\ \A i \in 1 .. NRegs : regs'[i] \in New \union {NIL} /\ NameOf(regs[i])' = rooted'[i]
    BY <1>2, <1>3, <1>8 DEF NameOf, New
  <2> QED
    BY <1>2, <1>3, <2>1 DEF RootsInv, Moved, Collecting
<1> QED
  BY <1>9, <1>12, <1>13 DEF CopyInv

\* Steps that change no object.
LEMMA RootStep ==
  ASSUME Program, CopyInv, pc = "eval", pc' \in {"eval", "repl"},
         UNCHANGED <<mem, org, heap, end, scan, open, built>>, locals' \subseteq New,
         regs' \in [1 .. NRegs -> Pointer], rooted' \in [1 .. NRegs -> Name \union {NIL}],
         \A i \in 1 .. NRegs : regs'[i] \in New \union {NIL} /\ NameOf(regs'[i]) = rooted'[i]
  PROVE  CopyInv'
<1>1. end = 0 /\ Whole(mem, org, heap) /\ New \subseteq Cell
  BY EvalFact
<1>2. TypeOK'
  BY <1>1 DEF CopyInv, TypeOK
<1>3. CellsInv'
  <2>1. Whole(mem, org, heap)'
    BY <1>1 DEF Whole, Sound
  <2> QED
    BY <1>1, <2>1 DEF CellsInv, Collecting
<1>4. RootsInv'
  BY DEF RootsInv, Moved, Collecting, New, NameOf
<1> QED
  BY <1>2, <1>3, <1>4 DEF CopyInv

LEMMA InitStep == ASSUME Program, Init PROVE CopyInv
<1>1. HeapSize \in Nat /\ NRegs \in Nat /\ NIL \notin Cell
  BY DEF Program
<1>2. New = {}
  BY NoneUsed DEF New, Init
<1>3. TypeOK
  <2>1. Unused(0) \in Content /\ NoObject \in Built /\ NIL \in Pointer
    BY DEF Unused, Content, Pointer, NoObject, Built
  <2> QED
    BY <1>1, <2>1 DEF Init, TypeOK
<1>4. CellsInv
  BY <1>2 DEF Init, CellsInv, Collecting, Whole, Named, New
<1>5. RootsInv
  BY <1>1 DEF Init, RootsInv, Moved, Collecting, NameOf
<1> QED
  BY <1>3, <1>4, <1>5 DEF CopyInv

LEMMA NextStep == ASSUME Program, CopyInv, [Next]_vars PROVE CopyInv'
<1>1. CASE UNCHANGED vars
  <2>1. TypeOK'
    BY <1>1 DEF vars, CopyInv, TypeOK
  <2>2. CellsInv'
    BY <1>1 DEF vars, CopyInv, CellsInv, Halfway, Whole, Sound, Memory, Collecting, Scanned
  <2>3. RootsInv'
    BY <1>1 DEF vars, CopyInv, RootsInv, Moved, Collecting, New, Old, NameOf
  <2> QED
    BY <2>1, <2>2, <2>3 DEF CopyInv
<1>2. ASSUME NEW x \in locals \union {NIL}, NEW y \in locals \union {NIL}, Newcell("cons", x, y) PROVE CopyInv'
  BY <1>2, NewcellStep
<1>3. CASE Newcell("user", NIL, NIL)
  BY <1>3, NewcellStep
<1>4. ASSUME NEW w \in Cell, Load(w) PROVE CopyInv'
  <2>1. pc = "eval" /\ locals' = locals \union {w} /\ UNCHANGED <<mem, org, end, scan, heap, regs, open, pc, built, rooted>>
        /\ (w \in Held \/ \E c \in locals : w \in Fields(c))
    BY <1>4 DEF Load, Evaluating
  <2>2. /\ Whole(mem, org, heap) /\ locals \subseteq New /\ NIL \notin New /\ New \subseteq Cell
        /\ \A i \in 1 .. NRegs : regs[i] \in New \union {NIL} /\ NameOf(regs[i]) = rooted[i]
    BY <2>1, EvalFact
  <2>3. w \in New
    <3>1. CASE w \in Held
      BY <2>2, <3>1 DEF Held
    <3>2. ASSUME NEW c \in locals, w \in Fields(c) PROVE w \in New
      <4>1. Points(mem, c, New, New)
        BY <2>2 DEF Whole, New
      <4> QED
        BY <3>2, <4>1 DEF Fields, Points
    <3> QED
      BY <2>1, <3>1, <3>2
  <2>4. regs \in [1 .. NRegs -> Pointer] /\ rooted \in [1 .. NRegs -> Name \union {NIL}]
    BY DEF CopyInv, TypeOK
  <2> QED
    BY <2>1, <2>2, <2>3, <2>4, RootStep
<1>5. ASSUME NEW i \in 1 .. NRegs, NEW w \in locals \union {NIL}, SetReg(i, w) PROVE CopyInv'
  <2>1. /\ pc = "eval" /\ regs' = [regs EXCEPT ![i] = w] /\ rooted' = [rooted EXCEPT ![i] = NameOf(w)]
        /\ UNCHANGED <<mem, org, end, scan, heap, locals, open, pc, built>>
    BY <1>5 DEF SetReg, Evaluating
  <2>2. /\ locals \subseteq New /\ NIL \notin New /\ New \subseteq Cell
        /\ \A j \in 1 .. NRegs : regs[j] \in New \union {NIL} /\ NameOf(regs[j]) = rooted[j]
        /\ \A c \in New : mem[c].name \in Name
    BY <2>1, EvalFact
  <2>3. w \in New \union {NIL} /\ w \in Pointer /\ NameOf(w) \in Name \union {NIL}
    BY <2>2 DEF NameOf, Pointer
  <2>4. regs \in [1 .. NRegs -> Pointer] /\ rooted \in [1 .. NRegs -> Name \union {NIL}]
    BY DEF CopyInv, TypeOK
  <2>5. regs' \in [1 .. NRegs -> Pointer] /\ rooted' \in [1 .. NRegs -> Name \union {NIL}]
    BY <2>1, <2>3, <2>4
  <2>6. \A j \in 1 .. NRegs : regs'[j] \in New \union {NIL} /\ NameOf(regs'[j]) = rooted'[j]
    BY <2>1, <2>2, <2>3, <2>4
  <2> QED
    BY <2>1, <2>2, <2>5, <2>6, RootStep
<1>6. ASSUME NEW c \in locals, NEW y \in locals \union {NIL}, Setcdr(c, y) PROVE CopyInv'
  BY <1>6, SetcdrStep
<1>7. CASE Exhausted \/ Repl
  <2>1. pc = "eval" /\ pc' \in {"eval", "repl"} /\ locals' \subseteq locals
        /\ UNCHANGED <<mem, org, heap, end, scan, regs, open, built, rooted>>
    BY <1>7 DEF Exhausted, Repl, Evaluating
  <2>2. /\ locals \subseteq New
        /\ \A j \in 1 .. NRegs : regs[j] \in New \union {NIL} /\ NameOf(regs[j]) = rooted[j]
    BY <2>1, EvalFact
  <2>3. regs \in [1 .. NRegs -> Pointer] /\ rooted \in [1 .. NRegs -> Name \union {NIL}]
    BY DEF CopyInv, TypeOK
  <2>4. locals' \subseteq New
    BY <2>1, <2>2
  <2> QED
    BY <2>1, <2>2, <2>3, <2>4, RootStep
<1>8. CASE Collect
  BY <1>8, CollectStep
<1>9. CASE ScanRegister
  BY <1>9, ScanRegisterStep
<1>10. CASE ScanNewspace
  BY <1>10, ScanNewspaceStep
<1>11. CASE Scan
  BY <1>11, ScanStep
<1>12. CASE FreeOldspace
  BY <1>12, FreeOldspaceStep
<1> QED
  BY <1>1, <1>2, <1>3, <1>4, <1>5, <1>6, <1>7, <1>8, <1>9, <1>10, <1>11, <1>12 DEF Next

-----------------------------------------------------------------------------
(* What the invariant says of the program.                                 *)

\* The cells that hold objects: one for each name, as the program made it.
LEMMA CurrentFact ==
  ASSUME Program, CopyInv
  PROVE  /\ \A c \in Current : mem[c].name \in Name /\ Sound(mem, c)
         /\ \A c, d \in Current : mem[c].name = mem[d].name => c = d
         /\ \A c \in Current : mem[c].type = "cons" =>
              /\ NameIn(mem, mem[c].car) \in {mem[d].name : d \in Current} \union {NIL}
              /\ NameIn(mem, mem[c].cdr) \in {mem[d].name : d \in Current} \union {NIL}
         /\ \A i \in 1 .. NRegs : NameOf(regs[i]) \in {mem[d].name : d \in Current} \union {NIL}
         /\ \A w \in locals : NameOf(w) \in {mem[d].name : d \in Current}
<1> DEFINE names == {mem[d].name : d \in Current}
           old == IF Collecting THEN Old ELSE {}
<1>1. NIL \notin Cell /\ New \subseteq Cell /\ Old \subseteq Cell
  BY DEF Program, New, Old, Used
<1>2. Current = New \union {c \in old : \A d \in New : mem[d].name # mem[c].name}
  BY DEF Current, Collecting, New, Old
<1>3. /\ Named(mem, New) /\ Named(mem, old)
      /\ \A x \in old : mem[x].mark = 0 \/ \E c \in New : mem[c].name = mem[x].name
      /\ \A c \in New : Sound(mem, c) /\ Points(mem, c, New \union old, New \union old)
      /\ \A c \in old : mem[c].mark = 0 => Sound(mem, c) /\ Points(mem, c, old, old)
  <2>1. CASE Collecting
    <3>1. Halfway(Memory, end, Scanned, Scanned)
      BY <2>1 DEF CopyInv, CellsInv
    <3>2. Memory.mem = mem /\ Memory.org = org /\ Memory.heap = heap
      BY DEF Memory
    <3>3. /\ Separate(mem, org, heap, end)
          /\ \A c \in New : /\ Sound(mem, c)
                            /\ Points(mem, c, IF c[2] < Scanned THEN New ELSE Old, IF c[2] < Scanned THEN New ELSE Old)
          /\ \A c \in Old : mem[c].mark = 0 => Sound(mem, c) /\ Points(mem, c, Old, Old)
      BY <3>1, <3>2 DEF Halfway, New, Old
    <3>4. \A c \in New : Points(mem, c, New \union Old, New \union Old)
      BY <3>3 DEF Points
    <3>5. \A x \in Old : mem[x].mark \in {0, 1}
      BY <1>1 DEF CopyInv, TypeOK, Content
    <3> QED
      BY <2>1, <3>3, <3>4, <3>5 DEF Separate, New, Old
  <2>2. CASE ~ Collecting
    <3>1. Whole(mem, org, heap)
      BY <2>2 DEF CopyInv, CellsInv
    <3> QED
      BY <2>2, <3>1 DEF Whole, New, Named, Points
  <2> QED
    BY <2>1, <2>2
<1> HIDE DEF old
<1>4. \A w \in New \union old : mem[w].name \in names
  BY <1>2
<1>5. \A w \in New \union old \union {NIL} : NameIn(mem, w) \in names \union {NIL}
  BY <1>4 DEF NameIn
<1>6. \A c \in Current : Sound(mem, c) /\ Points(mem, c, New \union old, New \union old)
  BY <1>2, <1>3 DEF Points
<1>7. \A c \in Current : mem[c].name \in Name
  BY <1>2, <1>3 DEF Named
<1>8. \A c, d \in Current : mem[c].name = mem[d].name => c = d
  BY <1>2, <1>3 DEF Named
<1>9. \A c \in Current : mem[c].type = "cons" => /\ NameIn(mem, mem[c].car) \in names \union {NIL}
                                                 /\ NameIn(mem, mem[c].cdr) \in names \union {NIL}
  BY <1>5, <1>6 DEF Points
<1>10. \A i \in 1 .. NRegs : NameOf(regs[i]) \in names \union {NIL}
  <2>1. \A i \in 1 .. NRegs : regs[i] \in New \union old \union {NIL}
    BY DEF CopyInv, RootsInv, Moved, Collecting, old
  <2> QED
    BY <1>5, <2>1 DEF NameOf, NameIn
<1>11. \A w \in locals : NameOf(w) \in names
  <2>1. locals \subseteq New
    BY DEF CopyInv, RootsInv
  <2> QED
    BY <1>1, <1>4, <2>1 DEF NameOf
<1> QED
  BY <1>6, <1>7, <1>8, <1>9, <1>10, <1>11

LEMMA ReachableFact ==
  ASSUME Program, CopyInv, NEW n \in Reachable
  PROVE  n \in {mem[d].name : d \in Current}
<1> DEFINE names == {mem[d].name : d \in Current}
           from == ({rooted[i] : i \in 1 .. NRegs} \union {NameOf(w) : w \in locals}) \ {NIL}
<1>1. names \subseteq Name
  BY CurrentFact
<1>2. from \subseteq names
  <2>1. \A i \in 1 .. NRegs : rooted[i] = NameOf(regs[i])
    BY DEF CopyInv, RootsInv
  <2> QED
    BY <2>1, CurrentFact
<1>3. ASSUME NEW m \in names PROVE References(m) \subseteq names
  <2>1. PICK c \in Current : mem[c].name = m
    OBVIOUS
  <2>2. Sound(mem, c) /\ mem[c].type \in {"cons", "user"}
    <3>1. c \in Cell
      BY DEF Current, Used
    <3> QED
      BY <3>1, CurrentFact DEF CopyInv, TypeOK, Content
  <2>3. CASE mem[c].type = "cons"
    <3>1. built[m].car \in names \union {NIL} /\ built[m].cdr \in names \union {NIL}
      BY <2>1, <2>2, <2>3, CurrentFact DEF Sound
    <3> QED
      BY <3>1 DEF References
  <2>4. CASE mem[c].type = "user"
    BY <2>1, <2>2, <2>4 DEF Sound, References
  <2> QED
    BY <2>2, <2>3, <2>4
<1> QED
  BY <1>1, <1>2, <1>3 DEF Reachable

LEMMA InvisibleFact == ASSUME Program, CopyInv PROVE CopyInvisible
<1>1. \A i \in 1 .. NRegs : NameOf(regs[i]) = rooted[i]
  BY DEF CopyInv, RootsInv
<1>2. ASSUME NEW n \in Reachable
      PROVE  LET cells == {c \in Current : mem[c].name = n}
                 c == CHOOSE d \in cells : TRUE IN
             /\ Cardinality(cells) = 1
             /\ mem[c].type = built[n].type
             /\ IF built[n].type = "user" THEN n \in open
                ELSE NameOf(mem[c].car) = built[n].car /\ NameOf(mem[c].cdr) = built[n].cdr
  <2> DEFINE cells == {d \in Current : mem[d].name = n}
  <2>1. PICK c \in Current : mem[c].name = n
    BY <1>2, ReachableFact
  <2>2. cells = {c}
    BY <2>1, CurrentFact
  <2>3. Cardinality(cells) = 1 /\ (CHOOSE d \in cells : TRUE) = c
    BY <2>2, FS_Singleton
  <2>4. Sound(mem, c) /\ mem[c].type \in {"cons", "user"}
    <3>1. c \in Cell
      BY DEF Current, Used
    <3> QED
      BY <3>1, CurrentFact DEF CopyInv, TypeOK, Content
  <2>5. /\ mem[c].type = built[n].type
        /\ IF built[n].type = "user" THEN n \in open
           ELSE NameOf(mem[c].car) = built[n].car /\ NameOf(mem[c].cdr) = built[n].cdr
    BY <2>1, <2>4 DEF Sound, NameIn, NameOf
  <2> QED
    BY <2>3, <2>5
<1> QED
  BY <1>1, <1>2 DEF CopyInvisible

\* Copying is invisible, for heaps of any size and any number of registered locations:
\* at every step of every collection the registers hold what the program put there,
\* what they reach is there just once with the fields that the program gave it, and its
\* resource is held (gc_relocate, scan_registers, scan_newspace, free_oldspace).
THEOREM CopyUnseen == ASSUME Program PROVE Spec => []CopyInvisible
<1>1. Init => CopyInv
  BY InitStep
<1>2. CopyInv /\ [Next]_vars => CopyInv'
  BY NextStep
<1>3. CopyInv => CopyInvisible
  BY InvisibleFact
<1> QED
  BY <1>1, <1>2, <1>3, PTL DEF Spec

-----------------------------------------------------------------------------
(* Induction and recursion on numbers, as facts about sets and functions.  *)

\* Multiples of a size are ordered as their numbers are.
LEMMA TimesStrict ==
  ASSUME NEW k \in Nat, NEW m \in Nat, NEW p \in Nat, p > 0, k < m
  PROVE  k * p + p <= m * p
<1>1. PICK d \in Nat : m = k + 1 + d
  <2>1. m - (k + 1) \in Nat
    OBVIOUS
  <2> QED BY <2>1
<1>2. m * p = k * p + p + d * p
  BY <1>1
<1>3. d * p >= 0
  OBVIOUS
<1>4. k * p \in Nat /\ d * p \in Nat /\ m * p \in Nat
  OBVIOUS
<1> QED
  BY <1>2, <1>3, <1>4

LEMMA Induction ==
  ASSUME NEW S, 0 \in S, \A k \in Nat : k \in S => k + 1 \in S
  PROVE  Nat \subseteq S
<1> DEFINE T == {k \in Nat : k \notin S}
<1>1. SUFFICES ASSUME T # {} PROVE FALSE
  OBVIOUS
<1>2. PICK x \in T : \A y \in T : ~ (<<y, x>> \in OpToRel(<, Nat))
  BY <1>1, WFMin, NatLessThanWellFounded
<1>3. \A y \in T : ~ (y < x)
  BY <1>2 DEF OpToRel
<1>4. x # 0 /\ x - 1 \in Nat /\ x - 1 \notin T
  BY <1>3
<1>5. (x - 1) + 1 \in S
  BY <1>4
<1> QED
  BY <1>5

LEMMA LeastExists ==
  ASSUME NEW S \in SUBSET Nat, S # {}
  PROVE  (CHOOSE j \in S : \A k \in S : j <= k) \in S /\ \A k \in S : (CHOOSE j \in S : \A m \in S : j <= m) <= k
<1>1. PICK x \in S : \A y \in S : ~ (<<y, x>> \in OpToRel(<, Nat))
  BY WFMin, NatLessThanWellFounded
<1>2. \A y \in S : ~ (y < x)
  BY <1>1 DEF OpToRel
<1>3. \A y \in S : x <= y
  BY <1>2
<1> QED
  BY <1>3

\* What the equations of a function defined by recursion say of it.
Follows(f, n, start, step) == f[0] = start /\ \A i \in 1 .. n : f[i] = step[i][f[i - 1]]

LEMMA Recursion ==
  ASSUME NEW T, NEW start \in T, NEW n \in Nat, NEW step \in [1 .. n -> [T -> T]]
  PROVE  \E f \in [0 .. n -> T] : Follows(f, n, start, step)
<1> DEFINE S == {k \in Nat : k <= n => \E f \in [0 .. k -> T] : Follows(f, k, start, step)}
<1>1. 0 \in S
  <2> DEFINE g == [i \in 0 .. 0 |-> start]
  <2>1. g \in [0 .. 0 -> T] /\ g[0] = start
    OBVIOUS
  <2>2. Follows(g, 0, start, step)
    BY <2>1 DEF Follows
  <2> QED
    BY <2>1, <2>2
<1>2. ASSUME NEW k \in Nat, k \in S
      PROVE  k + 1 \in S
  <2>1. SUFFICES ASSUME k + 1 <= n
                 PROVE  \E f \in [0 .. (k + 1) -> T] : Follows(f, k + 1, start, step)
    OBVIOUS
  <2>2. PICK f \in [0 .. k -> T] : Follows(f, k, start, step)
    BY <1>2, <2>1
  <2> DEFINE g == [i \in 0 .. (k + 1) |-> IF i <= k THEN f[i] ELSE step[k + 1][f[k]]]
  <2>3. step[k + 1][f[k]] \in T
    BY <2>1, <2>2
  <2>4. g \in [0 .. (k + 1) -> T]
    BY <2>2, <2>3
  <2>5. g[0] = start
    BY <2>2 DEF Follows
  <2>6. ASSUME NEW i \in 1 .. (k + 1)
        PROVE  g[i] = step[i][g[i - 1]]
    <3>1. CASE i = k + 1
      BY <3>1
    <3>2. CASE i \in 1 .. k
      BY <2>2, <3>2 DEF Follows
    <3> QED
      BY <3>1, <3>2
  <2> HIDE DEF g
  <2> QED
    BY <2>4, <2>5, <2>6 DEF Follows
<1> HIDE DEF S
<1>3. n \in S
  BY <1>1, <1>2, Induction
<1> QED
  BY <1>3 DEF S

-----------------------------------------------------------------------------
(* Arrays and strings: buffers.                                            *)

Byte == 0 .. 255
Letter == 1 .. 255

LEMMA MaxTwo == ASSUME NEW m \in Int, NEW n \in Int PROVE Max({m, n}) = IF m >= n THEN m ELSE n
  BY DEF Max

\* A sequence that is given position by position.
LEMMA Listed ==
  ASSUME NEW S, NEW n \in Nat, NEW f, f = [i \in 1 .. n |-> f[i]], \A i \in 1 .. n : f[i] \in S
  PROVE  f \in Seq(S) /\ Len(f) = n
<1>1. f \in [1 .. n -> S]
  OBVIOUS
<1> QED
  BY <1>1

\* The first 0 ends the text.
LEMMA StrlenFacts ==
  ASSUME NEW data \in Seq(Int)
  PROVE  /\ Strlen(data) \in 0 .. Len(data)
         /\ \A i \in 1 .. Strlen(data) : data[i] # 0
         /\ Strlen(data) < Len(data) => data[Strlen(data) + 1] = 0
<1> DEFINE Z == {i \in DOMAIN data : data[i] = 0} \union {Len(data) + 1}
<1>1. DOMAIN data = 1 .. Len(data) /\ Len(data) \in Nat
  OBVIOUS
<1>2. Z \in SUBSET Nat /\ Z # {} /\ Len(data) + 1 \in Z
  BY <1>1
<1>3. \A i \in 1 .. Len(data) : i \in Z <=> data[i] = 0
  BY <1>1
<1>3a. Z \subseteq 1 .. Len(data) + 1
  BY <1>1
<1>4. Strlen(data) = Min(Z) - 1
  BY DEF Strlen
<1> HIDE DEF Z
<1>5. Min(Z) \in Z /\ \A k \in Z : Min(Z) <= k
  BY <1>2, LeastExists DEF Min
<1>6. PICK m : m = Min(Z)
  OBVIOUS
<1>7. m \in 1 .. Len(data) + 1 /\ \A k \in Z : m <= k
  BY <1>3a, <1>5, <1>6
<1>8. \A i \in 1 .. m - 1 : data[i] # 0
  BY <1>1, <1>3, <1>7
<1>9. m - 1 < Len(data) => data[m] = 0
  BY <1>1, <1>3, <1>5, <1>6, <1>7
<1>10. Strlen(data) = m - 1 /\ (m - 1) + 1 = m
  BY <1>4, <1>6, <1>7
<1> QED
  BY <1>1, <1>7, <1>8, <1>9, <1>10

LEMMA StrlenIs ==
  ASSUME NEW data \in Seq(Int), NEW n \in 0 .. Len(data), \A i \in 1 .. n : data[i] # 0,
         n < Len(data) => data[n + 1] = 0
  PROVE  Strlen(data) = n
<1>1. PICK k : k = Strlen(data)
  OBVIOUS
<1>2. k \in 0 .. Len(data) /\ (\A i \in 1 .. k : data[i] # 0) /\ (k < Len(data) => data[k + 1] = 0)
  BY <1>1, StrlenFacts
<1>3. Len(data) \in Nat
  OBVIOUS
<1>4. ~ (k < n)
  <2>1. SUFFICES ASSUME k < n PROVE FALSE
    OBVIOUS
  <2>2. k + 1 \in 1 .. n /\ k < Len(data)
    BY <1>2, <1>3, <2>1
  <2> QED
    BY <1>2, <2>2
<1>5. ~ (n < k)
  <2>1. SUFFICES ASSUME n < k PROVE FALSE
    OBVIOUS
  <2>2. n + 1 \in 1 .. k /\ n < Len(data)
    BY <1>2, <1>3, <2>1
  <2> QED
    BY <1>2, <2>2
<1> QED
  BY <1>1, <1>2, <1>3, <1>4, <1>5

\* new is data with s behind the first at.
IsPut(S, new, data, at, s) ==
  /\ new \in Seq(S) /\ Len(new) = Len(data)
  /\ \A i \in 1 .. Len(data) : new[i] = IF i \in at + 1 .. at + Len(s) THEN s[i - at] ELSE data[i]

LEMMA PutFacts ==
  ASSUME NEW S, NEW data \in Seq(S), NEW s \in Seq(S), NEW at \in Nat, at + Len(s) <= Len(data)
  PROVE  IsPut(S, Put(data, at, s), data, at, s)
<1>1. Len(data) \in Nat /\ Len(s) \in Nat
  BY LenProperties
<1>2. Max({Len(data), at + Len(s)}) = Len(data)
  BY <1>1, MaxTwo
<1>3. Put(data, at, s) = [i \in 1 .. Len(data) |-> IF i \in at + 1 .. at + Len(s) THEN s[i - at] ELSE data[i]]
  BY <1>2 DEF Put
<1>4. ASSUME NEW i \in 1 .. Len(data)
      PROVE  (IF i \in at + 1 .. at + Len(s) THEN s[i - at] ELSE data[i]) \in S
  <2>1. CASE i \in at + 1 .. at + Len(s)
    <3>1. i - at \in 1 .. Len(s)
      BY <1>1, <2>1
    <3> QED
      BY <2>1, <3>1, ElementOfSeq
  <2>2. CASE i \notin at + 1 .. at + Len(s)
    BY <2>2, ElementOfSeq
  <2> QED
    BY <2>1, <2>2
<1>5. PICK new : new = Put(data, at, s)
  OBVIOUS
<1>6. new = [i \in 1 .. Len(data) |-> IF i \in at + 1 .. at + Len(s) THEN s[i - at] ELSE data[i]]
  BY <1>3, <1>5
<1>7. new = [i \in 1 .. Len(data) |-> new[i]] /\ \A i \in 1 .. Len(data) : new[i] \in S
  BY <1>4, <1>6
<1>8. new \in Seq(S) /\ Len(new) = Len(data)
  BY <1>1, <1>7, Listed
<1> QED
  BY <1>5, <1>6, <1>8 DEF IsPut

\* What a sequence of characters is.
LEMMA LetterFacts ==
  ASSUME NEW s \in Seq(Letter)
  PROVE  s \in Seq(Int) /\ s \in Seq(Byte) /\ Len(s) \in Nat /\ \A i \in 1 .. Len(s) : s[i] \in Letter /\ s[i] # 0 /\ s[i] \in Int
<1>1. Letter \subseteq Int /\ Letter \subseteq Byte /\ 0 \notin Letter
  BY DEF Letter, Byte
<1>2. s \in Seq(Int) /\ s \in Seq(Byte)
  BY <1>1, SeqMonotonic
<1>3. \A i \in 1 .. Len(s) : s[i] \in Letter
  BY ElementOfSeq
<1> QED
  BY <1>1, <1>2, <1>3, LenProperties

LEMMA ByteFacts ==
  ASSUME NEW s \in Seq(Byte)
  PROVE  s \in Seq(Int) /\ Len(s) \in Nat /\ \A i \in 1 .. Len(s) : s[i] \in Byte /\ s[i] \in Int
<1>1. Byte \subseteq Int
  BY DEF Byte
<1>2. s \in Seq(Int)
  BY <1>1, SeqMonotonic
<1>3. \A i \in 1 .. Len(s) : s[i] \in Byte
  BY ElementOfSeq
<1> QED
  BY <1>1, <1>2, <1>3, LenProperties

LEMMA SingleZero == <<0>> \in Seq(Int) /\ <<0>> \in Seq(Byte) /\ Len(<<0>>) = 1 /\ <<0>>[1] = 0
  BY DEF Byte

LEMMA WithZero ==
  ASSUME NEW S, 0 \in S, NEW s \in Seq(S)
  PROVE  /\ s \o <<0>> \in Seq(S) /\ Len(s \o <<0>>) = Len(s) + 1
         /\ \A i \in 1 .. Len(s) : (s \o <<0>>)[i] = s[i]
         /\ (s \o <<0>>)[Len(s) + 1] = 0
<1>1. <<0>> \in Seq(S) /\ Len(<<0>>) = 1 /\ <<0>>[1] = 0 /\ Len(s) \in Nat
  OBVIOUS
<1>2. /\ s \o <<0>> \in Seq(S) /\ Len(s \o <<0>>) = Len(s) + Len(<<0>>)
      /\ \A i \in 1 .. Len(s) + Len(<<0>>) : (s \o <<0>>)[i] = IF i <= Len(s) THEN s[i] ELSE <<0>>[i - Len(s)]
  BY <1>1, ConcatProperties
<1>3. PICK t : t = s \o <<0>>
  OBVIOUS
<1>4. PICK z : z = <<0>>
  OBVIOUS
<1>5. PICK n \in Nat : n = Len(s)
  BY <1>1
<1>6. \A i \in 1 .. n + 1 : t[i] = IF i <= n THEN s[i] ELSE z[i - n]
  BY <1>1, <1>2, <1>3, <1>4, <1>5
<1>7. \A i \in 1 .. n : t[i] = s[i]
  BY ONLY <1>6, n \in Nat
<1>8. t[n + 1] = z[1]
  <2>1. n + 1 \in 1 .. n + 1 /\ ~ (n + 1 <= n) /\ (n + 1) - n = 1
    BY ONLY n \in Nat
  <2> QED
    BY ONLY <1>6, <2>1
<1> QED
  BY <1>1, <1>2, <1>3, <1>4, <1>5, <1>7, <1>8

\* Bytes that are put behind the first at, and a NUL behind these.
LEMMA PutText ==
  ASSUME NEW data \in Seq(Int), NEW at \in 0 .. Strlen(data), NEW s \in Seq(Letter), at + Len(s) < Len(data)
  PROVE  LET new == Put(data, at, s \o <<0>>) IN
         /\ new \in Seq(Int) /\ Len(new) = Len(data) /\ Strlen(new) = at + Len(s)
         /\ \A i \in 1 .. at + Len(s) : new[i] = IF i <= at THEN data[i] ELSE s[i - at]
         /\ \A i \in at + Len(s) + 2 .. Len(data) : new[i] = data[i]
<1>1. PICK n \in Nat : n = Len(data)
  BY LenProperties
<1>1a. PICK m \in Nat : m = Len(s)
  BY LenProperties
<1>1b. at \in Nat /\ at <= n /\ at + m < n /\ \A i \in 1 .. at : data[i] # 0
  <2>1. PICK k : k = Strlen(data)
    OBVIOUS
  <2>2. k \in 0 .. Len(data) /\ \A i \in 1 .. k : data[i] # 0
    BY <2>1, StrlenFacts
  <2> QED
    BY <1>1, <1>1a, <2>1, <2>2
<1>2. PICK t : t = s \o <<0>>
  OBVIOUS
<1>4. t \in Seq(Int) /\ Len(t) = m + 1 /\ (\A i \in 1 .. m : t[i] = s[i] /\ s[i] # 0) /\ t[m + 1] = 0
  BY <1>1a, <1>2, LetterFacts, WithZero, 0 \in Int
<1>5. PICK new : new = Put(data, at, t)
  OBVIOUS
<1>6. /\ new \in Seq(Int) /\ Len(new) = n
      /\ \A i \in 1 .. n : new[i] = IF i \in at + 1 .. at + (m + 1) THEN t[i - at] ELSE data[i]
  <2>1. at + Len(t) <= Len(data)
    BY <1>1, <1>1b, <1>4
  <2>2. IsPut(Int, new, data, at, t)
    BY <1>1b, <1>4, <1>5, <2>1, PutFacts
  <2> QED
    BY <1>1, <1>4, <2>2 DEF IsPut
<1>7. \A i \in 1 .. at + m : new[i] = IF i <= at THEN data[i] ELSE s[i - at]
  <2>1. TAKE i \in 1 .. at + m
  <2>2. CASE i <= at
    <3>1. i \in 1 .. n /\ i \notin at + 1 .. at + (m + 1)
      BY <1>1b, <2>2
    <3> QED
      BY <1>6, <2>2, <3>1
  <2>3. CASE ~ (i <= at)
    <3>1. i \in 1 .. n /\ i \in at + 1 .. at + (m + 1) /\ i - at \in 1 .. m
      BY <1>1b, <2>3
    <3> QED
      BY <1>4, <1>6, <2>3, <3>1
  <2> QED
    BY <2>2, <2>3
<1>8. new[at + m + 1] = 0
  <2>1. at + m + 1 \in 1 .. n /\ at + m + 1 \in at + 1 .. at + (m + 1) /\ (at + m + 1) - at = m + 1
    BY <1>1b
  <2> QED
    BY <1>4, <1>6, <2>1
<1>9. \A i \in at + m + 2 .. n : new[i] = data[i]
  <2>1. TAKE i \in at + m + 2 .. n
  <2>2. i \in 1 .. n /\ i \notin at + 1 .. at + (m + 1)
    BY <1>1b
  <2> QED
    BY <1>6, <2>2
<1>10. \A i \in 1 .. at + m : new[i] # 0
  <2>1. TAKE i \in 1 .. at + m
  <2>2. CASE i <= at
    <3>1. new[i] = data[i] /\ i \in 1 .. at
      BY <1>7, <2>2
    <3> QED
      BY <1>1b, <3>1
  <2>3. CASE ~ (i <= at)
    <3>1. i - at \in 1 .. m
      BY <1>1b, <2>3
    <3>2. new[i] = s[i - at]
      BY <1>7, <2>3
    <3> QED
      BY <1>4, <3>1, <3>2
  <2> QED
    BY <2>2, <2>3
<1>11. Strlen(new) = at + m
  <2>1. at + m \in 0 .. Len(new)
    BY <1>1b, <1>6
  <2> QED
    BY <1>6, <1>8, <1>10, <2>1, StrlenIs
<1> QED
  BY <1>1, <1>1a, <1>2, <1>5, <1>6, <1>7, <1>9, <1>11

\* The same in two steps.
LEMMA PutTwice ==
  ASSUME NEW data \in Seq(Int), NEW at \in Nat, NEW s \in Seq(Letter), at + Len(s) < Len(data)
  PROVE  Put(Put(data, at, s), at + Len(s), <<0>>) = Put(data, at, s \o <<0>>)
<1>1. PICK n \in Nat : n = Len(data)
  BY LenProperties
<1>2. PICK m \in Nat : m = Len(s) /\ at + m < n
  BY <1>1, LenProperties
<1>3. PICK t : t = s \o <<0>>
  OBVIOUS
<1>4. t \in Seq(Int) /\ Len(t) = m + 1 /\ (\A i \in 1 .. m : t[i] = s[i]) /\ t[m + 1] = 0 /\ s \in Seq(Int)
  BY <1>2, <1>3, LetterFacts, WithZero, 0 \in Int
<1>5. PICK half : half = Put(data, at, s)
  OBVIOUS
<1>6. PICK new : new = Put(half, at + m, <<0>>)
  OBVIOUS
<1>7. PICK one : one = Put(data, at, t)
  OBVIOUS
<1>8. PICK z : z = <<0>>
  OBVIOUS
<1>9. z \in Seq(Int) /\ Len(z) = 1 /\ z[1] = 0
  BY <1>8, SingleZero
<1>10. IsPut(Int, half, data, at, s)
  BY <1>1, <1>2, <1>4, <1>5, PutFacts
<1>11. half \in Seq(Int) /\ Len(half) = n /\ \A i \in 1 .. n : half[i] = IF i \in at + 1 .. at + m THEN s[i - at] ELSE data[i]
  BY <1>1, <1>2, <1>10 DEF IsPut
<1>12. IsPut(Int, new, half, at + m, z)
  <2>1. at + m \in Nat /\ (at + m) + Len(z) <= Len(half)
    BY <1>2, <1>9, <1>11
  <2> QED
    BY <1>6, <1>8, <1>9, <1>11, <2>1, PutFacts
<1>13. new \in Seq(Int) /\ Len(new) = n /\ \A i \in 1 .. n : new[i] = IF i \in at + m + 1 .. at + m + 1 THEN z[i - (at + m)] ELSE half[i]
  BY <1>9, <1>11, <1>12 DEF IsPut
<1>14. IsPut(Int, one, data, at, t)
  <2>1. at + Len(t) <= Len(data)
    BY <1>1, <1>2, <1>4
  <2> QED
    BY <1>4, <1>7, <2>1, PutFacts
<1>15. one \in Seq(Int) /\ Len(one) = n /\ \A i \in 1 .. n : one[i] = IF i \in at + 1 .. at + (m + 1) THEN t[i - at] ELSE data[i]
  BY <1>1, <1>4, <1>14 DEF IsPut
<1>16. ASSUME NEW i \in 1 .. n
       PROVE  new[i] = one[i]
  <2>1. CASE i = at + m + 1
    <3>1. i \in at + m + 1 .. at + m + 1 /\ i - (at + m) = 1 /\ i \in at + 1 .. at + (m + 1) /\ i - at = m + 1
      BY <1>2, <2>1
    <3> QED
      BY <1>4, <1>9, <1>13, <1>15, <3>1
  <2>2. CASE i \in at + 1 .. at + m
    <3>1. i \notin at + m + 1 .. at + m + 1 /\ i \in at + 1 .. at + (m + 1) /\ i - at \in 1 .. m
      BY <1>2, <2>2
    <3>2. new[i] = half[i] /\ half[i] = s[i - at]
      BY <1>11, <1>13, <2>2, <3>1
    <3>3. one[i] = t[i - at]
      BY <1>15, <3>1
    <3> QED
      BY <1>4, <3>1, <3>2, <3>3
  <2>3. CASE i \notin at + 1 .. at + (m + 1)
    <3>1. i \notin at + m + 1 .. at + m + 1 /\ i \notin at + 1 .. at + m
      BY <1>2, <2>3
    <3> QED
      BY <1>11, <1>13, <1>15, <2>3, <3>1
  <2> QED
    BY <1>2, <2>1, <2>2, <2>3, SMTT(60)
<1>17. new = one
  BY <1>13, <1>15, <1>16, SeqEqual
<1> QED
  BY <1>2, <1>3, <1>5, <1>6, <1>7, <1>17

-----------------------------------------------------------------------------
(* Objects.                                                                *)

\* An object that a variable may hold.
Proper(o) ==
  /\ o \in [type : Kinds, dim : Nat, data : Seq(Int)]
  /\ Len(o.data) = o.dim + (IF o.type = "string" THEN 1 ELSE 0)
  /\ o.type = "string" => o.data[o.dim + 1] = 0
  /\ o.type \in {"string", "bytes"} => o.data \in Seq(Byte)

\* A string or a symbol: there is an end of its text.
Ended(o) == o.type \in {"string", "symbol"} /\ o.data \in Seq(Byte) /\ Strlen(o.data) < Len(o.data)

LEMMA ProperSized == ASSUME NEW o, Proper(o) PROVE Sized(o)
<1>1. o.type \in Kinds /\ o.data \in Seq(Int)
  BY DEF Proper
<1>2. \A i \in DOMAIN o.data : o.data[i] # Junk \/ o.type \in {"longs", "doubles", "array"}
  <2>1. TAKE i \in DOMAIN o.data
  <2>2. CASE o.type \in {"string", "bytes"}
    <3>1. o.data \in Seq(Byte)
      BY <2>2 DEF Proper
    <3>2. i \in 1 .. Len(o.data)
      BY <1>1, LenProperties
    <3>3. o.data[i] \in Byte
      BY <3>1, <3>2, ByteFacts
    <3> QED
      BY <3>3 DEF Byte, Junk
  <2> QED
    BY <1>1, <2>2 DEF Kinds
<1> QED
  BY <1>2 DEF Proper, Sized

LEMMA ProperText ==
  ASSUME NEW o, Proper(o), o.type = "string"
  PROVE  Ended(o) /\ Len(o.data) = o.dim + 1 /\ o.dim \in Nat /\ Strlen(o.data) \in 0 .. o.dim
<1>1. o.data \in Seq(Byte) /\ o.data \in Seq(Int) /\ Len(o.data) = o.dim + 1 /\ o.data[o.dim + 1] = 0 /\ o.dim \in Nat
  BY DEF Proper
<1>2. PICK k : k = Strlen(o.data)
  OBVIOUS
<1>3. k \in 0 .. Len(o.data) /\ \A i \in 1 .. k : o.data[i] # 0
  BY <1>1, <1>2, StrlenFacts
<1>4. k # o.dim + 1
  <2>1. SUFFICES ASSUME k = o.dim + 1 PROVE FALSE
    OBVIOUS
  <2>2. o.dim + 1 \in 1 .. k
    BY <1>1, <2>1
  <2> QED
    BY <1>1, <1>3, <2>2
<1> QED
  BY <1>1, <1>2, <1>3, <1>4 DEF Ended

LEMMA TextFacts ==
  ASSUME NEW o, o.data \in Seq(Byte)
  PROVE  /\ Text(o) \in Seq(Letter) /\ Len(Text(o)) = Strlen(o.data)
         /\ \A i \in 1 .. Strlen(o.data) : Text(o)[i] = o.data[i]
<1>1. PICK d : d = o.data
  OBVIOUS
<1>2. PICK k : k = Strlen(d)
  OBVIOUS
<1>3. d \in Seq(Byte) /\ d \in Seq(Int) /\ \A i \in 1 .. Len(d) : d[i] \in Byte
  BY <1>1, ByteFacts
<1>4. k \in 0 .. Len(d) /\ \A i \in 1 .. k : d[i] # 0
  BY <1>2, <1>3, StrlenFacts
<1>5. Len(d) \in Nat
  BY <1>3, LenProperties
<1>6. \A i \in 1 .. k : d[i] \in Letter
  <2>1. TAKE i \in 1 .. k
  <2>2. d[i] \in Byte /\ d[i] # 0
    BY <1>3, <1>4, <1>5
  <2> QED
    BY <2>2 DEF Byte, Letter
<1>7. PICK t : t = SubSeq(d, 1, k)
  OBVIOUS
<1>8. t \in Seq(Letter) /\ Len(t) = (IF 1 <= k THEN k - 1 + 1 ELSE 0) /\ \A i \in 1 .. k - 1 + 1 : t[i] = d[1 + i - 1]
  BY <1>4, <1>5, <1>6, <1>7, SubSeqProperties
<1>9. Len(t) = k /\ \A i \in 1 .. k : t[i] = d[i]
  BY <1>4, <1>5, <1>8
<1> QED
  BY <1>1, <1>2, <1>7, <1>8, <1>9 DEF Text

\* strcons of bytes, and of a text.
LEMMA StrconsMade ==
  ASSUME NEW s \in Seq(Byte)
  PROVE  /\ Proper(Strcons(s)) /\ Strcons(s).type = "string" /\ Strcons(s).dim = Len(s)
         /\ Strcons(s).data = s \o <<0>> /\ Data(Strcons(s)) = s
<1>1. PICK t : t = s \o <<0>>
  OBVIOUS
<1>2. t \in Seq(Byte) /\ Len(t) = Len(s) + 1 /\ (\A i \in 1 .. Len(s) : t[i] = s[i]) /\ t[Len(s) + 1] = 0
  BY <1>1, WithZero, 0 \in Byte DEF Byte
<1>3. t \in Seq(Int) /\ s \in Seq(Int) /\ Len(s) \in Nat
  BY <1>2, ByteFacts
<1>4. SubSeq(t, 1, Len(s)) = s
  <2>1. PICK u : u = SubSeq(t, 1, Len(s))
    OBVIOUS
  <2>2. \A i \in 1 .. Len(s) : t[i] \in Int
    BY <1>2, <1>3, ByteFacts
  <2>3. u \in Seq(Int) /\ Len(u) = (IF 1 <= Len(s) THEN Len(s) - 1 + 1 ELSE 0) /\ \A i \in 1 .. Len(s) - 1 + 1 : u[i] = t[1 + i - 1]
    BY <1>3, <2>1, <2>2, SubSeqProperties
  <2>4. Len(u) = Len(s) /\ \A i \in 1 .. Len(u) : u[i] = s[i]
    BY <1>2, <1>3, <2>3
  <2> QED
    BY <1>3, <2>1, <2>3, <2>4, SeqEqual
<1>5. PICK o : o = Strcons(s)
  OBVIOUS
<1>6. o = [type |-> "string", dim |-> Len(s), data |-> t]
  BY <1>1, <1>5 DEF Strcons, Obj
<1>7. Proper(o)
  BY <1>2, <1>3, <1>6 DEF Proper, Kinds
<1>8. Data(o) = s
  BY <1>4, <1>6 DEF Data
<1> QED
  BY <1>1, <1>5, <1>6, <1>7, <1>8

LEMMA StrconsText ==
  ASSUME NEW s \in Seq(Letter)
  PROVE  /\ Proper(Strcons(s)) /\ Strcons(s).type = "string" /\ Strcons(s).dim = Len(s)
         /\ Strcons(s).data = s \o <<0>> /\ Data(Strcons(s)) = s
         /\ Strlen(Strcons(s).data) = Len(s) /\ Text(Strcons(s)) = s
<1>1. s \in Seq(Byte) /\ s \in Seq(Int) /\ Len(s) \in Nat /\ \A i \in 1 .. Len(s) : s[i] # 0
  BY LetterFacts
<1>2. PICK o : o = Strcons(s)
  OBVIOUS
<1>3. Proper(o) /\ o.type = "string" /\ o.dim = Len(s) /\ o.data = s \o <<0>> /\ Data(o) = s
  BY <1>1, <1>2, StrconsMade
<1>4. PICK t : t = s \o <<0>>
  OBVIOUS
<1>5. t \in Seq(Int) /\ Len(t) = Len(s) + 1 /\ (\A i \in 1 .. Len(s) : t[i] = s[i]) /\ t[Len(s) + 1] = 0
  BY <1>1, <1>4, WithZero, 0 \in Int
<1>5a. Len(s) \in 0 .. Len(t) /\ \A i \in 1 .. Len(s) : t[i] # 0
  BY <1>1, <1>5
<1>6. Strlen(t) = Len(s)
  BY <1>5, <1>5a, StrlenIs
<1>7. Text(o) = SubSeq(o.data, 1, o.dim) /\ Data(o) = SubSeq(o.data, 1, o.dim)
  BY <1>3, <1>4, <1>6 DEF Text, Data
<1> QED
  BY <1>2, <1>3, <1>4, <1>6, <1>7

LEMMA TextNone == Text(Strcons(<<>>)) = <<>>
  BY StrconsText, EmptySeq

-----------------------------------------------------------------------------
(* Functions that go on from the place before.                             *)

\* Two functions on 0 .. n begin alike, and go on alike from where they are.
Alike(f, g, n) ==
  /\ n \in Nat /\ f = [i \in 0 .. n |-> f[i]] /\ g = [i \in 0 .. n |-> g[i]]
  /\ f[0] = g[0] /\ \A i \in 1 .. n : f[i - 1] = g[i - 1] => f[i] = g[i]

LEMMA Agree == ASSUME NEW n, NEW f, NEW g, Alike(f, g, n) PROVE f = g
<1> USE DEF Alike
<1> DEFINE S == {k \in Nat : k <= n => f[k] = g[k]}
<1>1. 0 \in S
  OBVIOUS
<1>2. ASSUME NEW k \in Nat, k \in S
      PROVE  k + 1 \in S
  <2>1. SUFFICES ASSUME k + 1 <= n PROVE f[k + 1] = g[k + 1]
    OBVIOUS
  <2>2. k + 1 \in 1 .. n /\ (k + 1) - 1 = k /\ f[k] = g[k]
    BY <1>2, <2>1
  <2> QED
    BY <2>2
<1> HIDE DEF S
<1>3. Nat \subseteq S
  BY <1>1, <1>2, Induction
<1>4. \A i \in 0 .. n : f[i] = g[i]
  BY <1>3 DEF S
<1> QED
  BY <1>4

LEMMA ShiftedEquation ==
  ASSUME NEW v \in Int
  PROVE  Shifted(v) \in [0 .. LongBytes -> Int]
<1> DEFINE step == [i \in 1 .. LongBytes |-> [x \in Int |-> x \div 256]]
<1>0. LongBytes \in Nat
  BY StringsAssumption
<1>1. step \in [1 .. LongBytes -> [Int -> Int]]
  OBVIOUS
<1>2. \A i \in 1 .. LongBytes : \A x \in Int : step[i][x] = x \div 256
  OBVIOUS
<1> HIDE DEF step
<1>3. PICK f \in [0 .. LongBytes -> Int] : Follows(f, LongBytes, v, step)
  BY <1>0, <1>1, Recursion, v \in Int, Zenon
<1>4. f[0] = v /\ \A i \in 1 .. LongBytes : f[i] = f[i - 1] \div 256
  <2>1. f[0] = v
    BY <1>3 DEF Follows
  <2>2. ASSUME NEW i \in 1 .. LongBytes
        PROVE  f[i] = f[i - 1] \div 256
    <3>1. i - 1 \in 0 .. LongBytes
      BY <1>0
    <3>2. PICK x \in Int : x = f[i - 1]
      BY <1>3, <3>1
    <3>3. f[i] = step[i][x]
      BY <1>3, <3>2 DEF Follows
    <3> QED
      BY <1>2, <3>2, <3>3, ZenonT(60)
  <2> QED
    BY <2>1, <2>2
<1>5. f = [i \in 0 .. LongBytes |-> IF i = 0 THEN v ELSE f[i - 1] \div 256]
  BY <1>0, <1>4
<1>6. Shifted(v) = [i \in 0 .. LongBytes |-> IF i = 0 THEN v ELSE Shifted(v)[i - 1] \div 256]
  BY <1>5, ZenonT(60) DEF Shifted
<1>7. Shifted(v) = f
  <2>1. PICK g : g = Shifted(v)
    OBVIOUS
  <2>2. g = [i \in 0 .. LongBytes |-> IF i = 0 THEN v ELSE g[i - 1] \div 256]
    BY <1>6, <2>1
  <2>3. g = [i \in 0 .. LongBytes |-> g[i]] /\ f = [i \in 0 .. LongBytes |-> f[i]] /\ g[0] = f[0]
    BY <1>0, <1>4, <2>2
  <2>4. \A i \in 1 .. LongBytes : g[i - 1] = f[i - 1] => g[i] = f[i]
    BY <1>0, <1>4, <2>2
  <2>5. Alike(g, f, LongBytes)
    BY <1>0, <2>3, <2>4 DEF Alike
  <2> QED
    BY <2>1, <2>5, Agree
<1> QED
  BY <1>7

\* The place of a byte is in one of the longs.
LEMMA LongPlace ==
  ASSUME NEW n \in Nat, NEW i \in 1 .. LongBytes * n
  PROVE  (i - 1) \div LongBytes + 1 \in 1 .. n /\ (i - 1) % LongBytes \in 0 .. LongBytes
<1>1. PICK L \in Nat : L = LongBytes /\ L > 0
  BY StringsAssumption
<1>2. L * n \in Nat
  BY <1>1
<1>3. PICK m \in Nat : m = i - 1 /\ m < L * n
  BY <1>1, <1>2
<1>4. PICK q : q = m \div L
  OBVIOUS
<1>5. PICK r : r = m % L
  OBVIOUS
<1>6. q \in Nat /\ r \in 0 .. L - 1 /\ m = q * L + r
  BY <1>1, <1>3, <1>4, <1>5
<1>7. ~ (n < q) /\ n # q
  <2>1. ASSUME n < q PROVE FALSE
    <3>1. n * L + L <= q * L
      BY <1>1, <1>6, <2>1, TimesStrict
    <3>2. n * L = L * n /\ q * L \in Nat
      BY <1>1, <1>6
    <3> QED
      BY <1>1, <1>2, <1>3, <1>6, <3>1, <3>2
  <2>2. n # q
    <3>1. n * L = L * n
      BY <1>1
    <3> QED
      BY <1>1, <1>2, <1>3, <1>6, <3>1
  <2> QED
    BY <2>1, <2>2
<1>8. q + 1 \in 1 .. n /\ r \in 0 .. L
  BY <1>1, <1>6, <1>7
<1> QED
  BY <1>1, <1>3, <1>4, <1>5, <1>8

LEMMA LongsBytes ==
  ASSUME NEW data \in Seq(Int)
  PROVE  Longs(data) \in Seq(Byte)
<1>1. Len(data) \in Nat /\ LongBytes \in Nat
  BY LenProperties, StringsAssumption
<1>2. PICK n : n = LongBytes * Len(data)
  OBVIOUS
<1>3. n \in Nat
  BY <1>1, <1>2
<1>4. PICK f : f = Longs(data)
  OBVIOUS
<1>5. f = [i \in 1 .. n |-> Shifted(data[(i - 1) \div LongBytes + 1])[(i - 1) % LongBytes] % 256]
  BY <1>2, <1>4, SMTT(60) DEF Longs
<1>6. ASSUME NEW i \in 1 .. n
      PROVE  f[i] \in Byte
  <2>1. (i - 1) \div LongBytes + 1 \in 1 .. Len(data) /\ (i - 1) % LongBytes \in 0 .. LongBytes
    BY <1>1, <1>2, LongPlace
  <2>2. PICK v : v = data[(i - 1) \div LongBytes + 1]
    OBVIOUS
  <2>3. v \in Int
    BY <2>1, <2>2, ElementOfSeq
  <2>4. Shifted(v)[(i - 1) % LongBytes] \in Int
    BY <2>1, <2>3, ShiftedEquation
  <2>5. PICK w \in Int : w = Shifted(v)[(i - 1) % LongBytes]
    BY <2>4
  <2>6. w % 256 \in 0 .. 255
    OBVIOUS
  <2> QED
    BY <1>5, <2>2, <2>5, <2>6 DEF Byte
<1>7. f = [i \in 1 .. n |-> f[i]]
  BY <1>5
<1> QED
  BY <1>3, <1>4, <1>6, <1>7, Listed, ZenonT(60)

-----------------------------------------------------------------------------
(* The bytes of an object, and parts of them.                              *)

LEMMA PartFacts ==
  ASSUME NEW S, NEW s \in Seq(S), NEW m \in 1 .. Len(s) + 1, NEW n \in m - 1 .. Len(s)
  PROVE  /\ SubSeq(s, m, n) \in Seq(S) /\ Len(SubSeq(s, m, n)) = n - m + 1
         /\ \A i \in 1 .. n - m + 1 : SubSeq(s, m, n)[i] = s[m + i - 1]
<1>1. Len(s) \in Nat /\ \A i \in m .. n : s[i] \in S
  BY LenProperties, ElementOfSeq
<1>2. m \in Int /\ n \in Int
  BY <1>1
<1>3. /\ SubSeq(s, m, n) \in Seq(S)
      /\ Len(SubSeq(s, m, n)) = IF m <= n THEN n - m + 1 ELSE 0
      /\ \A i \in 1 .. n - m + 1 : SubSeq(s, m, n)[i] = s[m + i - 1]
  BY <1>1, <1>2, SubSeqProperties
<1> QED
  BY <1>1, <1>2, <1>3

LEMMA DataFacts ==
  ASSUME NEW o, Proper(o), Dimmed(o)
  PROVE  /\ Data(o) \in Seq(Byte)
         /\ o.type \in {"string", "bytes"} => /\ Data(o) = SubSeq(o.data, 1, o.dim) /\ Len(Data(o)) = o.dim
                                              /\ \A i \in 1 .. o.dim : Data(o)[i] = o.data[i]
<1>1. o.type \in {"string", "bytes", "longs"} /\ o.data \in Seq(Int) /\ o.dim \in Nat
  BY DEF Proper, Kinds, Dimmed
<1>2. CASE o.type = "longs"
  BY <1>1, <1>2, LongsBytes DEF Data
<1>3. CASE o.type \in {"string", "bytes"}
  <2>1. o.data \in Seq(Byte) /\ Len(o.data) \in Nat /\ o.dim <= Len(o.data)
    BY <1>1, <1>3, LenProperties DEF Proper
  <2>2. Data(o) = SubSeq(o.data, 1, o.dim)
    BY <1>3 DEF Data
  <2>3. PICK t : t = SubSeq(o.data, 1, o.dim)
    OBVIOUS
  <2>4. 1 \in 1 .. Len(o.data) + 1 /\ o.dim \in 1 - 1 .. Len(o.data)
    BY <1>1, <2>1
  <2>5. t \in Seq(Byte) /\ Len(t) = o.dim - 1 + 1 /\ \A i \in 1 .. o.dim - 1 + 1 : t[i] = o.data[1 + i - 1]
    BY <2>1, <2>3, <2>4, PartFacts
  <2>6. Len(t) = o.dim /\ \A i \in 1 .. o.dim : t[i] = o.data[i]
    BY <1>1, <2>5
  <2> QED
    BY <2>2, <2>3, <2>5, <2>6
<1> QED
  BY <1>1, <1>2, <1>3

LEMMA SubstringIs ==
  ASSUME NEW o, Dimmed(o), Data(o) \in Seq(Byte), NEW k \in 0 .. Len(Data(o))
  PROVE  /\ Substring(o, k, -1) = Strcons(SubSeq(Data(o), k + 1, Len(Data(o))))
         /\ \A e \in k .. Len(Data(o)) : /\ Substring(o, k, e) = Strcons(SubSeq(Data(o), k + 1, e))
                                         /\ SubSeq(Data(o), k + 1, e) \in Seq(Byte)
<1>1. PICK d \in Seq(Byte) : d = Data(o)
  OBVIOUS
<1>2. PICK n \in Nat : n = Len(d)
  BY LenProperties
<1>3. Substring(o, k, -1) = Strcons(SubSeq(d, k + 1, n))
  BY <1>1, <1>2 DEF Substring
<1>4. ASSUME NEW e \in k .. n
      PROVE  /\ Substring(o, k, e) = Strcons(SubSeq(d, k + 1, e))
             /\ SubSeq(d, k + 1, e) \in Seq(Byte)
  <2>1. Substring(o, k, e) = Strcons(SubSeq(d, k + 1, e))
    BY <1>1, <1>2 DEF Substring
  <2>2. k + 1 \in 1 .. Len(d) + 1 /\ e \in (k + 1) - 1 .. Len(d)
    BY <1>1, <1>2
  <2> QED
    BY <2>1, <2>2, PartFacts
<1> QED
  BY <1>1, <1>2, <1>3, <1>4

\* Whatever the bounds are, a substring is of a part, or fails.
LEMMA SubstringProper ==
  ASSUME NEW o, Dimmed(o), Data(o) \in Seq(Byte), NEW s \in Int, NEW e \in Int
  PROVE  Substring(o, s, e) = Failed \/ Proper(Substring(o, s, e))
<1>1. PICK n \in Nat : n = Len(Data(o))
  BY LenProperties
<1>2. CASE e = -1 /\ s \in 0 .. n
  <2>1. Substring(o, s, e) = Strcons(SubSeq(Data(o), s + 1, n)) /\ SubSeq(Data(o), s + 1, n) \in Seq(Byte)
    BY <1>1, <1>2, SubstringIs
  <2> QED
    BY <2>1, StrconsMade
<1>3. CASE e # -1 /\ s \in 0 .. n /\ e \in s .. n
  <2>1. Substring(o, s, e) = Strcons(SubSeq(Data(o), s + 1, e)) /\ SubSeq(Data(o), s + 1, e) \in Seq(Byte)
    BY <1>1, <1>3, SubstringIs
  <2> QED
    BY <2>1, StrconsMade
<1>4. CASE ~ (s \in 0 .. n /\ (e = -1 \/ e \in s .. n))
  <2>1. CASE e = -1
    <3>1. s < 0 \/ s > n
      BY <1>4, <2>1
    <3> QED
      BY <1>1, <2>1, <3>1 DEF Substring
  <2>2. CASE e # -1
    <3>1. s < 0 \/ s > e \/ e > n
      BY <1>4, <2>2
    <3> QED
      BY <1>1, <2>2, <3>1 DEF Substring
  <2> QED
    BY <2>1, <2>2
<1> QED
  BY <1>2, <1>3, <1>4

-----------------------------------------------------------------------------
(* What one object is alone.                                               *)

LEMMA Stored ==
  ASSUME NEW a, Proper(a), NEW k \in Nat, NEW v \in Int
  PROVE  /\ k < a.dim => /\ Aset1(a, k, v).type = a.type /\ Aset1(a, k, v).dim = a.dim
                         /\ Aset1(a, k, v).data[k + 1] = IF a.type \in {"string", "bytes"} THEN v % 256 ELSE v
                         /\ Proper(Aset1(a, k, v))
         /\ k >= a.dim => Aset1(a, k, v) = Failed
<1>1. a \in [type : Kinds, dim : Nat, data : Seq(Int)] /\ a.type # "symbol" /\ a.dim \in Nat
  BY DEF Proper, Kinds
<1>2. ASSUME k >= a.dim PROVE Aset1(a, k, v) = Failed
  BY <1>1, <1>2 DEF Aset1
<1>3. ASSUME k < a.dim
      PROVE  /\ Aset1(a, k, v).type = a.type /\ Aset1(a, k, v).dim = a.dim
             /\ Aset1(a, k, v).data[k + 1] = IF a.type \in {"string", "bytes"} THEN v % 256 ELSE v
             /\ Proper(Aset1(a, k, v))
  <2>1. PICK w : w = IF a.type \in {"string", "bytes"} THEN v % 256 ELSE v
    OBVIOUS
  <2>2. w \in Int /\ (a.type \in {"string", "bytes"} => w \in Byte)
    BY <2>1 DEF Byte
  <2>3. PICK d : d = a.data
    OBVIOUS
  <2>4. d \in Seq(Int) /\ Len(d) \in Nat /\ k + 1 \in 1 .. Len(d) /\ (a.type = "string" => k + 1 # a.dim + 1)
    <3>1. d \in Seq(Int) /\ Len(d) = a.dim + (IF a.type = "string" THEN 1 ELSE 0)
      BY <1>1, <2>3 DEF Proper
    <3> QED
      BY <1>1, <1>3, <3>1
  <2>5. PICK new : new = [d EXCEPT ![k + 1] = w]
    OBVIOUS
  <2>6. new \in Seq(Int) /\ Len(new) = Len(d) /\ \A j \in 1 .. Len(d) : new[j] = IF j = k + 1 THEN w ELSE d[j]
    BY <2>2, <2>4, <2>5, ExceptSeq
  <2>7. a.type \in {"string", "bytes"} => new \in Seq(Byte)
    <3>1. SUFFICES ASSUME a.type \in {"string", "bytes"} PROVE new \in Seq(Byte)
      OBVIOUS
    <3>2. d \in Seq(Byte) /\ w \in Byte
      BY <2>2, <2>3, <3>1 DEF Proper
    <3> QED
      BY <2>4, <2>5, <3>2, ExceptSeq
  <2>8. PICK o : o = Aset1(a, k, v)
    OBVIOUS
  <2>9. o = [a EXCEPT !.data = new]
    BY <1>1, <1>3, <2>1, <2>3, <2>5, <2>8 DEF Aset1
  <2>10. o \in [type : Kinds, dim : Nat, data : Seq(Int)] /\ o.type = a.type /\ o.dim = a.dim /\ o.data = new
    BY <1>1, <2>6, <2>9
  <2>11. Len(o.data) = o.dim + (IF o.type = "string" THEN 1 ELSE 0)
    BY <2>3, <2>6, <2>10 DEF Proper
  <2>12. o.type = "string" => o.data[o.dim + 1] = 0
    <3>1. SUFFICES ASSUME a.type = "string" PROVE new[a.dim + 1] = 0
      BY <2>10
    <3>2. Len(d) = a.dim + 1 /\ d[a.dim + 1] = 0
      BY <2>3, <3>1 DEF Proper
    <3>3. a.dim + 1 \in 1 .. Len(d) /\ a.dim + 1 # k + 1
      BY <1>1, <2>4, <3>1, <3>2
    <3> QED
      BY <2>6, <3>2, <3>3
  <2>13. Proper(o)
    BY <2>7, <2>10, <2>11, <2>12 DEF Proper
  <2>14. o.data[k + 1] = w
    BY <2>4, <2>6, <2>10
  <2> QED
    BY <2>1, <2>8, <2>10, <2>13, <2>14
<1> QED
  BY <1>2, <1>3

LEMMA StoredFoundAlways == ASSUME NEW a, Proper(a) PROVE StoredFound(a)
<1>1. a \in [type : Kinds, dim : Nat, data : Seq(Int)] /\ a.type # "symbol" /\ a.dim \in Nat
  BY DEF Proper, Kinds
<1>2. SUFFICES ASSUME NEW k \in 0 .. a.dim, NEW v \in Values
               PROVE  Aref1(Aset1(a, k, v), k) = IF k = a.dim THEN "failed" ELSE IF a.type = "string" THEN v % 256
                                                 ELSE IF a.type = "bytes" THEN Signed(v % 256) ELSE v
  BY DEF StoredFound
<1>3. v \in Int /\ k \in Nat
  BY <1>1, StringsAssumption
<1>4. PICK o : o = Aset1(a, k, v)
  OBVIOUS
<1>5. CASE k = a.dim
  <2>1. o = Failed
    BY <1>1, <1>3, <1>4, <1>5, Stored
  <2>2. o.dim = 0
    BY <2>1 DEF Failed, Obj
  <2> QED
    BY <1>1, <1>3, <1>4, <1>5, <2>2 DEF Aref1
<1>6. CASE k # a.dim
  <2>1. k < a.dim
    BY <1>1, <1>6
  <2>2. o.type = a.type /\ o.dim = a.dim /\ o.data[k + 1] = IF a.type \in {"string", "bytes"} THEN v % 256 ELSE v
    BY <1>3, <1>4, <2>1, Stored
  <2>3. Aref1(o, k) = IF o.type = "bytes" THEN Signed(o.data[k + 1]) ELSE o.data[k + 1]
    BY <1>1, <1>3, <2>1, <2>2 DEF Aref1
  <2> QED
    BY <1>4, <1>6, <2>2, <2>3
<1> QED
  BY <1>5, <1>6

-----------------------------------------------------------------------------
(* One or two objects behind one another.                                  *)

LEMMA SumsFew ==
  ASSUME NEW lens \in Seq(Nat), Len(lens) \in {1, 2}
  PROVE  /\ Sums(lens)[0] = 0 /\ Sums(lens)[1] = lens[1]
         /\ Len(lens) = 1 => Sum(lens) = lens[1]
         /\ Len(lens) = 2 => Sum(lens) = lens[1] + lens[2]
<1>1. PICK n \in {1, 2} : n = Len(lens)
  OBVIOUS
<1> DEFINE f == [i \in 0 .. n |-> IF i = 0 THEN 0 ELSE IF i = 1 THEN lens[1] ELSE lens[1] + lens[2]]
<1>2. \A i \in 1 .. n : lens[i] \in Nat
  BY <1>1, ElementOfSeq
<1>3. f = [i \in 0 .. n |-> IF i = 0 THEN 0 ELSE f[i - 1] + lens[i]]
  BY <1>1, <1>2
<1> HIDE DEF f
<1>4. PICK g : g = Sums(lens)
  OBVIOUS
<1>5. g = [i \in 0 .. n |-> IF i = 0 THEN 0 ELSE g[i - 1] + lens[i]]
  BY <1>1, <1>3, <1>4 DEF Sums
<1>6. 0 \in 0 .. n /\ 1 \in 0 .. n /\ (n = 2 => 2 \in 0 .. n) /\ 1 - 1 = 0 /\ 2 - 1 = 1
  BY <1>1
<1>7. g[0] = 0
  BY <1>5, <1>6
<1>8. g[1] = g[0] + lens[1]
  BY <1>5, <1>6
<1>9. g[1] = lens[1]
  BY <1>1, <1>2, <1>7, <1>8
<1>10. n = 2 => g[2] = g[1] + lens[2]
  BY <1>5, <1>6
<1> QED
  BY <1>1, <1>4, <1>7, <1>9, <1>10 DEF Sum

LEMMA MemcpyTwo ==
  ASSUME NEW data, NEW p, NEW q, Len(p) \in Nat, Len(q) \in Nat
  PROVE  Memcpy(data, <<p, q>>)[2] = Put(Put(data, 0, p), Len(p), q)
<1>1. PICK parts : parts = <<p, q>>
  OBVIOUS
<1>2. Len(parts) = 2 /\ DOMAIN parts = 1 .. 2 /\ parts[1] = p /\ parts[2] = q
  BY <1>1
<1>3. PICK lens : lens = [k \in DOMAIN parts |-> Len(parts[k])]
  OBVIOUS
<1>4. lens \in Seq(Nat) /\ Len(lens) = 2 /\ lens[1] = Len(p)
  <2>1. lens = [k \in 1 .. 2 |-> Len(parts[k])]
    BY <1>2, <1>3
  <2>2. \A k \in 1 .. 2 : lens[k] \in Nat
    BY <1>2, <2>1
  <2>3. lens = [k \in 1 .. 2 |-> lens[k]]
    BY <2>1
  <2> QED
    BY <1>2, <2>1, <2>2, <2>3, Listed
<1>5. Sums(lens)[0] = 0 /\ Sums(lens)[1] = Len(p)
  BY <1>4, SumsFew
<1> DEFINE f == [i \in 0 .. 2 |-> IF i = 0 THEN data ELSE IF i = 1 THEN Put(data, 0, p) ELSE Put(Put(data, 0, p), Len(p), q)]
<1>6. f = [i \in 0 .. 2 |-> IF i = 0 THEN data ELSE Put(f[i - 1], Sums(lens)[i - 1], parts[i])]
  BY <1>2, <1>5
<1> HIDE DEF f
<1>7. PICK g : g = Memcpy(data, parts)
  OBVIOUS
<1>8. g = [i \in 0 .. 2 |-> IF i = 0 THEN data ELSE Put(g[i - 1], Sums(lens)[i - 1], parts[i])]
  BY <1>2, <1>3, <1>6, <1>7 DEF Memcpy
<1>9. g[0] = data /\ g[1] = Put(g[0], 0, p) /\ g[2] = Put(g[1], Len(p), q)
  <2>1. 0 \in 0 .. 2 /\ 1 \in 0 .. 2 /\ 2 \in 0 .. 2 /\ 1 - 1 = 0 /\ 2 - 1 = 1
    OBVIOUS
  <2> QED
    BY <1>2, <1>5, <1>8, <2>1
<1> QED
  BY <1>1, <1>7, <1>9

LEMMA FilledFacts ==
  ASSUME NEW n \in Nat, NEW byte \in Int
  PROVE  Filled(n, byte) \in Seq(Int) /\ Len(Filled(n, byte)) = n /\ \A i \in 1 .. n : Filled(n, byte)[i] = byte
  BY DEF Filled

\* Two parts fill a buffer that is as large as both.
LEMMA PutBoth ==
  ASSUME NEW p \in Seq(Byte), NEW q \in Seq(Byte), NEW data \in Seq(Int), Len(data) = Len(p) + Len(q)
  PROVE  Put(Put(data, 0, p), Len(p), q) = p \o q
<1>1. PICK m \in Nat : m = Len(p)
  BY LenProperties
<1>2. PICK n \in Nat : n = Len(q)
  BY LenProperties
<1>3. p \in Seq(Int) /\ q \in Seq(Int)
  BY ByteFacts
<1>4. PICK half : half = Put(data, 0, p)
  OBVIOUS
<1>5. PICK new : new = Put(half, m, q)
  OBVIOUS
<1>6. PICK one : one = p \o q
  OBVIOUS
<1>7. IsPut(Int, half, data, 0, p)
  <2>1. 0 + Len(p) <= Len(data)
    BY <1>1, <1>2
  <2> QED
    BY <1>3, <1>4, <2>1, PutFacts
<1>8. half \in Seq(Int) /\ Len(half) = m + n /\ \A i \in 1 .. m + n : half[i] = IF i \in 0 + 1 .. 0 + m THEN p[i - 0] ELSE data[i]
  BY <1>1, <1>2, <1>7 DEF IsPut
<1>9. IsPut(Int, new, half, m, q)
  <2>1. m + Len(q) <= Len(half)
    BY <1>2, <1>8
  <2> QED
    BY <1>3, <1>5, <1>8, <2>1, PutFacts
<1>10. new \in Seq(Int) /\ Len(new) = m + n /\ \A i \in 1 .. m + n : new[i] = IF i \in m + 1 .. m + n THEN q[i - m] ELSE half[i]
  BY <1>2, <1>8, <1>9 DEF IsPut
<1>11. one \in Seq(Int) /\ Len(one) = m + n /\ \A i \in 1 .. m + n : one[i] = IF i <= m THEN p[i] ELSE q[i - m]
  <2>1. /\ one \in Seq(Int) /\ Len(one) = Len(p) + Len(q)
        /\ \A i \in 1 .. Len(p) + Len(q) : one[i] = IF i <= Len(p) THEN p[i] ELSE q[i - Len(p)]
    BY <1>3, <1>6, ConcatProperties
  <2> QED
    BY <1>1, <1>2, <2>1
<1>12. ASSUME NEW i \in 1 .. m + n
       PROVE  new[i] = one[i]
  <2>1. CASE i <= m
    <3>1. i \notin m + 1 .. m + n /\ i \in 0 + 1 .. 0 + m /\ i - 0 = i
      BY <2>1
    <3> QED
      BY <1>8, <1>10, <1>11, <2>1, <3>1
  <2>2. CASE ~ (i <= m)
    <3>1. i \in m + 1 .. m + n
      BY <2>2
    <3> QED
      BY <1>10, <1>11, <2>2, <3>1
  <2> QED
    BY <2>1, <2>2
<1>13. new = one
  BY <1>10, <1>11, <1>12, SeqEqual
<1> QED
  BY <1>1, <1>4, <1>5, <1>6, <1>13

LEMMA BytesAppendTwo ==
  ASSUME NEW a, NEW b, Dimmed(a), Dimmed(b), Data(a) \in Seq(Byte), Data(b) \in Seq(Byte)
  PROVE  BytesAppend(<<a, b>>) = Obj("bytes", Len(Data(a)) + Len(Data(b)), Data(a) \o Data(b))
<1>1. PICK p \in Seq(Byte) : p = Data(a)
  OBVIOUS
<1>2. PICK q \in Seq(Byte) : q = Data(b)
  OBVIOUS
<1>3. PICK m \in Nat : m = Len(p)
  BY LenProperties
<1>4. PICK n \in Nat : n = Len(q)
  BY LenProperties
<1>5. PICK args : args = <<a, b>>
  OBVIOUS
<1>6. Len(args) = 2 /\ DOMAIN args = 1 .. 2 /\ args[1] = a /\ args[2] = b
  BY <1>5
<1>7. PICK parts : parts = [i \in DOMAIN args |-> Data(args[i])]
  OBVIOUS
<1>8. parts = <<p, q>>
  BY <1>1, <1>2, <1>6, <1>7
<1>9. PICK lens : lens = [i \in DOMAIN args |-> Len(parts[i])]
  OBVIOUS
<1>10. Sum(lens) = m + n
  <2>1. lens = [k \in 1 .. 2 |-> Len(parts[k])] /\ parts[1] = p /\ parts[2] = q
    BY <1>6, <1>8, <1>9
  <2>2. \A k \in 1 .. 2 : lens[k] \in Nat
    BY <1>3, <1>4, <2>1
  <2>3. lens = [k \in 1 .. 2 |-> lens[k]] /\ lens[1] = m /\ lens[2] = n
    BY <1>3, <1>4, <2>1
  <2>4. lens \in Seq(Nat) /\ Len(lens) = 2
    BY <2>2, <2>3, Listed
  <2> QED
    BY <2>3, <2>4, SumsFew
<1>11. PICK room : room = Arcons(Sum(lens), FALSE)
  OBVIOUS
<1>12. PICK data : data = Filled(m + n, Junk)
  OBVIOUS
<1>13. room = [type |-> "bytes", dim |-> m + n, data |-> data]
  BY <1>10, <1>11, <1>12 DEF Arcons, Obj
<1>14. data \in Seq(Int) /\ Len(data) = m + n
  BY <1>12, FilledFacts DEF Junk
<1>15. Memcpy(data, parts)[2] = p \o q
  <2>1. Memcpy(data, parts)[2] = Put(Put(data, 0, p), Len(p), q)
    BY <1>3, <1>4, <1>8, MemcpyTwo
  <2>2. Put(Put(data, 0, p), Len(p), q) = p \o q
    BY <1>3, <1>4, <1>14, PutBoth
  <2> QED
    BY <2>1, <2>2
<1>16. BytesAppend(args) = [room EXCEPT !.data = Memcpy(@, parts)[Len(args)]]
  <2>1. ~ \E i \in DOMAIN args : ~ Dimmed(args[i])
    BY <1>6
  <2> QED
    BY <1>7, <1>9, <1>11, <2>1 DEF BytesAppend
<1>17. BytesAppend(args) = [type |-> "bytes", dim |-> m + n, data |-> p \o q]
  BY <1>6, <1>13, <1>15, <1>16
<1> QED
  BY <1>1, <1>2, <1>3, <1>4, <1>5, <1>17 DEF Obj

LEMMA BytesMade ==
  ASSUME NEW s \in Seq(Byte)
  PROVE  Proper(Obj("bytes", Len(s), s)) /\ Data(Obj("bytes", Len(s), s)) = s
<1>1. PICK o : o = Obj("bytes", Len(s), s)
  OBVIOUS
<1>2. o = [type |-> "bytes", dim |-> Len(s), data |-> s]
  BY <1>1 DEF Obj
<1>3. s \in Seq(Int) /\ Len(s) \in Nat
  BY ByteFacts
<1>4. Proper(o)
  BY <1>2, <1>3 DEF Proper, Kinds
<1>5. Data(o) = SubSeq(s, 1, Len(s))
  BY <1>2 DEF Data
<1>6. Data(o) = s
  BY <1>5, SubSeqFull
<1> QED
  BY <1>1, <1>4, <1>6

\* Nothing differs from itself, not even in the case.
LEMMA CaseSelf == ASSUME NEW s \in Seq(Int) PROVE Strncasecmp(s, s) = 0
<1> DEFINE c(j) == Toupper(Signed(s[j]))
           ends == {j \in DOMAIN s : c(j) = 0 \/ c(j) = 0 \/ c(j) < c(j)}
<1>1. CASE ends = {}
  BY <1>1 DEF Strncasecmp
<1>2. CASE ends # {}
  <2>1. DOMAIN s = 1 .. Len(s) /\ Len(s) \in Nat
    BY LenProperties
  <2>2. ends \in SUBSET Nat
    BY <2>1
  <2>3. PICK j : j = Min(ends)
    OBVIOUS
  <2> DEFINE E == ends
  <2> HIDE DEF E
  <2>4. E \in SUBSET Nat /\ E # {} /\ j = Min(E)
    BY <1>2, <2>2, <2>3 DEF E
  <2>5. j \in E
    BY <2>4, LeastExists DEF Min
  <2>6. j \in 1 .. Len(s) /\ (c(j) = 0 \/ c(j) < c(j))
    BY <2>1, <2>5 DEF E
  <2>7. s[j] \in Int
    BY <2>6, ElementOfSeq
  <2>8. c(j) \in Int
    <3>1. PICK x \in Int : x = s[j]
      BY <2>7
    <3>2. PICK y \in Int : y = Signed(x)
      BY DEF Signed
    <3>3. Toupper(y) \in Int
      BY DEF Toupper
    <3> QED
      BY <3>1, <3>2, <3>3
  <2>9. c(j) = 0
    <3>1. PICK w \in Int : w = c(j)
      BY <2>8
    <3>2. w = 0 \/ w < w
      BY <2>6, <3>1
    <3> QED
      BY <3>1, <3>2
  <2> HIDE DEF c
  <2>10. Strncasecmp(s, s) = IF ends = {} THEN 0 ELSE IF c(Min(ends)) = 0 /\ c(Min(ends)) = 0 THEN 0
                             ELSE IF c(Min(ends)) # 0 /\ c(Min(ends)) = 0 THEN 1 ELSE -1
    BY DEF Strncasecmp, c
  <2> QED
    BY <1>2, <2>3, <2>9, <2>10
<1> QED
  BY <1>1, <1>2

LEMMA CutAppendedAlways ==
  ASSUME NEW a, Dimmed(a), Data(a) \in Seq(Byte)
  PROVE  CutAppended(a)
<1>1. PICK d \in Seq(Byte) : d = Data(a)
  OBVIOUS
<1>2. PICK n \in Nat : n = Len(d)
  BY LenProperties
<1>3. SUFFICES ASSUME NEW k \in 0 .. n
               PROVE  /\ Data(BytesAppend(<<Substring(a, 0, k), Substring(a, k, -1)>>)) = Data(a)
                      /\ SubstringEqual(Substring(a, k, -1), a, k, n) /\ SubstringEqualcase(Substring(a, 0, k), a, 0, k)
  BY <1>1, <1>2 DEF CutAppended
<1>4. PICK p : p = SubSeq(d, 1, k)
  OBVIOUS
<1>5. PICK q : q = SubSeq(d, k + 1, n)
  OBVIOUS
<1>6. PICK left : left = Substring(a, 0, k)
  OBVIOUS
<1>7. PICK right : right = Substring(a, k, -1)
  OBVIOUS
<1>8. p \in Seq(Byte) /\ Len(p) = k
  <2>1. 1 \in 1 .. Len(d) + 1 /\ k \in 1 - 1 .. Len(d)
    BY <1>2, <1>3
  <2>2. p \in Seq(Byte) /\ Len(p) = k - 1 + 1
    BY <1>4, <2>1, PartFacts
  <2> QED
    BY <1>2, <1>3, <2>2
<1>9. q \in Seq(Byte) /\ Len(q) = n - k
  <2>1. k + 1 \in 1 .. Len(d) + 1 /\ n \in (k + 1) - 1 .. Len(d)
    BY <1>2, <1>3
  <2>2. q \in Seq(Byte) /\ Len(q) = n - (k + 1) + 1
    BY <1>5, <2>1, PartFacts
  <2> QED
    BY <1>2, <1>3, <2>2
<1>10. left = Strcons(p)
  <2>1. 0 \in 0 .. Len(d) /\ k \in 0 .. Len(d) /\ 0 + 1 = 1
    BY <1>2, <1>3
  <2> QED
    BY <1>1, <1>4, <1>6, <2>1, SubstringIs
<1>11. right = Strcons(q)
  BY <1>1, <1>2, <1>5, <1>7, SubstringIs
<1>12. Data(left) = p /\ left.type = "string"
  BY <1>8, <1>10, StrconsMade
<1>13. Data(right) = q /\ right.type = "string"
  BY <1>9, <1>11, StrconsMade
<1>14. p \o q = d
  <2>1. 1 \in 1 .. Len(d) + 1 /\ k \in 1 - 1 .. Len(d) /\ n \in k .. Len(d)
    BY <1>2, <1>3
  <2>2. SubSeq(d, 1, k) \o SubSeq(d, k + 1, n) = SubSeq(d, 1, n)
    BY <2>1, ConcatAdjacentSubSeq
  <2>3. SubSeq(d, 1, n) = d
    BY <1>2, SubSeqFull
  <2> QED
    BY <1>4, <1>5, <2>2, <2>3
<1>15. Data(BytesAppend(<<left, right>>)) = d
  <2>1. BytesAppend(<<left, right>>) = Obj("bytes", Len(p) + Len(q), p \o q)
    <3>1. Dimmed(left) /\ Dimmed(right)
      BY <1>12, <1>13 DEF Dimmed
    <3>2. BytesAppend(<<left, right>>) = Obj("bytes", Len(Data(left)) + Len(Data(right)), Data(left) \o Data(right))
      BY <1>8, <1>9, <1>12, <1>13, <3>1, BytesAppendTwo
    <3> QED
      BY <1>12, <1>13, <3>2
  <2>2. Len(p) + Len(q) = Len(d)
    BY <1>2, <1>3, <1>8, <1>9
  <2> QED
    BY <1>14, <2>1, <2>2, BytesMade
<1>16. SubstringEqual(right, a, k, n)
  <2>1. Matching(right, a, k, n)
    BY <1>1, <1>2, <1>9, <1>13 DEF Matching
  <2> QED
    BY <1>1, <1>5, <1>13, <2>1 DEF SubstringEqual
<1>17. SubstringEqualcase(left, a, 0, k)
  <2>1. Matching(left, a, 0, k)
    BY <1>1, <1>2, <1>8, <1>12 DEF Matching
  <2>2. p \in Seq(Int)
    BY <1>8, ByteFacts
  <2>3. Strncasecmp(p, p) = 0
    BY <2>2, CaseSelf
  <2>4. SubSeq(Data(a), 0 + 1, k) = p
    BY <1>1, <1>4
  <2> QED
    BY <1>12, <2>1, <2>3, <2>4 DEF SubstringEqualcase
<1> QED
  BY <1>1, <1>6, <1>7, <1>15, <1>16, <1>17

LEMMA LfwriteAlways ==
  ASSUME NEW a, Dimmed(a), Data(a) \in Seq(Byte), NEW len \in 0 .. Len(Data(a))
  PROVE  Lfwrite(a, len) = Data(Substring(a, 0, len))
<1>1. PICK n \in Nat : n = Len(Data(a))
  BY LenProperties
<1>2. Substring(a, 0, len) = Strcons(SubSeq(Data(a), 0 + 1, len)) /\ SubSeq(Data(a), 0 + 1, len) \in Seq(Byte)
  <2>1. 0 \in 0 .. Len(Data(a)) /\ len \in 0 .. Len(Data(a))
    BY <1>1
  <2> QED
    BY <2>1, SubstringIs
<1>3. Data(Substring(a, 0, len)) = SubSeq(Data(a), 0 + 1, len)
  BY <1>2, StrconsMade
<1>4. 0 + 1 = 1 /\ ~ (len > n)
  BY <1>1
<1> QED
  BY <1>1, <1>3, <1>4 DEF Lfwrite

-----------------------------------------------------------------------------
(* string_append.                                                          *)

LEMMA PutStart ==
  ASSUME NEW S \in SUBSET Int, 0 \in S, NEW data \in Seq(S), Len(data) > 0
  PROVE  Put(data, 0, <<0>>) \in Seq(S) /\ Len(Put(data, 0, <<0>>)) = Len(data) /\ Strlen(Put(data, 0, <<0>>)) = 0
         /\ \A i \in 2 .. Len(data) : Put(data, 0, <<0>>)[i] = data[i]
<1>1. PICK n \in Nat : n = Len(data)
  BY LenProperties
<1>2. PICK z : z = <<0>>
  OBVIOUS
<1>3. z \in Seq(S) /\ Len(z) = 1 /\ z[1] = 0
  BY <1>2
<1>4. PICK new : new = Put(data, 0, z)
  OBVIOUS
<1>5. IsPut(S, new, data, 0, z)
  <2>1. 0 + Len(z) <= Len(data)
    BY <1>1, <1>3
  <2> QED
    BY <1>3, <1>4, <2>1, PutFacts
<1>6. new \in Seq(S) /\ Len(new) = n /\ \A i \in 1 .. n : new[i] = IF i \in 0 + 1 .. 0 + 1 THEN z[i - 0] ELSE data[i]
  BY <1>1, <1>3, <1>5 DEF IsPut
<1>7. new[1] = 0
  <2>1. 1 \in 1 .. n /\ 1 \in 0 + 1 .. 0 + 1 /\ 1 - 0 = 1
    BY <1>1
  <2> QED
    BY <1>3, <1>6, <2>1
<1>8. \A i \in 2 .. n : new[i] = data[i]
  <2>1. TAKE i \in 2 .. n
  <2>2. i \in 1 .. n /\ i \notin 0 + 1 .. 0 + 1
    OBVIOUS
  <2> QED
    BY <1>6, <2>2
<1>9. Strlen(new) = 0
  <2>1. new \in Seq(Int)
    BY <1>6, SeqMonotonic
  <2>2. 0 \in 0 .. Len(new) /\ (\A i \in 1 .. 0 : new[i] # 0) /\ 0 + 1 = 1
    BY <1>1, <1>6
  <2> QED
    BY <1>7, <2>1, <2>2, StrlenIs
<1> QED
  BY <1>1, <1>2, <1>4, <1>6, <1>8, <1>9

LEMMA StrcatFew ==
  ASSUME NEW data, NEW args, Len(args) \in {1, 2}
  PROVE  LET one == Put(data, Strlen(data), Text(args[1]) \o <<0>>) IN
         /\ Strcat(data, args)[1] = one
         /\ Len(args) = 2 => Strcat(data, args)[2] = Put(one, Strlen(one), Text(args[2]) \o <<0>>)
<1>1. PICK n \in {1, 2} : n = Len(args)
  OBVIOUS
<1>2. PICK one : one = Put(data, Strlen(data), Text(args[1]) \o <<0>>)
  OBVIOUS
<1>3. PICK two : two = Put(one, Strlen(one), Text(args[2]) \o <<0>>)
  OBVIOUS
<1> DEFINE f == [i \in 0 .. n |-> IF i = 0 THEN data ELSE IF i = 1 THEN one ELSE two]
<1>4. f = [i \in 0 .. n |-> IF i = 0 THEN data ELSE Put(f[i - 1], Strlen(f[i - 1]), Text(args[i]) \o <<0>>)]
  <2>1. f[0] = data /\ f[1] = one
    BY <1>1
  <2>2. ASSUME NEW i \in 0 .. n
        PROVE  f[i] = IF i = 0 THEN data ELSE Put(f[i - 1], Strlen(f[i - 1]), Text(args[i]) \o <<0>>)
    <3>1. CASE i = 0
      BY <3>1
    <3>2. CASE i = 1
      BY <1>2, <2>1, <3>2
    <3>3. CASE i = 2
      BY <1>3, <2>1, <3>3
    <3> QED
      BY <1>1, <3>1, <3>2, <3>3
  <2> QED
    BY <2>2
<1> HIDE DEF f
<1>5. PICK g : g = Strcat(data, args)
  OBVIOUS
<1>6. g = [i \in 0 .. n |-> IF i = 0 THEN data ELSE Put(g[i - 1], Strlen(g[i - 1]), Text(args[i]) \o <<0>>)]
  BY <1>1, <1>4, <1>5 DEF Strcat
<1>7. 0 \in 0 .. n /\ 1 \in 0 .. n /\ (n = 2 => 2 \in 0 .. n) /\ 1 - 1 = 0 /\ 2 - 1 = 1
  BY <1>1
<1>8. g[0] = data
  BY <1>6, <1>7
<1>9. g[1] = one
  BY <1>2, <1>6, <1>7, <1>8
<1>10. n = 2 => g[2] = two
  BY <1>3, <1>6, <1>7, <1>9
<1> QED
  BY <1>1, <1>2, <1>3, <1>5, <1>9, <1>10

\* The buffer that string_append begins with: its text is empty.
LEMMA RoomFacts ==
  ASSUME NEW n \in Nat
  PROVE  /\ Room(n).type = "string" /\ Room(n).dim = n
         /\ Room(n) = [type |-> "string", dim |-> n, data |-> Room(n).data]
         /\ Put(Room(n).data, 0, <<0>>) \in Seq(Int) /\ Len(Put(Room(n).data, 0, <<0>>)) = n + 1
         /\ Strlen(Put(Room(n).data, 0, <<0>>)) = 0
<1>1. PICK f : f = Filled(n, Junk)
  OBVIOUS
<1>2. f \in Seq(Int) /\ Len(f) = n
  BY <1>1, FilledFacts DEF Junk
<1>3. PICK d : d = f \o <<0>>
  OBVIOUS
<1>4. d \in Seq(Int) /\ Len(d) = n + 1
  BY <1>2, <1>3, WithZero, 0 \in Int
<1>5. Room(n) = [type |-> "string", dim |-> n, data |-> d]
  BY <1>1, <1>2, <1>3 DEF Room, Strcons, Obj
<1>6. Put(d, 0, <<0>>) \in Seq(Int) /\ Len(Put(d, 0, <<0>>)) = Len(d) /\ Strlen(Put(d, 0, <<0>>)) = 0
  <2>1. Len(d) > 0 /\ Int \in SUBSET Int /\ 0 \in Int
    BY <1>4
  <2> QED
    BY <1>4, <2>1, PutStart
<1> QED
  BY <1>4, <1>5, <1>6

\* A buffer with a text that fills it is that of strcons.
LEMMA FullBuffer ==
  ASSUME NEW d \in Seq(Int), NEW s \in Seq(Letter), Len(d) = Len(s) + 1, Strlen(d) = Len(s), \A i \in 1 .. Len(s) : d[i] = s[i]
  PROVE  d = s \o <<0>>
<1>1. s \in Seq(Int) /\ Len(s) \in Nat
  BY LetterFacts
<1>2. PICK t : t = s \o <<0>>
  OBVIOUS
<1>3. t \in Seq(Int) /\ Len(t) = Len(s) + 1 /\ (\A i \in 1 .. Len(s) : t[i] = s[i]) /\ t[Len(s) + 1] = 0
  BY <1>1, <1>2, WithZero, 0 \in Int
<1>4. d[Len(s) + 1] = 0
  BY <1>1, StrlenFacts
<1>5. ASSUME NEW i \in 1 .. Len(d)
      PROVE  d[i] = t[i]
  <2>1. i \in 1 .. Len(s) \/ i = Len(s) + 1
    BY <1>1
  <2> QED
    BY <1>3, <1>4, <2>1
<1> QED
  BY <1>2, <1>3, <1>5, SeqEqual

LEMMA StringAppendOne ==
  ASSUME NEW b, Ended(b)
  PROVE  StringAppend(<<b>>) = Strcons(Text(b))
<1>1. Stringp(b) /\ b.data \in Seq(Byte)
  BY DEF Ended, Stringp
<1>2. PICK s \in Seq(Letter) : s = Text(b) /\ Len(s) = Strlen(b.data)
  BY <1>1, TextFacts
<1>3. PICK n \in Nat : n = Len(s)
  BY LenProperties
<1>4. PICK args : args = <<b>>
  OBVIOUS
<1>5. Len(args) = 1 /\ DOMAIN args = 1 .. 1 /\ args[1] = b
  BY <1>4
<1>6. PICK lens : lens = [i \in DOMAIN args |-> Strlen(args[i].data)]
  OBVIOUS
<1>7. Sum(lens) = n
  <2>1. lens = [k \in 1 .. 1 |-> n]
    BY <1>2, <1>3, <1>5, <1>6
  <2>2. lens = [k \in 1 .. 1 |-> lens[k]] /\ lens[1] = n /\ \A k \in 1 .. 1 : lens[k] \in Nat
    BY <2>1
  <2>3. lens \in Seq(Nat) /\ Len(lens) = 1
    BY <2>2, Listed
  <2> QED
    BY <2>2, <2>3, SumsFew
<1>8. PICK room : room = Room(n)
  OBVIOUS
<1>9. PICK d0 : d0 = Put(room.data, 0, <<0>>)
  OBVIOUS
<1>10. d0 \in Seq(Int) /\ Len(d0) = n + 1 /\ Strlen(d0) = 0 /\ room = [type |-> "string", dim |-> n, data |-> room.data]
  BY <1>8, <1>9, RoomFacts
<1>11. PICK d1 : d1 = Put(d0, 0, s \o <<0>>)
  OBVIOUS
<1>12. /\ d1 \in Seq(Int) /\ Len(d1) = Len(d0) /\ Strlen(d1) = 0 + Len(s)
       /\ \A i \in 1 .. 0 + Len(s) : d1[i] = IF i <= 0 THEN d0[i] ELSE s[i - 0]
  <2>1. 0 \in 0 .. Strlen(d0) /\ 0 + Len(s) < Len(d0)
    BY <1>3, <1>10
  <2> QED
    BY <1>10, <1>11, <2>1, PutText, ZenonT(60)
<1>13. d1 = s \o <<0>>
  <2>1. Len(d1) = Len(s) + 1 /\ Strlen(d1) = Len(s) /\ \A i \in 1 .. Len(s) : d1[i] = s[i]
    BY <1>3, <1>10, <1>12, SMTT(60)
  <2> QED
    BY <1>12, <2>1, FullBuffer
<1>14. Strcat(d0, args)[1] = d1
  <2>1. Strcat(d0, args)[1] = Put(d0, Strlen(d0), Text(args[1]) \o <<0>>)
    BY <1>5, StrcatFew
  <2> QED
    BY <1>2, <1>5, <1>10, <1>11, <2>1
<1>15. StringAppend(args) = [room EXCEPT !.data = Strcat(Put(@, 0, <<0>>), args)[Len(args)]]
  <2>1. ~ \E i \in DOMAIN args : ~ Stringp(args[i])
    BY <1>1, <1>5
  <2> QED
    BY <1>6, <1>7, <1>8, <2>1 DEF StringAppend
<1>16. StringAppend(args) = [type |-> "string", dim |-> n, data |-> d1]
  BY <1>5, <1>9, <1>10, <1>14, <1>15
<1> QED
  BY <1>2, <1>3, <1>4, <1>13, <1>16 DEF Strcons, Obj

LEMMA StringAppendTwo ==
  ASSUME NEW a, NEW b, Ended(a), Ended(b)
  PROVE  StringAppend(<<a, b>>) = Strcons(Text(a) \o Text(b)) /\ Text(a) \o Text(b) \in Seq(Letter)
<1>1. Stringp(a) /\ a.data \in Seq(Byte) /\ Stringp(b) /\ b.data \in Seq(Byte)
  BY DEF Ended, Stringp
<1>2. PICK s \in Seq(Letter) : s = Text(a) /\ Len(s) = Strlen(a.data)
  BY <1>1, TextFacts
<1>2a. PICK t \in Seq(Letter) : t = Text(b) /\ Len(t) = Strlen(b.data)
  BY <1>1, TextFacts
<1>3. PICK m \in Nat : m = Len(s)
  BY LenProperties
<1>3a. PICK n \in Nat : n = Len(t)
  BY LenProperties
<1>3b. PICK st : st = s \o t
  OBVIOUS
<1>3c. st \in Seq(Letter) /\ Len(st) = m + n /\ \A i \in 1 .. m + n : st[i] = IF i <= m THEN s[i] ELSE t[i - m]
  BY <1>3, <1>3a, <1>3b, ConcatProperties
<1>4. PICK args : args = <<a, b>>
  OBVIOUS
<1>5. Len(args) = 2 /\ DOMAIN args = 1 .. 2 /\ args[1] = a /\ args[2] = b
  BY <1>4
<1>6. PICK lens : lens = [i \in DOMAIN args |-> Strlen(args[i].data)]
  OBVIOUS
<1>7. Sum(lens) = m + n
  <2>1. lens = [k \in 1 .. 2 |-> Strlen(args[k].data)]
    BY <1>5, <1>6
  <2>2. lens = [k \in 1 .. 2 |-> lens[k]] /\ lens[1] = m /\ lens[2] = n
    BY <1>2, <1>2a, <1>3, <1>3a, <1>5, <2>1
  <2>3. \A k \in 1 .. 2 : lens[k] \in Nat
    BY <2>2
  <2>4. lens \in Seq(Nat) /\ Len(lens) = 2
    BY <2>2, <2>3, Listed
  <2> QED
    BY <2>2, <2>4, SumsFew
<1>8. PICK room : room = Room(m + n)
  OBVIOUS
<1>9. PICK d0 : d0 = Put(room.data, 0, <<0>>)
  OBVIOUS
<1>10. d0 \in Seq(Int) /\ Len(d0) = m + n + 1 /\ Strlen(d0) = 0 /\ room = [type |-> "string", dim |-> m + n, data |-> room.data]
  BY <1>8, <1>9, RoomFacts
<1>11. PICK d1 : d1 = Put(d0, 0, s \o <<0>>)
  OBVIOUS
<1>12. /\ d1 \in Seq(Int) /\ Len(d1) = Len(d0) /\ Strlen(d1) = 0 + Len(s)
       /\ \A i \in 1 .. 0 + Len(s) : d1[i] = IF i <= 0 THEN d0[i] ELSE s[i - 0]
  <2>1. 0 \in 0 .. Strlen(d0) /\ 0 + Len(s) < Len(d0)
    BY <1>3, <1>3a, <1>10
  <2> QED
    BY <1>10, <1>11, <2>1, PutText, ZenonT(60)
<1>12a. Len(d1) = m + n + 1 /\ Strlen(d1) = m /\ \A i \in 1 .. m : d1[i] = s[i]
  <2>1. Len(d1) = m + n + 1 /\ Strlen(d1) = m
    BY <1>3, <1>3a, <1>10, <1>12
  <2>2. ASSUME NEW i \in 1 .. m
        PROVE  d1[i] = s[i]
    <3>1. i \in 1 .. 0 + Len(s) /\ ~ (i <= 0) /\ i - 0 = i
      BY <1>3
    <3> QED
      BY <1>12, <3>1
  <2> QED
    BY <2>1, <2>2
<1>12b. PICK d2 : d2 = Put(d1, m, t \o <<0>>)
  OBVIOUS
<1>12c. /\ d2 \in Seq(Int) /\ Len(d2) = Len(d1) /\ Strlen(d2) = m + Len(t)
        /\ \A i \in 1 .. m + Len(t) : d2[i] = IF i <= m THEN d1[i] ELSE t[i - m]
  <2>1. m \in 0 .. Strlen(d1) /\ m + Len(t) < Len(d1)
    BY <1>3, <1>3a, <1>12a
  <2> QED
    BY <1>12, <1>12b, <2>1, PutText
<1>13. d2 = st \o <<0>>
  <2>1. Len(d2) = Len(st) + 1 /\ Strlen(d2) = Len(st)
    BY <1>3a, <1>3c, <1>12a, <1>12c
  <2>2. ASSUME NEW i \in 1 .. Len(st)
        PROVE  d2[i] = st[i]
    <3>1. i \in 1 .. m + n /\ d2[i] = (IF i <= m THEN d1[i] ELSE t[i - m]) /\ st[i] = IF i <= m THEN s[i] ELSE t[i - m]
      BY <1>3a, <1>3c, <1>12c
    <3>2. i <= m => d1[i] = s[i]
      BY <1>12a, <3>1
    <3> QED
      BY <3>1, <3>2
  <2> QED
    BY <1>3c, <1>12c, <2>1, <2>2, FullBuffer
<1>14. Strcat(d0, args)[2] = d2
  <2>1. PICK one : one = Put(d0, Strlen(d0), Text(args[1]) \o <<0>>)
    OBVIOUS
  <2>2. Strcat(d0, args)[2] = Put(one, Strlen(one), Text(args[2]) \o <<0>>)
    BY <1>5, <2>1, StrcatFew
  <2>3. one = d1
    BY <1>2, <1>5, <1>10, <1>11, <2>1
  <2> QED
    BY <1>2a, <1>5, <1>12a, <1>12b, <2>2, <2>3
<1>15. StringAppend(args) = [room EXCEPT !.data = Strcat(Put(@, 0, <<0>>), args)[Len(args)]]
  <2>1. ~ \E i \in DOMAIN args : ~ Stringp(args[i])
    BY <1>1, <1>5
  <2> QED
    BY <1>6, <1>7, <1>8, <2>1 DEF StringAppend
<1>16. StringAppend(args) = [type |-> "string", dim |-> m + n, data |-> d2]
  <2>1. Strcat(Put(room.data, 0, <<0>>), args)[Len(args)] = d2
    BY <1>5, <1>9, <1>14
  <2>2. StringAppend(args) = [room EXCEPT !.data = d2]
    BY <1>15, <2>1
  <2>3. PICK r : r = room.data
    OBVIOUS
  <2>4. room = [type |-> "string", dim |-> m + n, data |-> r]
    BY <1>10, <2>3
  <2> QED
    BY <2>2, <2>4
<1>17. StringAppend(args) = Strcons(st)
  BY <1>3c, <1>13, <1>16 DEF Strcons, Obj
<1> QED
  BY <1>2, <1>2a, <1>3b, <1>3c, <1>4, <1>17

-----------------------------------------------------------------------------
(* What is found in an appended string.                                    *)

LEMMA MinFacts ==
  ASSUME NEW S \in SUBSET Nat, S # {}
  PROVE  Min(S) \in S /\ \A k \in S : Min(S) <= k
  BY LeastExists DEF Min

\* The NUL is in no part of a text.
LEMMA PartOfBuffer ==
  ASSUME NEW s \in Seq(Letter), NEW k \in 0 .. Len(s), NEW e \in k .. Len(s)
  PROVE  SubSeq(s \o <<0>>, k + 1, e) = SubSeq(s, k + 1, e) /\ SubSeq(s, k + 1, e) \in Seq(Letter) /\ Len(SubSeq(s, k + 1, e)) = e - k
<1>1. PICK n \in Nat : n = Len(s)
  BY LenProperties
<1>2. s \in Seq(Int)
  BY LetterFacts
<1>3. PICK t : t = s \o <<0>>
  OBVIOUS
<1>4. t \in Seq(Int) /\ Len(t) = n + 1 /\ \A i \in 1 .. n : t[i] = s[i]
  BY <1>1, <1>2, <1>3, WithZero, 0 \in Int
<1>5. PICK p : p = SubSeq(s, k + 1, e)
  OBVIOUS
<1>6. PICK q : q = SubSeq(t, k + 1, e)
  OBVIOUS
<1>7. p \in Seq(Letter) /\ Len(p) = e - (k + 1) + 1 /\ \A i \in 1 .. e - (k + 1) + 1 : p[i] = s[(k + 1) + i - 1]
  <2>1. k + 1 \in 1 .. Len(s) + 1 /\ e \in (k + 1) - 1 .. Len(s)
    BY <1>1
  <2> QED
    BY <1>5, <2>1, PartFacts
<1>8. q \in Seq(Int) /\ Len(q) = e - (k + 1) + 1 /\ \A i \in 1 .. e - (k + 1) + 1 : q[i] = t[(k + 1) + i - 1]
  <2>1. k + 1 \in 1 .. Len(t) + 1 /\ e \in (k + 1) - 1 .. Len(t)
    BY <1>1, <1>4
  <2> QED
    BY <1>4, <1>6, <2>1, PartFacts
<1>9. e - (k + 1) + 1 = e - k /\ e - k \in Nat
  BY <1>1
<1>10. ASSUME NEW i \in 1 .. e - k
       PROVE  q[i] = p[i]
  <2>1. (k + 1) + i - 1 \in 1 .. n
    BY <1>1
  <2> QED
    BY <1>4, <1>7, <1>8, <1>9, <2>1
<1>11. p \in Seq(Int)
  BY <1>7, LetterFacts
<1>12. q = p
  BY <1>7, <1>8, <1>9, <1>10, <1>11, SeqEqual
<1> QED
  BY <1>3, <1>5, <1>6, <1>7, <1>9, <1>12

\* The second of two parts.
LEMMA SecondPart ==
  ASSUME NEW s \in Seq(Letter), NEW t \in Seq(Letter)
  PROVE  SubSeq(s \o t, Len(s) + 1, Len(s) + Len(t)) = t
<1>1. PICK m \in Nat : m = Len(s)
  BY LenProperties
<1>2. PICK n \in Nat : n = Len(t)
  BY LenProperties
<1>3. PICK st : st = s \o t
  OBVIOUS
<1>4. st \in Seq(Letter) /\ Len(st) = m + n /\ \A i \in 1 .. m + n : st[i] = IF i <= m THEN s[i] ELSE t[i - m]
  BY <1>1, <1>2, <1>3, ConcatProperties
<1>5. PICK p : p = SubSeq(st, m + 1, m + n)
  OBVIOUS
<1>6. p \in Seq(Letter) /\ Len(p) = (m + n) - (m + 1) + 1 /\ \A i \in 1 .. (m + n) - (m + 1) + 1 : p[i] = st[(m + 1) + i - 1]
  <2>1. m + 1 \in 1 .. Len(st) + 1 /\ m + n \in (m + 1) - 1 .. Len(st)
    BY <1>4
  <2> QED
    BY <1>4, <1>5, <2>1, PartFacts
<1>7. (m + n) - (m + 1) + 1 = n
  OBVIOUS
<1>8. ASSUME NEW i \in 1 .. n
      PROVE  p[i] = t[i]
  <2>1. (m + 1) + i - 1 = m + i /\ m + i \in 1 .. m + n /\ ~ (m + i <= m) /\ (m + i) - m = i
    OBVIOUS
  <2>2. p[i] = st[m + i]
    BY <1>6, <1>7, <2>1
  <2> QED
    BY <1>4, <2>1, <2>2
<1>9. p = t
  BY <1>2, <1>6, <1>7, <1>8, SeqEqual
<1> QED
  BY <1>1, <1>2, <1>3, <1>5, <1>9

LEMMA SearchFinds ==
  ASSUME NEW b, Ended(b), NEW s \in Seq(Letter), NEW both, both = Strcons(s \o Text(b))
  PROVE  /\ StringSearch(b, both) \in 0 .. Len(s)
         /\ SubSeq(both.data, StringSearch(b, both) + 1, StringSearch(b, both) + Strlen(b.data)) = Text(b)
<1>1. PICK t \in Seq(Letter) : t = Text(b) /\ Len(t) = Strlen(b.data)
  BY TextFacts DEF Ended
<1>2. PICK m \in Nat : m = Len(s)
  BY LenProperties
<1>3. PICK n \in Nat : n = Len(t)
  BY LenProperties
<1>4. PICK st : st = s \o t
  OBVIOUS
<1>5. st \in Seq(Letter) /\ Len(st) = m + n
  BY <1>2, <1>3, <1>4, ConcatProperties
<1>6. both.data = st \o <<0>> /\ Strlen(both.data) = m + n
  BY <1>1, <1>4, <1>5, StrconsText
<1> DEFINE at == {i \in 0 .. m : SubSeq(both.data, i + 1, i + n) = t}
<1>7. StringSearch(b, both) = IF at = {} THEN -1 ELSE Min(at)
  <2>1. Strlen(both.data) - Strlen(b.data) = m
    BY <1>1, <1>3, <1>6
  <2> QED
    BY <1>1, <1>3, <2>1 DEF StringSearch
<1>8. m \in at
  <2>1. m \in 0 .. Len(st) /\ m + n \in m .. Len(st)
    BY <1>5
  <2>2. SubSeq(st \o <<0>>, m + 1, m + n) = SubSeq(st, m + 1, m + n)
    BY <1>5, <2>1, PartOfBuffer
  <2>3. SubSeq(st, m + 1, m + n) = t
    BY <1>2, <1>3, <1>4, SecondPart
  <2>4. SubSeq(both.data, m + 1, m + n) = t
    BY ONLY <1>6, <2>2, <2>3, Zenon
  <2>5. m \in 0 .. m
    OBVIOUS
  <2> QED
    BY <2>4, <2>5, Zenon
<1>9. at \in SUBSET Nat /\ at # {}
  <2>1. at \subseteq 0 .. m
    BY Zenon
  <2> HIDE DEF at
  <2>2. 0 .. m \subseteq Nat
    OBVIOUS
  <2> QED
    BY <1>8, <2>1, <2>2
<1>10. Min(at) \in at
  <2> DEFINE A == at
  <2> HIDE DEF A
  <2>1. A \in SUBSET Nat /\ A # {}
    BY <1>9 DEF A
  <2>2. Min(A) \in A
    BY <2>1, MinFacts
  <2> QED
    BY <2>2 DEF A
<1>11. StringSearch(b, both) \in at
  BY <1>7, <1>8, <1>10
<1> QED
  BY <1>1, <1>2, <1>3, <1>11

LEMMA SpanOfFirst ==
  ASSUME NEW a, Ended(a), NEW t \in Seq(Letter), NEW both, both = Strcons(Text(a) \o t)
  PROVE  Lstrspn(both, a) >= Strlen(a.data)
<1>1. PICK s \in Seq(Letter) : s = Text(a) /\ Len(s) = Strlen(a.data)
  BY TextFacts DEF Ended
<1>2. PICK m \in Nat : m = Len(s)
  BY LenProperties
<1>3. PICK n \in Nat : n = Len(t)
  BY LenProperties
<1>4. PICK st : st = s \o t
  OBVIOUS
<1>5. st \in Seq(Letter) /\ Len(st) = m + n /\ DOMAIN st = 1 .. m + n /\ \A i \in 1 .. m + n : st[i] = IF i <= m THEN s[i] ELSE t[i - m]
  BY <1>2, <1>3, <1>4, ConcatProperties, LenProperties
<1>6. Text(both) = st /\ Strlen(both.data) = m + n
  BY <1>1, <1>4, <1>5, StrconsText
<1> DEFINE S == {i \in 1 .. m + n : ~ Contains(s, st[i])} \union {m + n + 1}
<1>7. Lstrspn(both, a) = Min(S) - 1
  BY <1>1, <1>5, <1>6 DEF Lstrspn
<1>8. \A i \in S : i \in Nat /\ m < i
  <2>1. SUFFICES ASSUME NEW i \in 1 .. m PROVE Contains(s, st[i])
    OBVIOUS
  <2>2. st[i] = s[i] /\ i \in 1 .. Len(s)
    BY <1>2, <1>5
  <2> QED
    BY <2>2 DEF Contains
<1>9. S \in SUBSET Nat /\ S # {}
  BY <1>8
<1> HIDE DEF S
<1>10. Min(S) \in S
  BY <1>9, MinFacts
<1>11. PICK k \in Nat : k = Min(S) /\ m < k
  BY <1>8, <1>10
<1> QED
  BY <1>1, <1>2, <1>7, <1>11

LEMMA CspanInside ==
  ASSUME NEW b, NEW st \in Seq(Letter)
  PROVE  Lstrcspn(Strcons(st), b) \in 0 .. Len(st)
<1>1. PICK n \in Nat : n = Len(st)
  BY LenProperties
<1>2. Text(Strcons(st)) = st /\ Strlen(Strcons(st).data) = n /\ DOMAIN st = 1 .. n
  BY <1>1, StrconsText, LenProperties
<1> DEFINE S == {i \in 1 .. n : Contains(Text(b), st[i])} \union {n + 1}
<1>3. Lstrcspn(Strcons(st), b) = Min(S) - 1
  BY <1>2 DEF Lstrcspn
<1>4. S \subseteq 1 .. n + 1 /\ S # {}
  OBVIOUS
<1> HIDE DEF S
<1>5. Min(S) \in S
  <2>1. S \in SUBSET Nat
    BY <1>4
  <2> QED
    BY <1>4, <2>1, MinFacts
<1>6. PICK k \in 1 .. n + 1 : k = Min(S)
  BY <1>4, <1>5
<1>7. k - 1 \in 0 .. n
  OBVIOUS
<1> QED
  BY <1>1, <1>3, <1>6, <1>7

LEMMA AppendFoundAlways ==
  ASSUME NEW a, NEW b, Ended(a), Ended(b)
  PROVE  AppendFound(a, b)
<1>1. PICK s \in Seq(Letter) : s = Text(a) /\ Len(s) = Strlen(a.data)
  BY TextFacts DEF Ended
<1>2. PICK t \in Seq(Letter) : t = Text(b) /\ Len(t) = Strlen(b.data)
  BY TextFacts DEF Ended
<1>3. PICK m \in Nat : m = Len(s)
  BY LenProperties
<1>4. PICK n \in Nat : n = Len(t)
  BY LenProperties
<1>5. PICK st : st = s \o t
  OBVIOUS
<1>6. st \in Seq(Letter) /\ Len(st) = m + n /\ st \in Seq(Byte)
  <2>1. st \in Seq(Letter) /\ Len(st) = m + n
    BY <1>3, <1>4, <1>5, ConcatProperties
  <2> QED
    BY <2>1, LetterFacts
<1>7. PICK both : both = StringAppend(<<a, b>>)
  OBVIOUS
<1>8. both = Strcons(st)
  BY <1>1, <1>2, <1>5, <1>7, StringAppendTwo
<1>9. Proper(both) /\ both.type = "string" /\ both.dim = m + n /\ Data(both) = st /\ Strlen(both.data) = m + n /\ Text(both) = st /\ both.data = st \o <<0>>
  BY <1>6, <1>8, StrconsText
<1>10. PICK at : at = StringSearch(b, both)
  OBVIOUS
<1>11. at \in 0 .. m /\ SubSeq(both.data, at + 1, at + n) = t
  BY <1>2, <1>3, <1>4, <1>5, <1>8, <1>10, SearchFinds
<1>12. SubSeq(st, at + 1, at + n) = t
  <2>1. at \in 0 .. Len(st) /\ at + n \in at .. Len(st)
    BY <1>6, <1>11
  <2> QED
    BY <1>6, <1>9, <1>11, <2>1, PartOfBuffer
<1>13. Dimmed(both)
  BY <1>9 DEF Dimmed
<1>14. Strlen(Substring(both, at, -1).data) >= n
  <2>1. at \in 0 .. Len(Data(both)) /\ at \in 0 .. Len(st) /\ m + n \in at .. Len(st)
    BY <1>6, <1>9, <1>11
  <2>2. Substring(both, at, -1) = Strcons(SubSeq(st, at + 1, m + n))
    BY <1>6, <1>9, <1>13, <2>1, SubstringIs
  <2>3. SubSeq(st, at + 1, m + n) \in Seq(Letter) /\ Len(SubSeq(st, at + 1, m + n)) = (m + n) - at
    BY <1>6, <2>1, PartOfBuffer
  <2>4. Strlen(Substring(both, at, -1).data) = (m + n) - at
    BY <2>2, <2>3, StrconsText
  <2> QED
    BY <1>11, <2>4
<1>15. SubstringEqual(StringAppend(<<b>>), both, at, at + n)
  <2>1. Data(StringAppend(<<b>>)) = t
    BY <1>2, StringAppendOne, StrconsText
  <2>2. Matching(StringAppend(<<b>>), both, at, at + n)
    BY <1>4, <1>6, <1>9, <1>11, <2>1 DEF Matching
  <2> QED
    BY <1>9, <1>12, <2>1, <2>2 DEF SubstringEqual
<1>16. Lstrspn(both, a) >= m
  BY <1>1, <1>3, <1>5, <1>8, SpanOfFirst
<1>17. PICK c \in 0 .. m + n : c = Lstrcspn(both, b)
  BY <1>6, <1>8, CspanInside
<1>18. Text(Substring(both, 0, c)) \o Text(Substring(both, c, -1)) = st
  <2>1. /\ 0 \in 0 .. Len(Data(both)) /\ c \in 0 .. Len(Data(both)) /\ m + n = Len(Data(both)) /\ 0 + 1 = 1
        /\ 0 \in 0 .. Len(st) /\ c \in 0 .. Len(st) /\ m + n \in c .. Len(st)
    BY <1>6, <1>9, <1>17
  <2>2. Substring(both, 0, c) = Strcons(SubSeq(st, 1, c))
    BY <1>6, <1>9, <1>13, <2>1, SubstringIs
  <2>3. Substring(both, c, -1) = Strcons(SubSeq(st, c + 1, m + n))
    BY <1>6, <1>9, <1>13, <2>1, SubstringIs
  <2>4. SubSeq(st, 1, c) \in Seq(Letter)
    BY <1>6, <2>1, PartOfBuffer
  <2>5. SubSeq(st, c + 1, m + n) \in Seq(Letter)
    BY <1>6, <2>1, PartOfBuffer
  <2>6. SubSeq(st, 1, c) \o SubSeq(st, c + 1, m + n) = st
    <3>1. 1 \in 1 .. Len(st) + 1 /\ c \in 1 - 1 .. Len(st) /\ m + n \in c .. Len(st)
      BY <1>6, <2>1
    <3>2. SubSeq(st, 1, c) \o SubSeq(st, c + 1, m + n) = SubSeq(st, 1, m + n)
      BY <1>6, <3>1, ConcatAdjacentSubSeq
    <3> QED
      BY <1>6, <3>2, SubSeqFull
  <2>7. Text(Substring(both, 0, c)) = SubSeq(st, 1, c)
    BY <2>2, <2>4, StrconsText
  <2>8. Text(Substring(both, c, -1)) = SubSeq(st, c + 1, m + n)
    BY <2>3, <2>5, StrconsText
  <2> QED
    BY <2>6, <2>7, <2>8
<1>19. Sized(both)
  BY <1>9, ProperSized
<1> QED
  BY <1>1, <1>2, <1>3, <1>4, <1>5, <1>7, <1>9, <1>10, <1>11, <1>14, <1>15, <1>16, <1>17, <1>18, <1>19 DEF AppendFound

-----------------------------------------------------------------------------
(* Trimming, and the two cases.                                            *)

LEMMA MaxFacts ==
  ASSUME NEW n \in Nat, NEW S \in SUBSET (0 .. n), S # {}
  PROVE  Max(S) \in S /\ \A k \in S : Max(S) >= k
<1> DEFINE R == {n - x : x \in S}
<1>1. R \in SUBSET Nat /\ R # {}
  <2>1. \A x \in S : x \in 0 .. n
    OBVIOUS
  <2>2. \A x \in S : n - x \in Nat
    BY <2>1
  <2> QED
    BY <2>2
<1> HIDE DEF R
<1>2. PICK r : r = Min(R)
  OBVIOUS
<1>3. r \in R /\ \A k \in R : r <= k
  BY <1>1, <1>2, MinFacts
<1> USE DEF R
<1>4. PICK x \in S : r = n - x
  BY <1>3
<1>5. ASSUME NEW k \in S
      PROVE  x >= k
  <2>1. r <= n - k
    BY <1>3
  <2>2. x \in 0 .. n /\ k \in 0 .. n
    OBVIOUS
  <2> QED
    BY <1>4, <2>1, <2>2
<1>6. \E y \in S : \A k \in S : y >= k
  BY <1>5
<1> QED
  BY <1>6 DEF Max

LEMMA TrimStartFacts ==
  ASSUME NEW s \in Seq(Letter)
  PROVE  /\ TrimStart(s) \in 1 .. Len(s) + 1
         /\ \A i \in 1 .. TrimStart(s) - 1 : s[i] \in TrimSpace
         /\ TrimStart(s) <= Len(s) => s[TrimStart(s)] \notin TrimSpace
<1>1. PICK n \in Nat : n = Len(s) /\ DOMAIN s = 1 .. n
  BY LenProperties
<1> DEFINE S == {i \in 1 .. n : s[i] \notin TrimSpace} \union {n + 1}
<1>2. TrimStart(s) = Min(S)
  BY <1>1 DEF TrimStart
<1>3. S \subseteq 1 .. n + 1 /\ S # {} /\ \A i \in 1 .. n : i \in S <=> s[i] \notin TrimSpace
  OBVIOUS
<1> HIDE DEF S
<1>4. S \in SUBSET Nat
  BY <1>3
<1>5. Min(S) \in S /\ \A k \in S : Min(S) <= k
  BY <1>3, <1>4, MinFacts
<1>6. PICK b \in 1 .. n + 1 : b = Min(S)
  BY <1>3, <1>5
<1>7. ASSUME NEW i \in 1 .. b - 1
      PROVE  s[i] \in TrimSpace
  <2>1. i \in 1 .. n /\ ~ (b <= i)
    OBVIOUS
  <2> QED
    BY <1>3, <1>5, <1>6, <2>1
<1>8. b <= n => s[b] \notin TrimSpace
  BY <1>3, <1>5, <1>6
<1> QED
  BY <1>1, <1>2, <1>6, <1>7, <1>8

LEMMA TrimStartIs ==
  ASSUME NEW s \in Seq(Letter), NEW b \in 1 .. Len(s) + 1, \A i \in 1 .. b - 1 : s[i] \in TrimSpace,
         b <= Len(s) => s[b] \notin TrimSpace
  PROVE  TrimStart(s) = b
<1>1. PICK n \in Nat : n = Len(s)
  BY LenProperties
<1>2. PICK c \in 1 .. n + 1 : c = TrimStart(s)
  BY <1>1, TrimStartFacts
<1>3. (\A i \in 1 .. c - 1 : s[i] \in TrimSpace) /\ (c <= n => s[c] \notin TrimSpace)
  BY <1>1, <1>2, TrimStartFacts
<1>4. ~ (c < b)
  <2>1. SUFFICES ASSUME c < b PROVE FALSE
    OBVIOUS
  <2>2. c \in 1 .. b - 1 /\ c <= n
    BY <1>1, <2>1
  <2> QED
    BY <1>3, <2>2
<1>5. ~ (b < c)
  <2>1. SUFFICES ASSUME b < c PROVE FALSE
    OBVIOUS
  <2>2. b \in 1 .. c - 1 /\ b <= n
    BY <1>1, <2>1
  <2> QED
    BY <1>1, <1>3, <2>2
<1> QED
  BY <1>1, <1>2, <1>4, <1>5

LEMMA TrimEndFacts ==
  ASSUME NEW s \in Seq(Letter), NEW start \in 1 .. Len(s) + 1
  PROVE  /\ TrimEnd(s, start) \in start - 1 .. Len(s)
         /\ \A i \in TrimEnd(s, start) + 1 .. Len(s) : s[i] \in TrimSpace
         /\ TrimEnd(s, start) >= start => s[TrimEnd(s, start)] \notin TrimSpace
<1>1. PICK n \in Nat : n = Len(s)
  BY LenProperties
<1> DEFINE S == {i \in start .. n : s[i] \notin TrimSpace} \union {start - 1}
<1>2. TrimEnd(s, start) = Max(S)
  BY <1>1 DEF TrimEnd
<1>3. S \subseteq start - 1 .. n /\ S # {} /\ \A i \in start .. n : i \in S <=> s[i] \notin TrimSpace
  BY <1>1
<1> HIDE DEF S
<1>4. S \in SUBSET (0 .. n)
  BY <1>1, <1>3
<1>5. Max(S) \in S /\ \A k \in S : Max(S) >= k
  BY <1>3, <1>4, MaxFacts
<1>6. PICK e \in start - 1 .. n : e = Max(S)
  BY <1>3, <1>5
<1>7. ASSUME NEW i \in e + 1 .. n
      PROVE  s[i] \in TrimSpace
  <2>1. i \in start .. n /\ ~ (e >= i)
    BY <1>1
  <2> QED
    BY <1>3, <1>5, <1>6, <2>1
<1>8. e >= start => s[e] \notin TrimSpace
  <2>1. SUFFICES ASSUME e >= start PROVE s[e] \notin TrimSpace
    OBVIOUS
  <2>2. e \in start .. n
    BY <1>1, <2>1
  <2> QED
    BY <1>3, <1>5, <1>6, <2>2
<1> QED
  BY <1>1, <1>2, <1>6, <1>7, <1>8

LEMMA TrimEndIs ==
  ASSUME NEW s \in Seq(Letter), NEW start \in 1 .. Len(s) + 1, NEW e \in start - 1 .. Len(s),
         \A i \in e + 1 .. Len(s) : s[i] \in TrimSpace, e >= start => s[e] \notin TrimSpace
  PROVE  TrimEnd(s, start) = e
<1>1. PICK n \in Nat : n = Len(s)
  BY LenProperties
<1>2. PICK c \in start - 1 .. n : c = TrimEnd(s, start)
  BY <1>1, TrimEndFacts
<1>3. (\A i \in c + 1 .. n : s[i] \in TrimSpace) /\ (c >= start => s[c] \notin TrimSpace)
  BY <1>1, <1>2, TrimEndFacts
<1>4. ~ (c < e)
  <2>1. SUFFICES ASSUME c < e PROVE FALSE
    OBVIOUS
  <2>2. e \in c + 1 .. n /\ e >= start
    BY <1>1, <2>1
  <2> QED
    BY <1>3, <2>2
<1>5. ~ (e < c)
  <2>1. SUFFICES ASSUME e < c PROVE FALSE
    OBVIOUS
  <2>2. c \in e + 1 .. n /\ c >= start
    BY <1>1, <2>1
  <2> QED
    BY <1>1, <1>3, <2>2
<1> QED
  BY <1>1, <1>2, <1>4, <1>5

\* What trimming leaves of a text, by either order.
LEMMA TrimmedAlike ==
  ASSUME NEW s \in Seq(Letter), NEW r, NEW l,
         r = SubSeq(s, 1, TrimEnd(s, 1)), l = SubSeq(s, TrimStart(s), Len(s))
  PROVE  /\ r \in Seq(Letter) /\ l \in Seq(Letter) /\ SubSeq(s, TrimStart(s), TrimEnd(s, TrimStart(s))) \in Seq(Letter)
         /\ SubSeq(s, TrimStart(s), TrimEnd(s, TrimStart(s))) = SubSeq(r, TrimStart(r), Len(r))
         /\ SubSeq(s, TrimStart(s), TrimEnd(s, TrimStart(s))) = SubSeq(l, 1, TrimEnd(l, 1))
<1>1. PICK n \in Nat : n = Len(s)
  BY LenProperties
<1>2. PICK b \in 1 .. n + 1 : b = TrimStart(s) /\ (\A i \in 1 .. b - 1 : s[i] \in TrimSpace) /\ (b <= n => s[b] \notin TrimSpace)
  BY <1>1, TrimStartFacts
<1>3. PICK e \in 0 .. n : e = TrimEnd(s, 1) /\ (\A i \in e + 1 .. n : s[i] \in TrimSpace) /\ (e >= 1 => s[e] \notin TrimSpace)
  <2>1. 1 \in 1 .. Len(s) + 1 /\ 1 - 1 = 0
    BY <1>1
  <2> QED
    BY <1>1, <2>1, TrimEndFacts
<1>4. r \in Seq(Letter) /\ Len(r) = e /\ \A i \in 1 .. e : r[i] = s[i]
  <2>1. 1 \in 1 .. Len(s) + 1 /\ e \in 1 - 1 .. Len(s)
    BY <1>1
  <2>2. r \in Seq(Letter) /\ Len(r) = e - 1 + 1 /\ \A i \in 1 .. e - 1 + 1 : r[i] = s[1 + i - 1]
    BY <1>3, <2>1, PartFacts
  <2>3. Len(r) = e
    BY <2>2
  <2>4. ASSUME NEW i \in 1 .. e
        PROVE  r[i] = s[i]
    <3>1. i \in 1 .. e - 1 + 1 /\ 1 + i - 1 = i
      OBVIOUS
    <3> QED
      BY <2>2, <3>1
  <2> QED
    BY <2>2, <2>3, <2>4
<1>5. l \in Seq(Letter) /\ Len(l) = n - b + 1 /\ \A i \in 1 .. n - b + 1 : l[i] = s[b + i - 1]
  <2>1. b \in 1 .. Len(s) + 1 /\ n \in b - 1 .. Len(s)
    BY <1>1
  <2> QED
    BY <1>1, <1>2, <2>1, PartFacts, SMTT(60)
<1>6. CASE b = n + 1
  <2>1. e = 0
    <3>1. SUFFICES ASSUME e >= 1 PROVE FALSE
      BY <1>3
    <3>2. e \in 1 .. b - 1
      BY <1>6, <3>1
    <3> QED
      BY <1>2, <1>3, <3>1, <3>2
  <2>2. TrimEnd(s, b) = n
    <3>1. b \in 1 .. Len(s) + 1 /\ b - 1 = n
      BY <1>1, <1>6
    <3>2. TrimEnd(s, b) \in b - 1 .. Len(s)
      BY <3>1, TrimEndFacts
    <3> QED
      BY <1>1, <3>1, <3>2
  <2>3. SubSeq(s, b, n) = <<>>
    BY <1>6, SubSeqEmpty
  <2>4. SubSeq(r, TrimStart(r), Len(r)) = <<>>
    <3>1. TrimStart(r) \in 1 .. Len(r) + 1
      BY <1>4, TrimStartFacts
    <3>2. TrimStart(r) = 1 /\ Len(r) = 0
      BY <1>4, <2>1, <3>1
    <3>3. SubSeq(r, 1, 0) = <<>>
      BY SubSeqEmpty
    <3> QED
      BY <3>2, <3>3
  <2>5. SubSeq(l, 1, TrimEnd(l, 1)) = <<>>
    <3>1. Len(l) = 0
      BY <1>5, <1>6
    <3>2. 1 \in 1 .. Len(l) + 1 /\ 1 - 1 = 0
      BY <3>1
    <3>3. TrimEnd(l, 1) \in 1 - 1 .. Len(l)
      BY <1>5, <3>2, TrimEndFacts
    <3>4. TrimEnd(l, 1) = 0
      BY <3>1, <3>3
    <3> QED
      BY <3>4, SubSeqEmpty
  <2> QED
    BY <1>2, <1>4, <1>5, <2>2, <2>3, <2>4, <2>5, EmptySeq
<1>7. CASE b <= n
  <2>1. b <= e
    <3>1. SUFFICES ASSUME e < b PROVE FALSE
      OBVIOUS
    <3>2. b \in e + 1 .. n
      BY <1>7, <3>1
    <3> QED
      BY <1>2, <1>3, <1>7, <3>2
  <2>2. TrimEnd(s, b) = e
    <3>1. b \in 1 .. Len(s) + 1 /\ e \in b - 1 .. Len(s) /\ e >= 1
      BY <1>1, <2>1
    <3> QED
      BY <1>1, <1>3, <3>1, TrimEndIs
  <2>3. TrimStart(r) = b
    <3>1. b \in 1 .. Len(r) + 1
      BY <1>4, <2>1
    <3>2. ASSUME NEW i \in 1 .. b - 1
          PROVE  r[i] \in TrimSpace
      <4>1. i \in 1 .. e
        BY <2>1
      <4> QED
        BY <1>2, <1>4, <4>1
    <3>3. r[b] \notin TrimSpace
      <4>1. b \in 1 .. e
        BY <2>1
      <4> QED
        BY <1>2, <1>4, <1>7, <4>1
    <3> QED
      BY <1>4, <3>1, <3>2, <3>3, TrimStartIs
  <2>4. SubSeq(r, b, e) = SubSeq(s, b, e)
    <3>1. 1 \in 1 .. Len(s) /\ e \in 1 .. Len(s) /\ b \in 1 .. e - 1 + 1 /\ e \in 1 .. e - 1 + 1
      BY <1>1, <2>1
    <3>2. SubSeq(SubSeq(s, 1, e), b, e) = SubSeq(s, 1 + b - 1, 1 + e - 1)
      BY <3>1, SubSeqOfSubSeq
    <3>3. 1 + b - 1 = b /\ 1 + e - 1 = e
      OBVIOUS
    <3> QED
      BY <1>3, <3>2, <3>3
  <2>5. TrimEnd(l, 1) = e - b + 1
    <3> DEFINE k == e - b + 1
    <3>1. 1 \in 1 .. Len(l) + 1 /\ k \in 1 - 1 .. Len(l) /\ k \in 1 .. n - b + 1 /\ b + k - 1 = e
      BY <1>5, <2>1
    <3> HIDE DEF k
    <3>2. ASSUME NEW i \in k + 1 .. Len(l)
          PROVE  l[i] \in TrimSpace
      <4>1. i \in 1 .. n - b + 1 /\ b + i - 1 \in e + 1 .. n
        BY <1>5, <3>1
      <4>2. PICK j \in e + 1 .. n : j = b + i - 1
        BY <4>1
      <4>3. l[i] = s[j]
        BY <1>5, <4>1, <4>2
      <4>4. s[j] \in TrimSpace
        BY <1>3, <4>2
      <4> QED
        BY <4>3, <4>4
    <3>3. l[k] \notin TrimSpace
      <4>1. k \in 1 .. n - b + 1 /\ b + k - 1 = e
        BY <3>1
      <4>2. l[k] = s[b + k - 1]
        BY <1>5, <4>1
      <4>3. l[k] = s[e]
        BY ONLY <4>1, <4>2
      <4>4. e >= 1
        BY <2>1
      <4> QED
        BY <1>3, <4>3, <4>4
    <3>4. TrimEnd(l, 1) = k
      BY <1>5, <3>1, <3>2, <3>3, TrimEndIs
    <3> QED
      BY <3>4 DEF k
  <2>6. SubSeq(l, 1, e - b + 1) = SubSeq(s, b, e)
    <3>1. b \in 1 .. Len(s) /\ n \in 1 .. Len(s) /\ 1 \in 1 .. n - b + 1 /\ e - b + 1 \in 1 .. n - b + 1
      BY <1>1, <1>7, <2>1
    <3>2. SubSeq(SubSeq(s, b, n), 1, e - b + 1) = SubSeq(s, b + 1 - 1, b + (e - b + 1) - 1)
      BY <3>1, SubSeqOfSubSeq
    <3>3. b + 1 - 1 = b /\ b + (e - b + 1) - 1 = e
      OBVIOUS
    <3> QED
      BY <1>1, <1>2, <3>2, <3>3
  <2>7. SubSeq(s, b, e) \in Seq(Letter)
    <3>1. b \in 1 .. Len(s) + 1 /\ e \in b - 1 .. Len(s)
      BY <1>1, <2>1
    <3> QED
      BY <3>1, PartFacts
  <2> QED
    BY <1>2, <1>4, <1>5, <2>2, <2>3, <2>4, <2>5, <2>6, <2>7
<1>8. b = n + 1 \/ b <= n
  OBVIOUS
<1> QED
  BY <1>6, <1>7, <1>8, Zenon

LEMMA CharacterCases ==
  ASSUME NEW c \in Letter
  PROVE  /\ Toupper(c) \in Letter /\ Tolower(c) \in Letter /\ Toupper(Tolower(c)) = Toupper(c)
         /\ Toupper(Signed(Toupper(c))) = Toupper(Signed(c)) /\ Toupper(Signed(c)) # 0 /\ Toupper(Signed(c)) \in Int
<1>1. c \in 1 .. 255
  BY DEF Letter
<1>2. Toupper(c) \in Letter /\ Tolower(c) \in Letter /\ Toupper(Tolower(c)) = Toupper(c)
  BY <1>1 DEF Letter, Toupper, Tolower
<1>3. CASE c > 127
  <2>1. c \notin 97 .. 122 /\ Toupper(c) = c
    BY <1>1, <1>3 DEF Toupper
  <2>2. Signed(c) = c - 256 /\ c - 256 < 0
    BY <1>1, <1>3 DEF Signed
  <2>3. Toupper(c - 256) = c - 256
    BY <1>1, <1>3 DEF Toupper
  <2> QED
    BY <1>1, <1>2, <2>1, <2>2, <2>3
<1>4. CASE ~ (c > 127)
  <2>1. Signed(c) = c
    BY <1>4 DEF Signed
  <2>2. PICK d \in 1 .. 255 : d = Toupper(c)
    BY <1>2 DEF Letter
  <2>3. ~ (d > 127) /\ Toupper(d) = d
    BY <1>1, <1>4, <2>2 DEF Toupper
  <2>4. Signed(d) = d
    BY <2>3 DEF Signed
  <2> QED
    BY <1>2, <2>1, <2>2, <2>3, <2>4
<1> QED
  BY <1>3, <1>4

\* A text with each character changed.
LEMMA Changes ==
  ASSUME NEW s \in Seq(Letter), NEW u, u = [i \in DOMAIN s |-> u[i]], \A i \in 1 .. Len(s) : u[i] \in Letter
  PROVE  u \in Seq(Letter) /\ Len(u) = Len(s) /\ DOMAIN u = DOMAIN s
<1>1. PICK n \in Nat : n = Len(s) /\ DOMAIN s = 1 .. n
  BY LenProperties
<1>2. u = [i \in 1 .. n |-> u[i]] /\ \A i \in 1 .. n : u[i] \in Letter
  BY <1>1
<1>3. u \in Seq(Letter) /\ Len(u) = n
  BY <1>2, Listed
<1> QED
  BY <1>1, <1>3

LEMMA Cased ==
  ASSUME NEW a, a.data \in Seq(Byte)
  PROVE  LET u == [i \in DOMAIN Text(a) |-> Toupper(Text(a)[i])]
             l == [i \in DOMAIN Text(a) |-> Tolower(Text(a)[i])] IN
         /\ StringUpcase(a) = Strcons(u) /\ u \in Seq(Letter) /\ Len(u) = Len(Text(a)) /\ DOMAIN u = DOMAIN Text(a)
         /\ StringDowncase(a) = Strcons(l) /\ l \in Seq(Letter) /\ Len(l) = Len(Text(a)) /\ DOMAIN l = DOMAIN Text(a)
<1>1. PICK s \in Seq(Letter) : s = Text(a)
  BY TextFacts
<1>2. DOMAIN s = 1 .. Len(s) /\ \A i \in 1 .. Len(s) : s[i] \in Letter
  BY LenProperties, ElementOfSeq
<1>3. PICK u : u = [i \in DOMAIN s |-> Toupper(s[i])]
  OBVIOUS
<1>4. PICK l : l = [i \in DOMAIN s |-> Tolower(s[i])]
  OBVIOUS
<1>5. u = [i \in DOMAIN s |-> u[i]] /\ \A i \in 1 .. Len(s) : u[i] \in Letter
  BY <1>2, <1>3, CharacterCases
<1>6. l = [i \in DOMAIN s |-> l[i]] /\ \A i \in 1 .. Len(s) : l[i] \in Letter
  BY <1>2, <1>4, CharacterCases
<1>7. u \in Seq(Letter) /\ Len(u) = Len(s) /\ DOMAIN u = DOMAIN s
  BY <1>5, Changes
<1>8. l \in Seq(Letter) /\ Len(l) = Len(s) /\ DOMAIN l = DOMAIN s
  BY <1>6, Changes
<1> QED
  BY <1>1, <1>3, <1>4, <1>7, <1>8 DEF StringUpcase, StringDowncase

LEMMA TrimAndCaseAlways ==
  ASSUME NEW a, Proper(a), a.type = "string"
  PROVE  TrimAndCase(a)
<1>1. a.data \in Seq(Byte) /\ Len(a.data) = a.dim + 1 /\ a.dim \in Nat /\ Strlen(a.data) \in 0 .. a.dim
  BY ProperText DEF Ended
<1>2. PICK s \in Seq(Letter) : s = Text(a) /\ Len(s) = Strlen(a.data)
  BY <1>1, TextFacts
<1>3. PICK n \in Nat : n = Len(s) /\ DOMAIN s = 1 .. n
  BY LenProperties
<1>4. /\ StringTrim(a) = StringTrimLeft(StringTrimRight(a))
      /\ StringTrim(a) = StringTrimRight(StringTrimLeft(a))
  <2>1. PICK r : r = SubSeq(s, 1, TrimEnd(s, 1))
    OBVIOUS
  <2>2. PICK l : l = SubSeq(s, TrimStart(s), Len(s))
    OBVIOUS
  <2>3. PICK t : t = SubSeq(s, TrimStart(s), TrimEnd(s, TrimStart(s)))
    OBVIOUS
  <2>4. /\ r \in Seq(Letter) /\ l \in Seq(Letter) /\ t = SubSeq(r, TrimStart(r), Len(r)) /\ t = SubSeq(l, 1, TrimEnd(l, 1))
    BY <2>1, <2>2, <2>3, TrimmedAlike
  <2>5. StringTrim(a) = Strcons(t) /\ StringTrimRight(a) = Strcons(r) /\ StringTrimLeft(a) = Strcons(l)
    BY <1>2, <2>1, <2>2, <2>3 DEF StringTrim, StringTrimRight, StringTrimLeft
  <2>6. Text(Strcons(r)) = r /\ Text(Strcons(l)) = l
    BY <2>4, StrconsText
  <2>7. StringTrimLeft(Strcons(r)) = Strcons(t) /\ StringTrimRight(Strcons(l)) = Strcons(t)
    BY <2>4, <2>6 DEF StringTrimRight, StringTrimLeft
  <2> QED
    BY <2>5, <2>7
<1>5. PICK u : u = [i \in DOMAIN s |-> Toupper(s[i])]
  OBVIOUS
<1>6. PICK l : l = [i \in DOMAIN s |-> Tolower(s[i])]
  OBVIOUS
<1>7. /\ StringUpcase(a) = Strcons(u) /\ u \in Seq(Letter) /\ Len(u) = n /\ DOMAIN u = 1 .. n
      /\ StringDowncase(a) = Strcons(l) /\ l \in Seq(Letter) /\ Len(l) = n /\ DOMAIN l = 1 .. n
  BY <1>1, <1>2, <1>3, <1>5, <1>6, Cased
<1>8. \A i \in 1 .. n : s[i] \in Letter /\ u[i] = Toupper(s[i]) /\ l[i] = Tolower(s[i])
  BY <1>3, <1>5, <1>6, ElementOfSeq
<1>9. StringUpcase(StringDowncase(a)) = StringUpcase(a)
  <2>1. Text(Strcons(l)) = l
    BY <1>7, StrconsText
  <2>2. StringUpcase(Strcons(l)) = Strcons([i \in 1 .. n |-> Toupper(l[i])])
    BY <1>7, <2>1 DEF StringUpcase
  <2>3. \A i \in 1 .. n : Toupper(l[i]) = Toupper(s[i])
    BY <1>8, CharacterCases
  <2>4. [i \in 1 .. n |-> Toupper(l[i])] = u
    BY <1>3, <1>5, <2>3
  <2> QED
    BY <1>7, <2>2, <2>4
<1>10. SubstringEqualcase(a, StringUpcase(a), 0, Strlen(a.data)) = (Len(Data(a)) = Strlen(a.data))
  <2>1. Data(StringUpcase(a)) = u
    BY <1>7, StrconsText
  <2>2. Dimmed(a)
    BY DEF Dimmed
  <2>3. Data(a) = SubSeq(a.data, 1, a.dim) /\ Len(Data(a)) = a.dim
    BY <2>2, DataFacts
  <2>4. Matching(a, StringUpcase(a), 0, n) <=> a.dim = n
    BY <1>1, <1>7, <2>1, <2>3 DEF Matching
  <2>5. ASSUME a.dim = n
        PROVE  Strncasecmp(Data(a), SubSeq(Data(StringUpcase(a)), 0 + 1, n)) = 0
    <3>1. Data(a) = s
      BY <1>2, <1>3, <2>3, <2>5 DEF Text
    <3>2. SubSeq(u, 1, n) = u
      BY <1>7, SubSeqFull
    <3>3. \A j \in 1 .. n : Toupper(Signed(u[j])) = Toupper(Signed(s[j])) /\ Toupper(Signed(s[j])) # 0 /\ Toupper(Signed(s[j])) \in Int
      BY <1>8, CharacterCases
    <3>4. {j \in DOMAIN s : \/ Toupper(Signed(s[j])) = 0 \/ Toupper(Signed(u[j])) = 0
                            \/ Toupper(Signed(s[j])) < Toupper(Signed(u[j]))} = {}
      <4>1. SUFFICES ASSUME NEW j \in 1 .. n, \/ Toupper(Signed(s[j])) = 0 \/ Toupper(Signed(u[j])) = 0
                                              \/ Toupper(Signed(s[j])) < Toupper(Signed(u[j]))
                     PROVE  FALSE
        BY <1>3
      <4>2. PICK w \in Int : w = Toupper(Signed(s[j]))
        BY <3>3
      <4>3. w # 0 /\ Toupper(Signed(u[j])) = w
        BY <3>3, <4>2
      <4>4. w = 0 \/ w < w
        BY <4>1, <4>2, <4>3
      <4> QED
        BY <4>3, <4>4
    <3>5. Strncasecmp(s, u) = 0
      BY <3>4 DEF Strncasecmp
    <3>6. 0 + 1 = 1
      OBVIOUS
    <3> QED
      BY <2>1, <3>1, <3>2, <3>5, <3>6
  <2>6. SubstringEqualcase(a, StringUpcase(a), 0, n) <=> a.dim = n
    BY <2>4, <2>5 DEF SubstringEqualcase
  <2>7. SubstringEqualcase(a, StringUpcase(a), 0, n) \in BOOLEAN
    BY DEF SubstringEqualcase, Matching
  <2> QED
    BY <1>2, <1>3, <2>3, <2>6, <2>7
<1> QED
  BY <1>4, <1>9, <1>10 DEF TrimAndCase

-----------------------------------------------------------------------------
(* print_to_string.                                                        *)

StringOf(d) == {o \in [type : {"string"}, dim : {d}, data : Seq(Byte)] : Len(o.data) = d + 1 /\ o.data[d + 1] = 0}
PrintState(d) == [into : StringOf(d), failed : BOOLEAN]

LEMMA StringOfProper ==
  ASSUME NEW d \in Nat
  PROVE  /\ \A o \in StringOf(d) : /\ Proper(o) /\ o.type = "string" /\ o.dim = d /\ o.data \in Seq(Byte) /\ o.data \in Seq(Int)
                                   /\ Len(o.data) = d + 1 /\ o.data[d + 1] = 0 /\ Strlen(o.data) \in 0 .. d
         /\ \A o : Proper(o) /\ o.type = "string" /\ o.dim = d => o \in StringOf(d)
<1>1. ASSUME NEW o \in StringOf(d)
      PROVE  /\ Proper(o) /\ o.type = "string" /\ o.dim = d /\ o.data \in Seq(Byte) /\ o.data \in Seq(Int)
             /\ Len(o.data) = d + 1 /\ o.data[d + 1] = 0 /\ Strlen(o.data) \in 0 .. d
  <2>1. /\ o \in [type : {"string"}, dim : {d}, data : Seq(Byte)]
        /\ Len(o.data) = d + 1 /\ o.data[d + 1] = 0
    BY DEF StringOf
  <2>2. o.type = "string" /\ o.dim = d /\ o.data \in Seq(Byte)
    BY <2>1
  <2>3. o.data \in Seq(Int)
    BY <2>2, ByteFacts
  <2>4. PICK x : x = o.data
    OBVIOUS
  <2>5. o = [type |-> "string", dim |-> d, data |-> x]
    BY <2>1, <2>4
  <2>6. o \in [type : Kinds, dim : Nat, data : Seq(Int)]
    BY <2>3, <2>4, <2>5 DEF Kinds
  <2>7. Proper(o)
    BY <2>1, <2>2, <2>6 DEF Proper
  <2> QED
    BY <2>1, <2>2, <2>3, <2>7, ProperText
<1>2. ASSUME NEW o, Proper(o), o.type = "string", o.dim = d
      PROVE  o \in StringOf(d)
  <2>1. o \in [type : Kinds, dim : Nat, data : Seq(Int)] /\ Len(o.data) = d + 1 /\ o.data[d + 1] = 0 /\ o.data \in Seq(Byte)
    BY <1>2 DEF Proper
  <2>2. o \in [type : {"string"}, dim : {d}, data : Seq(Byte)]
    BY <1>2, <2>1
  <2> QED
    BY <2>1, <2>2 DEF StringOf
<1> QED
  BY <1>1, <1>2

\* How much of a piece there is room for.
Fits(k, d, m) == IF m <= d - k THEN m ELSE d - k

LEMMA PutsFacts ==
  ASSUME NEW d \in Nat, NEW o \in StringOf(d), NEW from \in Seq(Letter)
  PROVE  LET k == Strlen(o.data)
             n == Fits(k, d, Len(from))
             new == PtsPuts(o, from) IN
         /\ Fit(o, from) = n /\ new \in StringOf(d) /\ Strlen(new.data) = k + n
         /\ \A i \in 1 .. k + n : new.data[i] = IF i <= k THEN o.data[i] ELSE from[i - k]
<1>1. /\ Proper(o) /\ o.type = "string" /\ o.dim = d /\ o.data \in Seq(Byte) /\ o.data \in Seq(Int)
      /\ Len(o.data) = d + 1 /\ o.data[d + 1] = 0
  BY StringOfProper
<1>2. PICK k \in 0 .. d : k = Strlen(o.data)
  BY StringOfProper
<1>3. PICK m \in Nat : m = Len(from)
  BY LenProperties
<1>4. PICK n : n = Fits(k, d, m)
  OBVIOUS
<1>5. n \in 0 .. m /\ n \in Nat /\ k + n <= d /\ k \in Nat
  BY <1>4 DEF Fits
<1>6. Fit(o, from) = n
  <2>1. \A x, y \in Int : Min({x, y}) = IF x <= y THEN x ELSE y
    BY DEF Min
  <2>2. Min({m, d - k}) = IF m <= d - k THEN m ELSE d - k
    BY <2>1
  <2> QED
    BY <1>1, <1>2, <1>3, <1>4, <2>2 DEF Fit, Fits
<1>7. PICK s : s = SubSeq(from, 1, n)
  OBVIOUS
<1>8. s \in Seq(Letter) /\ Len(s) = n /\ \A i \in 1 .. n : s[i] = from[i]
  <2>1. 1 \in 1 .. Len(from) + 1 /\ n \in 1 - 1 .. Len(from)
    BY <1>3, <1>5
  <2>2. s \in Seq(Letter) /\ Len(s) = n - 1 + 1 /\ \A i \in 1 .. n - 1 + 1 : s[i] = from[1 + i - 1]
    BY <1>7, <2>1, PartFacts
  <2>3. n - 1 + 1 = n /\ \A i \in 1 .. n : 1 + i - 1 = i
    BY <1>5
  <2> QED
    BY <2>2, <2>3
<1>9. PICK x : x = Put(o.data, k, s \o <<0>>)
  OBVIOUS
<1>10. Put(Put(o.data, k, s), k + n, <<0>>) = x
  <2>1. k + Len(s) < Len(o.data)
    BY <1>1, <1>5, <1>8
  <2> QED
    BY <1>1, <1>5, <1>8, <1>9, <2>1, PutTwice
<1>11. /\ x \in Seq(Int) /\ Len(x) = d + 1 /\ Strlen(x) = k + n
       /\ \A i \in 1 .. k + n : x[i] = IF i <= k THEN o.data[i] ELSE s[i - k]
       /\ \A i \in k + n + 2 .. d + 1 : x[i] = o.data[i]
  <2>1. k \in 0 .. Strlen(o.data) /\ k + Len(s) < Len(o.data)
    BY <1>1, <1>2, <1>5, <1>8
  <2>2. /\ x \in Seq(Int) /\ Len(x) = Len(o.data) /\ Strlen(x) = k + Len(s)
        /\ \A i \in 1 .. k + Len(s) : x[i] = IF i <= k THEN o.data[i] ELSE s[i - k]
        /\ \A i \in k + Len(s) + 2 .. Len(o.data) : x[i] = o.data[i]
    BY <1>1, <1>8, <1>9, <2>1, PutText, ZenonT(60)
  <2> QED
    BY <1>1, <1>8, <2>2
<1>12. x \in Seq(Byte)
  <2>1. PICK t : t = s \o <<0>>
    OBVIOUS
  <2>2. s \in Seq(Byte) /\ 0 \in Byte
    BY <1>8, LetterFacts DEF Byte
  <2>3. t \in Seq(Byte) /\ Len(t) = n + 1
    BY <1>8, <2>1, <2>2, WithZero
  <2>4. k + Len(t) <= Len(o.data)
    BY <1>1, <1>5, <2>3
  <2>5. IsPut(Byte, x, o.data, k, t)
    BY <1>1, <1>5, <1>9, <2>1, <2>3, <2>4, PutFacts
  <2> QED
    BY <2>5 DEF IsPut
<1>13. x[d + 1] = 0
  <2>1. CASE k + n = d
    <3>1. x[Strlen(x) + 1] = 0
      BY <1>5, <1>11, <2>1, StrlenFacts
    <3> QED
      BY <1>11, <2>1, <3>1
  <2>2. CASE k + n # d
    <3>1. d + 1 \in k + n + 2 .. d + 1
      BY <1>5, <2>2
    <3> QED
      BY <1>1, <1>11, <3>1
  <2> QED
    BY <2>1, <2>2
<1>14. PICK new : new = PtsPuts(o, from)
  OBVIOUS
<1>15. new = [o EXCEPT !.data = x]
  BY <1>2, <1>6, <1>7, <1>10, <1>14 DEF PtsPuts
<1>16. new \in StringOf(d) /\ new.data = x
  <2>1. o \in [type : {"string"}, dim : {d}, data : Seq(Byte)]
    BY DEF StringOf
  <2>2. new \in [type : {"string"}, dim : {d}, data : Seq(Byte)] /\ new.data = x
    BY <1>12, <1>15, <2>1
  <2> QED
    BY <1>11, <1>13, <2>2 DEF StringOf
<1>17. ASSUME NEW i \in 1 .. k + n
       PROVE  x[i] = IF i <= k THEN o.data[i] ELSE from[i - k]
  <2>1. CASE i <= k
    BY <1>11, <2>1
  <2>2. CASE ~ (i <= k)
    <3>1. i - k \in 1 .. n
      BY <1>5, <2>2
    <3>2. x[i] = s[i - k]
      BY <1>11, <2>2
    <3> QED
      BY <1>8, <2>2, <3>1, <3>2
  <2> QED
    BY <2>1, <2>2
<1> QED
  BY <1>2, <1>3, <1>4, <1>6, <1>11, <1>14, <1>16, <1>17

PrintStep(p, from) == IF p.failed THEN p
                      ELSE [into |-> PtsPuts(p.into, from), failed |-> Fit(p.into, from) < Len(from)]

LEMMA PrintStepType ==
  ASSUME NEW d \in Nat, NEW p \in PrintState(d), NEW from \in Seq(Letter)
  PROVE  PrintStep(p, from) \in PrintState(d)
<1>1. p.into \in StringOf(d)
  BY DEF PrintState
<1>2. PtsPuts(p.into, from) \in StringOf(d)
  BY <1>1, PutsFacts
<1>3. (Fit(p.into, from) < Len(from)) \in BOOLEAN
  OBVIOUS
<1>4. PICK b \in BOOLEAN : b = (Fit(p.into, from) < Len(from))
  BY <1>3
<1>5. PICK o \in StringOf(d) : o = PtsPuts(p.into, from)
  BY <1>2
<1>6. [into |-> o, failed |-> b] \in PrintState(d)
  BY DEF PrintState
<1> QED
  BY <1>4, <1>5, <1>6 DEF PrintStep

LEMMA PrintedEquation ==
  ASSUME NEW d \in Nat, NEW start \in StringOf(d), NEW pieces \in Seq(Seq(Letter))
  PROVE  /\ Printed(pieces, start)[0] = [into |-> start, failed |-> FALSE]
         /\ \A i \in 1 .. Len(pieces) : Printed(pieces, start)[i] = PrintStep(Printed(pieces, start)[i - 1], pieces[i])
         /\ Printed(pieces, start) \in [0 .. Len(pieces) -> PrintState(d)]
<1>1. PICK n \in Nat : n = Len(pieces)
  BY LenProperties
<1>2. PICK T : T = PrintState(d)
  OBVIOUS
<1>3. PICK first : first = [into |-> start, failed |-> FALSE]
  OBVIOUS
<1>4. first \in T
  BY <1>2, <1>3 DEF PrintState
<1> DEFINE step == [i \in 1 .. n |-> [p \in T |-> PrintStep(p, pieces[i])]]
<1>5. step \in [1 .. n -> [T -> T]]
  <2>1. \A i \in 1 .. n : pieces[i] \in Seq(Letter)
    BY <1>1, ElementOfSeq
  <2>2. \A i \in 1 .. n : \A p \in T : PrintStep(p, pieces[i]) \in T
    BY <1>2, <2>1, PrintStepType
  <2> QED
    BY <2>2
<1>6. \A i \in 1 .. n : \A p \in T : step[i][p] = PrintStep(p, pieces[i])
  OBVIOUS
<1> HIDE DEF step
<1>7. PICK f \in [0 .. n -> T] : Follows(f, n, first, step)
  BY <1>1, <1>4, <1>5, Recursion, Zenon
<1>8. f[0] = first /\ \A i \in 1 .. n : f[i] = PrintStep(f[i - 1], pieces[i])
  <2>1. f[0] = first
    BY <1>7 DEF Follows
  <2>2. ASSUME NEW i \in 1 .. n
        PROVE  f[i] = PrintStep(f[i - 1], pieces[i])
    <3>1. i - 1 \in 0 .. n
      OBVIOUS
    <3>2. PICK p \in T : p = f[i - 1]
      BY <1>7, <3>1
    <3>3. f[i] = step[i][p]
      BY <1>7, <3>2 DEF Follows
    <3> QED
      BY <1>6, <3>2, <3>3
  <2> QED
    BY <2>1, <2>2
<1>9. f = [i \in 0 .. n |-> IF i = 0 THEN first ELSE PrintStep(f[i - 1], pieces[i])]
  BY <1>7, <1>8
<1>10. PICK g : g = Printed(pieces, start)
  OBVIOUS
<1>11. g = [i \in 0 .. n |-> IF i = 0 THEN first ELSE PrintStep(g[i - 1], pieces[i])]
  <2>1. f = [i \in 0 .. n |-> IF i = 0 THEN [into |-> start, failed |-> FALSE]
                              ELSE IF f[i - 1].failed THEN f[i - 1]
                              ELSE [into |-> PtsPuts(f[i - 1].into, pieces[i]), failed |-> Fit(f[i - 1].into, pieces[i]) < Len(pieces[i])]]
    BY ONLY <1>3, <1>9, SMTT(60) DEF PrintStep
  <2>2. g = [i \in 0 .. n |-> IF i = 0 THEN [into |-> start, failed |-> FALSE]
                              ELSE IF g[i - 1].failed THEN g[i - 1]
                              ELSE [into |-> PtsPuts(g[i - 1].into, pieces[i]), failed |-> Fit(g[i - 1].into, pieces[i]) < Len(pieces[i])]]
    BY <1>1, <1>10, <2>1 DEF Printed
  <2> QED
    BY ONLY <1>3, <2>2 DEF PrintStep
<1>12. g = f
  <2>1. g = [i \in 0 .. n |-> g[i]] /\ f = [i \in 0 .. n |-> f[i]] /\ g[0] = f[0]
    BY <1>8, <1>9, <1>11
  <2>2. \A i \in 1 .. n : g[i - 1] = f[i - 1] => g[i] = f[i]
    BY <1>8, <1>11
  <2>3. Alike(g, f, n)
    BY <2>1, <2>2 DEF Alike
  <2> QED
    BY <2>3, Agree
<1> QED
  BY <1>1, <1>2, <1>3, <1>7, <1>8, <1>10, <1>12

\* A piece behind a text.
Behind(w, piece) == w \o piece

LEMMA JoinedEquation ==
  ASSUME NEW text \in Seq(Letter), NEW pieces \in Seq(Seq(Letter))
  PROVE  /\ Joined(text, pieces)[0] = text
         /\ \A i \in 1 .. Len(pieces) : Joined(text, pieces)[i] = Joined(text, pieces)[i - 1] \o pieces[i]
         /\ Joined(text, pieces) \in [0 .. Len(pieces) -> Seq(Letter)]
<1>1. PICK n \in Nat : n = Len(pieces)
  BY LenProperties
<1>2. PICK T : T = Seq(Letter)
  OBVIOUS
<1> DEFINE step == [i \in 1 .. n |-> [w \in T |-> Behind(w, pieces[i])]]
<1>5. step \in [1 .. n -> [T -> T]]
  <2>1. \A i \in 1 .. n : pieces[i] \in Seq(Letter)
    BY <1>1, ElementOfSeq
  <2>2. \A i \in 1 .. n : \A w \in T : Behind(w, pieces[i]) \in T
    BY <1>2, <2>1, ConcatProperties DEF Behind
  <2> QED
    BY <2>2
<1>6. \A i \in 1 .. n : \A w \in T : step[i][w] = Behind(w, pieces[i])
  OBVIOUS
<1> HIDE DEF step
<1>7. PICK f \in [0 .. n -> T] : Follows(f, n, text, step)
  <2>1. text \in T
    BY <1>2
  <2> QED
    BY <1>1, <1>5, <2>1, Recursion, Zenon
<1>8. f[0] = text /\ \A i \in 1 .. n : f[i] = Behind(f[i - 1], pieces[i])
  <2>1. f[0] = text
    BY <1>7 DEF Follows
  <2>2. ASSUME NEW i \in 1 .. n
        PROVE  f[i] = Behind(f[i - 1], pieces[i])
    <3>1. i - 1 \in 0 .. n
      OBVIOUS
    <3>2. PICK w \in T : w = f[i - 1]
      BY <1>7, <3>1
    <3>3. f[i] = step[i][w]
      BY <1>7, <3>2 DEF Follows
    <3> QED
      BY <1>6, <3>2, <3>3
  <2> QED
    BY <2>1, <2>2
<1>9. f = [i \in 0 .. n |-> IF i = 0 THEN text ELSE Behind(f[i - 1], pieces[i])]
  BY <1>7, <1>8
<1>10. PICK g : g = Joined(text, pieces)
  OBVIOUS
<1>11. g = [i \in 0 .. n |-> IF i = 0 THEN text ELSE Behind(g[i - 1], pieces[i])]
  <2>1. f = [i \in 0 .. n |-> IF i = 0 THEN text ELSE f[i - 1] \o pieces[i]]
    BY ONLY <1>9 DEF Behind
  <2>2. g = [i \in 0 .. n |-> IF i = 0 THEN text ELSE g[i - 1] \o pieces[i]]
    BY <1>1, <1>10, <2>1 DEF Joined
  <2> QED
    BY ONLY <2>2 DEF Behind
<1>12. g = f
  <2>1. g = [i \in 0 .. n |-> g[i]] /\ f = [i \in 0 .. n |-> f[i]] /\ g[0] = f[0]
    BY <1>8, <1>9, <1>11
  <2>2. \A i \in 1 .. n : g[i - 1] = f[i - 1] => g[i] = f[i]
    BY <1>8, <1>11
  <2>3. Alike(g, f, n)
    BY <2>1, <2>2 DEF Alike
  <2> QED
    BY <2>3, Agree
<1>13. \A i \in 1 .. n : f[i] = f[i - 1] \o pieces[i]
  BY ONLY <1>8 DEF Behind
<1> QED
  BY ONLY <1>1, <1>2, <1>7, <1>8, <1>10, <1>12, <1>13

\* What was printed of w: as much as there is room for.
IsCut(p, w, d) ==
  /\ p \in PrintState(d) /\ w \in Seq(Letter)
  /\ Strlen(p.into.data) = IF Len(w) <= d THEN Len(w) ELSE d
  /\ \A i \in 1 .. Strlen(p.into.data) : p.into.data[i] = w[i]
  /\ p.failed = (Len(w) > d)

LEMMA CutGoesOn ==
  ASSUME NEW d \in Nat, NEW p, NEW w, IsCut(p, w, d), NEW from \in Seq(Letter)
  PROVE  IsCut(PrintStep(p, from), w \o from, d)
<1>1. p \in PrintState(d) /\ w \in Seq(Letter) /\ p.into \in StringOf(d) /\ p.failed \in BOOLEAN
  BY DEF IsCut, PrintState
<1>2. PICK l \in Nat : l = Len(w)
  BY <1>1, LenProperties
<1>3. PICK m \in Nat : m = Len(from)
  BY LenProperties
<1>4. PICK v : v = w \o from
  OBVIOUS
<1>5. v \in Seq(Letter) /\ Len(v) = l + m /\ \A i \in 1 .. l + m : v[i] = IF i <= l THEN w[i] ELSE from[i - l]
  BY <1>1, <1>2, <1>3, <1>4, ConcatProperties
<1>6. PICK k : k = Strlen(p.into.data)
  OBVIOUS
<1>7. k = (IF l <= d THEN l ELSE d) /\ (\A i \in 1 .. k : p.into.data[i] = w[i]) /\ p.failed = (l > d)
  BY <1>2, <1>6 DEF IsCut
<1>8. PICK q : q = PrintStep(p, from)
  OBVIOUS
<1>9. q \in PrintState(d)
  BY <1>1, <1>8, PrintStepType
<1>10. CASE p.failed
  <2>0. l > d
    BY <1>7, <1>10, Zenon
  <2>12. q = p
    BY <1>8, <1>10, Zenon DEF PrintStep
  <2>1. q = p /\ l > d /\ k = d
    BY <1>7, <2>0, <2>12
  <2>2. Strlen(q.into.data) = IF l + m <= d THEN l + m ELSE d
    BY <1>6, <2>1
  <2>3. \A i \in 1 .. k : q.into.data[i] = v[i]
    <3>1. TAKE i \in 1 .. k
    <3>2. i \in 1 .. l + m /\ i <= l
      BY <2>1
    <3> QED
      BY <1>5, <1>7, <2>1, <3>2
  <2>4. q.failed = (l + m > d)
    <3>1. l + m > d
      BY <2>1
    <3> QED
      BY <1>1, <1>10, <2>1, <3>1
  <2> QED
    BY <1>4, <1>5, <1>6, <1>8, <1>9, <2>1, <2>2, <2>3, <2>4 DEF IsCut
<1>11. CASE ~ p.failed
  <2>0. ~ (l > d)
    BY <1>7, <1>11, Zenon
  <2>1. l <= d /\ k = l
    <3>1. l <= d
      BY <2>0
    <3>2. k = IF l <= d THEN l ELSE d
      BY <1>7
    <3> QED
      BY <3>1, <3>2
  <2>2. PICK n : n = Fits(k, d, m)
    OBVIOUS
  <2>3. PICK o : o = PtsPuts(p.into, from)
    OBVIOUS
  <2>4. Fit(p.into, from) = n /\ o \in StringOf(d) /\ Strlen(o.data) = k + n
        /\ \A i \in 1 .. k + n : o.data[i] = IF i <= k THEN p.into.data[i] ELSE from[i - k]
    BY <1>1, <1>3, <1>6, <2>2, <2>3, PutsFacts
  <2>5. q = [into |-> o, failed |-> n < m]
    BY <1>3, <1>8, <1>11, <2>3, <2>4 DEF PrintStep
  <2>6. n = IF m <= d - l THEN m ELSE d - l
    BY <2>1, <2>2 DEF Fits
  <2>7. Strlen(q.into.data) = IF l + m <= d THEN l + m ELSE d
    <3>1. q.into = o
      BY <2>5
    <3>2. l + n = IF l + m <= d THEN l + m ELSE d
      BY <2>1, <2>6
    <3> QED
      BY <2>1, <2>4, <3>1, <3>2
  <2>8. n \in Nat /\ k + n <= l + m
    BY <2>1, <2>6
  <2>9. \A i \in 1 .. k + n : q.into.data[i] = v[i]
    <3>1. TAKE i \in 1 .. k + n
    <3>2. i \in 1 .. l + m /\ o.data[i] = IF i <= k THEN p.into.data[i] ELSE from[i - k]
      BY <2>1, <2>4, <2>8
    <3>3. CASE i <= k
      <4>1. i \in 1 .. k /\ i <= l
        BY <2>1, <3>2, <3>3
      <4> QED
        BY <1>5, <1>7, <2>5, <3>2, <3>3, <4>1
    <3>4. CASE ~ (i <= k)
      BY <1>5, <2>1, <2>5, <3>2, <3>4
    <3> QED
      BY <3>3, <3>4
  <2>10. q.failed = (l + m > d)
    <3>1. (n < m) = (l + m > d)
      BY <2>1, <2>6
    <3> QED
      BY <2>5, <3>1
  <2>11. Strlen(q.into.data) = k + n
    BY <2>4, <2>5
  <2> QED
    BY <1>4, <1>5, <1>8, <1>9, <2>7, <2>9, <2>10, <2>11 DEF IsCut
<1> QED
  BY <1>10, <1>11

LEMMA CutHolds ==
  ASSUME NEW d \in Nat, NEW start \in StringOf(d), NEW text \in Seq(Letter), NEW pieces \in Seq(Seq(Letter)),
         IsCut([into |-> start, failed |-> FALSE], text, d)
  PROVE  IsCut(Printed(pieces, start)[Len(pieces)], Joined(text, pieces)[Len(pieces)], d)
<1>1. PICK n \in Nat : n = Len(pieces)
  BY LenProperties
<1>2. PICK f : f = Printed(pieces, start)
  OBVIOUS
<1>3. PICK g : g = Joined(text, pieces)
  OBVIOUS
<1>4. f[0] = [into |-> start, failed |-> FALSE] /\ \A i \in 1 .. n : f[i] = PrintStep(f[i - 1], pieces[i])
  BY <1>1, <1>2, PrintedEquation
<1>5. g[0] = text /\ \A i \in 1 .. n : g[i] = g[i - 1] \o pieces[i]
  BY <1>1, <1>3, JoinedEquation, ZenonT(60)
<1> DEFINE S == {k \in Nat : k <= n => IsCut(f[k], g[k], d)}
<1>6. 0 \in S
  BY <1>4, <1>5
<1>7. ASSUME NEW k \in Nat, k \in S
      PROVE  k + 1 \in S
  <2>1. SUFFICES ASSUME k + 1 <= n PROVE IsCut(f[k + 1], g[k + 1], d)
    OBVIOUS
  <2>2. IsCut(f[k], g[k], d)
    BY <1>7, <2>1
  <2>3. k + 1 \in 1 .. n /\ (k + 1) - 1 = k
    BY <2>1
  <2>4. pieces[k + 1] \in Seq(Letter)
    BY <1>1, <2>3, ElementOfSeq
  <2>5. f[k + 1] = PrintStep(f[k], pieces[k + 1]) /\ g[k + 1] = g[k] \o pieces[k + 1]
    BY <1>4, <1>5, <2>3
  <2>6. IsCut(PrintStep(f[k], pieces[k + 1]), g[k] \o pieces[k + 1], d)
    BY <2>2, <2>4, CutGoesOn
  <2> QED
    BY <2>5, <2>6
<1> HIDE DEF S
<1>8. n \in S
  BY <1>6, <1>7, Induction
<1>9. IsCut(f[n], g[n], d)
  BY <1>8 DEF S
<1> QED
  BY <1>1, <1>2, <1>3, <1>9

\* What print_to_string leaves in a string, as IsCut says it.
LEMMA PrintIsCut ==
  ASSUME NEW o, Proper(o), o.type = "string", NEW pieces \in Pieces, NEW nostart \in BOOLEAN
  PROVE  IsCut(PrintToString(pieces, o, nostart), Joined(IF nostart THEN Text(o) ELSE <<>>, pieces)[Len(pieces)], o.dim)
<1>1. PICK d \in Nat : d = o.dim
  BY ProperText
<1>2. o \in StringOf(d) /\ o.data \in Seq(Byte) /\ o.data \in Seq(Int) /\ Len(o.data) = d + 1 /\ o.data[d + 1] = 0 /\ Strlen(o.data) \in 0 .. d
  BY <1>1, StringOfProper
<1>3. pieces \in Seq(Seq(Letter))
  BY StringsAssumption DEF Letter
<1>4. PICK start : start = IF nostart THEN o ELSE [o EXCEPT !.data = Put(@, 0, <<0>>)]
  OBVIOUS
<1>5. PICK text : text = IF nostart THEN Text(o) ELSE <<>>
  OBVIOUS
<1>6. start \in StringOf(d) /\ text \in Seq(Letter) /\ IsCut([into |-> start, failed |-> FALSE], text, d)
  <2>1. CASE nostart
    <3>1. start = o /\ text = Text(o)
      BY <1>4, <1>5, <2>1
    <3>2. /\ text \in Seq(Letter) /\ Len(text) = Strlen(o.data)
          /\ \A i \in 1 .. Strlen(o.data) : text[i] = o.data[i]
      BY <1>2, <3>1, TextFacts
    <3>3. PICK p : p = [into |-> o, failed |-> FALSE]
      OBVIOUS
    <3>4. p \in PrintState(d) /\ p.into = o /\ p.failed = FALSE
      BY <1>2, <3>3 DEF PrintState
    <3>5. Strlen(o.data) = (IF Len(text) <= d THEN Len(text) ELSE d) /\ FALSE = (Len(text) > d)
      BY <1>2, <3>2
    <3>6. IsCut(p, text, d)
      BY <3>2, <3>4, <3>5 DEF IsCut
    <3> QED
      BY <1>2, <3>1, <3>2, <3>3, <3>6
  <2>2. CASE ~ nostart
    <3>1. start = [o EXCEPT !.data = Put(@, 0, <<0>>)] /\ text = <<>>
      BY <1>4, <1>5, <2>2
    <3>2. PICK x : x = Put(o.data, 0, <<0>>)
      OBVIOUS
    <3>3. x \in Seq(Byte) /\ Len(x) = d + 1 /\ Strlen(x) = 0 /\ \A i \in 2 .. d + 1 : x[i] = o.data[i]
      <4>1. Byte \in SUBSET Int /\ 0 \in Byte /\ Len(o.data) > 0
        BY <1>2 DEF Byte
      <4> QED
        BY <1>2, <3>2, <4>1, PutStart
    <3>4. x[d + 1] = 0
      <4>1. CASE d = 0
        <5>1. x \in Seq(Int)
          BY <3>3, ByteFacts
        <5>2. Strlen(x) < Len(x)
          BY <3>3
        <5>3. x[Strlen(x) + 1] = 0
          BY <5>1, <5>2, StrlenFacts
        <5> QED
          BY <3>3, <4>1, <5>3
      <4>2. CASE d # 0
        <5>1. d + 1 \in 2 .. d + 1
          BY <4>2
        <5> QED
          BY <1>2, <3>3, <5>1
      <4> QED
        BY <4>1, <4>2
    <3>5. start \in StringOf(d) /\ start.data = x
      <4>1. o \in [type : {"string"}, dim : {d}, data : Seq(Byte)]
        BY <1>2 DEF StringOf
      <4>2. start = [o EXCEPT !.data = x]
        BY <3>1, <3>2
      <4>3. start \in [type : {"string"}, dim : {d}, data : Seq(Byte)] /\ start.data = x
        BY <3>3, <4>1, <4>2
      <4> QED
        BY <3>3, <3>4, <4>3 DEF StringOf
    <3>6. PICK p : p = [into |-> start, failed |-> FALSE]
      OBVIOUS
    <3>7. p \in PrintState(d) /\ p.into = start /\ p.failed = FALSE
      BY <3>5, <3>6 DEF PrintState
    <3>8. text \in Seq(Letter) /\ Len(text) = 0
      BY <3>1, EmptySeq
    <3>9. Strlen(p.into.data) = 0 /\ 0 = (IF 0 <= d THEN 0 ELSE d) /\ FALSE = (0 > d)
      BY <3>3, <3>5, <3>7
    <3>10. \A i \in 1 .. 0 : p.into.data[i] = text[i]
      OBVIOUS
    <3>11. IsCut(p, text, d)
      BY <3>7, <3>8, <3>9, <3>10 DEF IsCut
    <3> QED
      BY <3>5, <3>6, <3>8, <3>11
  <2> QED
    BY <2>1, <2>2
<1>7. IsCut(Printed(pieces, start)[Len(pieces)], Joined(text, pieces)[Len(pieces)], d)
  BY <1>3, <1>6, CutHolds
<1>8. PrintToString(pieces, o, nostart) = Printed(pieces, start)[Len(pieces)]
  BY <1>4 DEF PrintToString
<1> QED
  BY <1>1, <1>5, <1>7, <1>8

LEMMA PrintCutAlways ==
  ASSUME NEW o, Proper(o), o.type = "string"
  PROVE  PrintCut(o)
<1>1. SUFFICES ASSUME NEW pieces \in Pieces, NEW nostart \in BOOLEAN, NEW p, NEW whole,
                      p = PrintToString(pieces, o, nostart),
                      whole = Joined(IF nostart THEN Text(o) ELSE <<>>, pieces)[Len(pieces)]
               PROVE  /\ Sized(p.into) /\ Text(p.into) = SubSeq(whole, 1, Min({Len(whole), o.dim}))
                      /\ p.failed = (Len(whole) > o.dim)
  BY DEF PrintCut
<1>2. PICK d \in Nat : d = o.dim
  BY ProperText
<1>3. IsCut(p, whole, d)
  BY <1>1, <1>2, PrintIsCut
<1>4. p.into \in StringOf(d) /\ whole \in Seq(Letter) /\ p.failed = (Len(whole) > d)
  BY <1>3 DEF IsCut, PrintState
<1>5. Proper(p.into) /\ p.into.data \in Seq(Byte)
  BY <1>4, StringOfProper
<1>6. PICK l \in Nat : l = Len(whole)
  BY <1>4, LenProperties
<1>7. PICK k : k = IF l <= d THEN l ELSE d
  OBVIOUS
<1>8. Strlen(p.into.data) = k /\ \A i \in 1 .. k : p.into.data[i] = whole[i]
  BY <1>3, <1>6, <1>7 DEF IsCut
<1>9. Min({l, d}) = k
  <2>1. \A x, y \in Int : Min({x, y}) = IF x <= y THEN x ELSE y
    BY DEF Min
  <2> QED
    BY <1>7, <2>1
<1>10. Text(p.into) = SubSeq(whole, 1, k)
  <2>1. PICK t : t = Text(p.into)
    OBVIOUS
  <2>2. PICK u : u = SubSeq(whole, 1, k)
    OBVIOUS
  <2>3. t \in Seq(Letter) /\ Len(t) = k /\ \A i \in 1 .. k : t[i] = whole[i]
    BY <1>5, <1>8, <2>1, TextFacts
  <2>4. u \in Seq(Letter) /\ Len(u) = k - 1 + 1 /\ \A i \in 1 .. k - 1 + 1 : u[i] = whole[1 + i - 1]
    <3>1. 1 \in 1 .. Len(whole) + 1 /\ k \in 1 - 1 .. Len(whole)
      BY <1>6, <1>7
    <3> QED
      BY <1>4, <2>2, <3>1, PartFacts
  <2>5. k - 1 + 1 = k /\ \A i \in 1 .. k : 1 + i - 1 = i
    BY <1>7
  <2>6. Len(u) = Len(t) /\ \A i \in 1 .. Len(t) : t[i] = u[i]
    BY <2>3, <2>4, <2>5
  <2> QED
    BY <2>1, <2>2, <2>3, <2>4, <2>6, SeqEqual
<1>11. Sized(p.into)
  BY <1>5, ProperSized
<1> QED
  BY <1>2, <1>4, <1>6, <1>9, <1>10, <1>11
-----------------------------------------------------------------------------
(* Every operation leaves objects that a variable may hold, or fails.      *)

LEMMA OtherElements ==
  ASSUME NEW S, NEW T, NEW s \in Seq(S), \A i \in 1 .. Len(s) : s[i] \in T
  PROVE  s \in Seq(T)
<1>1. PICK n \in Nat : n = Len(s) /\ DOMAIN s = 1 .. n
  BY LenProperties
<1>2. s = [i \in 1 .. n |-> s[i]]
  BY <1>1
<1> QED
  BY <1>1, <1>2, Listed

LEMMA FilledBytes ==
  ASSUME NEW n \in Nat, NEW byte \in Byte
  PROVE  Filled(n, byte) \in Seq(Byte) /\ Len(Filled(n, byte)) = n
<1>1. byte \in Int
  BY DEF Byte
<1>2. PICK f : f = Filled(n, byte)
  OBVIOUS
<1>3. f \in Seq(Int) /\ Len(f) = n /\ \A i \in 1 .. n : f[i] = byte
  BY <1>1, <1>2, FilledFacts
<1> QED
  BY <1>2, <1>3, OtherElements

LEMMA ConsArrayProper ==
  ASSUME NEW n \in Nat, NEW kind \in Kinds
  PROVE  Proper(ConsArray(n, kind))
<1>1. 0 \in Byte /\ 32 \in Byte /\ ~ (n < 0)
  BY DEF Byte
<1>2. CASE kind = "string"
  <2>1. ConsArray(n, kind) = Strcons(Filled(n, 32))
    BY <1>1, <1>2 DEF ConsArray
  <2> QED
    BY <1>1, <2>1, FilledBytes, StrconsMade
<1>3. CASE kind # "string"
  <2>1. PICK f : f = Filled(n, 0)
    OBVIOUS
  <2>2. f \in Seq(Byte) /\ f \in Seq(Int) /\ Len(f) = n
    BY <1>1, <2>1, FilledBytes, ByteFacts
  <2>3. kind \in {"bytes", "longs", "doubles", "array"}
    BY <1>3 DEF Kinds
  <2>4. ConsArray(n, kind) = [type |-> kind, dim |-> n, data |-> f]
    BY <1>1, <1>3, <2>1, <2>3 DEF ConsArray, Obj
  <2> QED
    BY <1>3, <2>2, <2>4 DEF Proper
<1> QED
  BY <1>2, <1>3

LEMMA LfreadProper ==
  ASSUME NEW n \in Nat, NEW r \in Seq(Byte), Len(r) <= n
  PROVE  Proper(Lfread(n, r))
<1>1. CASE Len(r) = n
  <2>1. PICK f : f = Filled(n, Junk)
    OBVIOUS
  <2>2. f \in Seq(Int) /\ Len(f) = n
    BY <2>1, FilledFacts DEF Junk
  <2>3. PICK b : b = Append(f, 0)
    OBVIOUS
  <2>4. b \in Seq(Int) /\ Len(b) = n + 1 /\ b[n + 1] = 0
    BY <2>2, <2>3, AppendProperties
  <2>5. r \in Seq(Int) /\ \A i \in 1 .. n : r[i] \in Byte
    BY <1>1, ByteFacts
  <2>6. PICK d : d = Put(b, 0, r)
    OBVIOUS
  <2>7. IsPut(Int, d, b, 0, r)
    <3>1. 0 + Len(r) <= Len(b) /\ 0 \in Nat
      BY <1>1, <2>4
    <3> QED
      BY <2>4, <2>5, <2>6, <3>1, PutFacts
  <2>8. d \in Seq(Int) /\ Len(d) = n + 1 /\ \A i \in 1 .. n + 1 : d[i] = IF i \in 0 + 1 .. 0 + n THEN r[i - 0] ELSE b[i]
    BY <1>1, <2>4, <2>7 DEF IsPut
  <2>9. d[n + 1] = 0 /\ \A i \in 1 .. n : d[i] = r[i]
    BY <2>4, <2>8
  <2>10. \A i \in 1 .. n + 1 : d[i] \in Byte
    <3>1. TAKE i \in 1 .. n + 1
    <3>2. i = n + 1 \/ i \in 1 .. n
      OBVIOUS
    <3>3. 0 \in Byte
      BY DEF Byte
    <3> QED
      BY <2>5, <2>9, <3>2, <3>3, Zenon
  <2>11. d \in Seq(Byte)
    BY <2>8, <2>10, OtherElements
  <2>12. Lfread(n, r) = [type |-> "string", dim |-> n, data |-> d]
    BY <1>1, <2>1, <2>3, <2>6 DEF Lfread, Obj
  <2> QED
    BY <2>8, <2>9, <2>11, <2>12 DEF Proper, Kinds
<1>2. CASE Len(r) # n
  <2>1. Lfread(n, r) = Strcons(r)
    BY <1>2 DEF Lfread
  <2> QED
    BY <2>1, StrconsMade
<1> QED
  BY <1>1, <1>2

LEMMA MadeProper == \A o \in Made : Proper(o)
<1>1. SUFFICES ASSUME NEW o \in Made PROVE Proper(o)
  OBVIOUS
<1>2. MaxDim \in Nat /\ Records \subseteq Seq(Byte)
  BY StringsAssumption DEF Byte
<1>3. \/ \E n \in 0 .. MaxDim, kind \in Kinds : o = ConsArray(n, kind)
      \/ \E n \in 1 .. MaxDim, r \in Records : Len(r) <= n /\ o = Lfread(n, r)
  BY DEF Made
<1>4. ASSUME NEW n \in 0 .. MaxDim, NEW kind \in Kinds, o = ConsArray(n, kind)
      PROVE  Proper(o)
  <2>1. n \in Nat
    BY <1>2
  <2> QED
    BY <1>4, <2>1, ConsArrayProper
<1>5. ASSUME NEW n \in 1 .. MaxDim, NEW r \in Records, Len(r) <= n, o = Lfread(n, r)
      PROVE  Proper(o)
  <2>1. n \in Nat /\ r \in Seq(Byte)
    BY <1>2
  <2> QED
    BY <1>5, <2>1, LfreadProper
<1> QED
  BY <1>3, <1>4, <1>5
LEMMA SymbolEnded == Ended(Symbol)
<1>1. PICK d : d = <<97, 0>>
  OBVIOUS
<1>2. d \in Seq(Byte) /\ d \in Seq(Int) /\ Len(d) = 2 /\ d[1] = 97 /\ d[2] = 0
  BY <1>1 DEF Byte
<1>3. Strlen(d) = 1
  <2>1. 1 \in 0 .. Len(d) /\ (\A i \in 1 .. 1 : d[i] # 0) /\ d[1 + 1] = 0
    BY <1>2
  <2> QED
    BY <1>2, <2>1, StrlenIs
<1>4. Symbol = [type |-> "symbol", dim |-> 0, data |-> d]
  BY <1>1 DEF Symbol, Obj
<1>5. Symbol.type = "symbol" /\ Symbol.data = d
  BY <1>4
<1>6. Strlen(Symbol.data) < Len(Symbol.data)
  BY <1>2, <1>3, <1>5
<1> QED
  BY <1>2, <1>5, <1>6 DEF Ended

LEMMA BytesAppendProper ==
  ASSUME NEW a, NEW b, Proper(a), Proper(b)
  PROVE  BytesAppend(<<a, b>>) = Failed \/ Proper(BytesAppend(<<a, b>>))
<1>1. CASE Dimmed(a) /\ Dimmed(b)
  <2>1. PICK p \in Seq(Byte) : p = Data(a)
    BY <1>1, DataFacts
  <2>2. PICK q \in Seq(Byte) : q = Data(b)
    BY <1>1, DataFacts
  <2>3. p \o q \in Seq(Byte) /\ Len(p \o q) = Len(p) + Len(q)
    BY ConcatProperties
  <2>4. BytesAppend(<<a, b>>) = Obj("bytes", Len(p) + Len(q), p \o q)
    BY <1>1, <2>1, <2>2, BytesAppendTwo
  <2>5. Proper(Obj("bytes", Len(p \o q), p \o q))
    BY <2>3, BytesMade
  <2> QED
    BY <2>3, <2>4, <2>5
<1>2. CASE ~ (Dimmed(a) /\ Dimmed(b))
  <2>1. PICK args : args = <<a, b>>
    OBVIOUS
  <2>2. DOMAIN args = {1, 2} /\ args[1] = a /\ args[2] = b
    BY <2>1
  <2>3. \E i \in DOMAIN args : ~ Dimmed(args[i])
    BY <1>2, <2>2
  <2> QED
    BY <2>1, <2>3 DEF BytesAppend
<1> QED
  BY <1>1, <1>2

LEMMA StringAppendProper ==
  ASSUME NEW a, NEW b, Proper(a), Proper(b) \/ b = Symbol
  PROVE  StringAppend(<<a, b>>) = Failed \/ Proper(StringAppend(<<a, b>>))
<1>1. CASE Stringp(a) /\ Stringp(b)
  <2>1. a.type = "string"
    BY <1>1 DEF Proper, Kinds, Stringp
  <2>2. Ended(a)
    BY <2>1, ProperText
  <2>3. Ended(b)
    <3>1. CASE b = Symbol
      BY <3>1, SymbolEnded
    <3>2. CASE Proper(b)
      <4>1. b.type = "string"
        BY <1>1, <3>2 DEF Proper, Kinds, Stringp
      <4> QED
        BY <3>2, <4>1, ProperText
    <3> QED
      BY <3>1, <3>2
  <2>4. PICK t \in Seq(Letter) : StringAppend(<<a, b>>) = Strcons(t)
    <3>1. StringAppend(<<a, b>>) = Strcons(Text(a) \o Text(b)) /\ Text(a) \o Text(b) \in Seq(Letter)
      BY <2>2, <2>3, StringAppendTwo
    <3> QED
      BY <3>1
  <2>5. Proper(Strcons(t))
    BY StrconsText
  <2> QED
    BY <2>4, <2>5
<1>2. CASE ~ (Stringp(a) /\ Stringp(b))
  <2>1. PICK args : args = <<a, b>>
    OBVIOUS
  <2>2. DOMAIN args = {1, 2} /\ args[1] = a /\ args[2] = b
    BY <2>1
  <2>3. \E i \in DOMAIN args : ~ Stringp(args[i])
    BY <1>2, <2>2
  <2> QED
    BY <2>1, <2>3 DEF StringAppend
<1> QED
  BY <1>1, <1>2

LEMMA TrimmedProper ==
  ASSUME NEW a, Proper(a), a.type = "string"
  PROVE  \A o \in {StringTrim(a), StringTrimLeft(a), StringTrimRight(a), StringUpcase(a), StringDowncase(a)} : Proper(o)
<1>1. a.data \in Seq(Byte)
  BY DEF Proper
<1>2. PICK s \in Seq(Letter) : s = Text(a)
  BY <1>1, TextFacts
<1>3. PICK r : r = SubSeq(s, 1, TrimEnd(s, 1))
  OBVIOUS
<1>4. PICK l : l = SubSeq(s, TrimStart(s), Len(s))
  OBVIOUS
<1>5. PICK m : m = SubSeq(s, TrimStart(s), TrimEnd(s, TrimStart(s)))
  OBVIOUS
<1>6. r \in Seq(Letter) /\ l \in Seq(Letter) /\ m \in Seq(Letter)
  BY <1>3, <1>4, <1>5, TrimmedAlike
<1>7. StringTrim(a) = Strcons(m) /\ StringTrimLeft(a) = Strcons(l) /\ StringTrimRight(a) = Strcons(r)
  BY <1>2, <1>3, <1>4, <1>5 DEF StringTrim, StringTrimLeft, StringTrimRight
<1>8. PICK u : u = [i \in DOMAIN Text(a) |-> Toupper(Text(a)[i])]
  OBVIOUS
<1>9. PICK w : w = [i \in DOMAIN Text(a) |-> Tolower(Text(a)[i])]
  OBVIOUS
<1>10. StringUpcase(a) = Strcons(u) /\ u \in Seq(Letter) /\ StringDowncase(a) = Strcons(w) /\ w \in Seq(Letter)
  BY <1>1, <1>8, <1>9, Cased
<1>11. \A x \in Seq(Letter) : Proper(Strcons(x))
  BY StrconsText
<1> QED
  BY <1>6, <1>7, <1>10, <1>11

LEMMA DerivedProper ==
  ASSUME Proper(str1), Proper(str2)
  PROVE  \A o \in Derived : o = Failed \/ Proper(o)
<1>1. ASSUME NEW s \in 0 .. MaxDim, NEW e \in -1 .. MaxDim
      PROVE  Substring(str1, s, e) = Failed \/ Proper(Substring(str1, s, e))
  <2>1. CASE Dimmed(str1)
    <3>1. Data(str1) \in Seq(Byte) /\ s \in Int /\ e \in Int
      BY <2>1, DataFacts
    <3> QED
      BY <2>1, <3>1, SubstringProper
  <2>2. CASE ~ Dimmed(str1)
    BY <2>2 DEF Substring
  <2> QED
    BY <2>1, <2>2
<1>2. BytesAppend(<<str1, str2>>) = Failed \/ Proper(BytesAppend(<<str1, str2>>))
  BY BytesAppendProper
<1>3. StringAppend(<<str1, str2>>) = Failed \/ Proper(StringAppend(<<str1, str2>>))
  BY StringAppendProper
<1>4. StringAppend(<<str1, Symbol>>) = Failed \/ Proper(StringAppend(<<str1, Symbol>>))
  BY StringAppendProper
<1>5. ASSUME Stringp(str1), NEW o \in {StringTrim(str1), StringTrimLeft(str1), StringTrimRight(str1), StringUpcase(str1), StringDowncase(str1)}
      PROVE  Proper(o)
  <2>1. str1.type = "string"
    BY <1>5 DEF Proper, Kinds, Stringp
  <2> QED
    BY <2>1, TrimmedProper
<1>6. ASSUME NEW o \in Derived
      PROVE  o = Failed \/ Proper(o)
  <2> DEFINE Appended  == {BytesAppend(<<str1, str2>>), StringAppend(<<str1, str2>>), StringAppend(<<str1, Symbol>>)}
             Parts     == {Substring(str1, s, e) : s \in 0 .. MaxDim, e \in -1 .. MaxDim}
             Converted == {StringTrim(str1), StringTrimLeft(str1), StringTrimRight(str1), StringUpcase(str1), StringDowncase(str1)}
  <2>1. o \in Appended \union Parts \union (IF Stringp(str1) THEN Converted ELSE {})
    BY <1>6 DEF Derived
  <2>2. ASSUME o \in Appended PROVE o = Failed \/ Proper(o)
    BY <1>2, <1>3, <1>4, <2>2
  <2>3. ASSUME o \in Parts PROVE o = Failed \/ Proper(o)
    <3>1. PICK s \in 0 .. MaxDim, e \in -1 .. MaxDim : o = Substring(str1, s, e)
      BY <2>3
    <3> QED
      BY <1>1, <3>1
  <2>4. ASSUME Stringp(str1), o \in Converted PROVE Proper(o)
    BY <1>5, <2>4
  <2> HIDE DEF Appended, Parts, Converted
  <2>5. o \in Appended \/ o \in Parts \/ (Stringp(str1) /\ o \in Converted)
    BY <2>1
  <2> QED
    BY <2>2, <2>3, <2>4, <2>5, Zenon
<1> QED
  BY <1>6

LEMMA LfreadIntoProper ==
  ASSUME NEW o, Proper(o), o.type \in {"string", "bytes"}, NEW r \in Seq(Byte), Len(r) <= o.dim
  PROVE  Proper(LfreadInto(o, r))
<1>1. o \in [type : Kinds, dim : Nat, data : Seq(Int)] /\ o.data \in Seq(Byte)
  BY DEF Proper
<1>2. PICK n \in Nat : n = Len(o.data) /\ o.dim <= n /\ (o.type = "string" => n = o.dim + 1 /\ o.data[n] = 0) /\ (o.type = "bytes" => n = o.dim)
  <2>1. Len(o.data) \in Nat /\ o.dim \in Nat
    BY <1>1, LenProperties
  <2>2. Len(o.data) = o.dim + (IF o.type = "string" THEN 1 ELSE 0) /\ (o.type = "string" => o.data[o.dim + 1] = 0)
    BY DEF Proper
  <2> QED
    BY <2>1, <2>2
<1>3. PICK d : d = Put(o.data, 0, r)
  OBVIOUS
<1>4. PICK m \in Nat : m = Len(r)
  BY LenProperties
<1>5. IsPut(Byte, d, o.data, 0, r)
  <2>1. 0 + Len(r) <= Len(o.data) /\ 0 \in Nat
    BY <1>1, <1>2, <1>4
  <2> QED
    BY <1>1, <1>3, <2>1, PutFacts
<1>6. d \in Seq(Byte) /\ Len(d) = n /\ \A i \in 1 .. n : d[i] = IF i \in 0 + 1 .. 0 + m THEN r[i - 0] ELSE o.data[i]
  BY <1>2, <1>4, <1>5 DEF IsPut
<1>7. o.type = "string" => d[o.dim + 1] = 0
  <2>1. SUFFICES ASSUME o.type = "string" PROVE d[n] = 0
    BY <1>2
  <2>2. n \in 1 .. n /\ n \notin 0 + 1 .. 0 + m
    BY <1>1, <1>2, <1>4, <2>1
  <2> QED
    BY <1>2, <1>6, <2>1, <2>2
<1>8. d \in Seq(Int)
  BY <1>6, ByteFacts
<1>9. PICK new : new = LfreadInto(o, r)
  OBVIOUS
<1>10. new = [o EXCEPT !.data = d]
  BY <1>3, <1>9 DEF LfreadInto
<1>11. new \in [type : Kinds, dim : Nat, data : Seq(Int)] /\ new.type = o.type /\ new.dim = o.dim /\ new.data = d
  BY <1>1, <1>8, <1>10
<1>12. Len(d) = o.dim + (IF o.type = "string" THEN 1 ELSE 0)
  BY <1>2, <1>6, <1>1
<1>13. Proper(new)
  BY <1>6, <1>7, <1>11, <1>12 DEF Proper
<1> QED
  BY <1>9, <1>13

LEMMA ChangedProper ==
  ASSUME Proper(str1)
  PROVE  \A o \in Changed : o = Failed \/ Proper(o)
<1>1. MaxDim \in Nat /\ Records \subseteq Seq(Byte) /\ Values \subseteq Int
  BY StringsAssumption DEF Byte
<1>2. str1.dim \in Nat
  BY DEF Proper
<1>3. ASSUME NEW k \in 0 .. MaxDim, NEW v \in Values
      PROVE  Aset1(str1, k, v) = Failed \/ Proper(Aset1(str1, k, v))
  <2>1. k \in Nat /\ v \in Int
    BY <1>1
  <2>2. k < str1.dim \/ k >= str1.dim
    BY <1>2, <2>1
  <2> QED
    BY <2>1, <2>2, Stored
<1>4. ASSUME str1.type = "string", NEW p \in Pieces, NEW nostart \in BOOLEAN
      PROVE  Proper(PrintToString(p, str1, nostart).into)
  <2>1. PICK q : q = PrintToString(p, str1, nostart)
    OBVIOUS
  <2>2. PICK w : IsCut(q, w, str1.dim)
    BY <1>4, <2>1, PrintIsCut
  <2>3. q.into \in StringOf(str1.dim)
    BY <2>2 DEF IsCut, PrintState
  <2> QED
    BY <1>2, <2>1, <2>3, StringOfProper
<1>5. ASSUME str1.type \in {"string", "bytes"}, NEW r \in Records, Len(r) <= str1.dim
      PROVE  Proper(LfreadInto(str1, r))
  <2>1. r \in Seq(Byte)
    BY <1>1
  <2> QED
    BY <1>5, <2>1, LfreadIntoProper
<1>6. ASSUME NEW o \in Changed
      PROVE  o = Failed \/ Proper(o)
  <2> DEFINE Asets  == {Aset1(str1, k, v) : k \in 0 .. MaxDim, v \in Values}
             Prints == {PrintToString(p, str1, nostart).into : p \in Pieces, nostart \in BOOLEAN}
             Reads  == {LfreadInto(str1, r) : r \in {r \in Records : Len(r) <= str1.dim}}
  <2>1. o \in Asets \union (IF str1.type = "string" THEN Prints ELSE {})
              \union (IF str1.type \in {"string", "bytes"} THEN Reads ELSE {})
    BY <1>6 DEF Changed
  <2>2. ASSUME o \in Asets PROVE o = Failed \/ Proper(o)
    <3>1. PICK k \in 0 .. MaxDim, v \in Values : o = Aset1(str1, k, v)
      BY <2>2
    <3> QED
      BY <1>3, <3>1
  <2>3. ASSUME str1.type = "string", o \in Prints PROVE Proper(o)
    <3>1. PICK p \in Pieces, nostart \in BOOLEAN : o = PrintToString(p, str1, nostart).into
      BY <2>3
    <3> QED
      BY <1>4, <2>3, <3>1
  <2>4. ASSUME str1.type \in {"string", "bytes"}, o \in Reads PROVE Proper(o)
    <3>1. PICK r \in Records : Len(r) <= str1.dim /\ o = LfreadInto(str1, r)
      BY <2>4
    <3> QED
      BY <1>5, <2>4, <3>1
  <2> HIDE DEF Asets, Prints, Reads
  <2>5. o \in Asets \/ (str1.type = "string" /\ o \in Prints) \/ (str1.type \in {"string", "bytes"} /\ o \in Reads)
    BY <2>1
  <2> QED
    BY <2>2, <2>3, <2>4, <2>5, Zenon
<1> QED
  BY <1>6

-----------------------------------------------------------------------------
StringsInv == Proper(str1) /\ Proper(str2)

LEMMA StringsSoundAlways == StringsInv => StringsSound
<1>1. SUFFICES ASSUME Proper(str1), Proper(str2) PROVE StringsSound
  BY DEF StringsInv
<1>2. Sized(str1) /\ Sized(str2) /\ StoredFound(str1)
  BY <1>1, ProperSized, StoredFoundAlways
<1>3. ASSUME str1.type = "string"
      PROVE  PrintCut(str1) /\ TrimAndCase(str1) /\ AppendFound(str1, Symbol)
  BY <1>1, <1>3, PrintCutAlways, TrimAndCaseAlways, ProperText, SymbolEnded, AppendFoundAlways
<1>4. ASSUME str1.type = "string", str2.type = "string"
      PROVE  AppendFound(str1, str2)
  BY <1>1, <1>4, ProperText, AppendFoundAlways
<1>5. ASSUME Dimmed(str1)
      PROVE  CutAppended(str1) /\ \A len \in 0 .. Len(Data(str1)) : Lfwrite(str1, len) = Data(Substring(str1, 0, len))
  <2>1. Data(str1) \in Seq(Byte)
    BY <1>1, <1>5, DataFacts
  <2> QED
    BY <1>5, <2>1, CutAppendedAlways, LfwriteAlways
<1> QED
  BY <1>2, <1>3, <1>4, <1>5, Zenon DEF StringsSound

LEMMA StringsInvInit == StringsInit => StringsInv
<1>1. SUFFICES ASSUME StringsInit PROVE StringsInv
  OBVIOUS
<1>2. 0 \in Nat /\ 1 \in Nat /\ "string" \in Kinds /\ "bytes" \in Kinds
  BY DEF Kinds
<1>3. Proper(ConsArray(0, "string")) /\ Proper(ConsArray(1, "bytes"))
  BY <1>2, ConsArrayProper
<1> QED
  BY <1>1, <1>3 DEF StringsInit, StringsInv

LEMMA StringsInvStep == StringsInv /\ [StringsNext]_strings => StringsInv'
<1>1. SUFFICES ASSUME Proper(str1), Proper(str2), [StringsNext]_strings PROVE Proper(str1') /\ Proper(str2')
  BY DEF StringsInv, Proper
<1>2. CASE \E o \in Made \union Derived \union Changed : o # Failed /\ o.dim <= MaxDim /\ str1' = o /\ UNCHANGED str2
  <2>1. PICK o \in Made \union Derived \union Changed : o # Failed /\ str1' = o /\ UNCHANGED str2
    BY <1>2
  <2>2. Proper(o)
    BY <1>1, <2>1, MadeProper, DerivedProper, ChangedProper
  <2> QED
    BY <1>1, <2>1, <2>2
<1>3. CASE str1' = str2 /\ str2' = str1
  BY <1>1, <1>3
<1>4. CASE UNCHANGED strings
  BY <1>1, <1>4 DEF strings
<1> QED
  BY <1>1, <1>2, <1>3, <1>4, Zenon DEF StringsNext

\* sliba.c: whatever is stored, read, printed and made out of other objects
\* with the operations of arrays and strings, every object has the buffer
\* that its dimension says, and every string ends inside its own.
THEOREM StringsInvHolds == StringsSpec => []StringsInv
<1> QED
  BY StringsInvInit, StringsInvStep, PTL DEF StringsSpec

\* sliba.c: after any sequence of stores, reads and prints into objects and
\* of objects made out of others, of any dimension and with any contents,
\* buffers are written inside their ends only, prints are cut where a string
\* ends, and what is appended, cut, trimmed and stored is found again.
THEOREM StringsSoundHolds == StringsSpec => []StringsSound
<1> QED
  BY StringsInvHolds, StringsSoundAlways, PTL

-----------------------------------------------------------------------------
(* The loader.                                                              *)

USE SizeAssumption

-----------------------------------------------------------------------------
(* Arithmetic of pages.                                                    *)

Aligned(n) == n \in Nat /\ \E k \in Nat : n = k * PageSize

LEMMA Quotient ==
  ASSUME NEW n \in Nat
  PROVE  /\ n \div PageSize \in Nat /\ n % PageSize \in 0 .. PageSize - 1
         /\ n = (n \div PageSize) * PageSize + (n % PageSize)
  OBVIOUS

LEMMA AlignedTimes ==
  ASSUME NEW k \in Nat
  PROVE  Aligned(k * PageSize)
  BY DEF Aligned

LEMMA AlignedRemainder ==
  ASSUME NEW n \in Nat
  PROVE  n % PageSize = 0 => Aligned(n)
<1>1. PICK k \in Nat : n = k * PageSize + (n % PageSize)
  BY Quotient
<1>2. SUFFICES ASSUME n % PageSize = 0 PROVE Aligned(n)
  OBVIOUS
<1>3. n = k * PageSize
  BY <1>1, <1>2
<1> QED
  BY <1>3, AlignedTimes

LEMMA TimesDivided ==
  ASSUME NEW k \in Nat
  PROVE  (k * PageSize) \div PageSize = k
<1>1. k * PageSize \in Nat
  OBVIOUS
<1> DEFINE n == k * PageSize  q == n \div PageSize  r == n % PageSize
<1>2. q \in Nat /\ r \in 0 .. PageSize - 1 /\ k * PageSize = q * PageSize + r
  BY <1>1, Quotient
<1> HIDE DEF n, q, r
<1>3. ~ (k < q)
  <2>1. SUFFICES ASSUME k < q PROVE FALSE
    OBVIOUS
  <2>2. k * PageSize + PageSize <= q * PageSize
    BY <1>2, <2>1, TimesStrict
  <2>3. k * PageSize \in Nat /\ q * PageSize \in Nat
    BY <1>2
  <2> QED
    BY <1>2, <2>2, <2>3
<1>4. ~ (q < k)
  <2>1. SUFFICES ASSUME q < k PROVE FALSE
    OBVIOUS
  <2>2. q * PageSize + PageSize <= k * PageSize
    BY <1>2, <2>1, TimesStrict
  <2>3. k * PageSize \in Nat /\ q * PageSize \in Nat
    BY <1>2
  <2> QED
    BY <1>2, <2>2, <2>3
<1>5. q = k
  BY <1>2, <1>3, <1>4
<1> QED
  BY <1>5 DEF q, n

LEMMA AlignedDivided ==
  ASSUME NEW n, Aligned(n)
  PROVE  n \div PageSize \in Nat /\ (n \div PageSize) * PageSize = n
<1>1. PICK k \in Nat : n = k * PageSize
  BY DEF Aligned
<1> QED
  BY <1>1, TimesDivided

LEMMA AlignedSum ==
  ASSUME NEW m, NEW n, Aligned(m), Aligned(n)
  PROVE  Aligned(m + n)
<1>1. PICK k \in Nat : m = k * PageSize
  BY DEF Aligned
<1>2. PICK l \in Nat : n = l * PageSize
  BY DEF Aligned
<1>3. m + n = (k + l) * PageSize /\ k + l \in Nat /\ m + n \in Nat
  BY <1>1, <1>2 DEF Aligned
<1> QED
  BY <1>3 DEF Aligned

LEMMA AlignedDifference ==
  ASSUME NEW m, NEW n, Aligned(m), Aligned(n), n < m
  PROVE  Aligned(m - n) /\ m - n >= PageSize
<1>1. PICK k \in Nat : m = k * PageSize
  BY DEF Aligned
<1>2. PICK l \in Nat : n = l * PageSize
  BY DEF Aligned
<1>3. m \in Nat /\ n \in Nat
  BY DEF Aligned
<1>4. l < k
  <2>1. SUFFICES ASSUME k < l \/ k = l PROVE FALSE
    OBVIOUS
  <2>2. CASE k < l
    <3>1. k * PageSize + PageSize <= l * PageSize
      BY <2>2, TimesStrict
    <3> QED BY <1>1, <1>2, <1>3, <3>1
  <2> QED BY <2>1, <2>2, <1>1, <1>2, <1>3
<1>5. l * PageSize + PageSize <= k * PageSize
  BY <1>4, TimesStrict
<1>6. m - n = (k - l) * PageSize /\ k - l \in Nat
  BY <1>1, <1>2, <1>4
<1>7. m - n >= PageSize /\ m - n \in Nat
  BY <1>1, <1>2, <1>3, <1>5
<1>8. Aligned(m - n)
  BY <1>6, AlignedTimes
<1> QED
  BY <1>7, <1>8

\* What the functions of the page size give.
LEMMA Rounded ==
  ASSUME NEW n \in Nat
  PROVE  /\ Aligned(RoundUp(n)) /\ n <= RoundUp(n)
         /\ DwSpanCount(n) \in Nat /\ DwSpanCount(n) * PageSize = RoundUp(n)
         /\ \A m \in Nat : Aligned(m) /\ n <= m => RoundUp(n) <= m
<1>1. n + PageSize - 1 \in Nat
  OBVIOUS
<1>2. PICK q \in Nat : q = (n + PageSize - 1) \div PageSize
  BY <1>1, Quotient
<1>3. PICK r \in 0 .. PageSize - 1 : n + PageSize - 1 = q * PageSize + r
  BY <1>1, <1>2, Quotient
<1>4. RoundUp(n) = q * PageSize
  BY <1>2 DEF RoundUp
<1>5. Aligned(RoundUp(n))
  BY <1>4, AlignedTimes
<1>6. q * PageSize \in Nat
  OBVIOUS
<1>7. n <= RoundUp(n)
  BY <1>3, <1>4, <1>6
<1>8. DwSpanCount(n) = q
  BY <1>4, TimesDivided DEF DwSpanCount
<1>9. ASSUME NEW m \in Nat, Aligned(m), n <= m
      PROVE  RoundUp(n) <= m
  <2>1. PICK k \in Nat : m = k * PageSize
    BY <1>9 DEF Aligned
  <2>2. SUFFICES ASSUME k < q PROVE FALSE
    <3>1. CASE q = k
      BY <1>4, <2>1, <3>1, <1>6
    <3>2. CASE q < k
      <4>1. q * PageSize + PageSize <= k * PageSize
        BY <3>2, TimesStrict
      <4> QED BY <4>1, <1>4, <2>1, <1>6, <1>9
    <3> QED BY <3>1, <3>2
  <2>3. k * PageSize + PageSize <= q * PageSize
    BY <2>2, TimesStrict
  <2> QED
    BY <2>1, <2>3, <1>3, <1>6, <1>9
<1> QED
  BY <1>4, <1>5, <1>7, <1>8, <1>9

LEMMA SpaceAligned == Aligned(Space)
  BY AlignedRemainder

LEMMA Modulo ==
  ASSUME NEW n \in Nat, n < Space
  PROVE  n % Space = n
  OBVIOUS

LEMMA ModuloSpace ==
  ASSUME Space > 0
  PROVE  Space % Space = 0 /\ (-1) % Space = Space - 1
  OBVIOUS

-----------------------------------------------------------------------------
(* Ranges that do not wrap, and lists of them.                             *)

Ars == [base : Nat, pages : Nat]
Top(a) == a.base + a.pages * PageSize

\* A range of the space that is not the empty one at 0.
Regular(a) == a \in Ars /\ Aligned(a.base) /\ Top(a) \in 1 .. Space

LEMMA RegularTop ==
  ASSUME NEW a, Regular(a)
  PROVE  /\ a.base \in Nat /\ a.pages \in Nat /\ Aligned(Top(a)) /\ a.base <= Top(a) /\ Top(a) \in 1 .. Space
         /\ a.pages > 0 <=> a.base < Top(a)
         /\ Top(a) < Space => End(a) = Top(a)
         /\ LastByte(a) = Top(a) - 1
<1>1. a.base \in Nat /\ a.pages \in Nat
  BY DEF Regular, Ars
<1>2. PICK n \in Nat : n = a.pages * PageSize
  BY <1>1
<1>3. Top(a) = a.base + n /\ Top(a) \in 1 .. Space
  BY <1>2 DEF Top, Regular
<1>4. Aligned(n)
  BY <1>1, <1>2, AlignedTimes
<1>5. Aligned(Top(a))
  BY <1>3, <1>4, AlignedSum DEF Regular
<1>6. a.pages > 0 => n > 0
  <2>1. SUFFICES ASSUME 0 < a.pages PROVE n > 0
    BY <1>1
  <2>2. 0 * PageSize + PageSize <= a.pages * PageSize
    BY <1>1, <2>1, TimesStrict
  <2> QED
    BY <1>2, <2>2
<1>7. a.pages = 0 => n = 0
  BY <1>2
<1>8. End(a) = Top(a) % Space
  BY DEF End, Top
<1>9. Top(a) < Space => End(a) = Top(a)
  BY <1>3, <1>8, Modulo
<1>10. LastByte(a) = Top(a) - 1
  <2>1. CASE Top(a) < Space
    BY <2>1, <1>3, <1>9, Modulo DEF LastByte
  <2>2. CASE Top(a) = Space
    <3>1. End(a) = 0
      <4>1. Space > 0
        BY <1>3
      <4>2. End(a) = Space % Space
        BY <2>2, <1>8
      <4> QED
        BY <4>1, <4>2, ModuloSpace
    <3>2. LastByte(a) = (-1) % Space
      BY <3>1 DEF LastByte
    <3> QED
      BY <2>2, <3>2, <1>3, ModuloSpace
  <2> QED
    BY <2>1, <2>2, <1>3
<1> QED
  BY <1>1, <1>3, <1>5, <1>6, <1>7, <1>9, <1>10

LEMMA RegularCompared ==
  ASSUME NEW a, Regular(a), NEW b, Regular(b)
  PROVE  /\ Precedes(a, b) <=> Top(a) <= b.base
         /\ Reaches(a, b) <=> a.base <= b.base /\ b.base < Top(a)
  BY RegularTop DEF Precedes, Reaches

LEMMA RegularIn ==
  ASSUME NEW a, Regular(a), NEW x \in Nat
  PROVE  In(x, a) <=> a.base <= x /\ x < Top(a)
  BY RegularTop DEF In

\* A list that is in increasing order, of which no two ranges share a byte.
Ordered(list) ==
  /\ list \in Seq(Ars)
  /\ \A i \in 1 .. Len(list) : Regular(list[i])
  /\ \A i \in 1 .. Len(list) : \A j \in 1 .. i - 1 : Top(list[j]) <= list[i].base

LEMMA OrderedAscending ==
  ASSUME NEW list, Ordered(list)
  PROVE  Ascending(list)
<1>1. DOMAIN list = 1 .. Len(list) /\ Len(list) \in Nat
  BY DEF Ordered
<1>2. ASSUME NEW i \in 1 .. Len(list)
      PROVE  list[i].pages = 0 \/ ~ Wraps(list[i])
  BY <1>2, RegularTop DEF Ordered, Wraps
<1>3. ASSUME NEW i \in 1 .. Len(list), NEW j \in 1 .. i - 1
      PROVE  Precedes(list[j], list[i])
  <2>1. j \in 1 .. Len(list)
    BY <1>1
  <2> QED
    BY <2>1, RegularCompared DEF Ordered
<1> QED
  BY <1>1, <1>2, <1>3 DEF Ascending

Apart(a, b) == Top(a) <= b.base \/ Top(b) <= a.base

Members(list) == {list[i] : i \in 1 .. Len(list)}

\* A list that has one range more, or the same.
OrderedWith(list, a, new) == Ordered(new) /\ Members(new) = Members(list) \union {a}

LEMMA AppendedOrdered ==
  ASSUME NEW list, Ordered(list), NEW a, Regular(a), \A i \in 1 .. Len(list) : Top(list[i]) <= a.base
  PROVE  OrderedWith(list, a, Append(list, a))
<1>1. list \in Seq(Ars) /\ a \in Ars /\ Len(list) \in Nat
  BY DEF Ordered, Regular
<1>2. PICK new : new = Append(list, a)
  OBVIOUS
<1>3. /\ new \in Seq(Ars) /\ Len(new) = Len(list) + 1
      /\ \A i \in 1 .. Len(list) : new[i] = list[i]
      /\ new[Len(list) + 1] = a
  BY <1>1, <1>2
<1>4. ASSUME NEW i \in 1 .. Len(new)
      PROVE  Regular(new[i])
  BY <1>1, <1>3 DEF Ordered
<1>5. ASSUME NEW i \in 1 .. Len(new), NEW j \in 1 .. i - 1
      PROVE  Top(new[j]) <= new[i].base
  <2>1. j \in 1 .. Len(list) /\ new[j] = list[j]
    BY <1>1, <1>3
  <2>2. CASE i = Len(list) + 1
    BY <1>3, <2>1, <2>2
  <2>3. CASE i \in 1 .. Len(list)
    BY <1>3, <2>1, <2>3 DEF Ordered
  <2> QED
    BY <1>1, <1>3, <2>2, <2>3
<1>6. Members(new) = Members(list) \union {a}
  BY <1>1, <1>3 DEF Members
<1> QED
  BY <1>2, <1>3, <1>4, <1>5, <1>6 DEF OrderedWith, Ordered

LEMMA InsertedOrdered ==
  ASSUME NEW list, Ordered(list), NEW a, Regular(a), NEW n \in 1 .. Len(list),
         \A i \in 1 .. n - 1 : Top(list[i]) <= a.base,
         \A i \in n .. Len(list) : Top(a) <= list[i].base
  PROVE  OrderedWith(list, a, InsertAt(list, n, a))
<1>1. list \in Seq(Ars) /\ a \in Ars /\ Len(list) \in Nat
  BY DEF Ordered, Regular
<1>2. PICK new : new = InsertAt(list, n, a)
  OBVIOUS
<1>3. /\ new \in Seq(Ars) /\ Len(new) = Len(list) + 1
      /\ \A i \in 1 .. n - 1 : new[i] = list[i]
      /\ new[n] = a
      /\ \A i \in n + 1 .. Len(list) + 1 : new[i] = list[i - 1]
  <2>1. PICK p : p = SubSeq(list, 1, n - 1)
    OBVIOUS
  <2>2. p \in Seq(Ars) /\ Len(p) = n - 1 /\ \A i \in 1 .. n - 1 : p[i] = list[i]
    BY <1>1, <2>1
  <2>3. PICK q : q = SubSeq(list, n, Len(list))
    OBVIOUS
  <2>4. q \in Seq(Ars) /\ Len(q) = Len(list) - n + 1 /\ \A i \in 1 .. Len(list) - n + 1 : q[i] = list[n + i - 1]
    BY <1>1, <2>3
  <2>5. new = p \o <<a>> \o q
    BY <1>2, <2>1, <2>3 DEF InsertAt
  <2>6. PICK r : r = p \o <<a>>
    OBVIOUS
  <2>7. r \in Seq(Ars) /\ Len(r) = n /\ (\A i \in 1 .. n - 1 : r[i] = list[i]) /\ r[n] = a
    BY <1>1, <2>2, <2>6
  <2>8. new = r \o q
    BY <2>5, <2>6
  <2>9. /\ new \in Seq(Ars) /\ Len(new) = Len(list) + 1
        /\ \A i \in 1 .. n : new[i] = r[i]
        /\ \A i \in n + 1 .. Len(list) + 1 : new[i] = q[i - n]
    <3>1. /\ new \in Seq(Ars) /\ Len(new) = Len(r) + Len(q)
          /\ \A i \in 1 .. Len(r) + Len(q) : new[i] = IF i <= Len(r) THEN r[i] ELSE q[i - Len(r)]
      <4>1. r \in Seq(Ars) /\ q \in Seq(Ars)
        BY <2>4, <2>7
      <4>2. /\ r \o q \in Seq(Ars) /\ Len(r \o q) = Len(r) + Len(q)
            /\ \A i \in 1 .. Len(r) + Len(q) : (r \o q)[i] = IF i <= Len(r) THEN r[i] ELSE q[i - Len(r)]
        BY ONLY <4>1, ConcatProperties
      <4> QED
        BY <2>8, <4>2
    <3>2. Len(r) = n /\ Len(q) = Len(list) - n + 1 /\ Len(r) + Len(q) = Len(list) + 1
      BY <1>1, <2>4, <2>7
    <3>3. \A i \in 1 .. Len(list) + 1 : new[i] = IF i <= n THEN r[i] ELSE q[i - n]
      BY <3>1, <3>2
    <3> QED
      BY ONLY <1>1, <3>1, <3>2, <3>3, n \in 1 .. Len(list)
  <2>10. ASSUME NEW i \in n + 1 .. Len(list) + 1
         PROVE  new[i] = list[i - 1]
    <3>1. i - n \in 1 .. Len(list) - n + 1 /\ n + (i - n) - 1 = i - 1
      BY <1>1
    <3> QED
      BY <2>4, <2>9, <3>1
  <2> QED
    BY <1>1, <2>7, <2>9, <2>10
<1>4. ASSUME NEW i \in 1 .. Len(new)
      PROVE  Regular(new[i])
  BY <1>1, <1>3 DEF Ordered
<1>5. ASSUME NEW i \in 1 .. Len(new), NEW j \in 1 .. i - 1
      PROVE  Top(new[j]) <= new[i].base
  <2>1. CASE i < n
    BY <1>1, <1>3, <2>1, SMTT(60) DEF Ordered
  <2>2. CASE i = n
    BY <1>1, <1>3, <2>2
  <2>3. CASE i > n /\ j < n
    <3>1. new[i] = list[i - 1] /\ new[j] = list[j] /\ i - 1 \in 1 .. Len(list) /\ j \in 1 .. i - 2
      BY <1>1, <1>3, <2>3
    <3> QED
      BY <3>1 DEF Ordered
  <2>4. CASE i > n /\ j = n
    <3>1. new[i] = list[i - 1] /\ i - 1 \in n .. Len(list)
      BY <1>1, <1>3, <2>4
    <3> QED
      BY <1>3, <2>4, <3>1
  <2>5. CASE i > n /\ j > n
    <3>1. new[i] = list[i - 1] /\ new[j] = list[j - 1] /\ i - 1 \in 1 .. Len(list) /\ j - 1 \in 1 .. i - 2
      BY <1>1, <1>3, <2>5
    <3> QED
      BY <3>1 DEF Ordered
  <2> QED
    BY <1>1, <1>3, <2>1, <2>2, <2>3, <2>4, <2>5
<1>6. Members(new) = Members(list) \union {a}
  <2>1. ASSUME NEW i \in 1 .. Len(new)
        PROVE  new[i] \in Members(list) \union {a}
    <3>1. CASE i < n
      BY <1>1, <1>3, <3>1 DEF Members
    <3>2. CASE i = n
      BY <1>3, <3>2
    <3>3. CASE i > n
      BY <1>1, <1>3, <3>3 DEF Members
    <3> QED
      BY <1>1, <3>1, <3>2, <3>3
  <2>2. ASSUME NEW k \in 1 .. Len(list)
        PROVE  list[k] \in Members(new)
    <3>1. CASE k < n
      <4>1. k \in 1 .. Len(new) /\ new[k] = list[k]
        BY <1>1, <1>3, <3>1
      <4> QED BY <4>1 DEF Members
    <3>2. CASE k >= n
      <4>1. k + 1 \in n + 1 .. Len(list) + 1 /\ k + 1 \in 1 .. Len(new) /\ (k + 1) - 1 = k
        BY <1>1, <1>3, <3>2
      <4>2. new[k + 1] = list[k]
        BY <1>3, <4>1
      <4> QED BY <4>1, <4>2 DEF Members
    <3> QED
      BY <1>1, <3>1, <3>2
  <2>3. a \in Members(new)
    BY <1>1, <1>3 DEF Members
  <2> QED
    BY <2>1, <2>2, <2>3 DEF Members
<1>7. Ordered(new)
  BY <1>3, <1>4, <1>5 DEF Ordered
<1> QED
  BY <1>2, <1>6, <1>7 DEF OrderedWith

\* Insert keeps a list in order when the range is apart from those in it, and adds
\* nothing but the range; it never raises an exception but for an empty one there.
LEMMA InsertKeepsOrder ==
  ASSUME NEW list, Ordered(list), NEW a, Regular(a),
         \A i \in 1 .. Len(list) : Apart(a, list[i]),
         NEW new \in Insert(list, a)
  PROVE  OrderedWith(list, a, new)
<1> DEFINE stops == {i \in DOMAIN list : Precedes(a, list[i]) \/ a = list[i] \/ Reaches(a, list[i])}
           n == CHOOSE j \in stops : \A k \in stops : j <= k
<1>1. list \in Seq(Ars) /\ DOMAIN list = 1 .. Len(list) /\ Len(list) \in Nat
  BY DEF Ordered
<1>2. \A i \in 1 .. Len(list) : Regular(list[i])
  BY DEF Ordered
<1>3. ASSUME NEW i \in 1 .. Len(list), i \notin stops
      PROVE  Top(list[i]) <= a.base
  <2>1. ~ Precedes(a, list[i])
    BY <1>1, <1>3
  <2> QED
    BY <1>2, <2>1, RegularCompared DEF Apart
<1>4. CASE stops = {}
  <2>1. new = Append(list, a)
    BY <1>4 DEF Insert
  <2> QED
    BY <1>3, <1>4, <2>1, AppendedOrdered
<1>5. CASE stops # {}
  <2>1. stops \subseteq Nat
    BY <1>1
  <2>2. n \in stops /\ \A k \in stops : n <= k
    <3> HIDE DEF stops
    <3> QED
      BY <1>5, <2>1, LeastExists
  <2>3. new \in (IF Precedes(a, list[n]) THEN {InsertAt(list, n, a)} ELSE IF a = list[n] THEN {list} ELSE {})
    BY <1>5 DEF Insert
  <2>4. n \in 1 .. Len(list)
    BY <1>1, <2>2
  <2>5. CASE Precedes(a, list[n])
    <3>1. new = InsertAt(list, n, a)
      BY <2>3, <2>5
    <3>2. ASSUME NEW i \in 1 .. n - 1
          PROVE  Top(list[i]) <= a.base
      <4>1. i \in 1 .. Len(list) /\ i \notin stops
        BY <1>1, <2>2, <2>4
      <4> QED
        BY <1>3, <4>1
    <3>3. Top(a) <= list[n].base
      BY <1>2, <2>4, <2>5, RegularCompared
    <3>4. ASSUME NEW i \in n .. Len(list)
          PROVE  Top(a) <= list[i].base
      <4>1. CASE i = n
        BY <3>3, <4>1
      <4>2. CASE i > n
        <5>1. i \in 1 .. Len(list) /\ n \in 1 .. i - 1
          BY <2>4, <4>2
        <5>2. Top(list[n]) <= list[i].base
          BY <5>1 DEF Ordered
        <5>3. list[n].base <= Top(list[n]) /\ list[n].base \in Nat /\ Top(list[n]) \in Nat /\ Top(a) \in Nat
          BY <1>2, <2>4, RegularTop
        <5>4. list[i].base \in Nat
          BY <1>2, <5>1, RegularTop
        <5> QED
          BY <3>3, <5>2, <5>3, <5>4
      <4> QED
        BY <2>4, <4>1, <4>2
    <3> HIDE DEF stops, n
    <3> QED
      BY <2>4, <3>1, <3>2, <3>4, InsertedOrdered
  <2>6. CASE ~ Precedes(a, list[n])
    <3>1. a = list[n] /\ new = list
      BY <2>3, <2>6
    <3> HIDE DEF n
    <3> QED
      BY <2>4, <3>1 DEF OrderedWith, Members
  <2> QED
    BY <2>5, <2>6
<1> QED
  BY <1>4, <1>5

\* What comes after all of a list is appended.
LEMMA InsertAfter ==
  ASSUME NEW list, Ordered(list), NEW a, Regular(a), a.pages > 0,
         \A i \in 1 .. Len(list) : Top(list[i]) <= a.base /\ list[i].pages > 0
  PROVE  Insert(list, a) = {Append(list, a)}
<1>1. DOMAIN list = 1 .. Len(list)
  BY DEF Ordered
<1>2. ASSUME NEW i \in 1 .. Len(list)
      PROVE  ~ (Precedes(a, list[i]) \/ a = list[i] \/ Reaches(a, list[i]))
  <2>1. Regular(list[i])
    BY DEF Ordered
  <2>2. a.base \in Nat /\ Top(a) \in Nat /\ a.base < Top(a)
    BY RegularTop
  <2>3. list[i].base \in Nat /\ Top(list[i]) \in Nat /\ list[i].base < Top(list[i])
    BY <2>1, RegularTop
  <2>4. Top(list[i]) <= a.base
    OBVIOUS
  <2> QED
    BY <2>1, <2>2, <2>3, <2>4, RegularCompared
<1> QED
  BY <1>1, <1>2 DEF Insert

-----------------------------------------------------------------------------
(* The pages of a list.                                                    *)

LEMMA CountedEquation ==
  ASSUME NEW list \in Seq(Ars)
  PROVE  /\ Counted(list) \in [0 .. Len(list) -> Nat]
         /\ Counted(list)[0] = 0
         /\ \A i \in 1 .. Len(list) : Counted(list)[i] = Counted(list)[i - 1] + list[i].pages
<1> DEFINE step == [i \in 1 .. Len(list) |-> [x \in Nat |-> x + list[i].pages]]
<1>0. Len(list) \in Nat /\ \A i \in 1 .. Len(list) : list[i].pages \in Nat
  <2>1. \A i \in 1 .. Len(list) : list[i] \in Ars
    OBVIOUS
  <2> QED
    BY <2>1 DEF Ars
<1>1. step \in [1 .. Len(list) -> [Nat -> Nat]]
  BY <1>0
<1>2. \A i \in 1 .. Len(list) : \A x \in Nat : step[i][x] = x + list[i].pages
  OBVIOUS
<1> HIDE DEF step
<1>3. PICK f \in [0 .. Len(list) -> Nat] : Follows(f, Len(list), 0, step)
  BY <1>0, <1>1, Recursion, 0 \in Nat, Zenon
<1>4. \A i \in 0 .. Len(list) : f[i] = IF i = 0 THEN 0 ELSE f[i - 1] + list[i].pages
  <2>1. f[0] = 0
    BY <1>3 DEF Follows
  <2>2. ASSUME NEW i \in 1 .. Len(list)
        PROVE  f[i] = f[i - 1] + list[i].pages
    BY <1>2, <1>3 DEF Follows
  <2> QED
    BY <1>0, <2>1, <2>2
<1>5. f = [i \in 0 .. Len(list) |-> IF i = 0 THEN 0 ELSE f[i - 1] + list[i].pages]
  BY <1>4
<1>6. Counted(list) = [i \in 0 .. Len(list) |-> IF i = 0 THEN 0 ELSE Counted(list)[i - 1] + list[i].pages]
  BY <1>5 DEF Counted
<1>7. \A i \in 0 .. Len(list) : Counted(list)[i] = f[i]
  <2> DEFINE S == {k \in Nat : k <= Len(list) => Counted(list)[k] = f[k]}
  <2>1. 0 \in S
    BY <1>0, <1>4, <1>6
  <2>2. ASSUME NEW k \in Nat, k \in S
        PROVE  k + 1 \in S
    <3>1. SUFFICES ASSUME k + 1 <= Len(list) PROVE Counted(list)[k + 1] = f[k + 1]
      OBVIOUS
    <3>2. Counted(list)[k] = f[k]
      BY <1>0, <2>2, <3>1
    <3>3. k + 1 \in 0 .. Len(list) /\ k + 1 # 0 /\ (k + 1) - 1 = k
      BY <1>0, <3>1
    <3>4. Counted(list)[k + 1] = Counted(list)[k] + list[k + 1].pages
      BY <1>6, <3>3
    <3>5. f[k + 1] = f[k] + list[k + 1].pages
      BY <1>4, <3>3
    <3> QED
      BY <3>2, <3>4, <3>5
  <2> HIDE DEF S
  <2>3. Nat \subseteq S
    BY <2>1, <2>2, Induction
  <2> QED
    BY <1>0, <2>3 DEF S
<1>8. Counted(list) = f
  BY <1>5, <1>6, <1>7
<1> QED
  BY <1>0, <1>4, <1>8

LEMMA CPagesEmpty == CPages(<<>>) = 0
  BY <<>> \in Seq(Ars), Len(<<>>) = 0, CountedEquation DEF CPages

LEMMA CPagesAppend ==
  ASSUME NEW list \in Seq(Ars), NEW a \in Ars
  PROVE  CPages(Append(list, a)) = CPages(list) + a.pages /\ CPages(list) \in Nat
<1>1. PICK new : new = Append(list, a)
  OBVIOUS
<1>2. PICK n \in Nat : n = Len(list)
  OBVIOUS
<1>3. new \in Seq(Ars) /\ Len(new) = n + 1 /\ (\A i \in 1 .. n : new[i] = list[i]) /\ new[n + 1] = a
  BY <1>1, <1>2
<1>4. PICK f : f = Counted(list)
  OBVIOUS
<1>5. PICK g : g = Counted(new)
  OBVIOUS
<1>6. f \in [0 .. n -> Nat] /\ f[0] = 0 /\ \A i \in 1 .. n : f[i] = f[i - 1] + list[i].pages
  BY <1>2, <1>4, CountedEquation
<1>7. g \in [0 .. n + 1 -> Nat] /\ g[0] = 0 /\ \A i \in 1 .. n + 1 : g[i] = g[i - 1] + new[i].pages
  BY <1>3, <1>5, CountedEquation
<1> DEFINE S == {k \in Nat : k <= n => g[k] = f[k]}
<1>8. 0 \in S
  BY <1>6, <1>7
<1>9. ASSUME NEW k \in Nat, k \in S
      PROVE  k + 1 \in S
  <2>1. SUFFICES ASSUME k + 1 <= n PROVE g[k + 1] = f[k + 1]
    OBVIOUS
  <2>2. g[k] = f[k]
    BY <1>2, <1>9, <2>1
  <2>3. k + 1 \in 1 .. n /\ k + 1 \in 1 .. n + 1 /\ (k + 1) - 1 = k
    BY <1>2, <2>1
  <2>4. g[k + 1] = g[k] + new[k + 1].pages /\ f[k + 1] = f[k] + list[k + 1].pages
    BY <1>6, <1>7, <2>3
  <2> QED
    BY <1>3, <2>2, <2>3, <2>4
<1> HIDE DEF S
<1>10. n \in S
  BY <1>2, <1>8, <1>9, Induction
<1>11. g[n] = f[n]
  BY <1>10 DEF S
<1>12. g[n + 1] = g[n] + a.pages
  <2>1. n + 1 \in 1 .. n + 1 /\ (n + 1) - 1 = n
    BY <1>2
  <2> QED
    BY <1>3, <1>7, <2>1
<1> QED
  BY <1>1, <1>2, <1>3, <1>4, <1>5, <1>6, <1>11, <1>12 DEF CPages

-----------------------------------------------------------------------------
(* The walk of Complement along a list.                                    *)

WalkState == [set : Seq(Ars), base : Nat]

LEMMA InsertType ==
  ASSUME NEW list \in Seq(Ars), NEW a \in Ars
  PROVE  Insert(list, a) \subseteq Seq(Ars)
<1> DEFINE stops == {i \in DOMAIN list : Precedes(a, list[i]) \/ a = list[i] \/ Reaches(a, list[i])}
           n == CHOOSE j \in stops : \A k \in stops : j <= k
<1>1. DOMAIN list = 1 .. Len(list)
  OBVIOUS
<1>2. CASE stops = {}
  BY <1>2 DEF Insert
<1>3. CASE stops # {}
  <2>1. n \in stops
    <3>1. stops \subseteq Nat
      BY <1>1
    <3> HIDE DEF stops
    <3> QED
      BY <1>3, <3>1, LeastExists
  <2>2. InsertAt(list, n, a) \in Seq(Ars)
    <3>1. n \in 1 .. Len(list)
      BY <1>1, <2>1
    <3> HIDE DEF n
    <3>2. SubSeq(list, 1, n - 1) \in Seq(Ars) /\ SubSeq(list, n, Len(list)) \in Seq(Ars) /\ <<a>> \in Seq(Ars)
      BY <3>1
    <3> QED
      BY <3>2, ConcatProperties DEF InsertAt
  <2> QED
    BY <1>3, <2>2 DEF Insert
<1> QED
  BY <1>2, <1>3

LEMMA AcceptType ==
  ASSUME NEW s \in WalkState, NEW a \in Ars, Space > 0
  PROVE  Accept(s, a) \subseteq WalkState
<1>1. s.set \in Seq(Ars) /\ s.base \in Nat /\ a.base \in Nat /\ a.pages \in Nat
  BY DEF WalkState, Ars
<1>2. End(a) \in Nat
  <2>1. PICK n \in Nat : n = a.base + a.pages * PageSize
    BY <1>1
  <2>2. n % Space \in Nat
    BY <2>1
  <2> QED
    BY <2>1, <2>2 DEF End
<1>3. CASE a.base = s.base
  BY <1>1, <1>2, <1>3 DEF Accept, WalkState
<1>4. CASE a.base > s.base
  <2>1. PICK n \in Nat : n = a.base - s.base
    BY <1>1, <1>4
  <2>2. n \div PageSize \in Nat
    BY Quotient
  <2>3. Arg(s.base, (a.base - s.base) \div PageSize) \in Ars
    BY <1>1, <2>1, <2>2 DEF Arg, Ars
  <2>4. Insert(s.set, Arg(s.base, (a.base - s.base) \div PageSize)) \subseteq Seq(Ars)
    BY <1>1, <2>3, InsertType
  <2> QED
    BY <1>1, <1>2, <1>4, <2>4 DEF Accept, WalkState
<1> QED
  BY <1>1, <1>3, <1>4 DEF Accept

LEMMA WalkedEquation ==
  ASSUME NEW list \in Seq(Ars), Space > 0
  PROVE  /\ Walked(list)[0] = {[set |-> <<>>, base |-> 0]}
         /\ \A i \in 1 .. Len(list) : Walked(list)[i] = UNION {Accept(s, list[i]) : s \in Walked(list)[i - 1]}
<1> DEFINE start == {[set |-> <<>>, base |-> 0]}
           T == SUBSET WalkState
           step == [i \in 1 .. Len(list) |-> [ss \in T |-> UNION {Accept(s, list[i]) : s \in ss}]]
<1>0. Len(list) \in Nat /\ \A i \in 1 .. Len(list) : list[i] \in Ars
  OBVIOUS
<1>1. start \in T
  BY DEF WalkState
<1>2. ASSUME NEW i \in 1 .. Len(list), NEW ss \in T
      PROVE  UNION {Accept(s, list[i]) : s \in ss} \in T
  <2>1. \A s \in ss : Accept(s, list[i]) \subseteq WalkState
    BY <1>0, AcceptType
  <2> QED
    BY <2>1
<1>3. step \in [1 .. Len(list) -> [T -> T]]
  <2> HIDE DEF T
  <2> QED
    BY <1>2
<1>4. \A i \in 1 .. Len(list) : \A ss \in T : step[i][ss] = UNION {Accept(s, list[i]) : s \in ss}
  OBVIOUS
<1> HIDE DEF step, T, start
<1>5. PICK f \in [0 .. Len(list) -> T] : Follows(f, Len(list), start, step)
  BY <1>0, <1>1, <1>3, Recursion, Zenon
<1>6. \A i \in 0 .. Len(list) : f[i] = IF i = 0 THEN start ELSE UNION {Accept(s, list[i]) : s \in f[i - 1]}
  <2>1. f[0] = start
    BY <1>5 DEF Follows
  <2>2. ASSUME NEW i \in 1 .. Len(list)
        PROVE  f[i] = UNION {Accept(s, list[i]) : s \in f[i - 1]}
    <3>1. i - 1 \in 0 .. Len(list)
      BY <1>0
    <3>2. f[i - 1] \in T
      BY <1>5, <3>1
    <3>3. f[i] = step[i][f[i - 1]]
      BY <1>5 DEF Follows
    <3> QED
      BY <1>4, <3>2, <3>3
  <2> QED
    BY <1>0, <2>1, <2>2
<1>7. f = [i \in 0 .. Len(list) |-> IF i = 0 THEN start ELSE UNION {Accept(s, list[i]) : s \in f[i - 1]}]
  BY <1>5, <1>6
<1>8. Walked(list) = [i \in 0 .. Len(list) |-> IF i = 0 THEN start ELSE UNION {Accept(s, list[i]) : s \in Walked(list)[i - 1]}]
  BY <1>7 DEF Walked, start
<1>9. Walked(list)[0] = start
  BY <1>0, <1>8
<1>10. ASSUME NEW i \in 1 .. Len(list)
       PROVE  Walked(list)[i] = UNION {Accept(s, list[i]) : s \in Walked(list)[i - 1]}
  <2> DEFINE next(k) == UNION {Accept(s, list[k]) : s \in Walked(list)[k - 1]}
  <2>1. Walked(list) = [k \in 0 .. Len(list) |-> IF k = 0 THEN start ELSE next(k)]
    BY <1>8
  <2>2. i \in 0 .. Len(list) /\ i # 0
    BY <1>0
  <2> HIDE DEF next
  <2>3. Walked(list)[i] = next(i)
    BY <2>1, <2>2
  <2> QED
    BY <2>3 DEF next
<1> QED
  BY <1>9, <1>10 DEF start

\* Ranges with pages, that end where base is or before.
Below(set, b) == \A k \in 1 .. Len(set) : set[k].pages > 0 /\ Top(set[k]) <= b

\* Complement at the range i of a list: it has what lies before base and in none of the
\* ranges up to i; it and they have as many pages as lie there.
Walking(s, list, i) ==
  /\ s \in WalkState /\ s.base \in Nat /\ s.base = IF i = 0 THEN 0 ELSE Top(list[i])
  /\ Ordered(s.set)
  /\ Below(s.set, s.base)
  /\ (CPages(s.set) + Counted(list)[i]) * PageSize = s.base
  /\ \A x \in 0 .. s.base - 1 : FContains(s.set, x) <=> ~ \E j \in 1 .. i : In(x, list[j])

LEMMA ContainsAppend ==
  ASSUME NEW list \in Seq(Ars), NEW a \in Ars, NEW x
  PROVE  FContains(Append(list, a), x) <=> FContains(list, x) \/ In(x, a)
<1>1. PICK new : new = Append(list, a)
  OBVIOUS
<1>2. PICK n \in Nat : n = Len(list)
  OBVIOUS
<1>3. /\ DOMAIN new = 1 .. n + 1 /\ DOMAIN list = 1 .. n
      /\ (\A i \in 1 .. n : new[i] = list[i]) /\ new[n + 1] = a
  BY <1>1, <1>2
<1>4. FContains(new, x) <=> FContains(list, x) \/ In(x, a)
  <2>1. ASSUME FContains(new, x) PROVE FContains(list, x) \/ In(x, a)
    <3>1. PICK i \in 1 .. n + 1 : In(x, new[i])
      BY <1>3, <2>1 DEF FContains
    <3> QED
      BY <1>2, <1>3, <3>1 DEF FContains
  <2>2. ASSUME FContains(list, x) PROVE FContains(new, x)
    <3>1. PICK i \in 1 .. n : In(x, list[i])
      BY <1>3, <2>2 DEF FContains
    <3>2. i \in 1 .. n + 1 /\ In(x, new[i])
      BY <1>2, <1>3, <3>1
    <3> QED
      BY <1>3, <3>2 DEF FContains
  <2>3. ASSUME In(x, a) PROVE FContains(new, x)
    <3>1. n + 1 \in 1 .. n + 1 /\ In(x, new[n + 1])
      BY <1>2, <1>3, <2>3
    <3> QED
      BY <1>3, <3>1 DEF FContains
  <2> QED
    BY <2>1, <2>2, <2>3
<1> QED
  BY <1>1, <1>4

\* The ranges that the walk has passed end where it is.
LEMMA PassedBelow ==
  ASSUME NEW list, Ordered(list), NEW i \in 0 .. Len(list), NEW s, Walking(s, list, i), NEW j \in 1 .. i
  PROVE  Top(list[j]) <= s.base
<1>1. i # 0 /\ s.base = Top(list[i]) /\ Len(list) \in Nat
  BY DEF Walking, Ordered
<1>2. CASE j = i
  BY <1>1, <1>2 DEF Walking
<1>3. CASE j < i
  <2>1. i \in 1 .. Len(list) /\ j \in 1 .. i - 1 /\ j \in 1 .. Len(list)
    BY <1>1, <1>3
  <2>2. Top(list[j]) <= list[i].base /\ Regular(list[i]) /\ Regular(list[j])
    BY <2>1 DEF Ordered
  <2>3. list[i].base <= Top(list[i]) /\ list[i].base \in Nat /\ Top(list[i]) \in Nat /\ Top(list[j]) \in Nat
    BY <2>2, RegularTop
  <2> QED
    BY <1>1, <2>2, <2>3
<1> QED
  BY <1>2, <1>3

\* A set of ranges that ends at or before x does not have x.
LEMMA NotBeyond ==
  ASSUME NEW list, Ordered(list), NEW b \in Nat, \A k \in 1 .. Len(list) : Top(list[k]) <= b, NEW x \in Nat, x >= b
  PROVE  ~ FContains(list, x)
<1>1. SUFFICES ASSUME NEW k \in 1 .. Len(list), In(x, list[k]) PROVE FALSE
  BY DEF FContains, Ordered
<1>2. Regular(list[k])
  BY DEF Ordered
<1>3. x < Top(list[k]) /\ Top(list[k]) \in Nat
  BY <1>1, <1>2, RegularIn, RegularTop
<1>4. Top(list[k]) <= b
  OBVIOUS
<1> QED
  BY <1>3, <1>4

\* The range from b to stop comes after a set, which has it then.
Continued(set, b, stop, gap) ==
  /\ Regular(gap) /\ gap.pages \in Nat /\ Top(gap) = stop /\ gap.pages * PageSize = stop - b
  /\ Insert(set, gap) = {Append(set, gap)}
  /\ Ordered(Append(set, gap))
  /\ Below(Append(set, gap), stop)
  /\ CPages(Append(set, gap)) = CPages(set) + gap.pages /\ CPages(set) \in Nat
  /\ \A x \in Nat : FContains(Append(set, gap), x) <=> FContains(set, x) \/ (b <= x /\ x < stop)

LEMMA GapAppended ==
  ASSUME NEW set, Ordered(set), NEW b \in Nat, Aligned(b),
         Below(set, b),
         NEW stop \in Nat, Aligned(stop), b < stop, stop <= Space
  PROVE  Continued(set, b, stop, Arg(b, (stop - b) \div PageSize))
<1>0. PICK gap : gap = Arg(b, (stop - b) \div PageSize)
  OBVIOUS
<1>1. Aligned(stop - b)
  BY AlignedDifference
<1>2. gap.base = b /\ gap.pages = (stop - b) \div PageSize
  BY <1>0 DEF Arg
<1>3. gap.pages \in Nat /\ gap.pages * PageSize = stop - b
  BY <1>1, <1>2, AlignedDivided
<1>4. Top(gap) = stop
  BY <1>2, <1>3 DEF Top
<1>5. gap \in Ars
  BY <1>0, <1>2, <1>3 DEF Ars, Arg
<1>6. Regular(gap)
  BY <1>2, <1>4, <1>5 DEF Regular
<1>7. gap.pages > 0
  BY <1>2, <1>4, <1>6, RegularTop
<1>8. Insert(set, gap) = {Append(set, gap)}
  BY <1>2, <1>6, <1>7, InsertAfter DEF Below
<1>9. Ordered(Append(set, gap))
  BY <1>2, <1>6, AppendedOrdered DEF OrderedWith, Below
<1>10. set \in Seq(Ars)
  BY DEF Ordered
<1>11. ASSUME NEW k \in 1 .. Len(Append(set, gap))
       PROVE  Append(set, gap)[k].pages > 0 /\ Top(Append(set, gap)[k]) <= stop
  <2>1. CASE k = Len(set) + 1
    <3>1. Append(set, gap)[k] = gap
      BY <1>5, <1>10, <2>1
    <3> QED
      BY <1>4, <1>7, <3>1
  <2>2. CASE k \in 1 .. Len(set)
    <3>1. Append(set, gap)[k] = set[k]
      BY <1>5, <1>10, <2>2
    <3>2. set[k].pages > 0 /\ Top(set[k]) <= b /\ Regular(set[k])
      BY <2>2 DEF Ordered, Below
    <3>3. Top(set[k]) \in Nat
      BY <3>2, RegularTop
    <3> QED
      BY <3>1, <3>2, <3>3
  <2> QED
    BY <1>10, <1>5, <2>1, <2>2
<1>12. CPages(Append(set, gap)) = CPages(set) + gap.pages /\ CPages(set) \in Nat
  BY <1>5, <1>10, CPagesAppend
<1>13. ASSUME NEW x \in Nat
       PROVE  FContains(Append(set, gap), x) <=> FContains(set, x) \/ (b <= x /\ x < stop)
  BY <1>2, <1>4, <1>5, <1>6, <1>10, ContainsAppend, RegularIn
<1> QED
  BY <1>0, <1>3, <1>4, <1>6, <1>8, <1>9, <1>11, <1>12, <1>13 DEF Continued, Below

LEMMA WalkingAligned ==
  ASSUME NEW list, Ordered(list), NEW i \in 0 .. Len(list), NEW s, Walking(s, list, i)
  PROVE  s.base \in Nat /\ Aligned(s.base) /\ s.base <= Space
<1>1. CASE i = 0
  <2>1. Aligned(0)
    <3>1. 0 = 0 * PageSize
      OBVIOUS
    <3> QED
      BY <3>1, AlignedTimes
  <2> QED
    BY <1>1, <2>1 DEF Walking
<1>2. CASE i # 0
  <2>1. i \in 1 .. Len(list)
    BY <1>2 DEF Ordered
  <2>2. Regular(list[i])
    BY <2>1 DEF Ordered
  <2> QED
    BY <1>2, <2>2, RegularTop DEF Walking
<1> QED
  BY <1>1, <1>2

\* One step of the walk, with the range at base and with one behind it.
LEMMA WalkStep ==
  ASSUME NEW list, Ordered(list), \A k \in 1 .. Len(list) : Top(list[k]) < Space,
         NEW i \in 1 .. Len(list), NEW s, Walking(s, list, i - 1), NEW t \in Accept(s, list[i])
  PROVE  Walking(t, list, i)
<1>0. list \in Seq(Ars) /\ Len(list) \in Nat /\ i - 1 \in 0 .. Len(list) /\ i \in Nat /\ i # 0
  BY DEF Ordered
<1>1. PICK a : a = list[i]
  OBVIOUS
<1>2. Regular(a) /\ Top(a) < Space
  BY <1>1 DEF Ordered
<1>3. /\ a.base \in Nat /\ a.pages \in Nat /\ Aligned(a.base) /\ a.base <= Top(a) /\ Top(a) \in Nat /\ Top(a) <= Space
      /\ End(a) = Top(a) /\ Top(a) = a.base + a.pages * PageSize
  BY <1>2, RegularTop DEF Regular, Top
<1>4. s.base \in Nat /\ Aligned(s.base)
  BY <1>0, WalkingAligned
<1>5. s.base <= a.base
  <2>1. CASE i = 1
    BY <2>1, <1>3 DEF Walking
  <2>2. CASE i # 1
    <3>1. i - 1 \in 1 .. i - 1 /\ s.base = Top(list[i - 1])
      BY <1>0, <2>2 DEF Walking
    <3> QED
      BY <1>1, <3>1 DEF Ordered
  <2> QED
    BY <2>1, <2>2
<1>6. Ordered(s.set) /\ Below(s.set, s.base) /\ s \in WalkState
  BY DEF Walking
<1>7. PICK n \in Nat : n = Counted(list)[i - 1]
  BY <1>0, CountedEquation
<1>8. Counted(list)[i] = n + a.pages
  BY <1>0, <1>1, <1>7, CountedEquation
<1>9. PICK c \in Nat : c = CPages(s.set)
  <2>1. s.set \in Seq(Ars)
    BY <1>6 DEF Ordered
  <2> QED
    BY <2>1, CountedEquation DEF CPages
<1>10. (c + n) * PageSize = s.base
  BY <1>7, <1>9 DEF Walking
<1>11. ASSUME NEW x \in 0 .. s.base - 1
       PROVE  FContains(s.set, x) <=> ~ \E j \in 1 .. i - 1 : In(x, list[j])
  BY DEF Walking
<1>12. \A x \in Nat : x >= s.base => ~ FContains(s.set, x)
  BY <1>4, <1>6, NotBeyond DEF Below
<1>13. ASSUME NEW x \in Nat, x >= s.base
       PROVE  ~ \E j \in 1 .. i - 1 : In(x, list[j])
  <2>1. SUFFICES ASSUME NEW j \in 1 .. i - 1, In(x, list[j]) PROVE FALSE
    OBVIOUS
  <2>2. Top(list[j]) <= s.base
    BY <1>0, PassedBelow
  <2>3. j \in 1 .. Len(list)
    BY <1>0
  <2>4. Regular(list[j])
    BY <2>3 DEF Ordered
  <2>5. x < Top(list[j]) /\ Top(list[j]) \in Nat
    BY <2>1, <2>4, RegularIn, RegularTop
  <2> QED
    BY <1>4, <1>13, <2>2, <2>5
<1>14. \A x : (\E j \in 1 .. i : In(x, list[j])) <=> (\E j \in 1 .. i - 1 : In(x, list[j])) \/ In(x, a)
  <2>1. ASSUME NEW x, NEW j \in 1 .. i, In(x, list[j])
        PROVE  (\E k \in 1 .. i - 1 : In(x, list[k])) \/ In(x, a)
    <3>1. CASE j = i
      BY <1>1, <2>1, <3>1
    <3>2. CASE j # i
      <4>1. j \in 1 .. i - 1
        BY <1>0, <3>2
      <4> QED
        BY <2>1, <4>1
    <3> QED
      BY <3>1, <3>2
  <2>2. i \in 1 .. i /\ \A j \in 1 .. i - 1 : j \in 1 .. i
    BY <1>0
  <2> QED
    BY <1>1, <2>1, <2>2
<1>15. \A x \in Nat : In(x, a) <=> a.base <= x /\ x < Top(a)
  BY <1>2, RegularIn
<1>16. t \in WalkState
  <2>1. Space > 0 /\ a \in Ars
    BY <1>2, <1>3 DEF Regular
  <2> QED
    BY <1>1, <1>6, <2>1, AcceptType
<1>17. CASE a.base = s.base
  <2>0. t \in WalkState
    BY <1>16
  <2>1. t.set = s.set /\ t.base = Top(a)
    BY <1>1, <1>3, <1>6, <1>17 DEF Accept, WalkState
  <2>2. Below(t.set, t.base)
    <3>1. ASSUME NEW k \in 1 .. Len(t.set)
          PROVE  t.set[k].pages > 0 /\ Top(t.set[k]) <= t.base
      <4>1. Regular(t.set[k]) /\ t.set[k].pages > 0 /\ Top(t.set[k]) <= s.base
        BY <1>6, <2>1 DEF Ordered, Below
      <4>2. Top(t.set[k]) \in Nat
        BY <4>1, RegularTop
      <4> QED
        BY ONLY <1>3, <1>4, <1>17, <2>1, <4>1, <4>2
    <3> QED
      BY <3>1 DEF Below
  <2>3. (CPages(t.set) + Counted(list)[i]) * PageSize = t.base
    <3>1. (c + (n + a.pages)) * PageSize = (c + n) * PageSize + a.pages * PageSize
      BY <1>3
    <3> QED
      BY <1>3, <1>8, <1>9, <1>10, <1>17, <2>1, <3>1
  <2>4. ASSUME NEW x \in 0 .. t.base - 1
        PROVE  FContains(t.set, x) <=> ~ \E j \in 1 .. i : In(x, list[j])
    <3>1. CASE x < s.base
      <4>1. x \in 0 .. s.base - 1 /\ ~ In(x, a)
        BY <1>3, <1>4, <1>15, <1>17, <2>1, <3>1
      <4> QED
        BY <1>11, <1>14, <2>1, <4>1
    <3>2. CASE x >= s.base
      <4>1. x \in Nat /\ In(x, a) /\ ~ FContains(s.set, x)
        BY <1>3, <1>4, <1>12, <1>15, <1>17, <2>1, <3>2
      <4> QED
        BY <1>14, <2>1, <4>1
    <3> QED
      BY <1>3, <1>4, <2>1, <3>1, <3>2
  <2> QED
    BY <1>0, <1>1, <1>3, <1>6, <2>1, <2>2, <2>3, <2>4, <2>0 DEF Walking
<1>18. CASE a.base > s.base
  <2>0. t \in WalkState
    BY <1>16
  <2>1. PICK gap : gap = Arg(s.base, (a.base - s.base) \div PageSize)
    OBVIOUS
  <2>2. s.base < a.base /\ a.base <= Space
    BY <1>3, <1>4, <1>18
  <2>3. /\ gap.pages \in Nat /\ gap.pages * PageSize = a.base - s.base
        /\ Insert(s.set, gap) = {Append(s.set, gap)}
        /\ Ordered(Append(s.set, gap))
        /\ Below(Append(s.set, gap), a.base)
        /\ CPages(Append(s.set, gap)) = CPages(s.set) + gap.pages
        /\ \A x \in Nat : FContains(Append(s.set, gap), x) <=> FContains(s.set, x) \/ (s.base <= x /\ x < a.base)
    <3>1. Continued(s.set, s.base, a.base, gap)
      BY <1>3, <1>4, <1>6, <2>1, <2>2, GapAppended
    <3> QED
      BY <3>1 DEF Continued
  <2>4. t.set = Append(s.set, gap) /\ t.base = Top(a)
    <3>1. Accept(s, a) = {[set |-> set, base |-> End(a)] : set \in Insert(s.set, gap)}
      BY <1>3, <1>4, <1>18, <2>1 DEF Accept
    <3> QED
      BY <1>1, <1>3, <2>3, <3>1
  <2>5. Below(t.set, t.base)
    <3>1. ASSUME NEW k \in 1 .. Len(t.set)
          PROVE  t.set[k].pages > 0 /\ Top(t.set[k]) <= t.base
      <4>1. Regular(t.set[k]) /\ t.set[k].pages > 0 /\ Top(t.set[k]) <= a.base
        BY <2>3, <2>4 DEF Ordered, Below
      <4>2. Top(t.set[k]) \in Nat
        BY <4>1, RegularTop
      <4> QED
        BY ONLY <1>3, <2>4, <4>1, <4>2
    <3> QED
      BY <3>1 DEF Below
  <2>6. (CPages(t.set) + Counted(list)[i]) * PageSize = t.base
    <3>1. ((c + gap.pages) + (n + a.pages)) * PageSize = (c + n) * PageSize + gap.pages * PageSize + a.pages * PageSize
      <4>1. a.pages \in Nat /\ gap.pages \in Nat
        BY <1>3, <2>3
      <4>2. PICK p \in Nat, q \in Nat : p = a.pages /\ q = gap.pages
        BY <4>1
      <4>3. ((c + q) + (n + p)) * PageSize = (c + n) * PageSize + q * PageSize + p * PageSize
        OBVIOUS
      <4> QED
        BY <4>2, <4>3
    <3>2. CPages(t.set) = c + gap.pages
      BY <1>9, <2>3, <2>4
    <3>3. s.base + (a.base - s.base) + a.pages * PageSize = Top(a)
      BY ONLY <1>3, <1>4
    <3> QED
      BY <1>8, <1>10, <2>3, <2>4, <3>1, <3>2, <3>3
  <2>7. ASSUME NEW x \in 0 .. t.base - 1
        PROVE  FContains(t.set, x) <=> ~ \E j \in 1 .. i : In(x, list[j])
    <3>0. x \in Nat /\ x < Top(a)
      BY <1>3, <2>4
    <3>1. CASE x < s.base
      <4>1. x \in 0 .. s.base - 1 /\ ~ In(x, a) /\ ~ (s.base <= x /\ x < a.base)
        BY <1>3, <1>4, <1>15, <1>18, <3>0, <3>1
      <4> QED
        BY <1>11, <1>14, <2>3, <2>4, <3>0, <4>1
    <3>2. CASE s.base <= x /\ x < a.base
      <4>1. ~ In(x, a) /\ FContains(t.set, x)
        BY <1>3, <1>15, <2>3, <2>4, <3>0, <3>2
      <4> QED
        BY <1>13, <1>14, <3>0, <3>2, <4>1
    <3>3. CASE a.base <= x
      <4>1. In(x, a) /\ x >= s.base /\ ~ (s.base <= x /\ x < a.base)
        BY <1>3, <1>4, <1>15, <1>18, <3>0, <3>3
      <4> QED
        BY <1>12, <1>14, <2>3, <2>4, <3>0, <4>1
    <3> QED
      BY <1>3, <1>4, <3>0, <3>1, <3>2, <3>3
  <2> QED
    BY <1>0, <1>1, <1>3, <2>0, <2>3, <2>4, <2>5, <2>6, <2>7 DEF Walking
<1> QED
  BY <1>3, <1>4, <1>5, <1>17, <1>18

LEMMA WalkHolds ==
  ASSUME NEW list, Ordered(list), \A k \in 1 .. Len(list) : Top(list[k]) < Space, Space > 0,
         NEW s \in Walked(list)[Len(list)]
  PROVE  Walking(s, list, Len(list))
<1>0. list \in Seq(Ars) /\ Len(list) \in Nat
  BY DEF Ordered
<1> DEFINE S == {k \in Nat : k <= Len(list) => \A t \in Walked(list)[k] : Walking(t, list, k)}
<1>1. 0 \in S
  <2>1. Walked(list)[0] = {[set |-> <<>>, base |-> 0]}
    BY <1>0, WalkedEquation
  <2>2. PICK t : t = [set |-> <<>>, base |-> 0]
    OBVIOUS
  <2>3. t.set = <<>> /\ t.base = 0 /\ t \in WalkState
    BY <2>2 DEF WalkState
  <2>4. Ordered(t.set) /\ Below(t.set, t.base)
    BY <2>3 DEF Ordered, Below
  <2>5. (CPages(t.set) + Counted(list)[0]) * PageSize = 0
    <3>1. CPages(t.set) = 0 /\ Counted(list)[0] = 0
      BY <1>0, <2>3, CPagesEmpty, CountedEquation
    <3> QED
      BY <3>1
  <2>6. Walking(t, list, 0)
    BY <2>3, <2>4, <2>5 DEF Walking
  <2> QED
    BY <2>1, <2>2, <2>6
<1>2. ASSUME NEW k \in Nat, k \in S
      PROVE  k + 1 \in S
  <2>1. SUFFICES ASSUME k + 1 <= Len(list), NEW t \in Walked(list)[k + 1]
                 PROVE  Walking(t, list, k + 1)
    OBVIOUS
  <2>2. k + 1 \in 1 .. Len(list) /\ (k + 1) - 1 = k /\ k <= Len(list)
    BY <1>0, <2>1
  <2>3. Walked(list)[k + 1] = UNION {Accept(u, list[k + 1]) : u \in Walked(list)[k]}
    BY <1>0, <2>2, WalkedEquation
  <2>4. PICK u \in Walked(list)[k] : t \in Accept(u, list[k + 1])
    BY <2>1, <2>3
  <2>5. Walking(u, list, k)
    BY <1>2, <2>2, <2>4
  <2> QED
    BY <2>2, <2>4, <2>5, WalkStep
<1>3. Nat \subseteq S
  <2> HIDE DEF S
  <2> QED
    BY <1>1, <1>2, Induction
<1> QED
  BY <1>0, <1>3

\* What is left of the space at the end of the walk.
LEMMA RemainingPages ==
  ASSUME NEW list, Ordered(list), \A k \in 1 .. Len(list) : Top(list[k]) < Space, Space > 0,
         NEW s, Walking(s, list, Len(list))
  PROVE  s.base < Space /\ Remaining(list, s) = (Space - s.base) \div PageSize
<1>1. Len(list) \in Nat /\ list \in Seq(Ars)
  BY DEF Ordered
<1>2. CASE Len(list) = 0
  <2>1. list = <<>> /\ s.base = 0
    BY <1>1, <1>2 DEF Walking
  <2> QED
    BY <2>1 DEF Remaining
<1>3. CASE Len(list) # 0
  <2>1. Len(list) \in 1 .. Len(list) /\ s.base = Top(list[Len(list)])
    BY <1>1, <1>3 DEF Walking
  <2>2. Top(list[Len(list)]) < Space /\ Top(list[Len(list)]) \in 1 .. Space
    BY <2>1 DEF Ordered, Regular
  <2>3. PICK n \in Nat : n = Space - s.base /\ n < Space
    BY <2>1, <2>2
  <2>4. n % Space = n
    BY <2>3, Modulo
  <2>5. list # <<>>
    BY <1>3
  <2> QED
    BY <2>1, <2>2, <2>3, <2>4, <2>5 DEF Remaining
<1> QED
  BY <1>2, <1>3

\* The complement of a list of ranges that end before the space does: what is in none
\* of them, once.
THEOREM ComplementExact ==
  ASSUME NEW list, Ordered(list), \A k \in 1 .. Len(list) : Top(list[k]) < Space, Space > 0,
         NEW c \in Complement(list)
  PROVE  /\ Ordered(c)
         /\ CPages(c) + CPages(list) = Space \div PageSize
         /\ \A x \in 0 .. Space - 1 : FContains(c, x) <=> ~ FContains(list, x)
<1>0. list \in Seq(Ars) /\ Len(list) \in Nat /\ DOMAIN list = 1 .. Len(list) /\ Len(list) \in 0 .. Len(list)
  BY DEF Ordered
<1>1. PICK s \in Walked(list)[Len(list)] : c \in Insert(s.set, Arg(s.base, Remaining(list, s)))
  BY DEF Complement
<1>2. Walking(s, list, Len(list))
  BY WalkHolds
<1>3. s.base \in Nat /\ Aligned(s.base) /\ s.base < Space
  BY <1>0, <1>2, WalkingAligned, RemainingPages
<1>4. PICK rest : rest = Arg(s.base, (Space - s.base) \div PageSize)
  OBVIOUS
<1>5. c \in Insert(s.set, rest)
  BY <1>1, <1>2, <1>4, RemainingPages
<1>6. Ordered(s.set) /\ Below(s.set, s.base)
  BY <1>2 DEF Walking
<1>7. Space \in Nat /\ Space <= Space /\ Aligned(Space)
  BY SpaceAligned
<1>8. Continued(s.set, s.base, Space, rest)
  BY <1>3, <1>4, <1>6, <1>7, GapAppended
<1>9. /\ c = Append(s.set, rest) /\ Ordered(c) /\ CPages(c) = CPages(s.set) + rest.pages
      /\ rest.pages \in Nat /\ rest.pages * PageSize = Space - s.base /\ CPages(s.set) \in Nat
      /\ \A x \in Nat : FContains(c, x) <=> FContains(s.set, x) \/ (s.base <= x /\ x < Space)
  BY <1>5, <1>8 DEF Continued
<1>10. CPages(c) + CPages(list) = Space \div PageSize
  <2>1. CPages(list) \in Nat
    BY <1>0, CountedEquation DEF CPages
  <2>2. (CPages(s.set) + CPages(list)) * PageSize = s.base
    BY <1>2 DEF Walking, CPages
  <2>3. PICK l \in Nat, m \in Nat, r \in Nat : l = CPages(list) /\ m = CPages(s.set) /\ r = rest.pages
    BY <1>9, <2>1
  <2>4. ((m + r) + l) * PageSize = (m + l) * PageSize + r * PageSize
    OBVIOUS
  <2>5. ((m + r) + l) * PageSize = Space
    <3>1. (m + l) * PageSize = s.base /\ r * PageSize = Space - s.base
      BY <1>9, <2>2, <2>3
    <3> QED
      BY ONLY <1>3, <2>4, <3>1, SizeAssumption
  <2>6. (((m + r) + l) * PageSize) \div PageSize = (m + r) + l
    BY TimesDivided
  <2> QED
    BY <1>9, <2>3, <2>5, <2>6
<1>11. ASSUME NEW x \in 0 .. Space - 1
       PROVE  FContains(c, x) <=> ~ FContains(list, x)
  <2>1. FContains(list, x) <=> \E j \in 1 .. Len(list) : In(x, list[j])
    BY <1>0 DEF FContains
  <2>2. CASE x < s.base
    <3>1. x \in 0 .. s.base - 1 /\ x \in Nat /\ ~ (s.base <= x /\ x < Space)
      BY <1>3, <2>2
    <3>2. FContains(s.set, x) <=> ~ \E j \in 1 .. Len(list) : In(x, list[j])
      BY <1>2, <3>1 DEF Walking
    <3> QED
      BY <1>9, <2>1, <3>1, <3>2
  <2>3. CASE s.base <= x
    <3>1. x \in Nat /\ FContains(c, x)
      BY <1>9, <2>3
    <3>2. \A k \in 1 .. Len(list) : Top(list[k]) <= s.base
      BY <1>0, <1>2, PassedBelow
    <3>3. ~ FContains(list, x)
      BY <1>3, <2>3, <3>1, <3>2, NotBeyond
    <3> QED
      BY <3>1, <3>3
  <2> QED
    BY <1>3, <2>2, <2>3
<1> QED
  BY <1>9, <1>10, <1>11

-----------------------------------------------------------------------------
(* What a linker writes, and where it is loaded.                           *)

\* The greatest of the first n values and 0.
LEMMA MaxExists ==
  ASSUME NEW n \in Nat, NEW g \in [1 .. n -> Nat]
  PROVE  LET S == {g[i] : i \in 1 .. n} \union {0} IN Max(S) \in S /\ \A x \in S : x <= Max(S)
<1> DEFINE U(k) == {g[i] : i \in 1 .. k} \union {0}
           K == {k \in Nat : k <= n => \E m \in U(k) : \A x \in U(k) : x <= m}
<1>1. 0 \in K
  OBVIOUS
<1>2. ASSUME NEW k \in Nat, k \in K
      PROVE  k + 1 \in K
  <2>1. SUFFICES ASSUME k + 1 <= n PROVE \E m \in U(k + 1) : \A x \in U(k + 1) : x <= m
    OBVIOUS
  <2>2. PICK m \in U(k) : \A x \in U(k) : x <= m
    BY <1>2, <2>1
  <2>3. U(k + 1) = U(k) \union {g[k + 1]} /\ g[k + 1] \in Nat
    BY <2>1
  <2>4. U(k) \subseteq Nat
    BY <2>1
  <2> HIDE DEF U
  <2>5. CASE g[k + 1] <= m
    BY <2>2, <2>3, <2>5
  <2>6. CASE ~ (g[k + 1] <= m)
    <3>1. \A x \in U(k + 1) : x <= g[k + 1]
      BY <2>2, <2>3, <2>4, <2>6
    <3> QED
      BY <2>3, <3>1, ZenonT(60)
  <2> QED
    BY <2>5, <2>6
<1>3. n \in K
  <2> HIDE DEF K
  <2> QED
    BY <1>1, <1>2, Induction
<1>4. PICK m \in U(n) : \A x \in U(n) : x <= m
  BY <1>3
<1>5. U(n) \subseteq Nat
  OBVIOUS
<1>6. \A x \in U(n) : m >= x
  BY <1>4, <1>5
<1> HIDE DEF U
<1>7. Max(U(n)) \in U(n) /\ \A y \in U(n) : Max(U(n)) >= y
  BY <1>6 DEF Max
<1>8. Max(U(n)) \in U(n) /\ \A x \in U(n) : x <= Max(U(n))
  BY <1>5, <1>7
<1> QED
  BY <1>8 DEF U

LEMMA SectionFacts ==
  ASSUME NEW f \in Files, NEW i \in 1 .. Len(f.sections)
  PROVE  LET s == f.sections[i] IN
         /\ f.sections \in Seq([rva : Nat, raw : Nat, unknown : BOOLEAN, data : Seq(Nat)])
         /\ s.rva \in Nat /\ s.raw \in Nat /\ s.data \in Seq(Nat) /\ Len(s.data) = s.raw /\ Aligned(s.rva)
         /\ s \in Range(f.sections)
<1>1. WellLinked(f)
  BY FilesAssumption
<1>2. f.sections \in Seq([rva : Nat, raw : Nat, unknown : BOOLEAN, data : Seq(Nat)])
  BY <1>1 DEF WellLinked
<1>3. PICK s : s = f.sections[i]
  OBVIOUS
<1>4. s \in [rva : Nat, raw : Nat, unknown : BOOLEAN, data : Seq(Nat)]
  <2> DEFINE R == [rva : Nat, raw : Nat, unknown : BOOLEAN, data : Seq(Nat)]
  <2>1. f.sections \in Seq(R)
    BY <1>2
  <2> HIDE DEF R
  <2>2. f.sections[i] \in R
    BY <2>1, ElementOfSeq
  <2> QED
    BY <1>3, <2>2 DEF R
<1>5. s \in Range(f.sections)
  BY <1>2, <1>3 DEF Range
<1>6. s.rva % PageSize = 0 /\ Len(s.data) = s.raw
  BY <1>1, <1>5 DEF WellLinked
<1>7. Aligned(s.rva)
  BY <1>4, <1>6, AlignedRemainder
<1> QED
  BY <1>2, <1>3, <1>4, <1>5, <1>6, <1>7

LEMMA SectionPlace ==
  ASSUME NEW f \in Files, NEW i \in 1 .. Len(f.sections)
  PROVE  i \in DOMAIN f.sections
<1>1. PICK R, q : q = f.sections /\ q \in Seq(R)
  BY SectionFacts
<1>2. DOMAIN q = 1 .. Len(q)
  BY <1>1, LenProperties
<1> QED
  BY <1>1, <1>2

\* The memory that is allocated has room for every section, to the end of its last page.
LEMMA TotalCovers ==
  ASSUME NEW f \in Files
  PROVE  /\ Total(f) \in Nat /\ Aligned(Total(f))
         /\ \A i \in 1 .. Len(f.sections) :
              /\ f.sections[i].rva + RoundUp(f.sections[i].raw) <= Total(f)
              /\ f.sections[i].rva + f.sections[i].raw <= Total(f)
<1>1. WellLinked(f)
  BY FilesAssumption
<1>2. f.sections \in Seq([rva : Nat, raw : Nat, unknown : BOOLEAN, data : Seq(Nat)])
  BY <1>1 DEF WellLinked
<1>3. PICK n \in Nat : n = Len(f.sections)
  BY <1>2
<1> DEFINE g == [i \in 1 .. n |-> f.sections[i].rva + f.sections[i].raw]
           S == {g[i] : i \in 1 .. n} \union {0}
<1>4. g \in [1 .. n -> Nat]
  <2>1. ASSUME NEW i \in 1 .. n
        PROVE  f.sections[i].rva + f.sections[i].raw \in Nat
    <3>1. f.sections[i].rva \in Nat /\ f.sections[i].raw \in Nat
      BY <1>3, SectionFacts
    <3> QED
      BY <3>1
  <2> QED
    BY <2>1
<1>5. {s.rva + s.raw : s \in Range(f.sections)} = {g[i] : i \in 1 .. n}
  <2>1. DOMAIN f.sections = 1 .. n
    BY <1>2, <1>3
  <2> QED
    BY <2>1 DEF Range
<1>6. \A i \in 1 .. n : g[i] = f.sections[i].rva + f.sections[i].raw
  OBVIOUS
<1>7. Total(f) = RoundUp(Max(S))
  BY <1>5 DEF Total
<1> HIDE DEF g
<1>8. Max(S) \in S /\ \A x \in S : x <= Max(S)
  BY <1>4, MaxExists
<1>9. Max(S) \in Nat
  BY <1>4, <1>8
<1>10. Total(f) \in Nat /\ Aligned(Total(f)) /\ Max(S) <= Total(f)
  BY <1>7, <1>9, Rounded DEF Aligned
<1>11. ASSUME NEW i \in 1 .. n
       PROVE  /\ f.sections[i].rva + RoundUp(f.sections[i].raw) <= Total(f)
              /\ f.sections[i].rva + f.sections[i].raw <= Total(f)
  <2>1. PICK a \in Nat, b \in Nat : a = f.sections[i].rva /\ b = f.sections[i].raw /\ Aligned(a)
    BY <1>3, SectionFacts
  <2>2. a + b \in S
    BY <1>6, <2>1
  <2>3. a + b <= Total(f)
    <3>1. a + b <= Max(S)
      BY <1>8, <2>2
    <3> HIDE DEF S
    <3> QED
      BY <1>9, <1>10, <3>1
  <2>4. a + RoundUp(b) <= Total(f)
    <3>1. CASE a < Total(f)
      <4>1. Aligned(Total(f) - a) /\ Total(f) - a \in Nat /\ b <= Total(f) - a
        BY <1>10, <2>1, <2>3, <3>1, AlignedDifference
      <4>2. RoundUp(b) <= Total(f) - a /\ RoundUp(b) \in Nat
        BY <4>1, Rounded DEF Aligned
      <4> QED
        BY <1>10, <4>2
    <3>2. CASE a >= Total(f)
      <4>1. b = 0 /\ a = Total(f)
        BY <1>10, <2>3, <3>2
      <4>2. Aligned(0)
        BY 0 = 0 * PageSize, AlignedTimes
      <4>3. RoundUp(b) <= 0 /\ RoundUp(b) \in Nat
        <5>1. 0 \in Nat /\ b <= 0
          BY <4>1
        <5>2. RoundUp(b) <= 0 /\ Aligned(RoundUp(b))
          BY <4>2, <5>1, Rounded
        <5> QED
          BY <5>2 DEF Aligned
      <4> QED
        BY <1>10, <4>1, <4>3
    <3> QED
      BY <1>10, <3>1, <3>2
  <2> QED
    BY <2>1, <2>3, <2>4
<1> QED
  BY <1>3, <1>10, <1>11

-----------------------------------------------------------------------------
(* The inductive invariant of the loader.                                  *)

Skipped(s) == s.unknown /\ s.raw = 0
Span(b, s) == Arg(b + s.rva, DwSpanCount(s.raw))

\* The module is where there is room for it, and the sections are painted in their order.
PlaceInv ==
  /\ file \in {<<>>} \union {<<f>> : f \in Files}
  /\ base \in Nat /\ painted \in Nat
  /\ file = <<>> => base = 0
  /\ base = 0 => painted = 0 /\ loadmap = <<>> /\ complement = {} /\ done = {}
  /\ base # 0 => Aligned(base) /\ base + Total(file[1]) <= Space - PageSize /\ painted <= Len(Sections)

\* The load map has the pages of the sections that are painted, and there is no other
\* complement than one of a whole module.
MapInv ==
  /\ Ordered(loadmap)
  /\ Members(loadmap) = {Span(base, Sections[i]) : i \in {k \in 1 .. painted : ~ Skipped(Sections[k])}}
  /\ complement # {} => Painted
  /\ \A c \in complement : c \in Complement(loadmap)

\* Files of which all fixups, and all imports, can come to an end.
FixupsEnd(f)  == \A fx \in Range(f.fixups) : fx.type \in {"highlow", "absolute"}
ImportsEnd(f) == \A im \in Range(f.imports) : im.pfn # 0

IsFixed(f, rva)   == \E fx \in Range(f.fixups) : fx.rva = rva /\ fx.type = "highlow"
ImportsAt(f, rva) == {im \in Range(f.imports) : im.rva = rva}

\* The word x at rva, that is old in the file: imports and fixups, in either order.
WordRight(f, rva, old, x) ==
  IF "imports" \in done /\ ImportsAt(f, rva) # {} THEN x \in {im.pfn : im \in ImportsAt(f, rva)}
  ELSE IF "fixups" \in done /\ IsFixed(f, rva) THEN x = PostFixup(old)
  ELSE x = old

\* The word k of the section i, in memory.
WordAt(i, k) ==
  LET rva == Sections[i].rva + k - 1 IN
  base + rva \in DOMAIN memory /\ WordRight(file[1], rva, Sections[i].data[k], memory[base + rva])

MemoryInv ==
  /\ done \subseteq {"fixups", "imports"} /\ (done # {} => Painted)
  /\ ("fixups" \in done => FixupsEnd(file[1])) /\ ("imports" \in done => ImportsEnd(file[1]))
  /\ base # 0 /\ FixupsEnd(file[1]) /\ ImportsEnd(file[1]) =>
       \A i \in 1 .. painted : \A k \in 1 .. Sections[i].raw : WordAt(i, k)

LoaderInv == PlaceInv /\ MapInv /\ MemoryInv

\* The handled entries are all when there is none that fails, and only then.
LEMMA BeforeAll ==
  ASSUME NEW list, NEW T, list \in Seq(T), NEW failing
  PROVE  /\ Before(list, failing) \subseteq ToSet(list)
         /\ Before(list, failing) = ToSet(list) <=> \A x \in ToSet(list) : x \notin failing
<1>1. DOMAIN list = 1 .. Len(list) /\ Len(list) \in Nat
  OBVIOUS
<1>2. Before(list, failing) \subseteq ToSet(list)
  BY DEF Before, ToSet
<1>3. ASSUME NEW x \in Before(list, failing)
      PROVE  x \notin failing
  <2>1. PICK i \in DOMAIN list : x = list[i] /\ \A k \in 1 .. i : list[k] \notin failing
    BY DEF Before
  <2>2. i \in 1 .. i
    BY <1>1
  <2> QED
    BY <2>1, <2>2
<1>4. ASSUME \A x \in ToSet(list) : x \notin failing
      PROVE  ToSet(list) \subseteq Before(list, failing)
  <2>1. ASSUME NEW i \in DOMAIN list
        PROVE  list[i] \in Before(list, failing)
    <3>1. ASSUME NEW k \in 1 .. i
          PROVE  list[k] \notin failing
      <4>1. k \in DOMAIN list
        BY <1>1
      <4> QED
        BY <1>4, <4>1 DEF ToSet
    <3> QED
      BY <3>1 DEF Before
  <2> QED
    BY <2>1 DEF ToSet
<1> QED
  BY <1>2, <1>3, <1>4

LEMMA LoaderInitInv == LoaderInit => LoaderInv
<1>1. SUFFICES ASSUME LoaderInit PROVE LoaderInv
  OBVIOUS
<1>2. PlaceInv
  BY <1>1 DEF LoaderInit, PlaceInv
<1>3. MapInv
  BY <1>1 DEF LoaderInit, MapInv, Ordered, Members
<1>4. MemoryInv
  BY <1>1 DEF LoaderInit, MemoryInv
<1> QED
  BY <1>2, <1>3, <1>4 DEF LoaderInv

LEMMA OpenInv ==
  ASSUME LoaderInv, NEW f \in Files, Open(f)
  PROVE  LoaderInv'
<1>1. /\ file = <<>> /\ base = 0 /\ painted = 0 /\ loadmap = <<>> /\ complement = {} /\ done = {}
      /\ file' = <<f>> /\ base' = 0 /\ painted' = 0 /\ loadmap' = <<>> /\ complement' = {} /\ done' = {}
  BY DEF LoaderInv, PlaceInv, Open
<1>2. PlaceInv'
  BY <1>1 DEF PlaceInv
<1>3. MapInv'
  BY <1>1 DEF MapInv, Ordered, Members
<1>4. MemoryInv'
  BY <1>1 DEF MemoryInv
<1> QED
  BY <1>2, <1>3, <1>4 DEF LoaderInv

LEMMA CloseInv ==
  ASSUME LoaderInv, CloseModule
  PROVE  LoaderInv'
<1>1. file' = <<>> /\ base' = 0 /\ painted' = 0 /\ loadmap' = <<>> /\ complement' = {} /\ done' = {}
  BY DEF CloseModule
<1>2. PlaceInv'
  BY <1>1 DEF PlaceInv
<1>3. MapInv'
  BY <1>1 DEF MapInv, Ordered, Members
<1>4. MemoryInv'
  BY <1>1 DEF MemoryInv
<1> QED
  BY <1>2, <1>3, <1>4 DEF LoaderInv

LEMMA AllocateInv ==
  ASSUME LoaderInv, Allocate
  PROVE  LoaderInv'
<1>1. PICK f \in Files : file = <<f>>
  BY DEF LoaderInv, PlaceInv, Allocate
<1>2. /\ file' = file /\ base = 0 /\ painted = 0 /\ loadmap = <<>> /\ complement = {} /\ done = {}
      /\ painted' = 0 /\ loadmap' = <<>> /\ complement' = {} /\ done' = {}
  BY DEF LoaderInv, PlaceInv, Allocate
<1>3. file[1] = f
  BY <1>1
<1>4. base' \in 1 .. Space - PageSize - Total(f) /\ base' % PageSize = 0
  BY <1>3 DEF Allocate
<1>5. Total(f) \in Nat /\ f.sections \in Seq([rva : Nat, raw : Nat, unknown : BOOLEAN, data : Seq(Nat)])
  BY FilesAssumption, TotalCovers DEF WellLinked
<1>6. base' \in Nat /\ Aligned(base') /\ base' + Total(f) <= Space - PageSize
  <2>1. PICK b : b = base'
    OBVIOUS
  <2>2. b \in Nat /\ b + Total(f) <= Space - PageSize
    BY <1>4, <1>5, <2>1
  <2>3. Aligned(b)
    BY <1>4, <2>1, <2>2, AlignedRemainder
  <2> QED
    BY <2>1, <2>2, <2>3
<1>7. PlaceInv'
  BY <1>1, <1>2, <1>3, <1>4, <1>5, <1>6 DEF PlaceInv, Sections
<1>8. MapInv'
  BY <1>2 DEF MapInv, Ordered, Members
<1>9. MemoryInv'
  BY <1>2 DEF MemoryInv
<1> QED
  BY <1>7, <1>8, <1>9 DEF LoaderInv

LEMMA ComplementInv ==
  ASSUME LoaderInv, ComputeComplement
  PROVE  LoaderInv'
<1>1. PlaceInv'
  <2>1. base # 0
    BY DEF ComputeComplement, Painted
  <2> QED
    BY <2>1 DEF LoaderInv, PlaceInv, ComputeComplement, Sections
<1>2. MapInv'
  BY DEF LoaderInv, MapInv, ComputeComplement, Painted, Sections
<1>3. MemoryInv'
  <2>1. file' = file /\ base' = base /\ painted' = painted /\ memory' = memory /\ done' = done
    BY DEF ComputeComplement
  <2>2. \A i, k : WordAt(i, k)' <=> WordAt(i, k)
    BY <2>1 DEF WordAt, WordRight, Sections, PostFixup
  <2> QED
    BY <2>1, <2>2 DEF LoaderInv, MemoryInv, Painted, Sections
<1> QED
  BY <1>1, <1>2, <1>3 DEF LoaderInv

\* Two sections have their pages apart, wherever they are.
LEMMA SpansApart ==
  ASSUME NEW f \in Files, NEW b \in Nat, b # 0, Aligned(b), b + Total(f) <= Space - PageSize,
         NEW i \in 1 .. Len(f.sections)
  PROVE  LET s == f.sections[i] IN
         /\ Regular(Span(b, s)) /\ Span(b, s).base = b + s.rva /\ Top(Span(b, s)) = b + s.rva + RoundUp(s.raw)
         /\ Top(Span(b, s)) < Space
         /\ \A j \in 1 .. Len(f.sections) : j # i => Apart(Span(b, s), Span(b, f.sections[j]))
<1>1. ASSUME NEW k \in 1 .. Len(f.sections)
      PROVE  LET s == f.sections[k] IN
             /\ Regular(Span(b, s)) /\ Span(b, s).base = b + s.rva /\ Top(Span(b, s)) = b + s.rva + RoundUp(s.raw)
             /\ Top(Span(b, s)) < Space /\ RoundUp(s.raw) \in Nat
  <2>1. PICK s : s = f.sections[k]
    OBVIOUS
  <2>2. s.rva \in Nat /\ s.raw \in Nat /\ Aligned(s.rva)
    BY <2>1, SectionFacts
  <2>3. PICK d \in Nat, e \in Nat : d = DwSpanCount(s.raw) /\ e = RoundUp(s.raw) /\ d * PageSize = e
    BY <2>2, Rounded DEF Aligned
  <2>4. Span(b, s) = [base |-> b + s.rva, pages |-> d]
    BY <2>3 DEF Span, Arg
  <2>5. Span(b, s) \in Ars /\ Span(b, s).base = b + s.rva /\ Span(b, s).pages = d
    BY <2>2, <2>4 DEF Ars
  <2>6. Top(Span(b, s)) = b + s.rva + e
    BY <2>3, <2>5 DEF Top
  <2>7. Aligned(b + s.rva)
    BY <2>2, AlignedSum
  <2>8. s.rva + e <= Total(f) /\ Total(f) \in Nat
    BY <2>1, <2>3, TotalCovers
  <2>9. Top(Span(b, s)) \in 1 .. Space /\ Top(Span(b, s)) < Space
    <3>0. PICK top : top = Top(Span(b, s))
      OBVIOUS
    <3>1. PICK r \in Nat, m \in Nat : r = s.rva /\ m = Total(f)
      BY <2>2, <2>8
    <3>2. top = b + r + e /\ r + e <= m /\ b + m <= Space - PageSize
      BY <2>6, <2>8, <3>0, <3>1
    <3>3. top \in 1 .. Space /\ top < Space
      BY ONLY <3>2, SizeAssumption, b \in Nat, b # 0, r \in Nat, e \in Nat, m \in Nat
    <3> QED
      BY <3>0, <3>3
  <2> QED
    BY <2>1, <2>3, <2>5, <2>6, <2>7, <2>9 DEF Regular
<1>2. ASSUME NEW j \in 1 .. Len(f.sections), j # i
      PROVE  Apart(Span(b, f.sections[i]), Span(b, f.sections[j]))
  <2>1. PICK s, t : s = f.sections[i] /\ t = f.sections[j]
    OBVIOUS
  <2>2. i \in DOMAIN f.sections /\ j \in DOMAIN f.sections
    BY SectionPlace
  <2>3. s.rva + RoundUp(s.raw) <= t.rva \/ t.rva + RoundUp(t.raw) <= s.rva
    BY <1>2, <2>1, <2>2, FilesAssumption DEF WellLinked
  <2>4. /\ Top(Span(b, s)) = b + s.rva + RoundUp(s.raw) /\ Span(b, s).base = b + s.rva /\ RoundUp(s.raw) \in Nat
        /\ Top(Span(b, t)) = b + t.rva + RoundUp(t.raw) /\ Span(b, t).base = b + t.rva /\ RoundUp(t.raw) \in Nat
    BY <1>1, <2>1
  <2>5. s.rva \in Nat /\ t.rva \in Nat
    BY <2>1, SectionFacts
  <2>6. Apart(Span(b, s), Span(b, t))
    BY <2>3, <2>4, <2>5 DEF Apart
  <2> QED
    BY <2>1, <2>6
<1> QED
  BY <1>1, <1>2

\* A word of one section is at no address of another's.
LEMMA WordsApart ==
  ASSUME NEW f \in Files, NEW i \in 1 .. Len(f.sections), NEW j \in 1 .. Len(f.sections), i # j,
         NEW k \in 1 .. f.sections[i].raw
  PROVE  f.sections[i].rva + k - 1 \notin f.sections[j].rva .. f.sections[j].rva + f.sections[j].raw - 1
<1>1. PICK s, t : s = f.sections[i] /\ t = f.sections[j]
  OBVIOUS
<1>2. s.rva \in Nat /\ s.raw \in Nat /\ t.rva \in Nat /\ t.raw \in Nat
  BY <1>1, SectionFacts
<1>3. i \in DOMAIN f.sections /\ j \in DOMAIN f.sections
  BY SectionPlace
<1>4. s.rva + RoundUp(s.raw) <= t.rva \/ t.rva + RoundUp(t.raw) <= s.rva
  BY <1>1, <1>3, FilesAssumption DEF WellLinked
<1>5. s.raw <= RoundUp(s.raw) /\ RoundUp(s.raw) \in Nat /\ t.raw <= RoundUp(t.raw) /\ RoundUp(t.raw) \in Nat
  BY <1>2, Rounded DEF Aligned
<1>6. s.rva + k - 1 \notin t.rva .. t.rva + t.raw - 1
  <2>1. PICK a \in Nat, m \in Nat, c \in Nat, n \in Nat, u \in Nat, v \in Nat :
           /\ a = s.rva /\ m = s.raw /\ c = t.rva /\ n = t.raw
           /\ u = RoundUp(s.raw) /\ v = RoundUp(t.raw)
    BY <1>2, <1>5
  <2>2. (a + u <= c \/ c + v <= a) /\ m <= u /\ n <= v
    BY <1>4, <1>5, <2>1
  <2>3. k \in 1 .. m
    BY <1>1, <2>1
  <2>4. a + k - 1 \notin c .. c + n - 1
    BY ONLY <2>2, <2>3, a \in Nat, m \in Nat, c \in Nat, n \in Nat, u \in Nat, v \in Nat
  <2> QED
    BY <2>1, <2>4
<1> QED
  BY <1>1, <1>6

LEMMA FileOpen ==
  ASSUME PlaceInv, base # 0
  PROVE  \E f \in Files : /\ file = <<f>> /\ file[1] = f /\ Sections = f.sections /\ base \in Nat /\ Aligned(base)
                          /\ base + Total(f) <= Space - PageSize /\ painted \in 0 .. Len(f.sections)
<1>1. PICK f \in Files : file = <<f>>
  BY DEF PlaceInv
<1>2. Len(f.sections) \in Nat
  BY FilesAssumption DEF WellLinked
<1> QED
  BY <1>1, <1>2 DEF PlaceInv, Sections

LEMMA PaintPlace ==
  ASSUME LoaderInv, Paint
  PROVE  PlaceInv'
<1>1. base # 0 /\ painted < Len(Sections) /\ painted' = painted + 1 /\ file' = file /\ base' = base
  BY DEF Paint
<1>2. PICK f \in Files : /\ file = <<f>> /\ Sections = f.sections /\ painted \in 0 .. Len(f.sections)
                         /\ f.sections \in Seq([rva : Nat, raw : Nat, unknown : BOOLEAN, data : Seq(Nat)])
  BY <1>1, FileOpen, FilesAssumption DEF LoaderInv, WellLinked
<1>3. painted' \in Nat /\ painted' <= Len(Sections) /\ Sections' = Sections
  BY <1>1, <1>2 DEF Sections
<1> QED
  BY <1>1, <1>3 DEF LoaderInv, PlaceInv

\* What one more section adds to those that are painted.
LEMMA OneMore ==
  ASSUME NEW secs, NEW b, NEW n \in Nat
  PROVE  {Span(b, secs[i]) : i \in {k \in 1 .. n + 1 : ~ Skipped(secs[k])}}
           = {Span(b, secs[i]) : i \in {k \in 1 .. n : ~ Skipped(secs[k])}}
               \union (IF Skipped(secs[n + 1]) THEN {} ELSE {Span(b, secs[n + 1])})
<1>1. 1 .. n + 1 = 1 .. n \union {n + 1}
  OBVIOUS
<1> QED
  BY <1>1

LEMMA PaintMap ==
  ASSUME LoaderInv, Paint
  PROVE  MapInv'
<1>1. base # 0 /\ painted < Len(Sections) /\ painted' = painted + 1 /\ file' = file /\ base' = base /\ complement' = complement
  BY DEF Paint
<1>2. PICK f \in Files : /\ file = <<f>> /\ Sections = f.sections /\ painted \in 0 .. Len(f.sections)
                         /\ base \in Nat /\ Aligned(base) /\ base + Total(f) <= Space - PageSize
  BY <1>1, FileOpen DEF LoaderInv
<1>3. PICK n \in Nat : n = painted
  BY <1>2
<1>4. f.sections \in Seq([rva : Nat, raw : Nat, unknown : BOOLEAN, data : Seq(Nat)])
  BY FilesAssumption DEF WellLinked
<1>5. n + 1 \in 1 .. Len(f.sections) /\ Len(f.sections) \in Nat
  BY <1>1, <1>2, <1>3, <1>4
<1>6. PICK s : s = f.sections[n + 1]
  OBVIOUS
<1>7. complement = {}
  BY <1>1 DEF LoaderInv, MapInv, Painted
<1>8. Ordered(loadmap) /\ Members(loadmap) = {Span(base, f.sections[i]) : i \in {k \in 1 .. n : ~ Skipped(f.sections[k])}}
  BY <1>2, <1>3 DEF LoaderInv, MapInv
<1>9. /\ Ordered(loadmap')
      /\ Members(loadmap') = Members(loadmap) \union (IF Skipped(s) THEN {} ELSE {Span(base, s)})
  <2>1. CASE Skipped(s)
    <3>1. loadmap' = loadmap
      BY <1>2, <1>3, <1>6, <2>1 DEF Paint, Skipped
    <3> QED
      BY <1>8, <2>1, <3>1
  <2>2. CASE ~ Skipped(s)
    <3>1. loadmap' \in Insert(loadmap, Span(base, s))
      BY <1>2, <1>3, <1>6, <2>2 DEF Paint, Skipped, Span
    <3>2. Regular(Span(base, s))
      BY <1>1, <1>2, <1>5, <1>6, SpansApart
    <3>3. ASSUME NEW i \in 1 .. Len(loadmap)
          PROVE  Apart(Span(base, s), loadmap[i])
      <4>1. loadmap[i] \in Members(loadmap)
        BY DEF Members
      <4>2. PICK j \in 1 .. n : loadmap[i] = Span(base, f.sections[j])
        BY <1>8, <4>1
      <4>3. j \in 1 .. Len(f.sections) /\ j # n + 1
        BY <1>5
      <4> QED
        BY <1>1, <1>2, <1>5, <1>6, <4>2, <4>3, SpansApart
    <3>4. OrderedWith(loadmap, Span(base, s), loadmap')
      BY <1>8, <3>1, <3>2, <3>3, InsertKeepsOrder
    <3> QED
      BY <2>2, <3>4 DEF OrderedWith
  <2> QED
    BY <2>1, <2>2
<1>10. Members(loadmap') = {Span(base, f.sections[i]) : i \in {k \in 1 .. n + 1 : ~ Skipped(f.sections[k])}}
  BY <1>6, <1>8, <1>9, OneMore
<1>11. Sections' = f.sections /\ painted' = n + 1 /\ Members(loadmap)' = Members(loadmap')
  BY <1>1, <1>2, <1>3 DEF Sections, Members
<1> QED
  BY <1>1, <1>7, <1>9, <1>10, <1>11 DEF MapInv, Ordered

LEMMA PaintMemory ==
  ASSUME LoaderInv, Paint
  PROVE  MemoryInv'
<1>1. base # 0 /\ painted < Len(Sections) /\ painted' = painted + 1 /\ file' = file /\ base' = base /\ done' = done
  BY DEF Paint
<1>2. PICK f \in Files : /\ file = <<f>> /\ file[1] = f /\ Sections = f.sections /\ painted \in 0 .. Len(f.sections) /\ base \in Nat
  BY <1>1, FileOpen DEF LoaderInv
<1>3. PICK n \in Nat : n = painted
  BY <1>2
<1>4. f.sections \in Seq([rva : Nat, raw : Nat, unknown : BOOLEAN, data : Seq(Nat)])
  BY FilesAssumption DEF WellLinked
<1>5. n + 1 \in 1 .. Len(f.sections) /\ Len(f.sections) \in Nat
  BY <1>1, <1>2, <1>3, <1>4
<1>6. PICK s : s = f.sections[n + 1]
  OBVIOUS
<1>7. s.rva \in Nat /\ s.raw \in Nat
  BY <1>5, <1>6, SectionFacts
<1>8. done = {} /\ done' = {}
  BY <1>1 DEF LoaderInv, MemoryInv, Painted
<1>9. SUFFICES ASSUME FixupsEnd(f), ImportsEnd(f), NEW i \in 1 .. n + 1, NEW k \in 1 .. f.sections[i].raw
               PROVE  LET a == base + (f.sections[i].rva + k - 1) IN a \in DOMAIN memory' /\ memory'[a] = f.sections[i].data[k]
  BY <1>1, <1>2, <1>3, <1>8 DEF MemoryInv, WordAt, WordRight, Sections
<1>10. i \in 1 .. Len(f.sections) /\ f.sections[i].rva \in Nat /\ f.sections[i].raw \in Nat
  <2>1. i \in 1 .. Len(f.sections)
    BY <1>5
  <2> QED
    BY <2>1, SectionFacts
<1>11. PICK a : a = base + (f.sections[i].rva + k - 1)
  OBVIOUS
<1> DEFINE span == (base + s.rva) .. (base + s.rva + s.raw - 1)
           image == [x \in span |-> s.data[x - base - s.rva + 1]]
<1>12. CASE i = n + 1
  <2>1. a \in span /\ a - base - s.rva + 1 = k
    <3>1. PICK r \in Nat, m \in Nat : r = s.rva /\ m = s.raw
      BY <1>7
    <3>2. a = base + (r + k - 1) /\ k \in 1 .. m
      BY <1>6, <1>11, <1>12, <3>1
    <3>3. a \in (base + r) .. (base + r + m - 1) /\ a - base - r + 1 = k
      BY ONLY <1>2, <3>2, r \in Nat, m \in Nat
    <3> QED
      BY <3>1, <3>3
  <2>2. ~ Skipped(s)
    BY <1>6, <1>12 DEF Skipped
  <2>3. memory' = Written(image, memory)
    BY <1>2, <1>3, <1>6, <2>2 DEF Paint, Skipped
  <2>4. a \in DOMAIN memory' /\ memory'[a] = s.data[a - base - s.rva + 1]
    BY <2>1, <2>3 DEF Written
  <2> QED
    BY <1>6, <1>11, <1>12, <2>1, <2>4
<1>13. CASE i # n + 1
  <2>1. i \in 1 .. n
    BY <1>13
  <2>2. a \in DOMAIN memory /\ memory[a] = f.sections[i].data[k]
    BY <1>1, <1>2, <1>3, <1>8, <1>9, <1>11, <2>1 DEF LoaderInv, MemoryInv, WordAt, WordRight
  <2>3. CASE Skipped(s)
    <3>1. memory' = memory
      BY <1>2, <1>3, <1>6, <2>3 DEF Paint, Skipped
    <3> QED
      BY <1>11, <2>2, <3>1
  <2>4. CASE ~ Skipped(s)
    <3>1. memory' = Written(image, memory)
      BY <1>2, <1>3, <1>6, <2>4 DEF Paint, Skipped
    <3>2. f.sections[i].rva + k - 1 \notin s.rva .. s.rva + s.raw - 1
      BY <1>5, <1>6, <1>10, <1>13, WordsApart
    <3>3. a \notin span
      <4>1. PICK r \in Nat, m \in Nat, q \in Nat, u \in Nat :
                 r = s.rva /\ m = s.raw /\ q = f.sections[i].rva /\ u = f.sections[i].raw
        BY <1>7, <1>10
      <4>2. a = base + (q + k - 1) /\ q + k - 1 \notin r .. r + m - 1 /\ k \in 1 .. u
        BY <1>11, <3>2, <4>1
      <4>3. a \notin (base + r) .. (base + r + m - 1)
        BY ONLY <1>2, <4>2, r \in Nat, m \in Nat, q \in Nat, u \in Nat
      <4> QED
        BY <4>1, <4>3
    <3>4. a \in DOMAIN memory' /\ memory'[a] = memory[a]
      BY <2>2, <3>1, <3>3 DEF Written
    <3> QED
      BY <1>11, <2>2, <3>4
  <2> QED
    BY <2>3, <2>4
<1> QED
  BY <1>12, <1>13

\* A fixup's word is that of no import, and 0 or an address of the image.
LEMMA FixedFacts ==
  ASSUME NEW f \in Files, NEW rva, IsFixed(f, rva)
  PROVE  /\ ImportsAt(f, rva) = {}
         /\ \A i \in 1 .. Len(f.sections) : \A k \in 1 .. f.sections[i].raw :
              f.sections[i].rva + k - 1 = rva => f.sections[i].data[k] \in {0} \union (Linked .. Linked + Total(f))
<1>1. WellLinked(f)
  BY FilesAssumption
<1>2. PICK fx \in Range(f.fixups) : fx.rva = rva /\ fx.type = "highlow"
  BY DEF IsFixed
<1>3. ImportsAt(f, rva) = {}
  BY <1>1, <1>2 DEF WellLinked, ImportsAt
<1>4. ASSUME NEW i \in 1 .. Len(f.sections), NEW k \in 1 .. f.sections[i].raw, f.sections[i].rva + k - 1 = rva
      PROVE  f.sections[i].data[k] \in {0} \union (Linked .. Linked + Total(f))
  <2>1. f.sections[i] \in Range(f.sections)
    BY SectionFacts
  <2> QED
    BY <1>1, <1>2, <1>4, <2>1 DEF WellLinked
<1> QED
  BY <1>3, <1>4

LEMMA FixupsPlaceMap ==
  ASSUME LoaderInv, ApplyAllFixups \/ FetchImports
  PROVE  PlaceInv' /\ MapInv'
<1>1. base # 0 /\ file' = file /\ base' = base /\ painted' = painted /\ loadmap' = loadmap /\ complement' = complement
  BY DEF ApplyAllFixups, FetchImports, Painted
<1> QED
  BY <1>1 DEF LoaderInv, PlaceInv, MapInv, Sections, Painted

LEMMA FixupsMemory ==
  ASSUME LoaderInv, ApplyAllFixups
  PROVE  MemoryInv'
<1>1. /\ base # 0 /\ Painted /\ file' = file /\ base' = base /\ painted' = painted /\ "fixups" \notin done
      /\ Painted' /\ Sections' = Sections
  BY DEF ApplyAllFixups, Painted, Sections
<1>2. PICK f \in Files : /\ file = <<f>> /\ file[1] = f /\ Sections = f.sections /\ painted \in 0 .. Len(f.sections) /\ base \in Nat
  BY <1>1, FileOpen DEF LoaderInv
<1> DEFINE failing == {fx \in ToSet(f.fixups) : fx.type \notin {"highlow", "absolute"}}
           handled == Before(f.fixups, failing)
           victims == {base + fx.rva : fx \in {g \in handled : g.type = "highlow"}}
<1>3. /\ memory' = [a \in DOMAIN memory |-> IF a \in victims THEN PostFixup(memory[a]) ELSE memory[a]]
      /\ done' = IF handled = ToSet(f.fixups) THEN done \union {"fixups"} ELSE done
  BY <1>2 DEF ApplyAllFixups
<1>4. f.fixups \in Seq([rva : Nat, type : STRING])
  BY FilesAssumption DEF WellLinked
<1>5. ToSet(f.fixups) = Range(f.fixups)
  BY <1>4 DEF ToSet, Range
<1>6. handled = ToSet(f.fixups) <=> FixupsEnd(f)
  <2>1. handled = ToSet(f.fixups) <=> \A x \in ToSet(f.fixups) : x \notin failing
    BY <1>4, BeforeAll
  <2> QED
    BY <1>5, <2>1 DEF FixupsEnd
<1>7. /\ done' \subseteq {"fixups", "imports"} /\ (done' # {} => Painted')
      /\ ("fixups" \in done' => FixupsEnd(f)) /\ ("imports" \in done' => ImportsEnd(f))
  BY <1>1, <1>2, <1>3, <1>6 DEF LoaderInv, MemoryInv
<1>8. ASSUME FixupsEnd(f), ImportsEnd(f), NEW i \in 1 .. painted, NEW k \in 1 .. f.sections[i].raw
      PROVE  WordAt(i, k)'
  <2>1. PICK rva : rva = f.sections[i].rva + k - 1
    OBVIOUS
  <2>2. PICK old : old = f.sections[i].data[k]
    OBVIOUS
  <2>3. i \in 1 .. Len(f.sections)
    BY <1>2
  <2>4. rva \in Nat
    <3>1. f.sections[i].rva \in Nat /\ f.sections[i].raw \in Nat
      BY <2>3, SectionFacts
    <3> QED
      BY <2>1, <3>1
  <2>5. base + rva \in DOMAIN memory /\ WordRight(f, rva, old, memory[base + rva])
    BY <1>1, <1>2, <1>8, <2>1, <2>2 DEF LoaderInv, MemoryInv, WordAt
  <2>6. done' = done \union {"fixups"} /\ handled = Range(f.fixups)
    BY <1>3, <1>5, <1>6, <1>8
  <2>7. base + rva \in victims <=> IsFixed(f, rva)
    <3>1. ASSUME base + rva \in victims PROVE IsFixed(f, rva)
      <4>1. PICK fx \in Range(f.fixups) : base + rva = base + fx.rva /\ fx.type = "highlow"
        BY <2>6, <3>1
      <4>2. fx.rva \in Nat
        <5> DEFINE R == [rva : Nat, type : STRING]
        <5>1. f.fixups \in Seq(R)
          BY <1>4
        <5> HIDE DEF R
        <5>2. fx \in R
          BY <5>1 DEF Range
        <5> QED
          BY <5>2 DEF R
      <4>3. fx.rva = rva
        BY ONLY <1>2, <2>4, <4>1, <4>2
      <4> QED
        BY <4>1, <4>3 DEF IsFixed
    <3>2. ASSUME IsFixed(f, rva) PROVE base + rva \in victims
      BY <2>6, <3>2 DEF IsFixed
    <3> QED
      BY <3>1, <3>2
  <2> HIDE DEF handled, victims
  <2>8. base + rva \in DOMAIN memory' /\ memory'[base + rva] = IF base + rva \in victims THEN PostFixup(memory[base + rva]) ELSE memory[base + rva]
    BY <1>3, <2>5
  <2>12. PICK new : new = memory'[base + rva]
    OBVIOUS
  <2>9. WordRight(f, rva, old, new)'
    <3>1. CASE IsFixed(f, rva)
      <4>1. ImportsAt(f, rva) = {}
        BY <3>1, FixedFacts
      <4>2. memory[base + rva] = old
        BY <1>1, <2>5, <4>1 DEF WordRight
      <4>3. memory'[base + rva] = PostFixup(old)
        BY <2>7, <2>8, <3>1, <4>2
      <4>4. PostFixup(old)' = PostFixup(old)
        BY <1>1 DEF PostFixup
      <4> QED
        BY <2>6, <2>12, <3>1, <4>1, <4>3, <4>4 DEF WordRight
    <3>2. CASE ~ IsFixed(f, rva)
      <4>1. memory'[base + rva] = memory[base + rva]
        BY <2>7, <2>8, <3>2
      <4> QED
        BY <2>5, <2>6, <2>12, <3>2, <4>1 DEF WordRight
    <3> QED
      BY <3>1, <3>2
  <2> QED
    BY <1>1, <1>2, <2>1, <2>2, <2>8, <2>9, <2>12 DEF WordAt, Sections
<1>9. file'[1] = f /\ base' # 0 /\ painted' = painted /\ Sections' = f.sections
  BY <1>1, <1>2
<1> HIDE DEF handled, victims, failing
<1> QED
  BY <1>7, <1>8, <1>9 DEF MemoryInv

LEMMA ImportsMemory ==
  ASSUME LoaderInv, FetchImports
  PROVE  MemoryInv'
<1>1. /\ base # 0 /\ Painted /\ file' = file /\ base' = base /\ painted' = painted /\ "imports" \notin done
      /\ Painted' /\ Sections' = Sections
  BY DEF FetchImports, Painted, Sections
<1>2. PICK f \in Files : /\ file = <<f>> /\ file[1] = f /\ Sections = f.sections /\ painted \in 0 .. Len(f.sections) /\ base \in Nat
  BY <1>1, FileOpen DEF LoaderInv
<1> DEFINE failing == {im \in ToSet(f.imports) : im.pfn = 0}
           handled == Before(f.imports, failing)
           words == [a \in {base + im.rva : im \in handled} |-> (CHOOSE im \in handled : base + im.rva = a).pfn]
<1>3. /\ memory' = Written(words, memory)
      /\ done' = IF handled = ToSet(f.imports) THEN done \union {"imports"} ELSE done
  BY <1>2 DEF FetchImports
<1>4. f.imports \in Seq([rva : Nat, pfn : Nat])
  BY FilesAssumption DEF WellLinked
<1>5. ToSet(f.imports) = Range(f.imports)
  BY <1>4 DEF ToSet, Range
<1>6. handled = ToSet(f.imports) <=> ImportsEnd(f)
  <2>1. handled = ToSet(f.imports) <=> \A x \in ToSet(f.imports) : x \notin failing
    BY <1>4, BeforeAll
  <2> QED
    BY <1>5, <2>1 DEF ImportsEnd
<1>7. /\ done' \subseteq {"fixups", "imports"} /\ (done' # {} => Painted')
      /\ ("fixups" \in done' => FixupsEnd(f)) /\ ("imports" \in done' => ImportsEnd(f))
  BY <1>1, <1>2, <1>3, <1>6 DEF LoaderInv, MemoryInv
<1>8. ASSUME FixupsEnd(f), ImportsEnd(f), NEW i \in 1 .. painted, NEW k \in 1 .. f.sections[i].raw
      PROVE  WordAt(i, k)'
  <2>1. PICK rva : rva = f.sections[i].rva + k - 1
    OBVIOUS
  <2>2. PICK old : old = f.sections[i].data[k]
    OBVIOUS
  <2>3. i \in 1 .. Len(f.sections)
    BY <1>2
  <2>4. rva \in Nat
    <3>1. f.sections[i].rva \in Nat /\ f.sections[i].raw \in Nat
      BY <2>3, SectionFacts
    <3> QED
      BY <2>1, <3>1
  <2>5. base + rva \in DOMAIN memory /\ WordRight(f, rva, old, memory[base + rva])
    BY <1>1, <1>2, <1>8, <2>1, <2>2 DEF LoaderInv, MemoryInv, WordAt
  <2>6. done' = done \union {"imports"} /\ handled = Range(f.imports)
    BY <1>3, <1>5, <1>6, <1>8
  <2>7. \A im \in Range(f.imports) : base + im.rva = base + rva <=> im.rva = rva
    <3>1. ASSUME NEW im \in Range(f.imports)
          PROVE  im.rva \in Nat
      <4> DEFINE R == [rva : Nat, pfn : Nat]
      <4>1. f.imports \in Seq(R)
        BY <1>4
      <4> HIDE DEF R
      <4>2. im \in R
        BY <4>1 DEF Range
      <4> QED
        BY <4>2 DEF R
    <3> QED
      BY ONLY <1>2, <2>4, <3>1
  <2>8. base + rva \in DOMAIN words <=> ImportsAt(f, rva) # {}
    BY <2>6, <2>7 DEF ImportsAt
  <2>9. ImportsAt(f, rva) # {} => words[base + rva] \in {im.pfn : im \in ImportsAt(f, rva)}
    <3>1. SUFFICES ASSUME ImportsAt(f, rva) # {} PROVE words[base + rva] \in {im.pfn : im \in ImportsAt(f, rva)}
      OBVIOUS
    <3>2. PICK im : im = CHOOSE x \in handled : base + x.rva = base + rva
      OBVIOUS
    <3>3. \E x \in handled : base + x.rva = base + rva
      BY <2>6, <3>1 DEF ImportsAt
    <3>4. im \in handled /\ base + im.rva = base + rva
      BY <3>2, <3>3
    <3>5. im \in ImportsAt(f, rva)
      BY <2>6, <2>7, <3>4 DEF ImportsAt
    <3>6. words[base + rva] = im.pfn
      BY <2>8, <3>1, <3>2
    <3> QED
      BY <3>5, <3>6
  <2> HIDE DEF handled, words
  <2>10. /\ base + rva \in DOMAIN memory'
         /\ memory'[base + rva] = IF ImportsAt(f, rva) # {} THEN words[base + rva] ELSE memory[base + rva]
    BY <1>3, <2>5, <2>8 DEF Written
  <2>12. PICK new : new = memory'[base + rva]
    OBVIOUS
  <2>11. WordRight(f, rva, old, new)'
    <3>1. CASE ImportsAt(f, rva) # {}
      BY <2>6, <2>9, <2>10, <2>12, <3>1 DEF WordRight
    <3>2. CASE ImportsAt(f, rva) = {}
      <4>1. PostFixup(old)' = PostFixup(old)
        BY <1>1 DEF PostFixup
      <4> QED
        BY <2>5, <2>6, <2>10, <2>12, <3>2, <4>1 DEF WordRight
    <3> QED
      BY <3>1, <3>2
  <2> QED
    BY <1>1, <1>2, <2>1, <2>2, <2>10, <2>11, <2>12 DEF WordAt, Sections
<1>9. file'[1] = f /\ base' # 0 /\ painted' = painted /\ Sections' = f.sections
  BY <1>1, <1>2
<1> HIDE DEF handled, words, failing
<1> QED
  BY <1>7, <1>8, <1>9 DEF MemoryInv
LEMMA LoaderStep ==
  ASSUME LoaderInv, [LoaderNext]_loaderVars
  PROVE  LoaderInv'
<1>1. ASSUME NEW f \in Files, Open(f) PROVE LoaderInv'
  BY <1>1, OpenInv
<1>2. CASE Allocate
  BY <1>2, AllocateInv
<1>3. CASE Paint
  BY <1>3, PaintPlace, PaintMap, PaintMemory DEF LoaderInv
<1>4. CASE ApplyAllFixups
  BY <1>4, FixupsPlaceMap, FixupsMemory DEF LoaderInv
<1>5. CASE FetchImports
  BY <1>5, FixupsPlaceMap, ImportsMemory DEF LoaderInv
<1>6. CASE ComputeComplement
  BY <1>6, ComplementInv
<1>7. CASE CloseModule
  BY <1>7, CloseInv
<1>8. CASE UNCHANGED loaderVars
  <2>1. /\ file' = file /\ base' = base /\ painted' = painted /\ memory' = memory
        /\ loadmap' = loadmap /\ complement' = complement /\ done' = done
    BY <1>8 DEF loaderVars
  <2>2. PlaceInv' /\ MapInv'
    BY <2>1 DEF LoaderInv, PlaceInv, MapInv, Sections, Painted
  <2>3. \A i, k : WordAt(i, k)' <=> WordAt(i, k)
    BY <2>1 DEF WordAt, WordRight, Sections, PostFixup
  <2>4. MemoryInv'
    BY <2>1, <2>3 DEF LoaderInv, MemoryInv, Painted, Sections
  <2> QED
    BY <2>2, <2>4 DEF LoaderInv
<1> QED
  BY <1>1, <1>2, <1>3, <1>4, <1>5, <1>6, <1>7, <1>8 DEF LoaderNext

-----------------------------------------------------------------------------
(* What the invariant says to the clients.                                 *)

\* The address x is in a page of the module.
Mine(f, b, x) == \E s \in Range(f.sections) : x >= b + s.rva /\ x < b + s.rva + RoundUp(s.raw)

LEMMA MapOfModule ==
  ASSUME NEW f \in Files, NEW b \in Nat, b # 0, Aligned(b), b + Total(f) <= Space - PageSize,
         NEW list, Ordered(list),
         Members(list) = {Span(b, f.sections[i]) : i \in {k \in 1 .. Len(f.sections) : ~ Skipped(f.sections[k])}}
  PROVE  /\ Space > 0 /\ \A k \in 1 .. Len(list) : Top(list[k]) < Space
         /\ \A x \in 0 .. Space - 1 : FContains(list, x) <=> Mine(f, b, x)
<1>1. f.sections \in Seq([rva : Nat, raw : Nat, unknown : BOOLEAN, data : Seq(Nat)])
  BY FilesAssumption DEF WellLinked
<1>2. ASSUME NEW i \in 1 .. Len(f.sections), NEW x \in Nat
      PROVE  LET s == f.sections[i] IN
             In(x, Span(b, s)) <=> x >= b + s.rva /\ x < b + s.rva + RoundUp(s.raw)
  BY SpansApart, RegularIn
<1>3. Space > 0
  BY TotalCovers
<1>4. ASSUME NEW k \in 1 .. Len(list)
      PROVE  \E i \in 1 .. Len(f.sections) : list[k] = Span(b, f.sections[i])
  <2>1. list[k] \in Members(list)
    BY DEF Members
  <2> QED
    BY <2>1
<1>5. \A k \in 1 .. Len(list) : Top(list[k]) < Space
  BY <1>4, SpansApart
<1>6. ASSUME NEW x \in 0 .. Space - 1, FContains(list, x)
      PROVE  Mine(f, b, x)
  <2>1. PICK k \in 1 .. Len(list) : In(x, list[k])
    BY <1>6 DEF FContains, Ordered
  <2>2. PICK i \in 1 .. Len(f.sections) : list[k] = Span(b, f.sections[i])
    BY <1>4
  <2>3. f.sections[i] \in Range(f.sections)
    BY SectionFacts
  <2> QED
    BY <1>2, <2>1, <2>2, <2>3 DEF Mine
<1>7. ASSUME NEW x \in 0 .. Space - 1, Mine(f, b, x)
      PROVE  FContains(list, x)
  <2>1. PICK i \in 1 .. Len(f.sections) :
          x >= b + f.sections[i].rva /\ x < b + f.sections[i].rva + RoundUp(f.sections[i].raw)
    <3>1. PICK s \in Range(f.sections) : x >= b + s.rva /\ x < b + s.rva + RoundUp(s.raw)
      BY <1>7 DEF Mine
    <3>2. PICK i \in DOMAIN f.sections : s = f.sections[i]
      BY <3>1 DEF Range
    <3>3. i \in 1 .. Len(f.sections)
      BY <1>1, <3>2
    <3> QED
      BY <3>1, <3>2, <3>3
  <2>2. ~ Skipped(f.sections[i])
    <3>1. SUFFICES ASSUME f.sections[i].raw = 0 PROVE FALSE
      BY DEF Skipped
    <3>2. RoundUp(0) = 0
      <4>1. Aligned(0) /\ RoundUp(0) \in Nat
        BY Rounded, 0 = 0 * PageSize DEF Aligned
      <4>2. RoundUp(0) <= 0
        BY <4>1, Rounded
      <4> QED
        BY <4>1, <4>2
    <3>3. f.sections[i].rva \in Nat
      BY SectionFacts
    <3> QED
      BY <2>1, <3>1, <3>2, <3>3
  <2>3. Span(b, f.sections[i]) \in Members(list)
    BY <2>2
  <2>4. PICK k \in 1 .. Len(list) : list[k] = Span(b, f.sections[i])
    BY <2>3 DEF Members
  <2>5. In(x, list[k])
    BY <1>2, <2>1, <2>4
  <2> QED
    BY <2>5 DEF FContains, Ordered
<1> QED
  BY <1>3, <1>5, <1>6, <1>7

LEMMA LoadMapFollows == LoaderInv => LoadMapExact
<1>1. SUFFICES ASSUME LoaderInv, Painted PROVE LoadMapExact
  BY DEF LoadMapExact
<1>2. PICK f \in Files : /\ file[1] = f /\ Sections = f.sections /\ base \in Nat /\ Aligned(base)
                         /\ base + Total(f) <= Space - PageSize /\ base # 0 /\ painted = Len(f.sections)
  BY <1>1, FileOpen DEF LoaderInv, Painted
<1>3. Ordered(loadmap) /\ Members(loadmap) = {Span(base, f.sections[i]) : i \in {k \in 1 .. Len(f.sections) : ~ Skipped(f.sections[k])}}
  BY <1>1, <1>2 DEF LoaderInv, MapInv
<1>4. /\ Space > 0 /\ \A k \in 1 .. Len(loadmap) : Top(loadmap[k]) < Space
      /\ \A x \in 0 .. Space - 1 : FContains(loadmap, x) <=> Mine(f, base, x)
  BY <1>2, <1>3, MapOfModule
<1>5. Ascending(loadmap)
  BY <1>3, OrderedAscending
<1>6. ASSUME NEW c \in complement
      PROVE  /\ Ascending(c) /\ CPages(c) + CPages(loadmap) = Space \div PageSize
             /\ \A x \in 0 .. Space - 1 : FContains(c, x) <=> ~ Mine(f, base, x)
  <2>1. c \in Complement(loadmap)
    BY <1>1 DEF LoaderInv, MapInv
  <2>2. /\ Ordered(c) /\ CPages(c) + CPages(loadmap) = Space \div PageSize
        /\ \A x \in 0 .. Space - 1 : FContains(c, x) <=> ~ FContains(loadmap, x)
    BY <1>3, <1>4, <2>1, ComplementExact
  <2> QED
    BY <1>4, <2>2, OrderedAscending
<1> QED
  BY <1>2, <1>4, <1>5, <1>6 DEF LoadMapExact, Mine

LEMMA ImageFollows == LoaderInv => ImageRight
<1>1. SUFFICES ASSUME LoaderInv, Painted, done = {"fixups", "imports"} PROVE ImageRight
  BY DEF ImageRight
<1>2. PICK f \in Files : /\ file[1] = f /\ Sections = f.sections /\ base \in Nat
                         /\ base + Total(f) <= Space - PageSize /\ base # 0 /\ painted = Len(f.sections)
  BY <1>1, FileOpen DEF LoaderInv, Painted
<1>3. f.sections \in Seq([rva : Nat, raw : Nat, unknown : BOOLEAN, data : Seq(Nat)])
  BY FilesAssumption DEF WellLinked
<1>4. ASSUME NEW s \in Range(f.sections), NEW k \in 1 .. s.raw
      PROVE  LET rva == s.rva + k - 1  old == s.data[k]  new == memory[base + rva]
                 fixed == \E fx \in Range(f.fixups) : fx.rva = rva /\ fx.type = "highlow"
                 imported == {im \in Range(f.imports) : im.rva = rva} IN
             IF imported # {} THEN new \in {im.pfn : im \in imported}
             ELSE IF fixed /\ old # 0 THEN new - base = old - Linked
             ELSE new = old
  <2>1. PICK i \in 1 .. Len(f.sections) : s = f.sections[i]
    BY <1>3 DEF Range
  <2>2. WordAt(i, k)
    BY <1>1, <1>2, <2>1 DEF LoaderInv, MemoryInv
  <2>3. PICK rva : rva = s.rva + k - 1
    OBVIOUS
  <2>4. PICK old : old = s.data[k]
    OBVIOUS
  <2>5. PICK new : new = memory[base + rva]
    OBVIOUS
  <2>6. WordRight(f, rva, old, new)
    BY <1>2, <2>1, <2>2, <2>3, <2>4, <2>5 DEF WordAt
  <2>7. CASE ImportsAt(f, rva) # {}
    <3>1. new \in {im.pfn : im \in ImportsAt(f, rva)}
      BY <1>1, <2>6, <2>7 DEF WordRight
    <3> QED
      BY <2>3, <2>4, <2>5, <2>7, <3>1 DEF ImportsAt
  <2>8. CASE ImportsAt(f, rva) = {} /\ IsFixed(f, rva)
    <3>1. new = PostFixup(old)
      BY <1>1, <2>6, <2>8 DEF WordRight
    <3>2. old \in {0} \union (Linked .. Linked + Total(f))
      BY <2>1, <2>3, <2>4, <2>8, FixedFacts
    <3>3. old # 0 => new - base = old - Linked
      <4>1. SUFFICES ASSUME old # 0 PROVE new - base = old - Linked
        OBVIOUS
      <4>2. Total(f) \in Nat /\ Linked \in Nat
        BY TotalCovers, FilesAssumption
      <4>3. old + base - Linked \in Nat /\ old + base - Linked < Space
        BY <1>2, <3>2, <4>1, <4>2
      <4>4. new = old + base - Linked
        BY <3>1, <4>1, <4>3, Modulo DEF PostFixup
      <4> QED
        BY <1>2, <3>2, <4>1, <4>2, <4>4
    <3>4. old = 0 => new = old
      BY <3>1 DEF PostFixup
    <3> QED
      BY <2>3, <2>4, <2>5, <2>8, <3>3, <3>4 DEF ImportsAt, IsFixed
  <2>9. CASE ImportsAt(f, rva) = {} /\ ~ IsFixed(f, rva)
    <3>1. new = old
      BY <2>6, <2>9 DEF WordRight
    <3> QED
      BY <2>3, <2>4, <2>5, <2>9, <3>1 DEF ImportsAt, IsFixed
  <2> QED
    BY <2>7, <2>8, <2>9
<1> QED
  BY <1>2, <1>4 DEF ImageRight

\* The invariant of the loader: the load map has the pages of the sections painted, in
\* order, and each word in memory is what the operations that ended have made of the
\* file's.
THEOREM LoaderInvHolds == LoaderSpec => []LoaderInv
<1>1. LoaderInit => LoaderInv
  BY LoaderInitInv
<1>2. LoaderInv /\ [LoaderNext]_loaderVars => LoaderInv'
  BY LoaderStep
<1> QED
  BY <1>1, <1>2, PTL DEF LoaderSpec

\* Whatever files there are, wherever memory is allocated and in whatever order a
\* client calls the loader: the load map and its complement have the module's pages and
\* all others, and the image is what the linker would have made for its base.
THEOREM ModuleLoadedHolds == LoaderSpec => []ModuleLoaded
<1>1. LoaderInv => ModuleLoaded
  BY LoadMapFollows, ImageFollows DEF ModuleLoaded
<1> QED
  BY <1>1, LoaderInvHolds, PTL
=============================================================================
