----------------------------- MODULE HeapProofs -----------------------------
(***************************************************************************)
(* Proofs about Heap, for any number and size of heaps.                     *)
(***************************************************************************)
EXTENDS Heap, TLAPS

\* gc_sweep's cursor is past c.
Swept(c) == c[1] < ptr[1] \/ (c[1] = ptr[1] /\ c[2] < ptr[2])

Marked == {c \in Cell : mark[c] = 1}

\* The objects that are still objects when the collection is over.
Kept == {c \in Allocated : pc = "sweep" => Swept(c) \/ mark[c] = 1}

\* What is malloc'ed, and how far the program got in it.
AreasInv ==
  /\ \A c \in Cell : type[c] = "raw" <=> (c \notin Active \/ c \in Bump)
  /\ pc \in {"mark", "sweep", "check", "hook", "fill"} => heap = HeapSize
  /\ pc \in {"check", "hook", "fill"} => req \in Request

ListsInv ==
  /\ FreelistSound
  /\ pc = "sweep" => \A i \in 1 .. Len(nfreelist) : Swept(nfreelist[i])

\* The tricolour invariant and what it leaves behind: no object, not even a
\* dead one, points to a free cell unless a sweep is under way.
ObjectsInv ==
  /\ words \subseteq Kept
  /\ {req.car, req.cdr} \subseteq words \union {NIL}
  /\ \A c \in Kept : Children(c) \subseteq Kept
  /\ pc \notin {"mark", "sweep"} => \A c \in Allocated : mark[c] = 0
  /\ pc = "mark" => /\ gray \subseteq Allocated
                    /\ words \subseteq Marked \union gray
                    /\ \A c \in Allocated \intersect Marked :
                         Children(c) \subseteq Marked \union gray
  /\ pc = "sweep" => \A c \in Cell : Swept(c) => mark[c] = 0

\* Together, what *after-gc* took and what it left to the NEWCELL that waits for
\* it are what gc_for_newcell had counted.
HookInv ==
  /\ pc = "hook" => Len(freelist) + hookTaken >= Reserve
  /\ pc = "fill" => Len(freelist) > 0 \/ hookTaken >= Reserve
  /\ pc = "crash" => hookTaken >= Reserve

IInv == TypeOK /\ AreasInv /\ ListsInv /\ ObjectsInv /\ HookInv

-----------------------------------------------------------------------------
(* Lists and areas *)

LEMMA TailFact ==
  ASSUME NEW l \in Seq(Cell), l # <<>>
  PROVE  /\ Head(l) \in Cell /\ Head(l) = l[1]
         /\ Tail(l) \in Seq(Cell) /\ Len(Tail(l)) = Len(l) - 1
         /\ \A i \in 1 .. Len(l) - 1 : Tail(l)[i] = l[i + 1]
         /\ Len(l) \in Nat \ {0}
  OBVIOUS

LEMMA PushFact ==
  ASSUME NEW l \in Seq(Cell), NEW c \in Cell
  PROVE  /\ <<c>> \o l \in Seq(Cell) /\ Len(<<c>> \o l) = Len(l) + 1
         /\ (<<c>> \o l)[1] = c
         /\ \A i \in 2 .. Len(l) + 1 : (<<c>> \o l)[i] = l[i - 1]
         /\ Len(l) \in Nat
         /\ l # <<>> => Head(l) = l[1]
         /\ l = <<>> <=> Len(l) = 0
  OBVIOUS

LEMMA ConcatFact ==
  ASSUME NEW k \in Seq(Cell), NEW l \in Seq(Cell)
  PROVE  /\ k \o l \in Seq(Cell) /\ Len(k \o l) = Len(k) + Len(l)
         /\ \A i \in 1 .. Len(k) : (k \o l)[i] = k[i]
         /\ \A i \in Len(k) + 1 .. Len(k) + Len(l) : (k \o l)[i] = l[i - Len(k)]
         /\ Len(l) \in Nat
         /\ l # <<>> => Head(l) = l[1]
         /\ l = <<>> <=> Len(l) = 0
  OBVIOUS

LEMMA JoinFact ==
  ASSUME NEW l \in Seq(Cell), NEW j \in 0 .. NHeaps - 1
  PROVE  /\ CellsOf(j) \o l \in Seq(Cell) /\ Len(CellsOf(j) \o l) = HeapSize + Len(l)
         /\ \A i \in 1 .. HeapSize : (CellsOf(j) \o l)[i] = <<j, i - 1>>
         /\ \A i \in HeapSize + 1 .. HeapSize + Len(l) :
              (CellsOf(j) \o l)[i] = l[i - HeapSize]
         /\ Len(l) \in Nat
         /\ l # <<>> => Head(l) = l[1]
         /\ l = <<>> <=> Len(l) = 0
<1> DEFINE k == CellsOf(j)
<1>1. k \in Seq(Cell)
  BY SizesAssumption DEF CellsOf, Cell, Offset
<1>2. Len(k) = HeapSize
  BY SizesAssumption DEF CellsOf
<1>3. \A i \in 1 .. HeapSize : k[i] = <<j, i - 1>>
  BY DEF CellsOf
<1> HIDE DEF k
<1>4. /\ k \o l \in Seq(Cell) /\ Len(k \o l) = HeapSize + Len(l)
      /\ \A i \in 1 .. HeapSize : (k \o l)[i] = <<j, i - 1>>
      /\ \A i \in HeapSize + 1 .. HeapSize + Len(l) : (k \o l)[i] = l[i - HeapSize]
  <2>1. /\ k \o l \in Seq(Cell) /\ Len(k \o l) = Len(k) + Len(l)
        /\ \A i \in 1 .. Len(k) : (k \o l)[i] = k[i]
        /\ \A i \in Len(k) + 1 .. Len(k) + Len(l) : (k \o l)[i] = l[i - Len(k)]
    BY <1>1, ConcatFact
  <2> QED
    BY <2>1, <1>2, <1>3
<1>5. Len(l) \in Nat /\ (l # <<>> => Head(l) = l[1]) /\ (l = <<>> <=> Len(l) = 0)
  BY <1>1, ConcatFact
<1> QED
  BY <1>4, <1>5 DEF k

-----------------------------------------------------------------------------
(* The initial states *)

THEOREM InitIInv == Init => IInv
<1> SUFFICES ASSUME Init PROVE IInv
  OBVIOUS
<1>1. TypeOK
  BY SizesAssumption, BoundsAssumption DEF Init, TypeOK, Ref, Cell, Offset, NoReq
<1>2. AreasInv
  BY SizesAssumption DEF Init, AreasInv, Active, Bump, Cell, Offset
<1>3. ListsInv
  BY DEF Init, ListsInv, FreelistSound, IsList
<1>4. ObjectsInv
  BY DEF Init, ObjectsInv, Kept, Allocated, NoReq
<1>5. HookInv
  BY DEF Init, HookInv
<1> QED
  BY <1>1, <1>2, <1>3, <1>4, <1>5 DEF IInv

-----------------------------------------------------------------------------
(* Taking a cell *)

\* The cell NEWCELL hands out becomes an object: whichever cell it is, as long
\* as it was none.
LEMMA FillObjects ==
  ASSUME TypeOK, ObjectsInv, pc \notin {"mark", "sweep"}, pc' \notin {"mark", "sweep"},
         NEW c \in Cell, c \notin Allocated,
         NEW r \in Request, {r.car, r.cdr} \subseteq words \union {NIL},
         Fill(c, r),
         req' = req \/ req' = NoReq
  PROVE  ObjectsInv'
<1>1. Allocated' = Allocated \union {c}
  BY DEF Fill, Allocated, Request, TypeOK
<1>2. Kept = Allocated /\ Kept' = Allocated'
  BY DEF Kept
<1>3. \A d \in Allocated : Children(d)' = Children(d)
  BY DEF Fill, Children, Allocated, TypeOK
<1>4. Children(c)' \subseteq words
  BY DEF Fill, Children, TypeOK
<1>5. \A d \in Allocated' : mark'[d] = 0
  BY <1>1 DEF ObjectsInv, Fill, TypeOK, Allocated
<1>6. words' = words \union {c}
  BY DEF Fill
<1>7. \A d \in Kept' : Children(d)' \subseteq Kept'
  BY <1>1, <1>2, <1>3, <1>4 DEF ObjectsInv
<1>8. {req'.car, req'.cdr} \subseteq words' \union {NIL}
  BY <1>6 DEF ObjectsInv, NoReq
<1> QED
  BY <1>1, <1>2, <1>5, <1>6, <1>7, <1>8 DEF ObjectsInv

\* The rest of the list is a list still, after its first cell was filled.
LEMMA PopList ==
  ASSUME TypeOK, AreasInv, IsList(freelist), freelist # <<>>, pc # "sweep", pc' # "sweep",
         NEW r \in Request,
         Fill(Head(freelist), r), freelist' = Tail(freelist),
         heap' = heap, nactive' = nactive
  PROVE  /\ ListsInv' /\ Head(freelist) \in Cell /\ Head(freelist) \notin Allocated
         /\ type[Head(freelist)] = "free"
         /\ Len(freelist') = Len(freelist) - 1 /\ freelist' \in Seq(Cell)
<1> DEFINE c == freelist[1]
           l == Tail(freelist)
<1>1. /\ Head(freelist) = c /\ c \in Cell
      /\ l \in Seq(Cell) /\ Len(l) = Len(freelist) - 1
      /\ \A i \in 1 .. Len(freelist) - 1 : l[i] = freelist[i + 1]
      /\ Len(freelist) \in Nat \ {0}
  BY TailFact DEF TypeOK
<1>2. type[c] = "free"
  BY <1>1 DEF IsList
<1>3. \A i \in 1 .. Len(l) : l[i] \in Cell /\ l[i] # c
  BY <1>1 DEF IsList
<1>4. Active' = Active /\ Bump' = Bump
  BY DEF Active, Bump
<1>5. \A i \in 1 .. Len(l) : type'[l[i]] = "free" /\ l[i] \in (Active \ Bump)'
  BY <1>1, <1>3, <1>4 DEF IsList, Fill, TypeOK
<1>6. \A i, j \in 1 .. Len(l) : l[i] = l[j] => i = j
  BY <1>1 DEF IsList
<1>7. \A i \in 1 .. Len(l) : cdr'[l[i]] = IF i < Len(l) THEN l[i + 1] ELSE NIL
  <2> TAKE i \in 1 .. Len(l)
  <2>1. cdr'[l[i]] = cdr[freelist[i + 1]]
    BY <1>1, <1>3 DEF Fill, TypeOK
  <2>2. cdr[freelist[i + 1]] = IF i + 1 < Len(freelist) THEN freelist[i + 2] ELSE NIL
    BY <1>1 DEF IsList
  <2> QED
    BY <2>1, <2>2, <1>1
<1>8. IsList(freelist)'
  BY <1>5, <1>6, <1>7 DEF IsList
<1> QED
  BY <1>1, <1>2, <1>8 DEF ListsInv, FreelistSound, Allocated

LEMMA PopKeeps ==
  ASSUME IInv, NEW r \in Request, NewcellPop(r)
  PROVE  IInv'
<1> USE DEF IInv
<1>1. pc' = pc /\ pc \in {"run", "hook"} /\ freelist # <<>> /\ IsList(freelist)
  BY DEF NewcellPop, InProgram, ListsInv, FreelistSound
<1>2. Fill(Head(freelist), r) /\ freelist' = Tail(freelist)
  BY DEF NewcellPop
<1>3. /\ ListsInv' /\ Head(freelist) \in Cell /\ Head(freelist) \notin Allocated
      /\ type[Head(freelist)] = "free"
      /\ Len(freelist') = Len(freelist) - 1 /\ freelist' \in Seq(Cell)
  BY <1>1, <1>2, PopList DEF NewcellPop
<1>4. TypeOK'
  BY <1>2, <1>3, StoresAssumption, BoundsAssumption
     DEF NewcellPop, TypeOK, Fill, Request, Ref
<1>5. AreasInv'
  BY <1>2, <1>3 DEF NewcellPop, AreasInv, Fill, Active, Bump, Request, TypeOK
<1>6. ObjectsInv'
  BY <1>1, <1>2, <1>3, FillObjects DEF NewcellPop, Askable
<1>7. HookInv'
  BY <1>1, <1>3, TailFact DEF NewcellPop, HookInv, TypeOK
<1> QED
  BY <1>3, <1>4, <1>5, <1>6, <1>7

LEMMA BumpKeeps ==
  ASSUME IInv, NEW r \in Request, NewcellBump(r)
  PROVE  IInv'
<1> USE DEF IInv
<1> DEFINE c == <<0, heap>>
<1>1. pc' = pc /\ pc \in {"run", "hook"} /\ freelist = <<>> /\ freelist' = freelist
  BY DEF NewcellBump, InProgram
<1>2. Fill(c, r)
  BY DEF NewcellBump
<1>3. c \in Bump /\ c \in Cell /\ c \notin Allocated
  BY SizesAssumption DEF NewcellBump, AreasInv, Bump, Cell, Offset, Allocated, TypeOK
<1>4. TypeOK'
  BY <1>1, <1>2, <1>3, StoresAssumption, BoundsAssumption, SizesAssumption
     DEF NewcellBump, TypeOK, Fill, Request, Ref
<1>5. AreasInv'
  <2>1. Active' = Active /\ c \in Active
    BY <1>3, SizesAssumption DEF NewcellBump, Active, TypeOK
  <2>2. Bump' = Bump \ {c}
    BY <1>3, SizesAssumption DEF NewcellBump, Bump, TypeOK, Cell, Offset
  <2>3. \A d \in Cell : type'[d] = "raw" <=> (type[d] = "raw" /\ d # c)
    BY <1>2, <1>3 DEF Fill, TypeOK, Request
  <2>4. \A d \in Cell : type'[d] = "raw" <=> (d \notin Active' \/ d \in Bump')
    BY <2>1, <2>2, <2>3, <1>3 DEF AreasInv
  <2>5. pc' = "run"
    BY <1>1, SizesAssumption DEF NewcellBump, AreasInv, TypeOK
  <2> QED
    BY <2>4, <2>5 DEF AreasInv
<1>6. ListsInv'
  BY <1>1 DEF ListsInv, FreelistSound, IsList
<1>7. ObjectsInv'
  BY <1>1, <1>2, <1>3, FillObjects DEF NewcellBump, Askable
<1>8. pc' = "run"
  BY <1>1, SizesAssumption DEF NewcellBump, AreasInv, TypeOK
<1>9. HookInv'
  BY <1>8 DEF HookInv
<1> QED
  BY <1>4, <1>5, <1>6, <1>7, <1>9

-----------------------------------------------------------------------------
(* The program *)

\* What the collector's variables say is not affected by what the program
\* does to its own words.
LEMMA WordsKeep ==
  ASSUME IInv, pc \notin {"mark", "sweep"}, UNCHANGED <<space, gcvars>>,
         words' \subseteq Allocated, {req.car, req.cdr} \subseteq words' \union {NIL}
  PROVE  IInv'
<1> USE DEF IInv, space, gcvars
<1>1. TypeOK'
  BY DEF TypeOK, Allocated
<1>2. AreasInv' /\ ListsInv' /\ HookInv'
  BY DEF AreasInv, ListsInv, HookInv, Active, Bump, FreelistSound, IsList
<1>3. Kept' = Allocated /\ Kept = Allocated
  BY DEF Kept, Allocated
<1>4. ObjectsInv'
  BY <1>3 DEF ObjectsInv, Children, Allocated
<1> QED
  BY <1>1, <1>2, <1>4

LEMMA LoadKeeps ==
  ASSUME IInv, NEW w \in Cell, Load(w)
  PROVE  IInv'
<1>1. PICK c \in words : type[c] = "cons" /\ w \in {car[c], cdr[c]} /\ w # NIL
  BY DEF Load
<1>2. c \in Kept /\ w \in Kept
  BY <1>1 DEF IInv, ObjectsInv, Children
<1> QED
  BY <1>2, WordsKeep DEF Load, InProgram, IInv, ObjectsInv, Kept

LEMMA DropKeeps ==
  ASSUME IInv, NEW w \in Cell, Drop(w)
  PROVE  IInv'
  BY WordsKeep DEF Drop, InProgram, IInv, ObjectsInv, Kept

\* (set-car! c w) and (set-cdr! c w)
LEMMA SetKeeps ==
  ASSUME IInv, NEW c \in Cell, NEW w \in Ref, SetCar(c, w) \/ SetCdr(c, w)
  PROVE  IInv'
<1> USE DEF IInv
<1>1. /\ pc \in {"run", "hook"} /\ c \in words /\ w \in words \union {NIL} /\ c \in Allocated
      /\ UNCHANGED <<heap, nactive, freelist, type, mark, open, words, gcvars>>
  BY DEF SetCar, SetCdr, InProgram, ObjectsInv, Kept
<1>2. TypeOK'
  BY <1>1 DEF SetCar, SetCdr, TypeOK, gcvars
<1>3. AreasInv' /\ HookInv'
  BY <1>1 DEF AreasInv, HookInv, Active, Bump, gcvars
<1>4. \A i \in 1 .. Len(freelist) : freelist[i] \in Cell /\ freelist[i] # c
  BY <1>1 DEF ListsInv, FreelistSound, IsList, Allocated, TypeOK
<1>5. \A i \in 1 .. Len(freelist) : cdr'[freelist[i]] = cdr[freelist[i]]
  BY <1>4 DEF SetCar, SetCdr, TypeOK
<1>6. ListsInv'
  BY <1>1, <1>5 DEF ListsInv, FreelistSound, IsList, Active, Bump, gcvars
<1>7. Kept' = Allocated /\ Kept = Allocated /\ Allocated' = Allocated
  BY <1>1 DEF Kept, Allocated, gcvars
<1>8. \A d \in Allocated : Children(d)' \subseteq Children(d) \union {w}
  BY <1>1 DEF Children, SetCar, SetCdr, TypeOK, Allocated
<1>9. \A d \in Allocated : Children(d)' \subseteq Allocated
  BY <1>1, <1>7, <1>8 DEF ObjectsInv, Children
<1>10. ObjectsInv'
  BY <1>1, <1>7, <1>9 DEF ObjectsInv, gcvars
<1> QED
  BY <1>2, <1>3, <1>6, <1>10

-----------------------------------------------------------------------------
(* A new heap *)

\* Whoever asks for it, a new heap changes no object, and it leaves a longer
\* free list.
LEMMA AheapFact ==
  ASSUME IInv, AllocateAheap, pc \notin {"mark", "sweep"}, pc' \notin {"mark", "sweep"},
         UNCHANGED <<words, req, ptr, nfreelist>>
  PROVE  /\ freelist' \in Seq(Cell) /\ Len(freelist') = HeapSize + Len(freelist)
         /\ nactive' \in 1 .. NHeaps
         /\ type' \in [Cell -> {"raw", "free", "cons", "user"}]
         /\ mark' \in [Cell -> 0 .. 1] /\ cdr' \in [Cell -> Ref]
         /\ \A c \in Cell : type'[c] = "raw" <=> (c \notin Active' \/ c \in Bump')
         /\ ListsInv' /\ ObjectsInv'
<1> USE DEF IInv
<1> DEFINE n == nactive
           l == freelist'
<1>1. n \in 0 .. NHeaps - 1 /\ n > 0 /\ nactive' = n + 1 /\ heap' = heap
  BY SizesAssumption DEF AllocateAheap, TypeOK
<1>2. /\ l \in Seq(Cell) /\ Len(l) = HeapSize + Len(freelist)
      /\ \A i \in 1 .. HeapSize : l[i] = <<n, i - 1>>
      /\ \A i \in HeapSize + 1 .. HeapSize + Len(freelist) : l[i] = freelist[i - HeapSize]
      /\ Len(freelist) \in Nat
      /\ First(freelist) = IF Len(freelist) = 0 THEN NIL ELSE freelist[1]
  <2>1. freelist \in Seq(Cell) /\ l = CellsOf(n) \o freelist
    BY DEF AllocateAheap, TypeOK
  <2> HIDE DEF l, n
  <2>2. /\ l \in Seq(Cell) /\ Len(l) = HeapSize + Len(freelist)
        /\ \A i \in 1 .. HeapSize : l[i] = <<n, i - 1>>
        /\ \A i \in HeapSize + 1 .. HeapSize + Len(freelist) : l[i] = freelist[i - HeapSize]
        /\ Len(freelist) \in Nat
        /\ freelist # <<>> => Head(freelist) = freelist[1]
        /\ freelist = <<>> <=> Len(freelist) = 0
    BY <2>1, <1>1, JoinFact
  <2>3. First(freelist) = IF Len(freelist) = 0 THEN NIL ELSE freelist[1]
    BY <2>2 DEF First
  <2> QED
    BY <2>2, <2>3
<1>3. /\ type' = [c \in Cell |-> IF c[1] = n THEN "free" ELSE type[c]]
      /\ cdr' = [c \in Cell |-> IF c[1] # n THEN cdr[c]
                                ELSE IF c[2] < HeapSize - 1 THEN <<c[1], c[2] + 1>>
                                ELSE First(freelist)]
  BY DEF AllocateAheap
<1>4. \A c \in Cell : c[1] \in 0 .. NHeaps - 1 /\ c[2] \in 0 .. HeapSize - 1 /\ c = <<c[1], c[2]>>
  BY DEF Cell, Offset
<1>5. First(freelist) \in Ref
  <2>1. CASE Len(freelist) = 0
    BY <2>1, <1>2 DEF Ref
  <2>2. CASE Len(freelist) # 0
    BY <2>2, <1>2 DEF Ref, TypeOK
  <2> QED
    BY <2>1, <2>2
<1>6. cdr' \in [Cell -> Ref]
  <2>1. \A c \in Cell : c[2] < HeapSize - 1 => <<c[1], c[2] + 1>> \in Cell
    BY <1>4, SizesAssumption DEF Cell, Offset
  <2> QED
    BY <2>1, <1>3, <1>5 DEF TypeOK, Ref
<1>7. type' \in [Cell -> {"raw", "free", "cons", "user"}]
  BY <1>3 DEF TypeOK
<1>8. mark' \in [Cell -> 0 .. 1] /\ \A c \in Cell : c[1] # n => mark'[c] = mark[c]
  BY <1>4 DEF AllocateAheap, TypeOK, Offset
<1>9. \A c \in Cell : (c \in Active' <=> c \in Active \/ c[1] = n) /\ (c \in Bump' <=> c \in Bump)
  BY <1>1, <1>4 DEF Active, Bump, TypeOK
<1>10. \A c \in Cell : type'[c] = "raw" <=> (c \notin Active' \/ c \in Bump')
  BY <1>1, <1>3, <1>4, <1>9 DEF AreasInv, Active, Bump
<1>11. \A c \in Cell : c[1] = n => type[c] = "raw"
  BY <1>1, <1>4 DEF AreasInv, Active
<1>12. Allocated' = Allocated /\ \A c \in Allocated : c[1] # n
  BY <1>3, <1>7, <1>11 DEF Allocated, TypeOK
<1>13. \A i \in 1 .. Len(freelist) :
         /\ freelist[i] \in Cell /\ freelist[i][1] # n /\ type[freelist[i]] = "free"
         /\ freelist[i] \in Active \ Bump
  <2>1. IsList(freelist)
    BY DEF ListsInv, FreelistSound
  <2> QED
    BY <2>1, <1>11 DEF IsList, TypeOK
<1>14. IsList(freelist)'
  <2>1. \A i \in 1 .. Len(l) : type'[l[i]] = "free" /\ l[i] \in Active' \ Bump'
    <3> SUFFICES ASSUME NEW i \in 1 .. Len(l)
                 PROVE  type'[l[i]] = "free" /\ l[i] \in Active' \ Bump'
      OBVIOUS
    <3>1. CASE i \in 1 .. HeapSize
      <4>1. l[i] \in Cell /\ l[i][1] = n
        BY <3>1, <1>1, <1>2 DEF Cell, Offset
      <4> QED
        BY <4>1, <1>1, <1>3, <1>9 DEF Bump
    <3>2. CASE i \in HeapSize + 1 .. HeapSize + Len(freelist)
      BY <3>2, <1>2, <1>3, <1>9, <1>13, SizesAssumption
    <3> QED
      BY <3>1, <3>2, <1>2, SizesAssumption
  <2>2. \A i, j \in 1 .. Len(l) : l[i] = l[j] => i = j
    <3> SUFFICES ASSUME NEW i \in 1 .. Len(l), NEW j \in 1 .. Len(l), l[i] = l[j]
                 PROVE  i = j
      OBVIOUS
    <3>1. \A k \in 1 .. Len(l) : l[k][1] = n <=> k \in 1 .. HeapSize
      BY <1>2, <1>13, SizesAssumption
    <3>2. CASE i \in 1 .. HeapSize
      BY <3>1, <3>2, <1>2
    <3>3. CASE i \notin 1 .. HeapSize
      <4>1. i - HeapSize \in 1 .. Len(freelist) /\ j - HeapSize \in 1 .. Len(freelist)
        BY <3>1, <3>3, <1>2, SizesAssumption
      <4>2. l[i] = freelist[i - HeapSize] /\ l[j] = freelist[j - HeapSize]
        BY <3>1, <3>3, <1>2, SizesAssumption
      <4>3. i - HeapSize = j - HeapSize
        BY <4>1, <4>2 DEF ListsInv, FreelistSound, IsList
      <4> QED
        BY <4>3, SizesAssumption
    <3> QED
      BY <3>2, <3>3
  <2>3. \A i \in 1 .. Len(l) : cdr'[l[i]] = IF i < Len(l) THEN l[i + 1] ELSE NIL
    <3> SUFFICES ASSUME NEW i \in 1 .. Len(l)
                 PROVE  cdr'[l[i]] = IF i < Len(l) THEN l[i + 1] ELSE NIL
      OBVIOUS
    <3>1. CASE i \in 1 .. HeapSize - 1
      <4>1. i \in 1 .. HeapSize /\ i + 1 \in 1 .. HeapSize /\ (i + 1) - 1 = i /\ i < Len(l)
        BY <3>1, <1>2, SizesAssumption
      <4>2. l[i] = <<n, i - 1>> /\ l[i + 1] = <<n, i>>
        BY <4>1, <1>2
      <4>3. l[i] \in Cell
        <5>1. i - 1 \in 0 .. HeapSize - 1
          BY <4>1, SizesAssumption
        <5> QED
          BY <5>1, <4>2, <1>1 DEF Cell, Offset
      <4>4. cdr'[l[i]] = <<n, (i - 1) + 1>>
        BY <4>1, <4>2, <4>3, <1>3, <3>1, SizesAssumption
      <4> QED
        BY <4>1, <4>2, <4>4
    <3>2. CASE i = HeapSize
      <4>1. l[i] \in Cell /\ l[i] = <<n, HeapSize - 1>>
        BY <3>2, <1>1, <1>2, SizesAssumption DEF Cell, Offset
      <4>2. cdr'[l[i]] = First(freelist)
        BY <4>1, <1>3, SizesAssumption
      <4> QED
        BY <4>2, <3>2, <1>2, SizesAssumption
    <3>3. CASE i \in HeapSize + 1 .. Len(l)
      <4> DEFINE k == i - HeapSize
      <4>1. k \in 1 .. Len(freelist) /\ l[i] = freelist[k]
        BY <3>3, <1>2, SizesAssumption
      <4>2. cdr'[l[i]] = cdr[freelist[k]]
        BY <4>1, <1>3, <1>13
      <4>3. cdr[freelist[k]] = IF k < Len(freelist) THEN freelist[k + 1] ELSE NIL
        BY <4>1 DEF ListsInv, FreelistSound, IsList
      <4>4. k < Len(freelist) => l[i + 1] = freelist[k + 1]
        BY <4>1, <3>3, <1>2, SizesAssumption
      <4> QED
        BY <4>1, <4>2, <4>3, <4>4, <1>2, SizesAssumption
    <3> QED
      BY <3>1, <3>2, <3>3, <1>2, SizesAssumption
  <2> QED
    BY <2>1, <2>2, <2>3 DEF IsList
<1>15. ListsInv'
  BY <1>14 DEF ListsInv, FreelistSound
<1>16. \A c \in Allocated : Children(c)' = Children(c)
  BY <1>3, <1>12 DEF Children, AllocateAheap, Allocated
<1>17. Kept' = Allocated /\ Kept = Allocated
  BY <1>12 DEF Kept
<1>18. ObjectsInv'
  BY <1>8, <1>12, <1>16, <1>17 DEF ObjectsInv, Allocated
<1>19. nactive' \in 1 .. NHeaps
  BY <1>1, SizesAssumption
<1> QED
  BY <1>2, <1>6, <1>7, <1>8, <1>10, <1>15, <1>18, <1>19

LEMMA AheapKeeps ==
  ASSUME IInv, LAllocateHeap \/ CheckGrow
  PROVE  IInv'
<1> USE DEF IInv
<1>1. /\ AllocateAheap /\ pc \notin {"mark", "sweep"} /\ pc' \notin {"mark", "sweep"}
      /\ UNCHANGED <<words, req, ptr, nfreelist, hookTaken, gray>>
      /\ scanned' \in SUBSET Cell
      /\ heap' = heap /\ car' = car /\ open' = open
  BY DEF LAllocateHeap, CheckGrow, AllocateAheap, InProgram, gcvars, TypeOK
<1>2. /\ freelist' \in Seq(Cell) /\ Len(freelist') = HeapSize + Len(freelist)
      /\ nactive' \in 1 .. NHeaps
      /\ type' \in [Cell -> {"raw", "free", "cons", "user"}]
      /\ mark' \in [Cell -> 0 .. 1] /\ cdr' \in [Cell -> Ref]
      /\ \A c \in Cell : type'[c] = "raw" <=> (c \notin Active' \/ c \in Bump')
      /\ ListsInv' /\ ObjectsInv'
  BY <1>1, AheapFact
<1>3. pc' = pc \/ (pc = "check" /\ pc' = "fill")
  BY DEF LAllocateHeap, CheckGrow, gcvars
<1>4. TypeOK'
  BY <1>1, <1>2, <1>3 DEF TypeOK, AllocateAheap
<1>5. AreasInv'
  BY <1>1, <1>2, <1>3 DEF AreasInv
<1>6. HookInv'
  BY <1>1, <1>2, <1>3, SizesAssumption DEF HookInv, TypeOK
<1> QED
  BY <1>2, <1>4, <1>5, <1>6

-----------------------------------------------------------------------------
(* Marking *)

LEMMA StartKeeps ==
  ASSUME IInv, StartGC, pc = "run", req' \in Request \union {NoReq},
         {req'.car, req'.cdr} \subseteq words \union {NIL}
  PROVE  IInv'
<1> USE DEF IInv
<1>1. /\ type' = [c \in Cell |-> IF c \in Bump THEN "free" ELSE type[c]]
      /\ mark' = [c \in Cell |-> IF c \in Bump THEN 0 ELSE mark[c]]
      /\ heap' = HeapSize /\ pc' = "mark"
      /\ UNCHANGED <<nactive, freelist, car, cdr, open, words, ptr, nfreelist, hookTaken>>
  BY DEF StartGC, FreeTheRest
<1>2. PICK protected \in SUBSET words, stale \in SUBSET Stale :
        gray' = protected \union {w \in words \union stale : LooksPointer(w, type')}
  BY DEF StartGC
<1>3. Active' = Active /\ Bump' = {}
  BY <1>1, SizesAssumption DEF Active, Bump, Cell, Offset
<1>4. Bump \subseteq Active
  BY DEF Bump, Active, TypeOK
<1>5. Allocated' = Allocated /\ words \subseteq Allocated
  BY <1>1 DEF Allocated, AreasInv, ObjectsInv, Kept, TypeOK
<1>6. gray' \subseteq Allocated /\ words \subseteq gray'
  <2>1. \A w \in words \union stale : LooksPointer(w, type') => w \in Allocated
    BY <1>1, <1>3, <1>4, StoresAssumption
       DEF LooksPointer, AreasInv, Active, Allocated, TypeOK
  <2>2. \A w \in words : LooksPointer(w, type')
    BY <1>1, <1>5 DEF LooksPointer, AreasInv, Active, Allocated, TypeOK
  <2> QED
    BY <2>1, <2>2, <1>2, <1>5
<1>7. TypeOK'
  BY <1>1, <1>6, SizesAssumption DEF TypeOK, StartGC, Allocated
<1>8. AreasInv'
  BY <1>1, <1>3, <1>4 DEF AreasInv, TypeOK
<1>9. ListsInv'
  <2>1. \A i \in 1 .. Len(freelist) : freelist[i] \in Cell \ Bump
    BY DEF ListsInv, FreelistSound, IsList, TypeOK, Active
  <2>2. \A i \in 1 .. Len(freelist) : type'[freelist[i]] = type[freelist[i]]
    BY <2>1, <1>1
  <2> QED
    BY <2>2, <1>1, <1>3 DEF ListsInv, FreelistSound, IsList
<1>10. Kept' = Allocated /\ Kept = Allocated
  BY <1>1, <1>5 DEF Kept
<1>11. \A c \in Allocated : Children(c)' = Children(c) /\ mark'[c] = 0
  BY <1>1 DEF Children, Allocated, AreasInv, ObjectsInv, TypeOK
<1>12. ObjectsInv'
  BY <1>1, <1>5, <1>6, <1>10, <1>11 DEF ObjectsInv, Marked, Allocated
<1>13. HookInv'
  BY <1>1 DEF HookInv
<1> QED
  BY <1>7, <1>8, <1>9, <1>12, <1>13

LEMMA CollectStarts ==
  ASSUME IInv, UserGc \/ \E r \in Request : NewcellCollect(r)
  PROVE  IInv'
<1>1. CASE UserGc
  BY <1>1, StartKeeps DEF UserGc, NoReq
<1>2. CASE \E r \in Request : NewcellCollect(r)
  <2>1. PICK r \in Request : NewcellCollect(r)
    BY <1>2
  <2> QED
    BY <2>1, StartKeeps DEF NewcellCollect, Askable
<1> QED
  BY <1>1, <1>2

LEMMA MarkKeeps ==
  ASSUME IInv, GcMark
  PROVE  IInv'
<1> USE DEF IInv
<1> DEFINE p == CHOOSE c \in gray : TRUE
<1>1. /\ pc = "mark" /\ p \in gray /\ Mark(p)
      /\ UNCHANGED <<heap, nactive, freelist, type, car, cdr, open, words,
                     pc, req, scanned, ptr, nfreelist, hookTaken>>
  BY DEF GcMark
<1>2. p \in Cell /\ p \in Allocated /\ Children(p) \subseteq Allocated
  BY <1>1 DEF ObjectsInv, Allocated, Kept
<1> HIDE DEF p
<1>3. /\ Allocated' = Allocated /\ Kept' = Allocated /\ Kept = Allocated
      /\ Allocated \subseteq Cell /\ \A c \in Cell : Children(c)' = Children(c)
  BY <1>1 DEF Allocated, Kept, Children
<1>4. TypeOK'
  BY <1>1, <1>2 DEF TypeOK, Mark, Allocated
<1>5. AreasInv' /\ ListsInv' /\ HookInv'
  BY <1>1 DEF AreasInv, ListsInv, HookInv, Active, Bump, FreelistSound, IsList
<1>6. CASE mark[p] = 1
  <2>1. Marked' = Marked /\ p \in Marked /\ gray' = gray \ {p} /\ mark' = mark
    BY <1>1, <1>2, <1>6 DEF Mark, Marked
  <2>2. Marked \union gray = (Marked \union gray)'
    BY <2>1
  <2> QED
    BY <2>1, <2>2, <1>1, <1>3, <1>4, <1>5 DEF ObjectsInv
<1>7. CASE mark[p] # 1
  <2>1. Marked' = Marked \union {p} /\ gray' = (gray \ {p}) \union Children(p)
    BY <1>1, <1>2, <1>7 DEF Mark, Marked, TypeOK
  <2>2. Marked \union gray \subseteq (Marked \union gray)'
    BY <2>1
  <2>3. \A c \in Allocated \intersect Marked' : Children(c) \subseteq (Marked \union gray)'
    BY <2>1, <2>2, <1>1 DEF ObjectsInv
  <2>4. gray' \subseteq Allocated' /\ words' \subseteq (Marked \union gray)'
    BY <2>1, <2>2, <1>1, <1>2, <1>3 DEF ObjectsInv
  <2>5. ObjectsInv'
    BY <2>3, <2>4, <1>1, <1>3 DEF ObjectsInv
  <2> QED
    BY <2>5, <1>4, <1>5
<1> QED
  BY <1>4, <1>5, <1>6, <1>7

LEMMA MarkDoneKeeps ==
  ASSUME IInv, MarkDone
  PROVE  IInv'
<1> USE DEF IInv
<1>1. /\ pc = "mark" /\ gray = {} /\ pc' = "sweep" /\ ptr' = <<0, 0>> /\ nfreelist' = <<>>
      /\ UNCHANGED <<heap, nactive, freelist, type, mark, car, cdr, open, words,
                     req, scanned, gray, hookTaken>>
  BY DEF MarkDone, space
<1>2. TypeOK'
  BY <1>1, SizesAssumption DEF TypeOK, Offset
<1>3. \A c \in Cell : ~ Swept(c)'
  BY <1>1 DEF Swept, Cell, Offset
<1>4. Kept' = Allocated \intersect Marked /\ Kept = Allocated
  BY <1>1, <1>3 DEF Kept, Marked, Allocated
<1>5. \A c \in Cell : Children(c)' = Children(c)
  BY <1>1 DEF Children
<1>6. \A c \in Kept' : Children(c)' \subseteq Kept'
  BY <1>1, <1>4, <1>5 DEF ObjectsInv, Allocated
<1>7. ObjectsInv'
  BY <1>1, <1>3, <1>4, <1>6 DEF ObjectsInv
<1>8. AreasInv' /\ HookInv'
  BY <1>1 DEF AreasInv, HookInv, Active, Bump
<1>9. ListsInv'
  BY <1>1 DEF ListsInv, FreelistSound, IsList
<1> QED
  BY <1>2, <1>7, <1>8, <1>9

-----------------------------------------------------------------------------
(* Sweeping *)

\* The cursor moves past exactly one cell.
LEMMA CursorFact ==
  ASSUME TypeOK, ptr[1] < nactive, ptr' = NextCell(ptr)
  PROVE  /\ ptr \in Cell
         /\ ptr' \in (0 .. NHeaps) \X Offset /\ ptr'[1] <= nactive
         /\ \A c \in Cell : Swept(c)' <=> (Swept(c) \/ c = ptr)
         /\ ~ Swept(ptr)
<1>1. /\ ptr[1] \in 0 .. NHeaps - 1 /\ ptr[2] \in 0 .. HeapSize - 1 /\ ptr = <<ptr[1], ptr[2]>>
      /\ nactive \in 1 .. NHeaps
  BY SizesAssumption DEF TypeOK, Offset
<1>2. ptr \in Cell
  BY <1>1 DEF Cell, Offset
<1>3. ptr' = IF ptr[2] < HeapSize - 1 THEN <<ptr[1], ptr[2] + 1>> ELSE <<ptr[1] + 1, 0>>
  BY DEF NextCell
<1>4. ptr' \in (0 .. NHeaps) \X Offset /\ ptr'[1] <= nactive
  BY <1>1, <1>3, SizesAssumption DEF Offset
<1>5. ASSUME NEW c \in Cell
      PROVE  Swept(c)' <=> (Swept(c) \/ c = ptr)
  <2>1. c[1] \in 0 .. NHeaps - 1 /\ c[2] \in 0 .. HeapSize - 1 /\ c = <<c[1], c[2]>>
    BY DEF Cell, Offset
  <2>2. c = ptr <=> (c[1] = ptr[1] /\ c[2] = ptr[2])
    BY <2>1, <1>1
  <2>3. CASE ptr[2] < HeapSize - 1
    <3>1. ptr'[1] = ptr[1] /\ ptr'[2] = ptr[2] + 1
      BY <2>3, <1>3
    <3> QED
      BY <3>1, <2>1, <2>2, <1>1, SizesAssumption DEF Swept
  <2>4. CASE ~ (ptr[2] < HeapSize - 1)
    <3>1. ptr'[1] = ptr[1] + 1 /\ ptr'[2] = 0 /\ ptr[2] = HeapSize - 1
      BY <2>4, <1>1, <1>3, SizesAssumption
    <3> QED
      BY <3>1, <2>1, <2>2, <1>1, SizesAssumption DEF Swept
  <2> QED
    BY <2>3, <2>4
<1> QED
  BY <1>1, <1>2, <1>4, <1>5 DEF Swept

LEMMA SweepKeeps ==
  ASSUME IInv, GcSweep
  PROVE  IInv'
<1> USE DEF IInv
<1>1. /\ pc = "sweep" /\ ptr[1] < nactive /\ ptr' = NextCell(ptr)
      /\ UNCHANGED <<heap, nactive, freelist, car, words, pc, req, scanned, gray, hookTaken>>
  BY DEF GcSweep
<1>2. /\ ptr \in Cell
      /\ ptr' \in (0 .. NHeaps) \X Offset /\ ptr'[1] <= nactive
      /\ \A c \in Cell : Swept(c)' <=> (Swept(c) \/ c = ptr)
      /\ ~ Swept(ptr)
  BY <1>1, CursorFact
<1>3. Active' = Active /\ Bump' = Bump /\ ptr \in Active \ Bump
  BY <1>1, <1>2, SizesAssumption DEF Active, Bump, AreasInv, Cell, Offset
<1>4. CASE mark[ptr] = 0 /\ SweepDead(ptr)
  <2> DEFINE l == nfreelist
  <2>1. /\ <<ptr>> \o l \in Seq(Cell) /\ Len(<<ptr>> \o l) = Len(l) + 1
        /\ (<<ptr>> \o l)[1] = ptr
        /\ \A i \in 2 .. Len(l) + 1 : (<<ptr>> \o l)[i] = l[i - 1]
        /\ Len(l) \in Nat
        /\ First(l) = IF Len(l) = 0 THEN NIL ELSE l[1]
    BY <1>2, PushFact DEF TypeOK, First
  <2>2. /\ nfreelist' = <<ptr>> \o l /\ mark' = mark
        /\ type' = [type EXCEPT ![ptr] = "free"]
        /\ cdr' = [cdr EXCEPT ![ptr] = First(l)]
        /\ open' \subseteq open
    BY <1>4 DEF SweepDead
  <2>3. TypeOK'
    <3>1. First(l) \in Ref
      BY <2>1 DEF TypeOK, Ref
    <3> QED
      BY <3>1, <2>1, <2>2, <1>1, <1>2 DEF TypeOK
  <2>4. AreasInv' /\ HookInv'
    BY <2>2, <1>1, <1>2, <1>3 DEF AreasInv, HookInv, TypeOK
  <2>5. \A i \in 1 .. Len(l) : /\ l[i] \in Cell /\ l[i] # ptr
                               /\ type[l[i]] = "free" /\ l[i] \in Active \ Bump
                               /\ Swept(l[i])
    BY <1>1, <1>2 DEF ListsInv, FreelistSound, IsList, TypeOK
  <2>6. \A i \in 2 .. Len(l) + 1 : i - 1 \in 1 .. Len(l)
    BY <2>1
  <2>7. \A i \in 1 .. Len(nfreelist') : i = 1 \/ i \in 2 .. Len(l) + 1
    BY <2>1, <2>2
  <2>8. \A i \in 1 .. Len(nfreelist') :
          /\ type'[nfreelist'[i]] = "free" /\ nfreelist'[i] \in Active' \ Bump'
          /\ nfreelist'[i] \in Cell /\ (nfreelist'[i] = ptr \/ Swept(nfreelist'[i]))
    <3> SUFFICES ASSUME NEW i \in 1 .. Len(nfreelist')
                 PROVE  /\ type'[nfreelist'[i]] = "free" /\ nfreelist'[i] \in Active' \ Bump'
                        /\ nfreelist'[i] \in Cell
                        /\ (nfreelist'[i] = ptr \/ Swept(nfreelist'[i]))
      OBVIOUS
    <3>1. CASE i = 1
      BY <3>1, <2>1, <2>2, <1>2, <1>3 DEF TypeOK
    <3>2. CASE i \in 2 .. Len(l) + 1
      <4>1. nfreelist'[i] = l[i - 1] /\ i - 1 \in 1 .. Len(l)
        BY <3>2, <2>1, <2>2
      <4> QED
        BY <4>1, <2>2, <2>5, <1>2, <1>3 DEF TypeOK
    <3> QED
      BY <3>1, <3>2, <2>7
  <2>9. \A i, j \in 1 .. Len(nfreelist') : nfreelist'[i] = nfreelist'[j] => i = j
    <3>1. \A i, j \in 1 .. Len(l) : l[i] = l[j] => i = j
      BY <1>1 DEF ListsInv, FreelistSound, IsList
    <3>2. \A i \in 2 .. Len(l) + 1 : nfreelist'[i] = l[i - 1] /\ nfreelist'[i] # ptr
      BY <2>1, <2>2, <2>5, <2>6
    <3>3. \A i, j \in 2 .. Len(l) + 1 : nfreelist'[i] = nfreelist'[j] => i - 1 = j - 1
      BY <3>1, <3>2, <2>6
    <3>4. \A i, j \in 2 .. Len(l) + 1 : i - 1 = j - 1 => i = j
      BY <2>1
    <3>5. nfreelist'[1] = ptr
      BY <2>1, <2>2
    <3> QED
      BY <3>2, <3>3, <3>4, <3>5, <2>7
  <2>10. \A i \in 1 .. Len(nfreelist') :
           cdr'[nfreelist'[i]] = IF i < Len(nfreelist') THEN nfreelist'[i + 1] ELSE NIL
    <3> SUFFICES ASSUME NEW i \in 1 .. Len(nfreelist')
                 PROVE  cdr'[nfreelist'[i]]
                          = IF i < Len(nfreelist') THEN nfreelist'[i + 1] ELSE NIL
      OBVIOUS
    <3>1. CASE i = 1
      <4>1. cdr'[nfreelist'[i]] = First(l)
        BY <3>1, <2>1, <2>2, <1>2 DEF TypeOK
      <4>2. Len(l) # 0 => nfreelist'[2] = l[1]
        BY <2>1, <2>2
      <4> QED
        BY <4>1, <4>2, <3>1, <2>1, <2>2
    <3>2. CASE i \in 2 .. Len(l) + 1
      <4> DEFINE k == i - 1
      <4>1. nfreelist'[i] = l[k] /\ k \in 1 .. Len(l)
        BY <3>2, <2>1, <2>2
      <4>2. cdr'[nfreelist'[i]] = cdr[l[k]]
        BY <4>1, <2>2, <2>5, <1>2 DEF TypeOK
      <4>3. cdr[l[k]] = IF k < Len(l) THEN l[k + 1] ELSE NIL
        BY <4>1, <1>1 DEF ListsInv, FreelistSound, IsList
      <4>4. k < Len(l) => nfreelist'[i + 1] = l[k + 1]
        BY <4>1, <3>2, <2>1, <2>2
      <4> QED
        BY <4>1, <4>2, <4>3, <4>4, <3>2, <2>1, <2>2
    <3> QED
      BY <3>1, <3>2, <2>7
  <2>11. ListsInv'
    <3>1. \A i \in 1 .. Len(nfreelist') : Swept(nfreelist[i])'
      BY <2>8, <1>2
    <3>2. IsList(nfreelist)'
      BY <2>8, <2>9, <2>10 DEF IsList
    <3> QED
      BY <3>1, <3>2, <1>1 DEF ListsInv, FreelistSound
  <2>12. ptr \notin Kept /\ Kept' = Kept /\ Kept \subseteq Cell
    BY <2>2, <1>1, <1>2, <1>4 DEF Kept, Allocated, TypeOK
  <2>13. \A c \in Kept : Children(c)' = Children(c)
    BY <2>2, <2>12, <1>1, <1>2 DEF Children, TypeOK
  <2>14. \A c \in Cell : Swept(c)' => mark'[c] = 0
    BY <2>2, <1>1, <1>2, <1>4 DEF ObjectsInv
  <2>15. ObjectsInv'
    BY <2>12, <2>13, <2>14, <1>1 DEF ObjectsInv
  <2> QED
    BY <2>3, <2>4, <2>11, <2>15
<1>5. CASE mark[ptr] # 0 /\ SweepMarked(ptr)
  <2>1. mark' = [mark EXCEPT ![ptr] = 0] /\ UNCHANGED <<open, type, cdr, nfreelist>>
    BY <1>5 DEF SweepMarked
  <2>2. TypeOK'
    BY <2>1, <1>1, <1>2 DEF TypeOK
  <2>3. AreasInv' /\ HookInv'
    BY <2>1, <1>1, <1>3 DEF AreasInv, HookInv
  <2>4. \A i \in 1 .. Len(nfreelist) : nfreelist[i] \in Cell /\ Swept(nfreelist[i])
    BY <1>1 DEF ListsInv, TypeOK
  <2>5. ListsInv'
    <3>1. \A i \in 1 .. Len(nfreelist) : Swept(nfreelist[i])'
      BY <2>1, <2>4, <1>2
    <3> QED
      BY <3>1, <2>1, <1>1, <1>3 DEF ListsInv, FreelistSound, IsList
  <2>6. mark[ptr] = 1
    BY <1>2, <1>5 DEF TypeOK
  <2>7. Kept' = Kept /\ Kept \subseteq Cell
    BY <2>1, <2>6, <1>1, <1>2 DEF Kept, Allocated, TypeOK
  <2>8. \A c \in Cell : Children(c)' = Children(c)
    BY <2>1, <1>1 DEF Children
  <2>9. \A c \in Cell : Swept(c)' => mark'[c] = 0
    BY <2>1, <1>1, <1>2 DEF ObjectsInv, TypeOK
  <2>10. ObjectsInv'
    BY <2>7, <2>8, <2>9, <1>1 DEF ObjectsInv
  <2> QED
    BY <2>2, <2>3, <2>5, <2>10
<1> QED
  BY <1>4, <1>5 DEF GcSweep

LEMMA SweepDoneKeeps ==
  ASSUME IInv, SweepDone
  PROVE  IInv'
<1> USE DEF IInv
<1>1. /\ pc = "sweep" /\ ptr[1] = nactive /\ freelist' = nfreelist
      /\ nfreelist' = <<>> /\ ptr' = <<0, 0>>
      /\ pc' = IF req = NoReq THEN "run" ELSE "check"
      /\ UNCHANGED <<heap, nactive, type, mark, car, cdr, open, words, req, scanned, gray, hookTaken>>
  BY DEF SweepDone
<1>2. TypeOK'
  BY <1>1, SizesAssumption DEF TypeOK, Offset
<1>3. AreasInv'
  BY <1>1 DEF AreasInv, Active, Bump, TypeOK
<1>4. ListsInv'
  BY <1>1 DEF ListsInv, FreelistSound, IsList, Active, Bump
<1>5. \A c \in Active : Swept(c) /\ mark[c] = 0
  BY <1>1 DEF Active, Swept, ObjectsInv, Cell, TypeOK
<1>6. Allocated \subseteq Active
  BY DEF Allocated, AreasInv
<1>7. Kept = Allocated /\ Kept' = Allocated /\ Allocated \subseteq Cell
  BY <1>1, <1>5, <1>6 DEF Kept, Allocated
<1>8. \A c \in Cell : Children(c)' = Children(c)
  BY <1>1 DEF Children
<1>9. ObjectsInv'
  BY <1>1, <1>5, <1>6, <1>7, <1>8 DEF ObjectsInv, Allocated
<1>10. HookInv'
  BY <1>1 DEF HookInv
<1> QED
  BY <1>2, <1>3, <1>4, <1>9, <1>10

-----------------------------------------------------------------------------
(* The rest of gc_for_newcell *)

\* Reserve cells are on the list when *after-gc* starts, or it does not.
LEMMA CheckKeeps ==
  ASSUME IInv, CheckHook \/ CheckFull \/ HookReturn
  PROVE  IInv'
<1> USE DEF IInv
<1>1. /\ pc \in {"check", "hook"} /\ pc' \in {"hook", "fill"}
      /\ UNCHANGED <<space, words, req, gray, ptr, nfreelist>>
      /\ scanned' \in SUBSET Cell /\ hookTaken' \in 0 .. HookAllocs
  BY BoundsAssumption DEF CheckHook, CheckFull, HookReturn, TypeOK
<1>2. TypeOK'
  BY <1>1 DEF TypeOK, space
<1>3. AreasInv' /\ ListsInv'
  BY <1>1 DEF AreasInv, ListsInv, Active, Bump, FreelistSound, IsList, space
<1>4. Kept' = Allocated /\ Kept = Allocated
  BY <1>1 DEF Kept, Allocated, space
<1>5. ObjectsInv'
  BY <1>1, <1>4 DEF ObjectsInv, Children, Allocated, space
<1>6. HookInv'
  BY BoundsAssumption, SizesAssumption
     DEF CheckHook, CheckFull, HookReturn, HookInv, TypeOK, space
<1> QED
  BY <1>2, <1>3, <1>5, <1>6

LEMMA UnwindKeeps ==
  ASSUME IInv, OutOfStorage \/ HeapMallocFails \/ HookError
  PROVE  IInv'
<1> USE DEF IInv
<1>1. /\ pc \in {"check", "hook"} /\ pc' = "run" /\ req' = NoReq
      /\ words' \subseteq words /\ scanned' = {} /\ hookTaken' = 0
      /\ UNCHANGED <<space, gray, ptr, nfreelist>>
  BY DEF OutOfStorage, HeapMallocFails, HookError, Unwind
<1>2. TypeOK'
  BY <1>1, BoundsAssumption DEF TypeOK, space
<1>3. AreasInv' /\ ListsInv' /\ HookInv'
  BY <1>1 DEF AreasInv, ListsInv, HookInv, Active, Bump, FreelistSound, IsList, space
<1>4. Kept' = Allocated /\ Kept = Allocated
  BY <1>1 DEF Kept, Allocated, space
<1>5. ObjectsInv'
  BY <1>1, <1>4 DEF ObjectsInv, Children, Allocated, space, NoReq
<1> QED
  BY <1>2, <1>3, <1>5

LEMMA ResumeKeeps ==
  ASSUME IInv, NewcellResume
  PROVE  IInv'
<1> USE DEF IInv
<1>1. pc = "fill" /\ req \in Request /\ IsList(freelist)
  BY DEF NewcellResume, AreasInv, ListsInv, FreelistSound
<1>2. CASE freelist = <<>>
  <2>1. /\ pc' = "crash"
        /\ UNCHANGED <<space, words, req, scanned, gray, ptr, nfreelist, hookTaken>>
    BY <1>2 DEF NewcellResume
  <2>2. TypeOK'
    BY <2>1 DEF TypeOK, space
  <2>3. AreasInv' /\ ListsInv'
    BY <1>1, <2>1 DEF AreasInv, ListsInv, Active, Bump, FreelistSound, IsList, space
  <2>4. Kept' = Allocated /\ Kept = Allocated
    BY <1>1, <2>1 DEF Kept, Allocated, space
  <2>5. ObjectsInv'
    BY <1>1, <2>1, <2>4 DEF ObjectsInv, Children, Allocated, space
  <2>6. HookInv'
    BY <1>1, <1>2, <2>1 DEF HookInv
  <2> QED
    BY <2>2, <2>3, <2>5, <2>6
<1>3. CASE freelist # <<>>
  <2>1. /\ Fill(Head(freelist), req) /\ freelist' = Tail(freelist)
        /\ pc' = "run" /\ req' = NoReq /\ hookTaken' = 0
        /\ UNCHANGED <<heap, nactive, scanned, gray, ptr, nfreelist>>
    BY <1>3 DEF NewcellResume
  <2>2. /\ ListsInv' /\ Head(freelist) \in Cell /\ Head(freelist) \notin Allocated
        /\ type[Head(freelist)] = "free"
        /\ Len(freelist') = Len(freelist) - 1 /\ freelist' \in Seq(Cell)
    BY <1>1, <1>3, <2>1, PopList
  <2>3. TypeOK'
    BY <1>1, <2>1, <2>2, StoresAssumption, BoundsAssumption DEF TypeOK, Fill, Request, Ref
  <2>4. AreasInv'
    BY <1>1, <2>1, <2>2 DEF AreasInv, Fill, Active, Bump, Request, TypeOK
  <2>5. {req.car, req.cdr} \subseteq words \union {NIL}
    BY DEF ObjectsInv
  <2>6. ObjectsInv'
    BY <1>1, <1>3, <2>1, <2>2, <2>5, FillObjects
  <2>7. HookInv'
    BY <2>1 DEF HookInv
  <2> QED
    BY <2>2, <2>3, <2>4, <2>6, <2>7
<1> QED
  BY <1>2, <1>3

-----------------------------------------------------------------------------
(* The theorems *)

THEOREM StepIInv == IInv /\ [Next]_vars => IInv'
<1> SUFFICES ASSUME IInv, [Next]_vars PROVE IInv'
  OBVIOUS
<1>1. CASE \E r \in Request : NewcellPop(r) \/ NewcellBump(r)
  BY <1>1, PopKeeps, BumpKeeps
<1>2. CASE UserGc \/ \E r \in Request : NewcellCollect(r)
  BY <1>2, CollectStarts
<1>3. CASE LAllocateHeap \/ CheckGrow
  BY <1>3, AheapKeeps
<1>4. CASE \E w \in Cell : Load(w) \/ Drop(w)
  BY <1>4, LoadKeeps, DropKeeps
<1>5. CASE \E c \in Cell, w \in Ref : SetCar(c, w) \/ SetCdr(c, w)
  BY <1>5, SetKeeps
<1>6. CASE Collect
  BY <1>6, MarkKeeps, MarkDoneKeeps, SweepKeeps, SweepDoneKeeps DEF Collect
<1>7. CASE CheckHook \/ CheckFull \/ HookReturn
  BY <1>7, CheckKeeps
<1>8. CASE OutOfStorage \/ HeapMallocFails \/ HookError
  BY <1>8, UnwindKeeps
<1>9. CASE NewcellResume
  BY <1>9, ResumeKeeps
<1>10. CASE UNCHANGED vars
  BY <1>10
     DEF vars, space, gcvars, IInv, TypeOK, AreasInv, ListsInv, ObjectsInv, HookInv,
         Active, Bump, FreelistSound, IsList, Kept, Allocated, Children, Swept, Marked
<1> QED
  BY <1>1, <1>2, <1>3, <1>4, <1>5, <1>6, <1>7, <1>8, <1>9, <1>10 DEF Next

\* The inductive invariant holds in every reachable state.
THEOREM Invariance == Spec => []IInv
  BY InitIInv, StepIInv, PTL DEF Spec

\* Every variable of the storage manager keeps its type, for any number and
\* size of heaps.
THEOREM TypeCorrect == Spec => []TypeOK
  BY Invariance, PTL DEF IInv

\* No cell the program can reach is ever freed or handed out again.
THEOREM LiveSafe == Spec => []LiveIntact
<1>1. IInv => LiveIntact
  <2> SUFFICES ASSUME IInv, NEW c \in Live PROVE c \in Allocated
    BY DEF LiveIntact
  <2>1. Kept \in SUBSET Cell /\ Kept \subseteq Allocated
    BY DEF Kept, Allocated
  <2>2. words \subseteq Kept /\ Closed(Kept)
    BY DEF IInv, ObjectsInv, Closed
  <2>3. c \in Kept
    BY <2>1, <2>2 DEF Live, Reach
  <2> QED
    BY <2>1, <2>3
<1> QED
  BY <1>1, Invariance, PTL

\* The free list is well formed whenever NEWCELL or gc_sweep looks at it.
THEOREM ListSafe == Spec => []FreelistSound
  BY Invariance, PTL DEF IInv, ListsInv

\* NEWCELL takes a cell from an empty list only after an *after-gc* that consed
\* the Reserve cells gc_for_newcell had counted, however much it may cons.
THEOREM NewcellSafe == Spec => []NewcellNullByHookOnly
  BY Invariance, PTL DEF IInv, HookInv, NewcellNullByHookOnly

-----------------------------------------------------------------------------
(* C resources *)

LEMMA FillResources ==
  ASSUME TypeOK, ResourcesHeld, NEW c \in Cell, type[c] # "user",
         NEW r \in Request, Fill(c, r)
  PROVE  ResourcesHeld'
  BY DEF ResourcesHeld, Fill, TypeOK, Request

LEMMA ResourcesStep == IInv /\ ResourcesHeld /\ [Next]_vars => ResourcesHeld'
<1> SUFFICES ASSUME IInv, ResourcesHeld, [Next]_vars PROVE ResourcesHeld'
  OBVIOUS
<1> USE DEF IInv
<1>1. CASE \E r \in Request : NewcellPop(r)
  <2>1. PICK r \in Request : NewcellPop(r)
    BY <1>1
  <2>2. Head(freelist) \in Cell /\ type[Head(freelist)] = "free"
    BY <2>1, PopList DEF NewcellPop, InProgram, ListsInv, FreelistSound
  <2> QED
    BY <2>1, <2>2, FillResources DEF NewcellPop
<1>2. CASE \E r \in Request : NewcellBump(r)
  <2>1. PICK r \in Request : NewcellBump(r)
    BY <1>2
  <2>2. <<0, heap>> \in Cell /\ type[<<0, heap>>] = "raw"
    <3>1. <<0, heap>> \in Cell
      BY <2>1, SizesAssumption DEF NewcellBump, Cell, Offset, TypeOK
    <3>2. <<0, heap>> \in Bump
      BY <3>1, SizesAssumption DEF Bump, TypeOK
    <3> QED
      BY <3>1, <3>2 DEF AreasInv
  <2> QED
    BY <2>1, <2>2, FillResources DEF NewcellBump
<1>3. CASE NewcellResume
  <2>1. pc = "fill" /\ req \in Request
    BY <1>3 DEF NewcellResume, AreasInv
  <2>2. CASE freelist = <<>>
    BY <1>3, <2>2 DEF NewcellResume, space, ResourcesHeld
  <2>3. CASE freelist # <<>>
    <3>1. Head(freelist) \in Cell /\ type[Head(freelist)] = "free"
      BY <1>3, <2>1, <2>3, PopList DEF NewcellResume, ListsInv, FreelistSound
    <3> QED
      BY <1>3, <2>1, <2>3, <3>1, FillResources DEF NewcellResume
  <2> QED
    BY <2>2, <2>3
<1>4. CASE UserGc \/ \E r \in Request : NewcellCollect(r)
  <2>1. StartGC
    BY <1>4 DEF UserGc, NewcellCollect
  <2>2. \A c \in Cell : type'[c] = "user" <=> type[c] = "user"
    BY <2>1 DEF StartGC, FreeTheRest, AreasInv, TypeOK
  <2> QED
    BY <2>1, <2>2 DEF StartGC, ResourcesHeld
<1>5. CASE LAllocateHeap \/ CheckGrow
  <2>1. AllocateAheap
    BY <1>5 DEF LAllocateHeap, CheckGrow
  <2>2. \A c \in Cell : c[1] = nactive => type[c] = "raw"
    BY SizesAssumption DEF AreasInv, Active, TypeOK
  <2>3. \A c \in Cell : type'[c] = "user" <=> type[c] = "user"
    BY <2>1, <2>2 DEF AllocateAheap, TypeOK
  <2> QED
    BY <2>1, <2>3 DEF AllocateAheap, ResourcesHeld
<1>6. CASE GcSweep
  <2>1. ptr \in Cell
    BY <1>6, CursorFact DEF GcSweep
  <2>2. CASE SweepDead(ptr)
    BY <2>1, <2>2 DEF SweepDead, ResourcesHeld, TypeOK
  <2>3. CASE SweepMarked(ptr)
    BY <2>3 DEF SweepMarked, ResourcesHeld
  <2> QED
    BY <1>6, <2>2, <2>3 DEF GcSweep
<1>7. CASE UNCHANGED <<type, open>>
  BY <1>7 DEF ResourcesHeld
<1>8. ASSUME NEW w \in Ref, NEW c \in Cell,
             Load(c) \/ Drop(c) \/ SetCar(c, w) \/ SetCdr(c, w)
      PROVE  UNCHANGED <<type, open>>
  BY <1>8 DEF Load, Drop, SetCar, SetCdr, space
<1>9. ASSUME GcMark \/ MarkDone \/ SweepDone \/ CheckHook \/ CheckFull \/ OutOfStorage
             \/ HeapMallocFails \/ HookReturn \/ HookError \/ UNCHANGED vars
      PROVE  UNCHANGED <<type, open>>
  BY <1>9 DEF GcMark, MarkDone, SweepDone, CheckHook, CheckFull, OutOfStorage, Unwind,
              HeapMallocFails, HookReturn, HookError, vars, space
<1>10. NIL \in Ref
  BY DEF Ref
<1> QED
  BY <1>1, <1>2, <1>3, <1>4, <1>5, <1>6, <1>7, <1>8, <1>9, <1>10 DEF Next, Collect

\* The C resource of an object is held exactly as long as the object exists.
THEOREM ResourcesSafe == Spec => []ResourcesHeld
<1>1. Init => ResourcesHeld
  BY DEF Init, ResourcesHeld
<1> QED
  BY <1>1, ResourcesStep, Invariance, PTL DEF Spec

-----------------------------------------------------------------------------
(* Exactness of a collection *)

\* A collection on behalf of a NEWCELL.
Serving == pc \in {"mark", "sweep"} /\ req # NoReq

\* Garbage in gc_mark is only met on the free list, which is empty when NEWCELL
\* collects; nothing but what `scanned' leads to is marked then, and what the
\* sweep has freed is on the new list.
ExactInv ==
  /\ pc \notin {"mark", "sweep"} =>
       \A c \in Cell : type[c] = "free" /\ mark[c] = 1 => c \in Free
  /\ Serving => /\ freelist = <<>>
                /\ \A c \in Cell : type[c] = "free" => mark[c] = 0
  /\ Serving /\ pc = "mark" =>
       /\ scanned \subseteq (Marked \intersect Allocated) \union gray
       /\ (Marked \intersect Allocated) \union gray \subseteq Reach(scanned)
  /\ Serving /\ pc = "sweep" =>
       /\ Kept = Reach(scanned)
       /\ {nfreelist[i] : i \in 1 .. Len(nfreelist)}
            = {c \in Active : type[c] = "free" /\ Swept(c)}
  /\ GcExact

\* Reach(S) is the least closed set with S in it.
LEMMA ReachFact ==
  TypeOK => \A S \in SUBSET Cell :
              /\ S \subseteq Reach(S) /\ Closed(Reach(S)) /\ Reach(S) \subseteq Cell
              /\ \A T \in SUBSET Cell : S \subseteq T /\ Closed(T) => Reach(S) \subseteq T
<1> SUFFICES ASSUME TypeOK, NEW S \in SUBSET Cell
             PROVE  /\ S \subseteq Reach(S) /\ Closed(Reach(S)) /\ Reach(S) \subseteq Cell
                    /\ \A T \in SUBSET Cell : S \subseteq T /\ Closed(T) => Reach(S) \subseteq T
  OBVIOUS
<1>1. \A c \in Cell : Children(c) \subseteq Cell
  BY DEF Children, TypeOK, Ref
<1>2. Closed(Reach(S))
  BY <1>1 DEF Closed, Reach
<1> QED
  BY <1>2 DEF Reach

\* What is reachable stays so while no reachable object's fields change.
LEMMA TracedSame ==
  ASSUME TypeOK, TypeOK', scanned' = scanned,
         \A c \in Reach(scanned) : Children(c)' = Children(c)
  PROVE  Reach(scanned)' = Reach(scanned)
<1> DEFINE R == Reach(scanned)
<1>1. /\ scanned \subseteq R /\ Closed(R) /\ R \subseteq Cell
      /\ \A T \in SUBSET Cell : scanned \subseteq T /\ Closed(T) => R \subseteq T
  BY ReachFact DEF TypeOK
<1>2. /\ scanned' \subseteq R' /\ Closed(R)' /\ R' \subseteq Cell
      /\ \A T \in SUBSET Cell : scanned' \subseteq T /\ Closed(T)' => R' \subseteq T
  <2>1. (TypeOK => \A S \in SUBSET Cell :
              /\ S \subseteq Reach(S) /\ Closed(Reach(S)) /\ Reach(S) \subseteq Cell
              /\ \A T \in SUBSET Cell : S \subseteq T /\ Closed(T) => Reach(S) \subseteq T)'
    BY ReachFact, PTL
  <2> QED
    BY <2>1 DEF TypeOK
<1>3. Closed(R)'
  BY <1>2
<1> HIDE DEF R
<1>4. R' \subseteq R
  <2>1. \A c \in R : Children(c)' \subseteq R
    BY <1>1 DEF Closed, R
  <2> QED
    BY <2>1, <1>1, <1>2 DEF Closed
<1>5. R \subseteq R'
  <2>1. \A c \in R' : Children(c) \subseteq R'
    BY <1>2, <1>4 DEF Closed, R
  <2> QED
    BY <2>1, <1>1, <1>2 DEF Closed
<1> QED
  BY <1>4, <1>5 DEF R

\* Outside of collections and of what follows them only free cells matter.
LEMMA ExactElsewhere ==
  ASSUME pc' \notin {"mark", "sweep", "check"},
         \A c \in Cell : type'[c] = "free" /\ mark'[c] = 1 => c \in Free'
  PROVE  ExactInv'
  BY DEF ExactInv, Serving, GcExact

LEMMA ExactPop ==
  ASSUME TypeOK, ExactInv, pc \notin {"mark", "sweep"}, pc' \notin {"mark", "sweep", "check"},
         freelist # <<>>, NEW r \in Request, Fill(Head(freelist), r),
         freelist' = Tail(freelist)
  PROVE  ExactInv'
<1> DEFINE h == Head(freelist)
<1>1. /\ h \in Cell /\ h = freelist[1] /\ Len(freelist') = Len(freelist) - 1
      /\ \A i \in 1 .. Len(freelist) - 1 : freelist'[i] = freelist[i + 1]
      /\ Len(freelist) \in Nat \ {0}
  BY TailFact DEF TypeOK
<1>2. \A c \in Free : c # h => c \in Free'
  <2> SUFFICES ASSUME NEW i \in 1 .. Len(freelist), freelist[i] # h
               PROVE  freelist[i] \in Free'
    BY DEF Free
  <2>1. i - 1 \in 1 .. Len(freelist') /\ freelist'[i - 1] = freelist[i]
    BY <1>1
  <2> QED
    BY <2>1 DEF Free
<1>3. /\ \A c \in Cell : c # h => type'[c] = type[c] /\ mark'[c] = mark[c]
      /\ type'[h] # "free"
  BY <1>1 DEF Fill, TypeOK, Request
<1> QED
  BY <1>2, <1>3, ExactElsewhere DEF ExactInv

LEMMA ExactProgram ==
  ASSUME IInv, ExactInv,
         \/ \E r \in Request : NewcellPop(r) \/ NewcellBump(r)
         \/ NewcellResume \/ LAllocateHeap \/ CheckGrow
         \/ \E w \in Cell : Load(w) \/ Drop(w)
         \/ \E c \in Cell, w \in Ref : SetCar(c, w) \/ SetCdr(c, w)
         \/ CheckHook \/ CheckFull \/ HookReturn
         \/ OutOfStorage \/ HeapMallocFails \/ HookError
  PROVE  ExactInv'
<1> USE DEF IInv
<1>1. CASE \E r \in Request : NewcellPop(r)
  <2>1. PICK r \in Request : NewcellPop(r)
    BY <1>1
  <2> QED
    BY <2>1, ExactPop DEF NewcellPop, InProgram
<1>2. CASE NewcellResume
  <2>1. CASE freelist = <<>>
    <3>1. Free' = Free /\ type' = type /\ mark' = mark /\ pc = "fill" /\ pc' = "crash"
      BY <1>2, <2>1 DEF NewcellResume, Free, space
    <3>2. \A c \in Cell : type'[c] = "free" /\ mark'[c] = 1 => c \in Free'
      BY <3>1 DEF ExactInv
    <3> QED
      BY <3>1, <3>2, ExactElsewhere
  <2>2. CASE freelist # <<>>
    BY <1>2, <2>2, ExactPop DEF NewcellResume, AreasInv
  <2> QED
    BY <2>1, <2>2
<1>3. CASE \E r \in Request : NewcellBump(r)
  <2>1. PICK r \in Request : NewcellBump(r)
    BY <1>3
  <2>2. \A c \in Cell : c # <<0, heap>> => type'[c] = type[c] /\ mark'[c] = mark[c]
    BY <2>1 DEF NewcellBump, Fill, TypeOK
  <2>3. <<0, heap>> \in Cell
    BY <2>1, SizesAssumption DEF NewcellBump, Cell, Offset, TypeOK
  <2>4. type'[<<0, heap>>] # "free"
    BY <2>1, <2>3 DEF NewcellBump, Fill, TypeOK, Request
  <2>5. Free' = Free /\ pc' = pc /\ pc \in {"run", "hook"}
    BY <2>1 DEF NewcellBump, Free, InProgram
  <2> QED
    BY <2>2, <2>4, <2>5, ExactElsewhere DEF ExactInv
<1>4. CASE LAllocateHeap \/ CheckGrow
  <2>1. /\ AllocateAheap /\ pc \notin {"mark", "sweep"}
        /\ pc' \notin {"mark", "sweep", "check"}
    BY <1>4 DEF LAllocateHeap, CheckGrow, InProgram, gcvars
  <2>2. /\ nactive \in 0 .. NHeaps - 1
        /\ freelist' = CellsOf(nactive) \o freelist /\ freelist \in Seq(Cell)
    BY <2>1, SizesAssumption DEF AllocateAheap, TypeOK
  <2> DEFINE l == freelist'
  <2>3. /\ Len(l) = HeapSize + Len(freelist) /\ Len(freelist) \in Nat
        /\ \A i \in 1 .. HeapSize : l[i] = <<nactive, i - 1>>
        /\ \A i \in HeapSize + 1 .. HeapSize + Len(freelist) : l[i] = freelist[i - HeapSize]
    BY <2>2, JoinFact
  <2> HIDE DEF l
  <2>4. \A c \in Cell : c[1] = nactive => c \in Free'
    <3> SUFFICES ASSUME NEW c \in Cell, c[1] = nactive
                 PROVE  c \in Free'
      OBVIOUS
    <3>1. c[2] + 1 \in 1 .. HeapSize /\ c = <<nactive, (c[2] + 1) - 1>>
      BY SizesAssumption DEF Cell, Offset
    <3>2. c[2] + 1 \in 1 .. Len(l) /\ l[c[2] + 1] = c
      BY <3>1, <2>3, SizesAssumption
    <3> QED
      BY <3>2 DEF Free, l
  <2>5. Free \subseteq Free'
    <3> SUFFICES ASSUME NEW i \in 1 .. Len(freelist)
                 PROVE  freelist[i] \in Free'
      BY DEF Free
    <3> DEFINE k == HeapSize + i
    <3>1. k \in HeapSize + 1 .. HeapSize + Len(freelist) /\ k - HeapSize = i /\ k \in 1 .. Len(l)
      BY <2>3, SizesAssumption
    <3>2. l[k] = freelist[i]
      BY <3>1, <2>3
    <3> QED
      BY <3>1, <3>2 DEF Free, l
  <2>6. \A c \in Cell : c[1] # nactive => type'[c] = type[c] /\ mark'[c] = mark[c]
    BY <2>1 DEF AllocateAheap, TypeOK
  <2> QED
    BY <2>1, <2>4, <2>5, <2>6, ExactElsewhere DEF ExactInv
<1>5. CASE \/ \E w \in Cell : Load(w) \/ Drop(w)
           \/ \E c \in Cell, w \in Ref : SetCar(c, w) \/ SetCdr(c, w)
           \/ CheckHook \/ CheckFull \/ HookReturn
           \/ OutOfStorage \/ HeapMallocFails \/ HookError
  <2>1. /\ UNCHANGED <<type, mark, freelist>> /\ pc \notin {"mark", "sweep"}
        /\ pc' \notin {"mark", "sweep", "check"}
    BY <1>5 DEF Load, Drop, SetCar, SetCdr, CheckHook, CheckFull, HookReturn,
                OutOfStorage, HeapMallocFails, HookError, Unwind, InProgram, space, gcvars
  <2> QED
    BY <2>1, ExactElsewhere DEF ExactInv, Free
<1> QED
  BY <1>1, <1>2, <1>3, <1>4, <1>5

LEMMA ExactStart ==
  ASSUME IInv, ExactInv, IInv', UserGc \/ \E r \in Request : NewcellCollect(r)
  PROVE  ExactInv'
<1> USE DEF IInv
<1>1. StartGC /\ pc = "run" /\ pc' = "mark"
  BY DEF UserGc, NewcellCollect, StartGC
<1>2. CASE req' = NoReq
  <2>1. ~ Serving'
    BY <1>2 DEF Serving
  <2> QED
    BY <2>1, <1>1 DEF ExactInv, GcExact
<1>3. CASE req' # NoReq
  <2>1. freelist = <<>> /\ heap = HeapSize
    BY <1>3 DEF UserGc, NewcellCollect
  <2>2. UNCHANGED <<type, mark>>
    <3>1. Bump = {}
      BY <2>1, SizesAssumption DEF Bump, Cell, Offset
    <3> QED
      BY <3>1, <1>1 DEF StartGC, FreeTheRest, TypeOK
  <2>3. freelist' = <<>> /\ \A c \in Cell : type'[c] = "free" => mark'[c] = 0
    <3>1. \A c \in Cell : type[c] = "free" => mark[c] # 1
      BY <1>1, <2>1 DEF ExactInv, Free
    <3> QED
      BY <3>1, <1>1, <2>1, <2>2 DEF StartGC, TypeOK
  <2>4. scanned' = gray'
    BY <1>1, <1>3 DEF StartGC
  <2>5. (Marked \intersect Allocated)' = {}
    BY <1>1, <2>2 DEF Marked, Allocated, ObjectsInv
  <2>6. scanned' \subseteq Reach(scanned)'
    <3>1. scanned' \in SUBSET Cell
      BY DEF TypeOK
    <3> QED
      BY <3>1 DEF Reach
  <2>7. /\ scanned' \subseteq ((Marked \intersect Allocated) \union gray)'
        /\ ((Marked \intersect Allocated) \union gray)' \subseteq Reach(scanned)'
    BY <2>4, <2>5, <2>6
  <2> QED
    BY <1>1, <2>3, <2>7 DEF ExactInv, GcExact
<1> QED
  BY <1>2, <1>3

LEMMA ExactMark ==
  ASSUME IInv, ExactInv, IInv', GcMark
  PROVE  ExactInv'
<1> USE DEF IInv
<1> DEFINE p == CHOOSE c \in gray : TRUE
<1>1. /\ pc = "mark" /\ pc' = "mark" /\ p \in gray /\ Mark(p)
      /\ UNCHANGED <<freelist, type, car, cdr, req, scanned>>
  BY DEF GcMark
<1> HIDE DEF p
<1>2. CASE ~ Serving
  BY <1>1, <1>2 DEF ExactInv, Serving, GcExact
<1>3. CASE Serving
  <2> DEFINE R == Reach(scanned)
  <2>1. /\ scanned \subseteq (Marked \intersect Allocated) \union gray
        /\ (Marked \intersect Allocated) \union gray \subseteq R
        /\ freelist = <<>> /\ \A c \in Cell : type[c] = "free" => mark[c] = 0
    BY <1>1, <1>3 DEF ExactInv
  <2>2. /\ Closed(R) /\ R' = R
    <3>1. \A c \in R : Children(c)' = Children(c)
      BY <1>1 DEF Children
    <3> QED
      BY <3>1, <1>1, TracedSame, ReachFact DEF TypeOK
  <2>3. p \in R /\ p \in Allocated /\ p \in Cell /\ Children(p) \subseteq R
    BY <1>1, <2>1, <2>2 DEF ObjectsInv, Allocated, Closed
  <2> HIDE DEF R
  <2>4. Marked' \subseteq Marked \union {p} /\ Marked \union {p} \subseteq Marked' \union {p}
        /\ p \in Marked'
    BY <1>1, <2>3 DEF Mark, Marked, TypeOK
  <2>5. gray' \subseteq R /\ gray \subseteq gray' \union {p}
    BY <1>1, <2>1, <2>3 DEF Mark
  <2>6. Allocated' = Allocated /\ p \notin {c \in Cell : type[c] = "free"}
    BY <1>1, <2>3 DEF Allocated
  <2>7. scanned' \subseteq ((Marked \intersect Allocated) \union gray)'
    BY <1>1, <2>1, <2>3, <2>4, <2>5, <2>6
  <2>8. ((Marked \intersect Allocated) \union gray)' \subseteq R'
    BY <2>1, <2>2, <2>3, <2>4, <2>5, <2>6
  <2>9. freelist' = <<>> /\ \A c \in Cell : type'[c] = "free" => mark'[c] = 0
    BY <1>1, <2>1, <2>6 DEF Mark, TypeOK
  <2> QED
    BY <1>1, <2>7, <2>8, <2>9 DEF ExactInv, GcExact, R
<1> QED
  BY <1>2, <1>3

LEMMA ExactMarkDone ==
  ASSUME IInv, ExactInv, IInv', MarkDone
  PROVE  ExactInv'
<1> USE DEF IInv
<1>1. /\ pc = "mark" /\ gray = {} /\ pc' = "sweep" /\ ptr' = <<0, 0>> /\ nfreelist' = <<>>
      /\ UNCHANGED <<freelist, type, mark, car, cdr, req, scanned>>
  BY DEF MarkDone, space
<1>2. CASE ~ Serving
  BY <1>1, <1>2 DEF ExactInv, Serving, GcExact
<1>3. CASE Serving
  <2> DEFINE R == Reach(scanned)
             M == Marked \intersect Allocated
  <2>1. /\ scanned \subseteq M /\ M \subseteq R /\ M \in SUBSET Cell
        /\ freelist = <<>> /\ \A c \in Cell : type[c] = "free" => mark[c] = 0
    BY <1>1, <1>3 DEF ExactInv, Marked
  <2>2. R' = R
    <3>1. \A c \in R : Children(c)' = Children(c)
      BY <1>1 DEF Children
    <3> QED
      BY <3>1, <1>1, TracedSame
  <2>3. Closed(M)
    <3>1. \A c \in M : Children(c) \subseteq Marked
      BY <1>1 DEF ObjectsInv
    <3>2. \A c \in Allocated : Children(c) \subseteq Allocated
      BY <1>1 DEF ObjectsInv, Kept, Allocated
    <3> QED
      BY <3>1, <3>2 DEF Closed
  <2>4. R = M
    <3>1. R \subseteq M
      BY <2>1, <2>3, ReachFact DEF TypeOK
    <3> QED
      BY <2>1, <3>1
  <2>5. \A c \in Cell : ~ Swept(c)'
    BY <1>1 DEF Swept, Cell, Offset
  <2>6. Kept' = M
    BY <1>1, <2>5 DEF Kept, Allocated, Marked
  <2>7. {nfreelist'[i] : i \in 1 .. Len(nfreelist')} = {c \in Active : type[c] = "free" /\ Swept(c)}'
    BY <1>1, <2>5 DEF Active
  <2> QED
    BY <1>1, <2>1, <2>2, <2>4, <2>6, <2>7 DEF ExactInv, GcExact
<1> QED
  BY <1>2, <1>3

LEMMA ExactSweep ==
  ASSUME IInv, ExactInv, IInv', GcSweep
  PROVE  ExactInv'
<1> USE DEF IInv
<1>1. /\ pc = "sweep" /\ pc' = "sweep" /\ ptr[1] < nactive /\ ptr' = NextCell(ptr)
      /\ UNCHANGED <<freelist, nactive, car, req, scanned>>
  BY DEF GcSweep
<1>2. CASE ~ Serving
  BY <1>1, <1>2 DEF ExactInv, Serving, GcExact
<1>3. CASE Serving
  <2> DEFINE R == Reach(scanned)
             l == nfreelist
  <2>1. /\ Kept = R
        /\ {l[i] : i \in 1 .. Len(l)} = {c \in Active : type[c] = "free" /\ Swept(c)}
        /\ freelist = <<>> /\ \A c \in Cell : type[c] = "free" => mark[c] = 0
    BY <1>1, <1>3 DEF ExactInv
  <2>2. /\ ptr \in Cell /\ ~ Swept(ptr) /\ ptr \in Active
        /\ \A c \in Cell : Swept(c)' <=> (Swept(c) \/ c = ptr)
    BY <1>1, CursorFact DEF Active
  <2>3. Active' = Active
    BY <1>1 DEF Active
  <2>4. CASE mark[ptr] = 0 /\ SweepDead(ptr)
    <3>1. /\ type' = [type EXCEPT ![ptr] = "free"] /\ mark' = mark
          /\ cdr' = [cdr EXCEPT ![ptr] = First(nfreelist)]
          /\ nfreelist' = <<ptr>> \o l
      BY <2>4 DEF SweepDead
    <3>2. ptr \notin Kept /\ Kept' = Kept
      BY <3>1, <2>2, <2>4, <1>1 DEF Kept, Allocated, TypeOK
    <3>3. R' = R
      <4>1. \A c \in R : Children(c)' = Children(c)
        BY <3>1, <3>2, <2>1, <2>2, <1>1 DEF Children, TypeOK, Kept, Allocated
      <4> QED
        BY <4>1, <1>1, TracedSame
    <3>4. {nfreelist'[i] : i \in 1 .. Len(nfreelist')} = {l[i] : i \in 1 .. Len(l)} \union {ptr}
      <4>1. /\ Len(nfreelist') = Len(l) + 1 /\ nfreelist'[1] = ptr /\ Len(l) \in Nat
            /\ \A i \in 2 .. Len(l) + 1 : nfreelist'[i] = l[i - 1]
        BY <3>1, <2>2, PushFact DEF TypeOK
      <4>2. \A i \in 1 .. Len(l) : i + 1 \in 2 .. Len(l) + 1 /\ i + 1 \in 1 .. Len(nfreelist')
                                   /\ (i + 1) - 1 = i
        BY <4>1
      <4>3. \A i \in 1 .. Len(nfreelist') : i # 1 => i - 1 \in 1 .. Len(l) /\ i \in 2 .. Len(l) + 1
        BY <4>1
      <4>4. 1 \in 1 .. Len(nfreelist')
        BY <4>1
      <4>5. \A i \in 1 .. Len(l) : nfreelist'[i + 1] = l[i]
        BY <4>1, <4>2
      <4> DEFINE Old == {l[i] : i \in 1 .. Len(l)}
                 New == {nfreelist'[i] : i \in 1 .. Len(nfreelist')}
      <4>6. ASSUME NEW c \in New
            PROVE  c \in Old \union {ptr}
        <5>1. PICK i \in 1 .. Len(nfreelist') : c = nfreelist'[i]
          OBVIOUS
        <5>2. CASE i = 1
          BY <5>1, <5>2, <4>1
        <5>3. CASE i # 1
          BY <5>1, <5>3, <4>1, <4>3
        <5> QED
          BY <5>2, <5>3
      <4>7. ASSUME NEW c \in Old
            PROVE  c \in New
        <5>1. PICK i \in 1 .. Len(l) : c = l[i]
          OBVIOUS
        <5> QED
          BY <5>1, <4>2, <4>5
      <4>8. ptr \in New
        BY <4>1, <4>4
      <4> QED
        BY <4>6, <4>7, <4>8
    <3>5. {nfreelist'[i] : i \in 1 .. Len(nfreelist')} = {c \in Active : type[c] = "free" /\ Swept(c)}'
      <4> HIDE DEF l
      <4>1. \A c \in Cell : c # ptr => type'[c] = type[c]
        BY <3>1 DEF TypeOK
      <4>2. type'[ptr] = "free"
        BY <3>1, <2>2 DEF TypeOK
      <4>3. Active \subseteq Cell
        BY DEF Active
      <4> QED
        BY <3>4, <4>1, <4>2, <4>3, <2>1, <2>2, <2>3
    <3>6. \A c \in Cell : type'[c] = "free" => mark'[c] = 0
      BY <3>1, <2>1, <2>4, <2>2 DEF TypeOK
    <3> QED
      BY <3>2, <3>3, <3>5, <3>6, <2>1, <1>1 DEF ExactInv, GcExact
  <2>5. CASE mark[ptr] # 0 /\ SweepMarked(ptr)
    <3>1. /\ mark' = [mark EXCEPT ![ptr] = 0]
          /\ UNCHANGED <<type, cdr, nfreelist>>
      BY <2>5 DEF SweepMarked
    <3>2. Kept' = Kept /\ type[ptr] # "free"
      BY <3>1, <2>1, <2>2, <2>5, <1>1 DEF Kept, Allocated, TypeOK
    <3>3. R' = R
      <4>1. \A c \in R : Children(c)' = Children(c)
        BY <3>1, <1>1 DEF Children
      <4> QED
        BY <4>1, <1>1, TracedSame
    <3>4. {nfreelist'[i] : i \in 1 .. Len(nfreelist')} = {c \in Active : type[c] = "free" /\ Swept(c)}'
      <4> HIDE DEF l
      <4>1. {nfreelist'[i] : i \in 1 .. Len(nfreelist')} = {l[i] : i \in 1 .. Len(l)}
        BY <3>1 DEF l
      <4>2. Active \subseteq Cell
        BY DEF Active
      <4> QED
        BY <4>1, <4>2, <3>1, <3>2, <2>1, <2>2, <2>3
    <3>5. \A c \in Cell : type'[c] = "free" => mark'[c] = 0
      BY <3>1, <2>1 DEF TypeOK
    <3> QED
      BY <3>1, <3>2, <3>3, <3>4, <3>5, <2>1, <1>1 DEF ExactInv, GcExact
  <2> QED
    BY <2>4, <2>5 DEF GcSweep
<1> QED
  BY <1>2, <1>3

LEMMA ExactSweepDone ==
  ASSUME IInv, ExactInv, IInv', SweepDone
  PROVE  ExactInv'
<1> USE DEF IInv
<1>1. /\ pc = "sweep" /\ ptr[1] = nactive /\ freelist' = nfreelist
      /\ pc' = IF req = NoReq THEN "run" ELSE "check"
      /\ UNCHANGED <<heap, nactive, type, mark, car, cdr, req, scanned>>
  BY DEF SweepDone
<1>2. \A c \in Active : Swept(c) /\ mark[c] = 0
  BY <1>1 DEF Active, Swept, ObjectsInv, Cell, TypeOK
<1>3. \A c \in Cell : type'[c] = "free" => mark'[c] = 0
  BY <1>1, <1>2 DEF AreasInv
<1>4. ~ Serving'
  BY <1>1 DEF Serving
<1>5. CASE req = NoReq
  BY <1>1, <1>3, <1>4, <1>5 DEF ExactInv, GcExact
<1>6. CASE req # NoReq
  <2>1. /\ Kept = Reach(scanned)
        /\ {nfreelist[i] : i \in 1 .. Len(nfreelist)}
             = {c \in Active : type[c] = "free" /\ Swept(c)}
    BY <1>1, <1>6 DEF ExactInv, Serving
  <2>2. Free' = {c \in Active : type[c] = "free"}
    BY <1>1, <1>2, <2>1 DEF Free
  <2>3. Active' = Active
    BY <1>1 DEF Active
  <2>4. Bump = {}
    BY <1>1, SizesAssumption DEF AreasInv, Bump, Cell, Offset
  <2>5. Kept = Active \ {c \in Active : type[c] = "free"}
    BY <1>1, <1>2, <2>4 DEF Kept, Allocated, AreasInv, Active, TypeOK
  <2>6. Reach(scanned)' = Reach(scanned)
    <3>1. \A c \in Reach(scanned) : Children(c)' = Children(c)
      BY <1>1 DEF Children
    <3> QED
      BY <3>1, <1>1, TracedSame
  <2>7. {c \in Active : type[c] = "free"}' = {c \in Active : type[c] = "free"}
    BY <1>1, <2>3
  <2>8. GcExact'
    <3>1. {c \in Active : type[c] = "free"} \subseteq Active
      OBVIOUS
    <3>2. {c \in Active : type[c] = "free"} = Active \ Kept
      BY <2>5
    <3> QED
      BY <3>2, <2>1, <2>2, <2>3, <2>6, <2>7 DEF GcExact
  <2> QED
    BY <1>1, <1>3, <1>4, <2>8 DEF ExactInv
<1> QED
  BY <1>5, <1>6

LEMMA ExactStep == IInv /\ ExactInv /\ IInv' /\ [Next]_vars => ExactInv'
<1> SUFFICES ASSUME IInv, ExactInv, IInv', [Next]_vars PROVE ExactInv'
  OBVIOUS
<1>1. CASE UserGc \/ \E r \in Request : NewcellCollect(r)
  BY <1>1, ExactStart
<1>2. CASE Collect
  BY <1>2, ExactMark, ExactMarkDone, ExactSweep, ExactSweepDone DEF Collect
<1>3. CASE \/ \E r \in Request : NewcellPop(r) \/ NewcellBump(r)
           \/ NewcellResume \/ LAllocateHeap \/ CheckGrow
           \/ \E w \in Cell : Load(w) \/ Drop(w)
           \/ \E c \in Cell, w \in Ref : SetCar(c, w) \/ SetCdr(c, w)
           \/ CheckHook \/ CheckFull \/ HookReturn
           \/ OutOfStorage \/ HeapMallocFails \/ HookError
  BY <1>3, ExactProgram
<1>4. CASE UNCHANGED vars
  <2>1. UNCHANGED <<nactive, freelist, type, mark, car, cdr, pc, req, scanned, gray, ptr, nfreelist>>
    BY <1>4 DEF vars, space, gcvars
  <2>2. Reach(scanned)' = Reach(scanned)
    <3>1. \A c \in Reach(scanned) : Children(c)' = Children(c)
      BY <2>1 DEF Children
    <3> QED
      BY <3>1, <2>1, TracedSame DEF IInv
  <2>3. /\ Free' = Free /\ Active' = Active /\ Marked' = Marked /\ Allocated' = Allocated
        /\ Kept' = Kept /\ Serving' = Serving /\ \A c \in Cell : Swept(c)' = Swept(c)
    BY <2>1 DEF Free, Active, Marked, Allocated, Kept, Serving, Swept
  <2>4. {c \in Active : type[c] = "free" /\ Swept(c)}' = {c \in Active : type[c] = "free" /\ Swept(c)}
    BY <2>1 DEF Active, Swept
  <2> QED
    BY <2>1, <2>2, <2>3, <2>4 DEF ExactInv, GcExact
<1> QED
  BY <1>1, <1>2, <1>3, <1>4 DEF Next

\* A collection that NEWCELL needs frees exactly the cells that no word it looked
\* at leads to, for heaps of any number and size: garbage in gc_mark, cycles and
\* cells that an earlier (gc) passed over notwithstanding.
THEOREM ExactSafe == Spec => []GcExact
<1>1. Init => ExactInv
  BY DEF Init, ExactInv, Serving, GcExact
<1>2. ExactInv => GcExact
  BY DEF ExactInv
<1> QED
  BY <1>1, <1>2, ExactStep, Invariance, PTL DEF Spec

-----------------------------------------------------------------------------
(* The collector is invisible *)

Content(c) == [type |-> type[c], car |-> car[c], cdr |-> cdr[c]]
Obj        == [c \in Live |-> Content(c)]

\* Live is the least closed set with `words' in it, and all of it is allocated.
LEMMA LiveFact ==
  IInv => /\ words \subseteq Live /\ Live \subseteq Kept /\ Live \subseteq Cell
          /\ \A c \in Live : Children(c) \subseteq Live
          /\ \A T \in SUBSET Cell :
               words \subseteq T /\ (\A c \in T : Children(c) \subseteq T) => Live \subseteq T
<1> SUFFICES ASSUME IInv
             PROVE  /\ words \subseteq Live /\ Live \subseteq Kept /\ Live \subseteq Cell
                    /\ \A c \in Live : Children(c) \subseteq Live
                    /\ \A T \in SUBSET Cell :
                         words \subseteq T /\ (\A c \in T : Children(c) \subseteq T)
                           => Live \subseteq T
  OBVIOUS
<1>1. /\ words \subseteq Live /\ Closed(Live) /\ Live \subseteq Cell
      /\ \A T \in SUBSET Cell : words \subseteq T /\ Closed(T) => Live \subseteq T
  BY ReachFact DEF IInv, TypeOK, Live
<1>2. Kept \in SUBSET Cell /\ words \subseteq Kept /\ Closed(Kept)
  BY DEF IInv, ObjectsInv, Kept, Allocated, Closed
<1> QED
  BY <1>1, <1>2 DEF Closed

\* What AbsHeap makes of a store o that has all live objects, with their contents:
\* it forgets the others.
LEMMA TrimFact ==
  IInv => \A o : /\ Live \subseteq DOMAIN o /\ DOMAIN o \subseteq Cell
                 /\ \A c \in Live : o[c] = Content(c)
                 => Abstract!Trim(o, words) = Obj
<1> SUFFICES ASSUME IInv, NEW o, Live \subseteq DOMAIN o, DOMAIN o \subseteq Cell,
                    \A c \in Live : o[c] = Content(c)
             PROVE  Abstract!Trim(o, words) = Obj
  OBVIOUS
<1>1. /\ words \subseteq Live /\ Live \subseteq Cell
      /\ \A c \in Live : Children(c) \subseteq Live
      /\ \A T \in SUBSET Cell :
           words \subseteq T /\ (\A c \in T : Children(c) \subseteq T) => Live \subseteq T
  BY LiveFact
<1>2. \A c \in Live : Abstract!Fields(o, c) = Children(c)
  <2> TAKE c \in Live
  <2>1. o[c] = Content(c)
    OBVIOUS
  <2>2. o[c].type = type[c] /\ o[c].car = car[c] /\ o[c].cdr = cdr[c]
    BY ONLY <2>1 DEF Content
  <2> QED
    BY ONLY <2>2 DEF Abstract!Fields, Children
<1> DEFINE closed == {S \in SUBSET DOMAIN o :
                        words \subseteq S /\ \A d \in S : Abstract!Fields(o, d) \subseteq S}
<1>3. Live \in closed
  BY <1>1, <1>2
<1>4. ASSUME NEW S \in closed
      PROVE  Live \subseteq S
  <2>1. S \intersect Live \in SUBSET Cell /\ words \subseteq S \intersect Live
    BY <1>1
  <2>2. \A c \in S \intersect Live : Children(c) \subseteq S \intersect Live
    BY <1>1, <1>2
  <2>3. Live \subseteq S \intersect Live
    BY <2>1, <2>2, <1>1
  <2> QED
    BY <2>3
<1>5. Abstract!Reach(o, words) = Live
  BY <1>3, <1>4 DEF Abstract!Reach
<1> QED
  BY <1>5 DEF Abstract!Trim, Obj

\* The two facts after a step.
LEMMA NextFact ==
  IInv' => /\ words' \subseteq Live' /\ Live' \subseteq Cell
           /\ \A c \in Live' : Children(c)' \subseteq Live'
           /\ \A T \in SUBSET Cell :
                words' \subseteq T /\ (\A c \in T : Children(c)' \subseteq T) => Live' \subseteq T
           /\ \A o : /\ Live' \subseteq DOMAIN o /\ DOMAIN o \subseteq Cell
                     /\ \A c \in Live' : o[c] = Content(c)'
                     => Abstract!Trim(o, words') = Obj'
<1>1. (IInv => /\ words \subseteq Live /\ Live \subseteq Kept /\ Live \subseteq Cell
               /\ \A c \in Live : Children(c) \subseteq Live
               /\ \A T \in SUBSET Cell :
                    words \subseteq T /\ (\A c \in T : Children(c) \subseteq T) => Live \subseteq T)'
  BY LiveFact, PTL
<1>2. (IInv => \A o : /\ Live \subseteq DOMAIN o /\ DOMAIN o \subseteq Cell
                      /\ \A c \in Live : o[c] = Content(c)
                      => Abstract!Trim(o, words) = Obj)'
  BY TrimFact, PTL
<1> QED
  BY <1>1, <1>2

\* A step that leaves the program's words and all that they reach alone.
LEMMA LiveSame ==
  ASSUME IInv, IInv', words' = words, \A c \in Live : Content(c)' = Content(c)
  PROVE  UNCHANGED <<words, Obj>>
<1>1. \A c \in Live : Children(c)' = Children(c)
  BY DEF Content, Children
<1>2. Live' \subseteq Live
  BY <1>1, LiveFact, NextFact
<1>3. Live \subseteq Live'
  BY <1>1, <1>2, LiveFact, NextFact
<1> QED
  BY <1>2, <1>3 DEF Obj

\* NEWCELL gives the program an object that it did not have.
LEMMA FillAllocates ==
  ASSUME IInv, IInv', pc \notin {"mark", "sweep"}, NEW c \in Cell, c \notin Allocated,
         NEW r \in Request, {r.car, r.cdr} \subseteq words \union {NIL}, Fill(c, r)
  PROVE  Abstract!Next
<1> DEFINE n == [type |-> r.type, car |-> r.car, cdr |-> r.cdr]
           o == [d \in DOMAIN Obj \union {c} |-> IF d = c THEN n ELSE Obj[d]]
<1>1. /\ words \subseteq Live /\ Live \subseteq Allocated /\ Live \subseteq Cell
      /\ \A d \in Live : Children(d) \subseteq Live
  BY LiveFact DEF Kept
<1>2. DOMAIN Obj = Live /\ DOMAIN o = Live \union {c}
  BY DEF Obj
<1>3. c \notin Live /\ words' = words \union {c}
  BY <1>1 DEF Fill
<1>4. \A d \in Live : Content(d)' = Content(d)
  BY <1>1, <1>3 DEF Content, Fill, IInv, TypeOK
<1>5. Content(c)' = n
  BY DEF Content, Fill, IInv, TypeOK
<1>6. Live' \subseteq Live \union {c}
  <2>1. \A d \in Live : Children(d)' = Children(d)
    BY <1>4 DEF Content, Children
  <2>2. Children(c)' \subseteq words
    BY DEF Children, Fill, IInv, TypeOK
  <2>3. Live \union {c} \in SUBSET Cell /\ words' \subseteq Live \union {c}
    BY <1>1, <1>3
  <2>4. \A d \in Live \union {c} : Children(d)' \subseteq Live \union {c}
    BY <2>1, <2>2, <1>1
  <2> QED
    BY <2>3, <2>4, NextFact
<1>7. \A d \in Live \union {c} : o[d] = Content(d)'
  BY <1>2, <1>3, <1>4, <1>5 DEF Obj
<1> HIDE DEF o
<1>8. Abstract!Trim(o, words') = Obj'
  BY <1>1, <1>2, <1>6, <1>7, NextFact
<1>9. n \in Abstract!Object(words \union {NIL})
  BY DEF Abstract!Object, Request
<1>10. Abstract!Alloc(c, n)
  BY <1>3, <1>8 DEF Abstract!Alloc, Abstract!Hold, o, Obj, Content
<1> QED
  BY <1>2, <1>3, <1>9, <1>10 DEF Abstract!Next, Obj

\* Words that the program gets from its objects, or gives up.
LEMMA WordsChange ==
  ASSUME IInv, IInv', words' \subseteq Live, UNCHANGED <<type, car, cdr>>
  PROVE  Abstract!Hold(words', Obj)
<1>1. /\ Live \subseteq Cell /\ DOMAIN Obj = Live
      /\ \A c \in Live : Children(c) \subseteq Live /\ Children(c)' = Children(c)
  BY LiveFact DEF Obj, Children
<1>2. Live' \subseteq Live
  BY <1>1, NextFact
<1>3. \A c \in Live' : Obj[c] = Content(c)'
  BY <1>2 DEF Obj, Content
<1>4. Abstract!Trim(Obj, words') = Obj'
  BY <1>1, <1>2, <1>3, NextFact
<1> QED
  BY <1>4 DEF Abstract!Hold, Obj, Content

LEMMA LoadLoads ==
  ASSUME IInv, IInv', NEW w \in Cell, Load(w)
  PROVE  Abstract!Next
<1>1. PICK c \in words : type[c] = "cons" /\ w \in {car[c], cdr[c]} /\ w # NIL
  BY DEF Load
<1>2. words' = words \union {w} /\ UNCHANGED <<type, car, cdr>>
  BY DEF Load, space
<1>3. c \in Live /\ words \subseteq Live /\ w \in Live
  BY <1>1, LiveFact DEF Children
<1>4. Abstract!Hold(words \union {w}, Obj)
  BY <1>2, <1>3, WordsChange
<1>5. w \in Abstract!Fields(Obj, c)
  <2>1. Obj[c] = Content(c)
    BY <1>3 DEF Obj
  <2>2. Obj[c].type = type[c] /\ Obj[c].car = car[c] /\ Obj[c].cdr = cdr[c]
    BY ONLY <2>1 DEF Content
  <2> QED
    BY <2>2, <1>1 DEF Abstract!Fields
<1>6. Abstract!Load(w)
  BY <1>4, <1>5 DEF Abstract!Load, Obj, Content
<1> QED
  BY <1>6 DEF Abstract!Next

LEMMA DropDrops ==
  ASSUME IInv, IInv', words' \subseteq words, UNCHANGED <<type, car, cdr>>
  PROVE  Abstract!Next
<1>1. Abstract!Hold(words', Obj)
  BY LiveFact, WordsChange
<1>2. PICK S \in SUBSET words : S = words \ words'
  OBVIOUS
<1>3. Abstract!Drop(S)
  <2>1. words' = words \ S
    BY <1>2
  <2> QED
    BY <1>1, <2>1 DEF Abstract!Drop, Obj, Content
<1> QED
  BY <1>3 DEF Abstract!Next

LEMMA SetSets ==
  ASSUME IInv, IInv', NEW c \in Cell, NEW w \in Ref, SetCar(c, w) \/ SetCdr(c, w)
  PROVE  Abstract!Next
<1> DEFINE x == car'[c]
           y == cdr'[c]
           o == [Obj EXCEPT ![c].car = x, ![c].cdr = y]
<1>1. /\ c \in words /\ type[c] = "cons" /\ w \in words \union {NIL}
      /\ words' = words /\ type' = type
      /\ \A d \in Cell : d # c => car'[d] = car[d] /\ cdr'[d] = cdr[d]
      /\ (x = w /\ y = cdr[c]) \/ (x = car[c] /\ y = w)
  BY DEF SetCar, SetCdr, IInv, TypeOK
<1>2. /\ words \subseteq Live /\ Live \subseteq Cell /\ c \in Live
      /\ \A d \in Live : Children(d) \subseteq Live
  BY <1>1, LiveFact
<1>3. DOMAIN Obj = Live /\ DOMAIN o = Live
  BY DEF Obj
<1>4. Obj[c] = Content(c)
  BY <1>2 DEF Obj
<1>5. /\ Obj[c].type = type[c] /\ Obj[c].car = car[c] /\ Obj[c].cdr = cdr[c]
  BY ONLY <1>4 DEF Content
<1>6. o[c] = Content(c)'
  <2>1. o[c] = [[Content(c) EXCEPT !.car = x] EXCEPT !.cdr = y]
    BY <1>2, <1>3, <1>4
  <2>2. type'[c] = type[c]
    BY <1>1
  <2> QED
    BY ONLY <2>1, <2>2 DEF Content
<1>7. \A d \in Live : o[d] = Content(d)'
  BY <1>1, <1>2, <1>6 DEF Obj, Content
<1>8. Live' \subseteq Live
  <2>1. Children(c)' \subseteq Children(c) \union words
    BY <1>1 DEF Children
  <2>2. \A d \in Live : d # c => Children(d)' = Children(d)
    BY <1>1, <1>2 DEF Children
  <2> QED
    BY <2>1, <2>2, <1>1, <1>2, NextFact
<1> HIDE DEF o
<1>9. Abstract!Trim(o, words') = Obj'
  BY <1>2, <1>3, <1>7, <1>8, NextFact
<1>10. x \in Cell \union {NIL} /\ y \in Cell \union {NIL}
  BY DEF IInv, TypeOK, Ref
<1>11. /\ x \in words \union {NIL, Obj[c].car} /\ y \in words \union {NIL, Obj[c].cdr}
       /\ Obj[c].type = "cons"
  BY <1>1, <1>5
<1>12. Abstract!Hold(words, o)
  BY <1>1, <1>9 DEF Abstract!Hold, Obj, Content
<1> HIDE DEF x, y
<1>13. Abstract!SetFields(c, x, y)
  BY <1>1, <1>11, <1>12 DEF Abstract!SetFields, o, Obj, Content
<1> QED
  BY <1>1, <1>10, <1>13 DEF Abstract!Next

\* The collector, and what else is none of the program's business, changes only
\* what the program has lost.
LEMMA InvisibleSteps ==
  ASSUME IInv, IInv',
         \/ UserGc \/ \E r \in Request : NewcellCollect(r)
         \/ LAllocateHeap \/ CheckGrow \/ Collect
         \/ CheckHook \/ CheckFull \/ HookReturn \/ UNCHANGED vars
  PROVE  UNCHANGED <<words, Obj>>
<1> USE DEF IInv
<1>1. Live \subseteq Kept /\ Kept \subseteq Allocated /\ Live \subseteq Cell
  BY LiveFact DEF Kept
<1>2. CASE UserGc \/ \E r \in Request : NewcellCollect(r)
  <2>1. StartGC
    BY <1>2 DEF UserGc, NewcellCollect
  <2>2. \A c \in Allocated : type'[c] = type[c] /\ car' = car /\ cdr' = cdr
    BY <2>1 DEF StartGC, FreeTheRest, Allocated, AreasInv, TypeOK
  <2> QED
    BY <1>1, <2>1, <2>2, LiveSame DEF Content, StartGC
<1>3. CASE LAllocateHeap \/ CheckGrow
  <2>1. AllocateAheap /\ words' = words
    BY <1>3 DEF LAllocateHeap, CheckGrow
  <2>2. \A c \in Allocated : c \in Cell /\ c[1] # nactive
    BY DEF Allocated, AreasInv, Active, TypeOK
  <2>3. \A c \in Allocated : type'[c] = type[c] /\ car'[c] = car[c] /\ cdr'[c] = cdr[c]
    BY <2>1, <2>2 DEF AllocateAheap, TypeOK
  <2> QED
    BY <1>1, <2>1, <2>3, LiveSame DEF Content
<1>4. CASE GcSweep
  <2>1. ptr \in Cell /\ ~ Swept(ptr) /\ words' = words /\ pc = "sweep" /\ car' = car
    BY <1>4, CursorFact DEF GcSweep
  <2>2. CASE mark[ptr] = 0 /\ SweepDead(ptr)
    <3>1. ptr \notin Live
      BY <1>1, <2>1, <2>2 DEF Kept
    <3>2. \A c \in Live : type'[c] = type[c] /\ cdr'[c] = cdr[c]
      BY <1>1, <2>1, <2>2, <3>1 DEF SweepDead, TypeOK
    <3> QED
      BY <2>1, <3>2, LiveSame DEF Content
  <2>3. CASE SweepMarked(ptr)
    BY <2>1, <2>3, LiveSame DEF Content, SweepMarked
  <2> QED
    BY <1>4, <2>2, <2>3 DEF GcSweep
<1>5. CASE GcMark \/ MarkDone \/ SweepDone \/ CheckHook \/ CheckFull \/ HookReturn \/ UNCHANGED vars
  <2>1. UNCHANGED <<type, car, cdr, words>>
    BY <1>5 DEF GcMark, MarkDone, SweepDone, CheckHook, CheckFull, HookReturn, vars, space
  <2> QED
    BY <2>1, LiveSame DEF Content
<1> QED
  BY <1>2, <1>3, <1>4, <1>5 DEF Collect

LEMMA RefinesStep == IInv /\ IInv' /\ [Next]_vars => [Abstract!Next]_(Abstract!vars)
<1> SUFFICES ASSUME IInv, IInv', [Next]_vars
             PROVE  Abstract!Next \/ UNCHANGED <<words, Obj>>
  BY DEF Abstract!vars, Obj, Content
<1> USE DEF IInv
<1>1. CASE \E r \in Request : NewcellPop(r)
  <2>1. PICK r \in Request : NewcellPop(r)
    BY <1>1
  <2>2. Head(freelist) \in Cell /\ Head(freelist) \notin Allocated
    BY <2>1, PopList DEF NewcellPop, InProgram, ListsInv, FreelistSound
  <2> QED
    BY <2>1, <2>2, FillAllocates DEF NewcellPop, InProgram, Askable
<1>2. CASE \E r \in Request : NewcellBump(r)
  <2>1. PICK r \in Request : NewcellBump(r)
    BY <1>2
  <2>2. <<0, heap>> \in Cell /\ <<0, heap>> \notin Allocated
    <3>1. <<0, heap>> \in Cell
      BY <2>1, SizesAssumption DEF NewcellBump, Cell, Offset, TypeOK
    <3>2. <<0, heap>> \in Bump
      BY <3>1, SizesAssumption DEF Bump, TypeOK
    <3> QED
      BY <3>1, <3>2 DEF AreasInv, Allocated
  <2> QED
    BY <2>1, <2>2, FillAllocates DEF NewcellBump, InProgram, Askable
<1>3. CASE NewcellResume
  <2>1. CASE freelist = <<>>
    <3>1. UNCHANGED <<type, car, cdr, words>>
      BY <1>3, <2>1 DEF NewcellResume, space
    <3>2. Live \subseteq Cell
      BY LiveFact
    <3> QED
      BY <3>1, <3>2, LiveSame DEF Content
  <2>2. CASE freelist # <<>>
    <3>1. pc = "fill" /\ req \in Request /\ Fill(Head(freelist), req)
      BY <1>3, <2>2 DEF NewcellResume, AreasInv
    <3>2. Head(freelist) \in Cell /\ Head(freelist) \notin Allocated
      BY <1>3, <3>1, <2>2, PopList DEF NewcellResume, ListsInv, FreelistSound
    <3>3. PICK r \in Request : r = req
      BY <3>1
    <3>4. {r.car, r.cdr} \subseteq words \union {NIL}
      BY <3>3 DEF ObjectsInv
    <3>5. Fill(Head(freelist), r)
      BY <3>1, <3>3
    <3> QED
      BY <3>1, <3>2, <3>4, <3>5, FillAllocates
  <2> QED
    BY <2>1, <2>2
<1>4. CASE \E w \in Cell : Load(w)
  BY <1>4, LoadLoads
<1>5. CASE \/ \E w \in Cell : Drop(w)
           \/ OutOfStorage \/ HeapMallocFails \/ HookError
  <2>1. words' \subseteq words /\ UNCHANGED <<type, car, cdr>>
    BY <1>5 DEF Drop, OutOfStorage, HeapMallocFails, HookError, Unwind, space
  <2> QED
    BY <2>1, DropDrops
<1>6. CASE \E c \in Cell, w \in Ref : SetCar(c, w) \/ SetCdr(c, w)
  BY <1>6, SetSets
<1>7. CASE \/ UserGc \/ \E r \in Request : NewcellCollect(r)
           \/ LAllocateHeap \/ CheckGrow \/ Collect
           \/ CheckHook \/ CheckFull \/ HookReturn \/ UNCHANGED vars
  BY <1>7, InvisibleSteps
<1> QED
  BY <1>1, <1>2, <1>3, <1>4, <1>5, <1>6, <1>7 DEF Next

\* To the Lisp program there is no collector: objects stay as the program made them
\* for as long as it can reach them, and a new one is never one that it has, whenever
\* marking, sweeping, new heaps, errors and *after-gc* happen.
THEOREM CollectorInvisible == Spec => Implements
<1>1. Init => Abstract!Init
  <2> SUFFICES ASSUME Init PROVE words = {} /\ Live = {}
    BY DEF Abstract!Init
  <2>1. Live = {}
    BY DEF Init, Live, Reach, Closed
  <2> QED
    BY <2>1 DEF Init
<1> QED
  BY <1>1, RefinesStep, Invariance, PTL DEF Spec, Implements, Abstract!Spec
=============================================================================
