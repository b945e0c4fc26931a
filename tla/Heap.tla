-------------------------------- MODULE Heap --------------------------------
(***************************************************************************)
(* Storage management of SIOD in its default mode, -g0: NEWCELL takes cells *)
(* from a free list, gc_for_newcell refills it by mark and sweep, by adding *)
(* a heap, and by letting the user's *after-gc* expression run.             *)
(*                                                                         *)
(* One thread runs everything, so the model is one process: `pc' says       *)
(* whether the Lisp program ("run"), the collector ("mark", "sweep"), the   *)
(* tail of gc_for_newcell ("check"), the *after-gc* expression ("hook") or  *)
(* the tail of an interrupted NEWCELL ("fill") executes.                    *)
(*                                                                         *)
(* A cell is <<j, i>>: &heaps[j][i].  The free list is kept both as the     *)
(* code has it, threaded through CDR, and as the sequence it spells; that   *)
(* the two agree is part of FreelistSound.                                  *)
(***************************************************************************)
EXTENDS Integers, Sequences, FiniteSets

CONSTANTS NIL,         \* the null LISP pointer
          NHeaps,      \* nheaps: heaps that may be malloc'ed in all
          HeapSize,    \* heap_size: cells in each
          Reserve,     \* the literal 100 of gc_for_newcell
          HookAllocs,  \* bound: cells one evaluation of *after-gc* may take
          CarRefs,     \* bound: what the program puts into a CAR
          CdrRefs,     \* bound: and into a CDR
          MaxWords,    \* bound: words the program uses at a time
          Stale,       \* bound: pointers the stack may hold beside those
          MaxOpen      \* bound: objects with a C resource at a time

ASSUME SizesAssumption ==
         /\ NHeaps \in Nat \ {0}
         /\ HeapSize \in Nat \ {0}
         /\ Reserve \in Nat \ {0}
ASSUME BoundsAssumption == HookAllocs \in Nat /\ MaxWords \in Nat /\ MaxOpen \in Nat

Offset == 0 .. HeapSize - 1
Cell   == (0 .. NHeaps - 1) \X Offset

Ref    == Cell \union {NIL}

ASSUME NilAssumption == NIL \notin Cell
ASSUME StoresAssumption == CarRefs \subseteq Ref /\ CdrRefs \subseteq Ref /\ Stale \subseteq Cell

VARIABLES
  heap,      \* offset of the bump pointer in heaps[0]; HeapSize is heap_end
  nactive,   \* heaps[0 .. nactive-1] are malloc'ed, the others NULL
  freelist,  \* the free list
  type,      \* "raw" is malloc'ed memory nobody wrote to, or no memory at all
  mark,      \* gc_mark, any nonzero value being 1
  car, cdr,
  open,      \* cells whose C resource (string data, FILE *) is held
  words,     \* the LISP values that the program's C variables hold, and the
             \* locations registered with gc_protect
  pc,
  req,       \* the NEWCELL gc_for_newcell works for; NoReq under user_gc
  scanned,   \* the words gc_for_newcell's collection started from
  gray,      \* gc_mark calls that are still to run
  ptr,       \* gc_sweep's cursor
  nfreelist, \* gc_sweep's new free list
  hookTaken  \* cells that *after-gc* has taken

space  == <<heap, nactive, freelist, type, mark, car, cdr, open>>
gcvars == <<pc, req, scanned, gray, ptr, nfreelist, hookTaken>>
vars   == <<space, words, gcvars>>

NoReq   == [type |-> "none", car |-> NIL, cdr |-> NIL]
Request == [type : {"cons"}, car : CarRefs, cdr : CdrRefs]
             \union [type : {"user"}, car : {NIL}, cdr : {NIL}]

Active    == {c \in Cell : c[1] < nactive}
Bump      == {c \in Cell : c[1] = 0 /\ c[2] >= heap}
Allocated == {c \in Cell : type[c] \in {"cons", "user"}}
Free      == {freelist[i] : i \in 1 .. Len(freelist)}

\* The pointer to a list of cells.
First(l) == IF l = <<>> THEN NIL ELSE Head(l)

Children(c) == IF type[c] = "cons" THEN {car[c], cdr[c]} \ {NIL} ELSE {}

\* Cells the program can get at, and those a conservative collector must take
\* for such: the least sets with these words that are closed under Children.
Closed(S)   == \A c \in S : Children(c) \subseteq S
Reach(from) == LET closed == {S \in SUBSET Cell : from \subseteq S /\ Closed(S)}
               IN  {c \in Cell : \A S \in closed : c \in S}
Live == Reach(words)

\* Mutant of LooksPointer: free cells are taken for objects.
LooksAligned(w, types) == w \in Active

\* looks_pointerp, on a word of the stack, in a heap with these types.
LooksPointer(w, types) == w \in Active /\ types[w] # "free"

Init ==
  /\ heap = 0 /\ nactive = 1 /\ freelist = <<>>
  /\ type = [c \in Cell |-> "raw"]
  /\ mark \in [Cell -> 0 .. 1] /\ \A c \in Cell : c[1] > 0 => mark[c] = 0
  /\ car = [c \in Cell |-> NIL] /\ cdr = [c \in Cell |-> NIL]
  /\ open = {} /\ words = {}
  /\ pc = "run" /\ req = NoReq /\ scanned = {} /\ gray = {}
  /\ ptr = <<0, 0>> /\ nfreelist = <<>> /\ hookTaken = 0

-----------------------------------------------------------------------------
(* The Lisp program, which also runs while *after-gc* is evaluated. *)

InProgram == pc \in {"run", "hook"}

\* Mutant of Fill: NEWCELL leaves gc_mark as malloc gave it.
FillMarked(c, r) ==
  /\ type' = [type EXCEPT ![c] = r.type]
  /\ mark' = mark
  /\ car' = [car EXCEPT ![c] = r.car]
  /\ cdr' = [cdr EXCEPT ![c] = r.cdr]
  /\ open' = IF r.type = "user" THEN open \union {c} ELSE open
  /\ words' = words \union {c}

\* cons, newcell, strcons: what the caller of NEWCELL does with the cell.
Fill(c, r) ==
  /\ type' = [type EXCEPT ![c] = r.type]
  /\ mark' = [mark EXCEPT ![c] = 0]
  /\ car' = [car EXCEPT ![c] = r.car]
  /\ cdr' = [cdr EXCEPT ![c] = r.cdr]
  /\ open' = IF r.type = "user" THEN open \union {c} ELSE open
  /\ words' = words \union {c}

\* The arguments of the call are in C variables.
Askable(r) == /\ {r.car, r.cdr} \subseteq words \union {NIL}
              /\ Cardinality(words) < MaxWords
              /\ r.type = "user" => Cardinality(open) < MaxOpen

\* NEWCELL with a cell on the free list.
NewcellPop(r) ==
  /\ InProgram /\ Askable(r) /\ freelist # <<>>
  /\ pc = "hook" => hookTaken < HookAllocs
  /\ Fill(Head(freelist), r)
  /\ freelist' = Tail(freelist)
  /\ hookTaken' = IF pc = "hook" THEN hookTaken + 1 ELSE hookTaken
  /\ UNCHANGED <<heap, nactive, pc, req, scanned, gray, ptr, nfreelist>>

\* NEWCELL with an empty free list, while heaps[0] was never used up:
\* gc_for_newcell makes a list of the next cell, NEWCELL takes it.
NewcellBump(r) ==
  /\ InProgram /\ Askable(r) /\ freelist = <<>> /\ heap < HeapSize
  /\ pc = "hook" => hookTaken < HookAllocs
  /\ Fill(<<0, heap>>, r)
  /\ heap' = heap + 1
  /\ hookTaken' = IF pc = "hook" THEN hookTaken + 1 ELSE hookTaken
  /\ UNCHANGED <<nactive, freelist, pc, req, scanned, gray, ptr, nfreelist>>

\* Mutant of FreeTheRest: the bump pointer stays where it is.
FreeTheRestTwice ==
  /\ heap' = heap
  /\ type' = [c \in Cell |-> IF c \in Bump THEN "free" ELSE type[c]]
  /\ mark' = [c \in Cell |-> IF c \in Bump THEN 0 ELSE mark[c]]

\* What is left of heaps[0] becomes free cells, so that gc_sweep can look at
\* their marks, and looks_pointerp at their types.
FreeTheRest ==
  /\ heap' = HeapSize
  /\ type' = [c \in Cell |-> IF c \in Bump THEN "free" ELSE type[c]]
  /\ mark' = [c \in Cell |-> IF c \in Bump THEN 0 ELSE mark[c]]

\* The start of gc_mark_and_sweep: the protected locations and the whole stack
\* are scanned.  `stale' is what is on the stack beside live variables: dead
\* ones, and numbers.
StartGC ==
  /\ FreeTheRest
  /\ \E protected \in SUBSET words, stale \in SUBSET Stale :
       gray' = protected \union {w \in words \union stale : LooksPointer(w, type')}
  /\ scanned' = IF req' = NoReq THEN {} ELSE gray'
  /\ pc' = "mark"
  /\ UNCHANGED <<nactive, freelist, car, cdr, open, words, ptr, nfreelist, hookTaken>>

NewcellCollect(r) ==
  /\ pc = "run" /\ Askable(r) /\ freelist = <<>> /\ heap = HeapSize
  /\ req' = r
  /\ StartGC

\* (gc)
UserGc == pc = "run" /\ req' = NoReq /\ StartGC

CellsOf(j) == [k \in 1 .. HeapSize |-> <<j, k - 1>>]

\* (allocate-heap), and gc_for_newcell.  The gc_mark of the new cells is
\* whatever malloc left there.
AllocateAheap ==
  /\ nactive < NHeaps
  /\ nactive' = nactive + 1
  /\ freelist' = CellsOf(nactive) \o freelist
  /\ type' = [c \in Cell |-> IF c[1] = nactive THEN "free" ELSE type[c]]
  /\ cdr' = [c \in Cell |-> IF c[1] # nactive THEN cdr[c]
                            ELSE IF c[2] < HeapSize - 1 THEN <<c[1], c[2] + 1>>
                            ELSE First(freelist)]
  /\ \E junk \in [Offset -> 0 .. 1] :
       mark' = [c \in Cell |-> IF c[1] = nactive THEN junk[c[2]] ELSE mark[c]]
  /\ UNCHANGED <<heap, car, open>>

LAllocateHeap == InProgram /\ AllocateAheap /\ UNCHANGED <<words, gcvars>>

\* A C variable takes the value of a field, or of the protected location.
Load(w) ==
  /\ InProgram
  /\ w \in UNION {{car[c], cdr[c]} : c \in {d \in words : type[d] = "cons"}}
  /\ w # NIL /\ w \notin words /\ Cardinality(words) < MaxWords
  /\ words' = words \union {w}
  /\ UNCHANGED <<space, gcvars>>

\* A C variable dies.  Frames below the *after-gc* expression keep what the
\* suspended NEWCELL needs.
Drop(w) ==
  /\ InProgram /\ w \in words \ {req.car, req.cdr}
  /\ words' = words \ {w}
  /\ UNCHANGED <<space, gcvars>>

SetCar(c, w) ==
  /\ InProgram /\ c \in words /\ type[c] = "cons" /\ w \in CarRefs \intersect (words \union {NIL})
  /\ car' = [car EXCEPT ![c] = w]
  /\ UNCHANGED <<heap, nactive, freelist, type, mark, cdr, open, words, gcvars>>

SetCdr(c, w) ==
  /\ InProgram /\ c \in words /\ type[c] = "cons" /\ w \in CdrRefs \intersect (words \union {NIL})
  /\ cdr' = [cdr EXCEPT ![c] = w]
  /\ UNCHANGED <<heap, nactive, freelist, type, mark, car, open, words, gcvars>>

-----------------------------------------------------------------------------
(* The collector *)

\* Mutants of Mark: marked cells are traced again; only the CDR is followed.
MarkAgain(p) ==
  /\ mark' = [mark EXCEPT ![p] = 1]
  /\ gray' = (gray \ {p}) \union Children(p)

MarkSpine(p) ==
  IF mark[p] = 1
  THEN gray' = gray \ {p} /\ UNCHANGED mark
  ELSE /\ mark' = [mark EXCEPT ![p] = 1]
       /\ gray' = (gray \ {p}) \union (Children(p) \intersect {cdr[p]})

\* gc_mark(p), one activation: its recursive calls join `gray'.
Mark(p) ==
  IF mark[p] = 1
  THEN gray' = gray \ {p} /\ UNCHANGED mark
  ELSE /\ mark' = [mark EXCEPT ![p] = 1]
       /\ gray' = (gray \ {p}) \union Children(p)

\* The order of the calls is some fixed one.
GcMark ==
  /\ pc = "mark" /\ gray # {}
  /\ Mark(CHOOSE c \in gray : TRUE)
  /\ UNCHANGED <<heap, nactive, freelist, type, car, cdr, open, words,
                 pc, req, scanned, ptr, nfreelist, hookTaken>>

MarkDone ==
  /\ pc = "mark" /\ gray = {}
  /\ pc' = "sweep" /\ ptr' = <<0, 0>> /\ nfreelist' = <<>>
  /\ UNCHANGED <<space, words, req, scanned, gray, hookTaken>>

\* Mutant of NextCell: the heap ends one cell late.
NextCellLate(c) == IF c[2] < HeapSize THEN <<c[1], c[2] + 1>> ELSE <<c[1] + 1, 0>>

NextCell(c) == IF c[2] < HeapSize - 1 THEN <<c[1], c[2] + 1>> ELSE <<c[1] + 1, 0>>

\* Mutant of SweepDead: gc_free is not called.
SweepLeaking(c) ==
  /\ type' = [type EXCEPT ![c] = "free"]
  /\ cdr' = [cdr EXCEPT ![c] = First(nfreelist)]
  /\ nfreelist' = <<c>> \o nfreelist
  /\ UNCHANGED <<open, mark>>

SweepDead(c) ==
  /\ open' = IF type[c] = "user" THEN open \ {c} ELSE open
  /\ type' = [type EXCEPT ![c] = "free"]
  /\ cdr' = [cdr EXCEPT ![c] = First(nfreelist)]
  /\ nfreelist' = <<c>> \o nfreelist
  /\ UNCHANGED mark

SweepMarked(c) ==
  /\ mark' = [mark EXCEPT ![c] = 0]
  /\ UNCHANGED <<open, type, cdr, nfreelist>>

GcSweep ==
  /\ pc = "sweep" /\ ptr[1] < nactive
  /\ IF mark[ptr] = 0 THEN SweepDead(ptr) ELSE SweepMarked(ptr)
  /\ ptr' = NextCell(ptr)
  /\ UNCHANGED <<heap, nactive, freelist, car, words, pc, req, scanned, gray, hookTaken>>

SweepDone ==
  /\ pc = "sweep" /\ ptr[1] = nactive
  /\ freelist' = nfreelist /\ nfreelist' = <<>> /\ ptr' = <<0, 0>>
  /\ pc' = IF req = NoReq THEN "run" ELSE "check"
  /\ UNCHANGED <<heap, nactive, type, mark, car, cdr, open, words, req, scanned, gray, hookTaken>>

\* Mutant of CheckHook: one free cell is thought to be enough.
CheckHookEarly ==
  /\ pc = "check" /\ Len(freelist) >= 1
  /\ scanned' = {} /\ pc' = "hook" /\ hookTaken' = 0
  /\ UNCHANGED <<space, words, req, gray, ptr, nfreelist>>

\* gc_for_newcell once the collector is done: the evaluator is called when
\* the list has Reserve cells, else a heap is added if there is one left.
CheckHook ==
  /\ pc = "check" /\ Len(freelist) >= Reserve
  /\ scanned' = {} /\ pc' = "hook" /\ hookTaken' = 0
  /\ UNCHANGED <<space, words, req, gray, ptr, nfreelist>>

CheckGrow ==
  /\ pc = "check" /\ Len(freelist) < Reserve
  /\ AllocateAheap
  /\ scanned' = {} /\ pc' = "fill"
  /\ UNCHANGED <<words, req, gray, ptr, nfreelist, hookTaken>>

CheckFull ==
  /\ pc = "check" /\ Len(freelist) \in 1 .. Reserve - 1 /\ nactive = NHeaps
  /\ scanned' = {} /\ pc' = "fill"
  /\ UNCHANGED <<space, words, req, gray, ptr, nfreelist, hookTaken>>

\* err(): the C frames are gone.
Unwind ==
  /\ scanned' = {} /\ pc' = "run" /\ req' = NoReq /\ hookTaken' = 0
  /\ words' \in SUBSET words
  /\ UNCHANGED <<space, gray, ptr, nfreelist>>

\* gc_fatal_error: "ran out of storage"
OutOfStorage ==
  /\ pc = "check" /\ freelist = <<>> /\ nactive = NHeaps
  /\ Unwind

\* must_malloc: "failed to allocate storage from system"
HeapMallocFails ==
  /\ pc = "check" /\ Len(freelist) < Reserve /\ nactive < NHeaps
  /\ Unwind

HookReturn ==
  /\ pc = "hook"
  /\ pc' = "fill"
  /\ UNCHANGED <<space, words, req, scanned, gray, ptr, nfreelist, hookTaken>>

HookError == pc = "hook" /\ Unwind

\* NEWCELL after gc_for_newcell: _into = freelist, whatever that is now.
NewcellResume ==
  /\ pc = "fill"
  /\ IF freelist = <<>>
     THEN pc' = "crash" /\ UNCHANGED <<space, words, req, hookTaken>>
     ELSE /\ Fill(Head(freelist), req)
          /\ freelist' = Tail(freelist)
          /\ pc' = "run" /\ req' = NoReq /\ hookTaken' = 0
          /\ UNCHANGED <<heap, nactive>>
  /\ UNCHANGED <<scanned, gray, ptr, nfreelist>>

Collect == GcMark \/ MarkDone \/ GcSweep \/ SweepDone

Next ==
  \/ \E r \in Request : NewcellPop(r) \/ NewcellBump(r) \/ NewcellCollect(r)
  \/ UserGc \/ LAllocateHeap
  \/ \E w \in Cell : Load(w) \/ Drop(w)
  \/ \E c \in Cell, w \in Ref : SetCar(c, w) \/ SetCdr(c, w)
  \/ Collect
  \/ CheckHook \/ CheckGrow \/ CheckFull \/ OutOfStorage \/ HeapMallocFails
  \/ HookReturn \/ HookError
  \/ NewcellResume

\* The collector is straight-line C code with interrupts held off: it runs on.
Spec == Init /\ [][Next]_vars /\ WF_vars(Collect)

-----------------------------------------------------------------------------
(* Properties *)

\* Every variable has its type; the cursor stays in the heaps that exist.
TypeOK ==
  /\ heap \in 0 .. HeapSize /\ nactive \in 1 .. NHeaps
  /\ freelist \in Seq(Cell) /\ nfreelist \in Seq(Cell)
  /\ type \in [Cell -> {"raw", "free", "cons", "user"}]
  /\ mark \in [Cell -> 0 .. 1]
  /\ car \in [Cell -> Ref] /\ cdr \in [Cell -> Ref]
  /\ open \in SUBSET Cell
  /\ words \in SUBSET Cell
  /\ pc \in {"run", "mark", "sweep", "check", "hook", "fill", "crash"}
  /\ req \in Request \union {NoReq}
  /\ scanned \in SUBSET Cell /\ gray \in SUBSET Cell
  /\ ptr \in (0 .. NHeaps) \X Offset /\ ptr[1] <= nactive
  /\ hookTaken \in 0 .. HookAllocs

\* What the program can reach is allocated storage, at every moment of a
\* collection too: gc_sweep never puts a reachable cell on the free list, and
\* NEWCELL never hands out a cell somebody still has.
LiveIntact == \A c \in Live : c \in Allocated

IsList(l) ==
  /\ \A i \in 1 .. Len(l) : type[l[i]] = "free" /\ l[i] \in Active \ Bump
  /\ \A i, j \in 1 .. Len(l) : l[i] = l[j] => i = j
  /\ \A i \in 1 .. Len(l) : cdr[l[i]] = IF i < Len(l) THEN l[i + 1] ELSE NIL

\* The free list is a list: no cell twice, none of the untouched part of
\* heaps[0], each one's CDR the next.  Allocation, (allocate-heap) in the
\* middle of heaps[0], and collection all rebuild it.
FreelistSound == IF pc = "sweep" THEN IsList(nfreelist) ELSE IsList(freelist)

\* When NEWCELL had to collect, the free list is then exactly the cells that
\* no word the conservative collector looks at leads to, cells that an earlier
\* (gc) passed over for the garbage in their gc_mark included, and no free cell
\* is off the list.  So gc_fatal_error's "ran out of storage" is true when it
\* is said.
GcExact == pc = "check" => /\ Free = Active \ Reach(scanned)
                           /\ Free = {c \in Active : type[c] = "free"}

\* A string's data or a file's FILE * is released when and only when its cell
\* becomes free: sweep calls the type's gc_free once per dead object.
ResourcesHeld == open = {c \in Cell : type[c] = "user"}

\* NEWCELL does not test freelist again after gc_for_newcell. It finds a cell
\* there whenever a heap was added or the list was short, and after *after-gc*
\* unless that took all the cells that gc_for_newcell had counted, of which
\* nothing keeps it: then NEWCELL goes through NULL.
NewcellNullByHookOnly == pc = "crash" => hookTaken >= Reserve

\* A collection ends, on cyclic structures too.
GcTerminates == pc \in {"mark", "sweep"} ~> pc \in {"run", "check"}

\* The collector is invisible: see AbsHeap.
Abstract == INSTANCE AbsHeap WITH
  obj <- [c \in Live |-> [type |-> type[c], car |-> car[c], cdr |-> cdr[c]]]
Implements == Abstract!Spec
=============================================================================
