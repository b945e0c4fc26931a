------------------------------- MODULE CopyGC -------------------------------
(***************************************************************************)
(* Storage management with siod -g1 (slib.c): two spaces, of which one is  *)
(* in use, and a collector that copies what the registered locations       *)
(* reach.  It runs at the top of the read-eval-print loop only, where no C *)
(* variable holds an object. Conses stand for everything with two fields   *)
(* that are scanned, "user" for what has a C resource and no fields.  A    *)
(* cell carries the name of the object in it, which is not in the code:    *)
(* memcpy copies it with the rest.                                         *)
(***************************************************************************)
EXTENDS Integers, FiniteSets

CONSTANTS NIL, HeapSize,
          NRegs,      \* locations registered with gc_protect
          MaxLocals   \* bound: objects in C variables at a time

Spaces == 0 .. 1
Cell  == Spaces \X (0 .. HeapSize - 1)
Name  == 1 .. HeapSize

VARIABLES
  mem,     \* the two heaps
  org,     \* heap_org: which of them is in use
  heap,    \* the next cell to allocate
  end,     \* and where the allocation in the other space had ended
  regs,
  locals,
  open,    \* names of the objects whose resource is held
  scan,    \* how far scan_registers or scan_newspace has come
  pc,      \* "eval", "repl" after an error, "registers", "scan"
  built,   \* for the properties: what the program made of each name,
  rooted   \* and the names it put into the registers

vars == <<mem, org, heap, end, regs, locals, open, scan, pc, built, rooted>>

Used(space, to) == {c \in Cell : c[1] = space /\ c[2] < to}
Fields(c) == IF mem[c].type = "cons" THEN {mem[c].car, mem[c].cdr} \ {NIL} ELSE {}
Held == (locals \union {regs[i] : i \in 1 .. NRegs}) \ {NIL}

\* A cell of which nothing but the mark is read before it is allocated again.
Unused(m) == [type |-> "user", mark |-> m, car |-> NIL, cdr |-> NIL, name |-> 0]

NoObject  == [type |-> "user", car |-> NIL, cdr |-> NIL]
NameOf(w) == IF w = NIL THEN NIL ELSE mem[w].name

Init ==
  /\ mem = [c \in Cell |-> Unused(0)]
  /\ org = 0 /\ heap = 0 /\ end = 0 /\ scan = 0 /\ pc = "eval"
  /\ regs = [i \in 1 .. NRegs |-> NIL] /\ locals = {} /\ open = {}
  /\ built = [n \in Name |-> NoObject]
  /\ rooted = [i \in 1 .. NRegs |-> NIL]

-----------------------------------------------------------------------------
(* The program.                                                            *)

Evaluating == pc = "eval" /\ UNCHANGED <<org, end, scan>>

\* Mutant of Fill: NEWCELL leaves the mark that the last collection left.
FillMarked(c, o) == mem' = [mem EXCEPT ![c] = [o EXCEPT !.mark = mem[c].mark]]

Fill(c, o) == mem' = [mem EXCEPT ![c] = o]

\* NEWCELL, and what its caller puts into the cell.
Newcell(type, x, y) ==
  /\ Evaluating /\ heap < HeapSize /\ Cardinality(locals) < MaxLocals
  /\ LET name == CHOOSE n \in Name : n \notin {mem[c].name : c \in Used(org, heap)} IN
     /\ Fill(<<org, heap>>, [type |-> type, mark |-> 0, car |-> x, cdr |-> y, name |-> name])
     /\ open' = IF type = "user" THEN open \union {name} ELSE open
     /\ built' = [built EXCEPT ![name] = [type |-> type, car |-> NameOf(x), cdr |-> NameOf(y)]]
  /\ heap' = heap + 1
  /\ locals' = locals \union {<<org, heap>>}
  /\ UNCHANGED <<regs, pc, rooted>>

\* NEWCELL with no cell left: there is no collection in the middle of an evaluation, but
\* the error of gc_fatal_error, which leaves the cells as they are: back to a *catch, and
\* nothing has changed, or to repl.
Exhausted == /\ Evaluating /\ heap = HeapSize
             /\ pc' = "repl" /\ locals' = {}
             /\ UNCHANGED <<mem, heap, regs, open, built, rooted>>

Load(w) == /\ Evaluating /\ Cardinality(locals) < MaxLocals
           /\ w \in Held \/ \E c \in locals : w \in Fields(c)
           /\ locals' = locals \union {w}
           /\ UNCHANGED <<mem, heap, regs, open, pc, built, rooted>>

SetReg(i, w) == /\ Evaluating
                /\ regs' = [regs EXCEPT ![i] = w]
                /\ rooted' = [rooted EXCEPT ![i] = NameOf(w)]
                /\ UNCHANGED <<mem, heap, locals, open, pc, built>>

\* setcdr; setcar would do the same to the other field, and is a bound.
Setcdr(c, y) == /\ Evaluating
                /\ mem[c].type = "cons"
                /\ mem' = [mem EXCEPT ![c].cdr = y]
                /\ built' = [built EXCEPT ![mem[c].name].cdr = NameOf(y)]
                /\ UNCHANGED <<heap, regs, locals, open, pc, rooted>>

\* Back in repl, without a collection when gc-status is off and a cell is left.
Repl == /\ Evaluating /\ heap < HeapSize /\ locals' = {}
        /\ UNCHANGED <<mem, heap, regs, open, pc, built, rooted>>

-----------------------------------------------------------------------------
(* The collector.  s is the memory and heap while it copies, and what      *)
(* gc_relocate returned last.                                              *)

Relocate(s, x) ==
  IF x = NIL THEN [s EXCEPT !.to = NIL]
  ELSE IF s.mem[x].mark = 1 THEN [s EXCEPT !.to = s.mem[x].car]
  ELSE LET nw == <<s.org, s.heap>> IN
       [s EXCEPT !.mem = [@ EXCEPT ![nw] = s.mem[x], ![x].mark = 1, ![x].car = nw],
                 !.heap = @ + 1, !.to = nw]

\* From repl, with gc-status on or the last cell taken: get_newspace.
Collect ==
  /\ pc \in {"eval", "repl"} /\ pc' = "registers"
  /\ org' = 1 - org /\ heap' = 0 /\ end' = heap /\ scan' = 0 /\ locals' = {}
  /\ UNCHANGED <<mem, regs, open, built, rooted>>

\* scan_registers, one location.
ScanRegister ==
  LET s == Relocate([mem |-> mem, org |-> org, heap |-> heap, to |-> NIL], regs[scan + 1]) IN
  /\ pc = "registers" /\ scan < NRegs
  /\ mem' = s.mem /\ heap' = s.heap /\ regs' = [regs EXCEPT ![scan + 1] = s.to]
  /\ scan' = scan + 1
  /\ UNCHANGED <<org, end, locals, open, pc, built, rooted>>

ScanNewspace ==
  /\ pc = "registers" /\ scan = NRegs /\ pc' = "scan" /\ scan' = 0
  /\ UNCHANGED <<mem, org, heap, end, regs, locals, open, built, rooted>>

\* scan_newspace, one cell.
Scan ==
  LET c == <<org, scan>>
      s == Relocate([mem |-> mem, org |-> org, heap |-> heap, to |-> NIL], mem[c].car)
      t == Relocate([s EXCEPT !.mem[c].car = s.to], s.mem[c].cdr) IN
  /\ pc = "scan" /\ scan < heap
  /\ IF mem[c].type = "cons"
     THEN mem' = [t.mem EXCEPT ![c].cdr = t.to] /\ heap' = t.heap
     ELSE UNCHANGED <<mem, heap>>
  /\ scan' = scan + 1
  /\ UNCHANGED <<org, end, regs, locals, open, pc, built, rooted>>

\* free_oldspace: the resources of what was not copied.
FreeOldspace ==
  /\ pc = "scan" /\ scan = heap /\ pc' = "eval"
  /\ open' = open \ {mem[c].name : c \in {d \in Used(1 - org, end) : mem[d].mark = 0}}
  /\ mem' = [c \in Cell |-> IF c[1] = org THEN mem[c] ELSE Unused(mem[c].mark)]
  /\ scan' = 0 /\ end' = 0
  /\ built' = [n \in Name |-> IF \E c \in Used(org, heap) : mem[c].name = n THEN built[n] ELSE NoObject]
  /\ UNCHANGED <<org, heap, regs, locals, rooted>>

Next ==
  \/ \E x, y \in locals \union {NIL} : Newcell("cons", x, y)
  \/ Newcell("user", NIL, NIL)
  \/ \E w \in Cell : Load(w)
  \/ \E i \in 1 .. NRegs, w \in locals \union {NIL} : SetReg(i, w)
  \/ \E c \in locals, y \in locals \union {NIL} : Setcdr(c, y)
  \/ Exhausted \/ Repl \/ Collect \/ ScanRegister \/ ScanNewspace \/ Scan \/ FreeOldspace

-----------------------------------------------------------------------------
(* What the program built: `built' and `rooted' change with its actions    *)
(* only.                                                                   *)

\* The cells in use, during a collection those that have not been copied among them.
Current == LET new == Used(org, heap)
               copied == {mem[c].name : c \in new} IN
           new \union IF pc \in {"registers", "scan"} THEN {c \in Used(1 - org, end) : mem[c].name \notin copied} ELSE {}

References(n) == {built[n].car, built[n].cdr} \ {NIL}
Reachable ==
  LET from == ({rooted[i] : i \in 1 .. NRegs} \union {NameOf(w) : w \in locals}) \ {NIL}
      closed == {S \in SUBSET Name : from \subseteq S /\ \A n \in S : References(n) \subseteq S} IN
  {n \in Name : \A S \in closed : n \in S}

\* Copying is invisible: through any number of collections, and at every step of one,
\* the registers hold the objects that the program put there; what they reach is
\* there once, however many pointers there are to it, with the fields that the program
\* gave it; and the resource of an object is not freed while it can be reached.
CopyInvisible ==
  /\ \A i \in 1 .. NRegs : NameOf(regs[i]) = rooted[i]
  /\ \A n \in Reachable :
       LET cells == {c \in Current : mem[c].name = n}
           c == CHOOSE d \in cells : TRUE IN
       /\ Cardinality(cells) = 1
       /\ mem[c].type = built[n].type
       /\ IF built[n].type = "user" THEN n \in open
          ELSE NameOf(mem[c].car) = built[n].car /\ NameOf(mem[c].cdr) = built[n].cdr
=============================================================================
