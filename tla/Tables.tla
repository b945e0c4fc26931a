------------------------------- MODULE Tables -------------------------------
(***************************************************************************)
(* The two tables of lists the interpreter keeps: obarray, where gen_intern *)
(* looks symbols up and enters them, and a hash table of hset and href.     *)
(* Both read a bucket, cons, and store what they consed.  Any cons may      *)
(* collect and evaluate *after-gc*, any Lisp code, which interns and sets   *)
(* in turn, and any cons may fail.                                          *)
(*                                                                         *)
(* A list is what its first match by name makes of it, a function; consing  *)
(* in front overrides it at one name.  Lists are never changed in place, so *)
(* a bucket that was read is a value.  Symbols and entries are numbered as  *)
(* they are made, 0 is NIL.                                                 *)
(***************************************************************************)
EXTENDS Integers, Sequences

CONSTANTS Names, Keys, Values, NIL,
          Dims,     \* values of obarray_dim, the flag -o
          NameHash, \* the hash of a name, up to % obarray_dim
          Index,    \* href_index of a key in the hash table
          MaxNew,   \* bound: symbols and entries made
          Nesting   \* bound: activations

ASSUME NamesAssumption == NameHash \in [Names -> Nat] /\ Dims \subseteq Nat \ {0}
ASSUME NilAssumption == NIL \notin Keys \union Values
ASSUME BoundsAssumption == MaxNew \in Nat /\ Nesting \in Nat \ {0}

Slots   == {Index[k] : k \in Keys}
Objects == 0 .. MaxNew
List    == [Names -> Objects]
Alist   == [Keys -> Objects]

VARIABLES
  obarray_dim, obarray, oblistvar,
  data,      \* the array of the hash table
  car, cdr,  \* key and value of its entries
  made,      \* symbols and entries made
  stack,     \* activations, innermost last; the first is the program
  last,      \* history: the last value set for a key, of no value NIL
  returned   \* history: the symbol intern last returned for a name

vars == <<obarray_dim, obarray, oblistvar, data, car, cdr, made, stack, last, returned>>

\* Lisp code, with the symbols that intern returned to it and the keys that it
\* has set; gen_intern and hset from when they have found nothing, before which
\* cons they are, and if that has collected.
Lisp(seen, keys) == [op |-> "lisp", seen |-> seen, keys |-> keys]
InternAt(at, n, sl, sym, ol) ==
  [op |-> "intern", at |-> at, name |-> n, sl |-> sl, sym |-> sym, ol |-> ol]
HsetAt(at, k, v, l, cell) ==
  [op |-> "hset", at |-> at, key |-> k, value |-> v, l |-> l, cell |-> cell]

Empty == [n \in Names |-> 0]

Init ==
  /\ obarray_dim \in Dims
  /\ obarray = [h \in 0 .. obarray_dim - 1 |-> Empty] /\ oblistvar = Empty
  /\ data = [i \in Slots |-> [k \in Keys |-> 0]]
  /\ car = [c \in 1 .. MaxNew |-> NIL] /\ cdr = [c \in 1 .. MaxNew |-> NIL]
  /\ made = 0
  /\ stack = <<Lisp(Empty, {})>>
  /\ last = [k \in Keys |-> NIL] /\ returned = Empty

Top        == stack[Len(stack)]
Calling(f) == stack' = Append(stack, f)
Going(f)   == stack' = [stack EXCEPT ![Len(stack)] = f]

Caller     == stack[Len(stack) - 1]

\* The activation on top returns to its caller, which is then f.
Returning(f) ==
  stack' = [SubSeq(stack, 1, Len(stack) - 1) EXCEPT ![Len(stack) - 1] = f]

Room    == Len(stack) < Nesting /\ made < MaxNew
Running == Top.op = "lisp"

-----------------------------------------------------------------------------
(* gen_intern *)

Hash(n)  == NameHash[n] % obarray_dim
Hashed   == obarray_dim > 1

\* The list where gen_intern looks for a name.
Bucket(n) == IF Hashed THEN obarray[Hash(n)] ELSE oblistvar

Seeing(f, n, sym) == Lisp([f.seen EXCEPT ![n] = sym], f.keys)

\* The name is found.
InternFound(n) ==
  LET sym == Bucket(n)[n]
  IN  /\ Running /\ sym # 0
      /\ Going(Seeing(Top, n, sym))
      /\ returned' = [returned EXCEPT ![n] = sym]
      /\ UNCHANGED <<obarray_dim, obarray, oblistvar, data, car, cdr, made, last>>

\* Mutant of InternMissing: names are not compared.
InternMissingAlways(n) == TRUE

InternMissing(n) == Bucket(n)[n] = 0

\* It is not; gen_intern keeps the list as it is now.
InternNew(n) ==
  /\ Running /\ Room /\ InternMissing(n)
  /\ Calling(InternAt("symcons", n, Bucket(n), 0, Empty))
  /\ UNCHANGED <<obarray_dim, obarray, oblistvar, data, car, cdr, made, last, returned>>

\* symcons.  Of the next cons the arguments are evaluated.
Symcons ==
  /\ Top.op = "intern" /\ Top.at = "symcons"
  /\ made < MaxNew /\ made' = made + 1
  /\ Going(InternAt(IF Hashed THEN "bucket" ELSE "oblist",
                    Top.name, Top.sl, made + 1, oblistvar))
  /\ UNCHANGED <<obarray_dim, obarray, oblistvar, data, car, cdr, last, returned>>

\* obarray[hash] = cons (sym, sl)
BucketCons ==
  /\ Top.op = "intern" /\ Top.at = "bucket"
  /\ obarray' = [obarray EXCEPT ![Hash(Top.name)] = [Top.sl EXCEPT ![Top.name] = Top.sym]]
  /\ Going(InternAt("oblist", Top.name, Top.sl, Top.sym, oblistvar))
  /\ UNCHANGED <<obarray_dim, oblistvar, data, car, cdr, made, last, returned>>

\* oblistvar = cons (sym, oblistvar)
OblistCons ==
  /\ Top.op = "intern" /\ Top.at = "oblist"
  /\ oblistvar' = [Top.ol EXCEPT ![Top.name] = Top.sym]
  /\ Returning(Seeing(Caller, Top.name, Top.sym))
  /\ returned' = [returned EXCEPT ![Top.name] = Top.sym]
  /\ UNCHANGED <<obarray_dim, obarray, data, car, cdr, made, last>>

-----------------------------------------------------------------------------
(* hset and href *)

Slot(k) == data[Index[k]]
Href(k) == IF Slot(k)[k] = 0 THEN NIL ELSE cdr[Slot(k)[k]]

Setting(f, k) == Lisp(f.seen, f.keys \union {k})

\* The key has an entry, which is changed in place.
HsetFound(k, v) ==
  /\ Running /\ Slot(k)[k] # 0
  /\ cdr' = [cdr EXCEPT ![Slot(k)[k]] = v]
  /\ Going(Setting(Top, k))
  /\ last' = [last EXCEPT ![k] = v]
  /\ UNCHANGED <<obarray_dim, obarray, oblistvar, data, car, made, returned>>

\* It has none; hset keeps the list as it is now.
HsetNew(k, v) ==
  /\ Running /\ Room /\ Slot(k)[k] = 0
  /\ Calling(HsetAt("entry", k, v, Slot(k), 0))
  /\ UNCHANGED <<obarray_dim, obarray, oblistvar, data, car, cdr, made, last, returned>>

\* cell = cons (key, value)
EntryCons ==
  /\ Top.op = "hset" /\ Top.at = "entry"
  /\ made < MaxNew /\ made' = made + 1
  /\ car' = [car EXCEPT ![made + 1] = Top.key]
  /\ cdr' = [cdr EXCEPT ![made + 1] = Top.value]
  /\ Going(HsetAt("slot", Top.key, Top.value, Top.l, made + 1))
  /\ UNCHANGED <<obarray_dim, obarray, oblistvar, data, last, returned>>

\* Mutant of Linked: the list ends with the new entry.
LinkedAlone(l, k, cell) == [j \in Keys |-> IF j = k THEN cell ELSE 0]

\* cons (cell, l)
Linked(l, k, cell) == [l EXCEPT ![k] = cell]

\* The array's slot is set to it.
SlotCons ==
  /\ Top.op = "hset" /\ Top.at = "slot"
  /\ data' = [data EXCEPT ![Index[Top.key]] = Linked(Top.l, Top.key, Top.cell)]
  /\ Returning(Setting(Caller, Top.key))
  /\ last' = [last EXCEPT ![Top.key] = Top.value]
  /\ UNCHANGED <<obarray_dim, obarray, oblistvar, car, cdr, made, returned>>

-----------------------------------------------------------------------------
(* What may happen at any cons *)

\* NEWCELL collects and evaluates *after-gc*.  It does that once, but what twice
\* can do to the tables a longer expression can do at once.
AfterGc ==
  /\ Top.op # "lisp" /\ Len(stack) < Nesting
  /\ Calling(Lisp(Empty, {}))
  /\ UNCHANGED <<obarray_dim, obarray, oblistvar, data, car, cdr, made, last, returned>>

AfterGcReturn ==
  /\ Running /\ Len(stack) > 1
  /\ stack' = SubSeq(stack, 1, Len(stack) - 1)
  /\ UNCHANGED <<obarray_dim, obarray, oblistvar, data, car, cdr, made, last, returned>>

\* An error, of must_malloc or of a cons, or a *throw, to Lisp code that
\* catches it, at the latest the driver.
Unwind ==
  /\ \E d \in DOMAIN stack :
       stack[d].op = "lisp" /\ stack' = SubSeq(stack, 1, d)
  /\ UNCHANGED <<obarray_dim, obarray, oblistvar, data, car, cdr, made, last, returned>>

Next ==
  \/ Symcons \/ BucketCons \/ OblistCons \/ EntryCons \/ SlotCons
  \/ AfterGc \/ AfterGcReturn \/ Unwind
  \/ \E n \in Names : InternFound(n) \/ InternNew(n)
  \/ \E k \in Keys, v \in Values : HsetFound(k, v) \/ HsetNew(k, v)

Spec == Init /\ [][Next]_vars

-----------------------------------------------------------------------------
Activation ==
  [op : {"lisp"}, seen : List, keys : SUBSET Keys]
    \union [op : {"intern"}, at : {"symcons", "bucket", "oblist"}, name : Names,
            sl : List, sym : Objects, ol : List]
    \union [op : {"hset"}, at : {"entry", "slot"}, key : Keys, value : Values,
            l : Alist, cell : Objects]

\* Tables hold objects that were made, and C code is called by Lisp code.
TypeOK ==
  /\ obarray_dim \in Dims
  /\ obarray \in [0 .. obarray_dim - 1 -> List] /\ oblistvar \in List
  /\ data \in [Slots -> Alist]
  /\ car \in [1 .. MaxNew -> Keys \union {NIL}]
  /\ cdr \in [1 .. MaxNew -> Values \union {NIL}]
  /\ made \in 0 .. MaxNew
  /\ stack \in Seq(Activation) /\ Len(stack) \in 1 .. Nesting
  /\ stack[1].op = "lisp"
  /\ \A i \in 2 .. Len(stack) : "lisp" \in {stack[i - 1].op, stack[i].op}
  /\ last \in [Keys -> Values \union {NIL}] /\ returned \in List

\* As long as Lisp code runs that intern returned a symbol to, its name is
\* looked up and that symbol is found, whatever *after-gc* enters meanwhile
\* and whichever cons fails (gen_intern).
SymbolsKept ==
  \A i \in DOMAIN stack : stack[i].op = "lisp" =>
    \A n \in Names : stack[i].seen[n] # 0 => Bucket(n)[n] = stack[i].seen[n]

\* As long as Lisp code runs that has set a key, href gives the value that was
\* last set for it, by this code or by *after-gc* (hset, href).
HrefLatest ==
  \A i \in DOMAIN stack : stack[i].op = "lisp" =>
    \A k \in stack[i].keys : Href(k) = last[k]

\* siod.html: intern "Looks up a string in the symbol table or enters a new
\* symbol": it does not enter a second one for a name.
OneSymbol ==
  [][\A n \in Names : returned[n] # 0 => returned'[n] = returned[n]]_vars
=============================================================================
