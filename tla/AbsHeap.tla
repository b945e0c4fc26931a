------------------------------ MODULE AbsHeap ------------------------------
(***************************************************************************)
(* What SIOD's storage management promises the Lisp program: objects keep   *)
(* the contents the program gave them for as long as it can reach them, and *)
(* a new object is never one of those.  There is no collector here: an      *)
(* object disappears with the last path to it.                              *)
(***************************************************************************)
CONSTANTS NIL, Cell

VARIABLES words,  \* what the program's variables hold
          obj     \* the objects the program can reach, with their contents

vars == <<words, obj>>

Object(values) == [type : {"cons", "user"}, car : values, cdr : values]

Fields(o, c) == IF o[c].type = "cons" THEN {o[c].car, o[c].cdr} \ {NIL} ELSE {}

Reach(o, from) ==
  LET closed == {S \in SUBSET DOMAIN o :
                   from \subseteq S /\ \A d \in S : Fields(o, d) \subseteq S}
  IN  {c \in DOMAIN o : \A S \in closed : c \in S}

Trim(o, from) == [c \in Reach(o, from) |-> o[c]]

TypeOK == /\ words \in SUBSET Cell
          /\ DOMAIN obj \subseteq Cell
          /\ obj \in [DOMAIN obj -> Object(Cell \union {NIL})]

Init == words = {} /\ obj = [c \in {} |-> NIL]

\* The program's words after a step, and with them the objects that remain.
Hold(s, o) == words' = s /\ obj' = Trim(o, s)

Alloc(c, o) ==
  /\ Hold(words \union {c},
           [d \in DOMAIN obj \union {c} |-> IF d = c THEN o ELSE obj[d]])

Load(w) ==
  /\ \E c \in words : w \in Fields(obj, c)
  /\ Hold(words \union {w}, obj)

\* Returning from procedures, or leaving them by an error.
Drop(S) == Hold(words \ S, obj)

SetFields(c, x, y) ==
  /\ words' = words
  /\ obj[c].type = "cons"
  /\ x \in words \union {NIL, obj[c].car} /\ y \in words \union {NIL, obj[c].cdr}
  /\ Hold(words, [obj EXCEPT ![c].car = x, ![c].cdr = y])

Next ==
  \/ \E c \in Cell \ DOMAIN obj, o \in Object(words \union {NIL}) : Alloc(c, o)
  \/ \E w \in Cell : Load(w)
  \/ \E S \in SUBSET words : Drop(S)
  \/ \E c \in words, x, y \in Cell \union {NIL} : SetFields(c, x, y)

Spec == Init /\ [][Next]_vars
=============================================================================
