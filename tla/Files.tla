------------------------------- MODULE Files -------------------------------
(***************************************************************************)
(* Files, pipes, directories, DBM files and images as cells with a C       *)
(* resource (slib.c, slibu.c, ndbm.c, gd.c), and what load, require and    *)
(* save-forms do with files.                                               *)
(*                                                                         *)
(* stack has the activations of vload and save_forms.  An error unwinds to *)
(* any form that is a *catch, or to the driver; their files stay open      *)
(* then, until the collector comes to the cells.  A form of a library is   *)
(* <<"plain", None>>, <<"require", l>>, or <<"try", l>>: a require in a    *)
(* *catch.                                                                 *)
(***************************************************************************)
EXTENDS Integers, Sequences, SequencesExt, FiniteSets

CONSTANTS Cells,     \* cells that may become files
          Handles,   \* addresses of what they open: malloc hands them out again
          Contents,  \* the forms of each library
          Parser,    \* the library its first line names as "parser:", or none
          Depth,     \* bound: nested loads, where STACK_CHECK fails
          None

VARIABLES
  type,     \* each cell: "free", "file", "dir", "dbm", "image"
  f,        \* its FILE, DIR, DBM or image, 0 after it was closed
  opened,   \* the handles that are open
  held,     \* the cells the program has
  stack,    \* the activations of vload and save_forms, outermost first
  loaded,   \* the libraries whose *xxx-loaded* is true
  complete  \* history: those of which every form was evaluated

vars == <<type, f, opened, held, stack, loaded, complete>>

Libraries == DOMAIN Contents
Forms(file) == IF file = None THEN 2 ELSE Len(Contents[file])   \* save-forms: two

Init == /\ type = [c \in Cells |-> "free"] /\ f = [c \in Cells |-> 0]
        /\ opened = {} /\ held = {}
        /\ stack = <<>> /\ loaded = {} /\ complete = {}

Running == {stack[i].lf : i \in DOMAIN stack}
Active  == stack[Len(stack)]
Size(a) == Forms(a.file)

-----------------------------------------------------------------------------
(* The resources.                                                          *)

\* fopen_cg: the cell is typed before fcn is called, so that the collector closes
\* what fcn opened when must_malloc then fails.
Fopen(c, h) ==
  /\ type[c] = "free" /\ h \notin opened
  /\ type' = [type EXCEPT ![c] = "file"]
  /\ f' = [f EXCEPT ![c] = h] /\ opened' = opened \union {h}

\* (fopen) and (popen): failing before or after the file is open.
Open ==
  \E c \in Cells :
    /\ \/ \E h \in Handles : Fopen(c, h) /\ held' \in {held, held \union {c}}
       \/ /\ type[c] = "free" /\ type' = [type EXCEPT ![c] = "file"]
          /\ UNCHANGED <<f, opened, held>>
    /\ UNCHANGED <<stack, loaded, complete>>

\* A cell gets a resource, before or after it is typed, with interrupts blocked and
\* no cons between.
Hold(kind) ==
  \E c \in Cells, h \in Handles :
    /\ type[c] = "free" /\ h \notin opened
    /\ type' = [type EXCEPT ![c] = kind] /\ f' = [f EXCEPT ![c] = h]
    /\ opened' = opened \union {h} /\ held' = held \union {c}
    /\ UNCHANGED <<stack, loaded, complete>>

Opendir == Hold("dir")
LdbmOpen == Hold("dbm")
ImageCreate == Hold("image")

\* Mutant of Released: the cell keeps the address.
ReleasedStale(c) == opened' = opened \ {f[c]} /\ UNCHANGED f

\* What is open in a cell is closed and forgotten.
Released(c) ==
  /\ opened' = opened \ {f[c]}
  /\ f' = [f EXCEPT ![c] = 0]

\* (fclose), which closes a closed file again in vain; (pclose), even when the
\* process fails, (closedir) and (dbm-close), which err on a closed one.
Close(c) ==
  /\ c \in held /\ type[c] \notin {"free", "image"}
  /\ \/ type[c] = "file"
     \/ f[c] # 0
  /\ Released(c)
  /\ UNCHANGED <<type, held, stack, loaded, complete>>

Drop(c) == c \in held /\ held' = held \ {c} /\ UNCHANGED <<type, f, opened, stack, loaded, complete>>

\* file_gc_free, opendir_gc_free, dbm_gc_free and gdimage_gc_free, when a sweep comes
\* to the cell.
GcFree(c) ==
  /\ c \notin held \union Running /\ type[c] # "free"
  /\ Released(c) /\ type' = [type EXCEPT ![c] = "free"]
  /\ UNCHANGED <<held, stack, loaded, complete>>

-----------------------------------------------------------------------------
(* load, require, save-forms.                                              *)

\* Position -1 is the head of a file that names a parser, which is required first.
Form(a) == IF a.op = "save" THEN <<"plain", None>>
           ELSE IF a.pos = -1 THEN <<"require", Parser[a.file]>>
           ELSE Contents[a.file][a.pos + 1]

\* vload and save_forms open their file.
Push(file, op) ==
  \E c \in Cells, h \in Handles :
    /\ Len(stack) < Depth /\ Fopen(c, h)
    /\ stack' = Append(stack, [file |-> file, op |-> op, lf |-> c,
                               pos |-> IF op # "save" /\ Parser[file] # None THEN -1 ELSE 0])

\* An error in form number k's evaluation goes to the innermost *catch, whose form
\* then is done, or to the driver.
Thrown(top) ==
  LET catches == {k \in 1 .. top : Form(stack[k])[1] = "try"} IN
  stack' = IF catches = {} THEN <<>>
           ELSE [SubSeq(stack, 1, Max(catches)) EXCEPT ![Max(catches)].pos = @ + 1]

\* The program calls load or save-forms.
Start ==
  /\ stack = <<>>
  /\ \/ \E l \in Libraries : Push(l, "load")
     \/ Push(None, "save")
  /\ UNCHANGED <<held, loaded, complete>>

Done == stack' = [stack EXCEPT ![Len(stack)].pos = @ + 1]

\* A form that is read and evaluated, or printed, and loads nothing; and an error
\* in its evaluation.
Plain ==
  /\ stack # <<>> /\ Active.pos < Size(Active) /\ Form(Active)[1] = "plain"
  /\ Done \/ Thrown(Len(stack))
  /\ UNCHANGED <<type, f, opened, held, loaded, complete>>

\* The reader fails, outside any *catch of the form it reads.
ReadFails ==
  /\ stack # <<>> /\ Active.pos < Size(Active) /\ Thrown(Len(stack) - 1)
  /\ UNCHANGED <<type, f, opened, held, loaded, complete>>

\* Mutant of Mark: a library counts as loaded when its load begins.
MarkEarly(l, now) == loaded' = loaded \union {l}

\* require sets *xxx-loaded* after load has returned (now).
Mark(l, now) == loaded' = IF now THEN loaded \union {l} ELSE loaded

\* require: nothing if the mark is set, or else a load, which may find no file, or
\* fail with the file open.
Require ==
  /\ stack # <<>> /\ Active.pos < Size(Active) /\ Form(Active)[1] \in {"require", "try"}
  /\ LET l == Form(Active)[2] IN
     IF l \in loaded THEN Done /\ UNCHANGED <<type, f, opened, loaded>>
     ELSE \/ Push(l, "require") /\ Mark(l, FALSE)
          \/ /\ Thrown(Len(stack)) /\ UNCHANGED loaded
             /\ \/ UNCHANGED <<type, f, opened>>
                \/ \E c \in Cells, h \in Handles : Fopen(c, h)
  /\ UNCHANGED <<held, complete>>

\* The end of the file: fclose_l, and back to the form that loaded it.
EndOfFile ==
  /\ stack # <<>> /\ Active.pos = Size(Active)
  /\ Released(Active.lf)
  /\ stack' = IF Len(stack) = 1 THEN <<>> ELSE [Front(stack) EXCEPT ![Len(stack) - 1].pos = @ + 1]
  /\ Mark(Active.file, Active.op = "require")
  /\ complete' = IF Active.op = "save" THEN complete ELSE complete \union {Active.file}
  /\ UNCHANGED <<type, held>>

Next == \/ Open \/ Opendir \/ LdbmOpen \/ ImageCreate
        \/ \E c \in Cells : Close(c) \/ Drop(c) \/ GcFree(c)
        \/ Start \/ Plain \/ ReadFails \/ Require \/ EndOfFile

-----------------------------------------------------------------------------
\* Each open FILE, DIR, DBM or image is in one cell, whose type makes the collector close it,
\* and no cell has one that is closed, after whatever errors left functions that
\* were using it (fopen_cg, vload, save_forms, file_gc_free): none is lost, closed
\* twice or used after its end.
OneCellPerHandle ==
  \A h \in Handles : Cardinality({c \in Cells : f[c] = h /\ type[c] # "free"}) = IF h \in opened THEN 1 ELSE 0

\* When a form of a library is evaluated, every library that it has required in an
\* earlier form is loaded to its last form, though requires nest, come in circles,
\* fail and are caught (require, vload).
RequiredIsLoaded ==
  \A k \in DOMAIN stack : stack[k].op # "save" =>
    /\ stack[k].pos >= 0 => Parser[stack[k].file] \in loaded \union {None}
    /\ \A i \in 1 .. stack[k].pos : Contents[stack[k].file][i][1] = "require"
                                      => Contents[stack[k].file][i][2] \in complete
=============================================================================
