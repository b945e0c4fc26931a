------------------------------- MODULE Sybase -------------------------------
(***************************************************************************)
(* The Sybase interface (sql_sybase.c): a connection is set up in stages,  *)
(* each of which may fail and then tears down what there is; and the one   *)
(* command of a connection is built, sent, and its results are fetched.    *)
(* The collector tears down what the program drops. A handler of the       *)
(* library's messages conses, so that an error may leave any call of the   *)
(* library.                                                                *)
(***************************************************************************)
EXTENDS Integers, Sequences

CONSTANTS Cells,   \* cells that may become connections
          MaxRows, \* bound: rows and arguments in a row
          None

VARIABLES
  typed, held,   \* cells of type tc_sybase_state, those the program has
  fields,        \* of each: which of Stages are set, or None if data is NULL
  opened,        \* what the library has of each cell
  default,       \* *sybase*
  working,       \* the cell sybase_setup or sybase_execute works on
  step,          \* what it does: "setup", "arguments", "results", "rows"
  command,       \* of each cell: "clean", "built" or "sent"
  rows,          \* how many of what step counts
  left           \* history: cells left by an error in the middle

vars == <<typed, held, fields, opened, default, working, step, command, rows, left>>

\* In the order of sybase_setup: cs_ctx_alloc, ct_init, ct_con_alloc, ct_connect and
\* ct_cmd_alloc.
Stages == <<"cp", "inited", "conn", "connected", "cmd">>
Complete == {Stages[i] : i \in DOMAIN Stages}
NextStage(set) == CHOOSE i \in 1 .. Len(Stages) : Stages[i] \notin set /\ \A j \in 1 .. i - 1 : Stages[j] \in set

Init == /\ typed = {} /\ held = {} /\ default = None /\ left = {}
        /\ fields = [c \in Cells |-> None] /\ opened = [c \in Cells |-> {}]
        /\ working = None /\ step = "setup" /\ rows = 0
        /\ command = [c \in Cells |-> "clean"]

\* sybase_open: the cell, the state, all zero.
Open(c) ==
  /\ working = None /\ c \notin typed /\ opened[c] = {}
  /\ typed' = typed \union {c} /\ fields' = [fields EXCEPT ![c] = {}]
  /\ working' = c /\ step' = "setup"
  /\ UNCHANGED <<held, opened, default, command, rows, left>>

\* A stage succeeds; the last makes the connection the program's, and *sybase* if
\* there is none.
Stage ==
  /\ working # None /\ step = "setup"
  /\ LET c == working  name == Stages[NextStage(fields[c])] IN
     /\ fields' = [fields EXCEPT ![c] = @ \union {name}]
     /\ opened' = [opened EXCEPT ![c] = @ \union {name}]
     /\ IF name = "cmd"
        THEN /\ working' = None /\ held' = held \union {c}
             /\ default' = IF default = None THEN c ELSE default
        ELSE UNCHANGED <<working, held, default>>
  /\ UNCHANGED <<typed, step, command, rows, left>>

\* What the fields say the library has.
Told(c) == IF fields[c] = None THEN {} ELSE fields[c]

\* sybase_teardown: each stage whose field is set, in the reverse order.
Teardown(c) ==
  /\ opened' = [opened EXCEPT ![c] = @ \ Told(c)]
  /\ command' = [command EXCEPT ![c] = "clean"]

\* A stage fails: teardown, and sybase_open's error. The cell keeps the zeroed state.
StageFails ==
  /\ working # None /\ step = "setup"
  /\ Teardown(working) /\ fields' = [fields EXCEPT ![working] = {}] /\ working' = None
  /\ UNCHANGED <<typed, held, default, step, rows, left>>

\* The handler's cons fails inside the stage: what the library has by then, the field
\* does not say.
StageThrows ==
  /\ working # None /\ step = "setup"
  /\ \/ UNCHANGED opened
     \/ opened' = [opened EXCEPT ![working] = @ \union {Stages[NextStage(fields[working])]}]
  /\ left' = left \union {working} /\ working' = None
  /\ UNCHANGED <<typed, held, fields, default, step, command, rows>>

\* sybase_close, of what is open; of *sybase* if none is given.
Close(c) ==
  /\ working = None /\ c \in held \union ({default} \ {None}) /\ fields[c] # None
  /\ Teardown(c) /\ fields' = [fields EXCEPT ![c] = None]
  /\ default' = IF default = c THEN None ELSE default
  /\ UNCHANGED <<typed, held, working, step, rows, left>>

Drop(c) == /\ working = None /\ c \in held /\ held' = held \ {c}
           /\ UNCHANGED <<typed, fields, opened, default, working, step, command, rows, left>>

\* sybase_gc_free.
GcFree(c) ==
  /\ c \in typed \ (held \union {default, working})
  /\ Teardown(c)
  /\ fields' = [fields EXCEPT ![c] = None] /\ typed' = typed \ {c}
  /\ UNCHANGED <<held, default, working, step, rows, left>>

-----------------------------------------------------------------------------
(* sybase_execute, on a clean command: what the library makes of another   *)
(* is unknown.                                                             *)

\* ct_command, if it succeeds.
Command(c) ==
  /\ working = None /\ c \in held \union ({default} \ {None}) /\ fields[c] = Complete
  /\ command[c] = "clean"
  /\ command' = [command EXCEPT ![c] = "built"] /\ working' = c /\ step' = "arguments" /\ rows' = 0
  /\ UNCHANGED <<typed, held, fields, opened, default, left>>

\* ct_param.
Param ==
  /\ working # None /\ step = "arguments" /\ rows < MaxRows /\ rows' = rows + 1
  /\ UNCHANGED <<typed, held, fields, opened, default, working, step, command, left>>

\* ct_send.
Send ==
  /\ working # None /\ step = "arguments"
  /\ command' = [command EXCEPT ![working] = "sent"] /\ step' = "results" /\ rows' = 0
  /\ UNCHANGED <<typed, held, fields, opened, default, working, left>>

\* ct_results: a result that has rows; one that has none, or an unexpected one, which
\* is cancelled; no more.
Results ==
  /\ working # None /\ step = "results"
  /\ \/ step' = "rows" /\ rows' = 0 /\ UNCHANGED <<working, command>>
     \/ rows < MaxRows /\ rows' = rows + 1 /\ UNCHANGED <<working, step, command>>
     \/ command' = [command EXCEPT ![working] = "clean"] /\ UNCHANGED <<working, step, rows>>
     \/ command' = [command EXCEPT ![working] = "clean"] /\ working' = None /\ UNCHANGED <<step, rows>>
  /\ UNCHANGED <<typed, held, fields, opened, default, left>>

\* fetch_data: ct_fetch, and a row; the end of the data.
Fetch ==
  /\ working # None /\ step = "rows"
  /\ \/ rows < MaxRows /\ rows' = rows + 1 /\ UNCHANGED step
     \/ step' = "results" /\ rows' = MaxRows
  /\ UNCHANGED <<typed, held, fields, opened, default, working, command, left>>

\* Mutant of Cancelled: a failure in the rows returns at once.
CancelledNot(c) == UNCHANGED command

\* ct_cancel(CS_CANCEL_ALL).
Cancelled(c) == command' = [command EXCEPT ![c] = "clean"]

\* fetch_data fails in a call of the library.
FetchFails ==
  /\ working # None /\ step = "rows" /\ Cancelled(working) /\ working' = None
  /\ UNCHANGED <<typed, held, fields, opened, default, step, rows, left>>

\* ct_param or ct_send fails, or an error leaves sybase_execute: "todo: a ct_cancel if
\* lisp error throws through fetch_data". The command stays as it is.
Abandoned ==
  /\ working # None /\ step # "setup"
  /\ left' = left \union {working} /\ working' = None
  /\ UNCHANGED <<typed, held, fields, opened, default, step, command, rows>>

Next == \/ Stage \/ StageFails \/ StageThrows
        \/ \E c \in Cells : Open(c) \/ Close(c) \/ Drop(c) \/ GcFree(c) \/ Command(c)
        \/ Param \/ Send \/ Results \/ Fetch \/ FetchFails \/ Abandoned

-----------------------------------------------------------------------------
\* What the library has of a connection is what its fields say, so that closing or
\* collecting it gives back each of them once and leaves none, whichever stage of
\* setup failed; and between two calls the command of every open connection is one
\* that ct_command accepts, however the last execute ended.  Unless an error went
\* through the library, or execute was abandoned in the middle.
ConnectionSound ==
  /\ \A c \in Cells \ left : opened[c] = Told(c)
  /\ \A c \in Cells \ (left \union {working}) : command[c] = "clean"
=============================================================================
