------------------------------- MODULE Oracle -------------------------------
(***************************************************************************)
(* Statements of the Oracle interface (sql_oracle.c).  A cell of type      *)
(* tc_extra holds a cstatement: a cursor, malloc'ed and opened on the      *)
(* server, and the buffers of the columns it selects.  There is one        *)
(* connection. Calls of the library may fail, and the error leaves the C   *)
(* function; the collector frees the cells the program has dropped, and    *)
(* an error in it ends the process.  After the failure of osql3 or oclose  *)
(* a statement keeps the address of a cursor that was freed.               *)
(***************************************************************************)
EXTENDS Integers, Sequences, FiniteSets

CONSTANTS Statements,  \* cells that may hold a cstatement
          Cursors,     \* addresses of cda_defs: malloc hands them out again
          MaxColumns   \* bound: columns of a select

VARIABLES
  orlon_ok,
  typed, held,         \* cells that are cstatements, cells the program has
  cursor, selects,     \* of each statement: its cursor, its columns with a buffer
  preparing,           \* the statement prepare_statement works on
  malloced, atServer,  \* addresses in use, and cursors that the server has open
  process,             \* "runs"; "exited" in an error; "wild" after free of what is free
  shut,                \* history: statements with a cursor when ologof closed it,
  freed,               \* those that kept a freed cursor when osql3 or oclose failed,
  robbed,              \* those whose cursor another statement has freed
  again                \* history: one of freed was released once more

history == <<shut, freed, robbed, again>>
vars == <<orlon_ok, typed, held, cursor, selects, preparing, malloced, atServer, process, history>>

Init == /\ orlon_ok = FALSE /\ typed = {} /\ held = {} /\ preparing = 0 /\ process = "runs"
        /\ cursor = [s \in Statements |-> 0] /\ selects = [s \in Statements |-> 0]
        /\ malloced = {} /\ atServer = {}
        /\ shut = {} /\ freed = {} /\ robbed = {} /\ again = FALSE

Resting == process = "runs" /\ preparing = 0
Preparing == process = "runs" /\ preparing # 0

\* l_orlon, once until l_ologof: "calling orlon twice will corrupt your process".
Orlon ==
  /\ Resting /\ ~ orlon_ok /\ orlon_ok' = TRUE
  /\ UNCHANGED <<typed, held, cursor, selects, preparing, malloced, atServer, process, history>>

\* l_ologof: the server forgets the cursors, the statements keep theirs.
Ologof ==
  /\ Resting /\ orlon_ok
  /\ orlon_ok' = FALSE /\ atServer' = {} /\ shut' = {s \in Statements : cursor[s] # 0}
  /\ UNCHANGED <<typed, held, cursor, selects, preparing, malloced, process, freed, robbed, again>>

-----------------------------------------------------------------------------
\* free_cursor: what has the address by now goes, of whichever statement it is.
FreeCursor(s) ==
  /\ malloced' = malloced \ {cursor[s]} /\ atServer' = atServer \ {cursor[s]}

\* The statements that have a cursor of their own.
Owners == {s \in Statements : cursor[s] # 0} \ (freed \union robbed)

Robbed(s) == {r \in Owners \ {s} : cursor[r] = cursor[s]}

\* free of an address that malloc has not given out.
Twice(s) == cursor[s] \notin malloced \union {0}

\* Mutant of Forget: the cursor stays in the statement.
ForgetNot(s) == UNCHANGED <<cursor, shut, freed>>

\* c->cursor = NULL.
Forget(s) == /\ cursor' = [cursor EXCEPT ![s] = 0]
             /\ shut' = shut \ {s} /\ freed' = freed \ {s}

\* release_statement: buffers, then the cursor.  free_cursor frees it even when
\* oclose fails, but its error comes before c->cursor = NULL; failing is what
\* becomes of the process then.
Release(s, failing) ==
  /\ selects' = [selects EXCEPT ![s] = 0]
  /\ FreeCursor(s)
  /\ again' = (again \/ (s \in freed /\ cursor[s] # 0))
  /\ \/ Forget(s) /\ process' = IF Twice(s) THEN "wild" ELSE "runs"
     \/ /\ cursor[s] # 0 /\ freed' = freed \union {s} /\ UNCHANGED <<cursor, shut>>
        /\ process' = IF Twice(s) THEN "wild" ELSE failing
  /\ robbed' = (robbed \ {s}) \union Robbed(s)

\* oracle_sql_prepare, extcons and oopen; oopen's failure frees what it was for.
Prepare(s) ==
  /\ Resting /\ s \notin typed
  /\ typed' = typed \union {s}
  /\ \/ \E c \in Cursors \ malloced :
          /\ orlon_ok
          /\ malloced' = malloced \union {c} /\ atServer' = atServer \union {c}
          /\ cursor' = [cursor EXCEPT ![s] = c] /\ preparing' = s /\ UNCHANGED held
     \/ UNCHANGED <<held, cursor, preparing, malloced, atServer>>
  /\ UNCHANGED <<orlon_ok, selects, process, history>>

\* osql3 fails: prepare_statement frees the cursor and leaves it in c.
Osql3Fails ==
  /\ Preparing /\ selects[preparing] = 0
  /\ FreeCursor(preparing) /\ freed' = freed \union {preparing} /\ preparing' = 0
  /\ UNCHANGED <<orlon_ok, typed, held, cursor, selects, process, shut, robbed, again>>

\* One column: odsc, its buffer, odefin.
Describe ==
  /\ Preparing /\ selects[preparing] < MaxColumns
  /\ selects' = [selects EXCEPT ![preparing] = @ + 1]
  /\ UNCHANGED <<orlon_ok, typed, held, cursor, preparing, malloced, atServer, process, history>>

\* odsc or odefin fails: what was made is released before the error.
DescribeFails ==
  /\ Preparing /\ Release(preparing, "runs")
  /\ preparing' = 0
  /\ UNCHANGED <<orlon_ok, typed, held>>

\* odsc finds no more columns.
Prepared ==
  /\ Preparing
  /\ held' = held \union {preparing} /\ preparing' = 0
  /\ UNCHANGED <<orlon_ok, typed, cursor, selects, malloced, atServer, process, history>>

\* oracle_execute, oracle_fetch and the accessors go through get_cstatement.
Usable(s) == Resting /\ s \in held /\ cursor[s] # 0

\* oracle_sql_release.
SqlRelease(s) ==
  /\ Usable(s) /\ Release(s, "runs")
  /\ UNCHANGED <<orlon_ok, typed, held, preparing>>

Drop(s) ==
  /\ Resting /\ s \in held /\ held' = held \ {s}
  /\ UNCHANGED <<orlon_ok, typed, cursor, selects, preparing, malloced, atServer, process, history>>

\* extra_gc_free; errjmp_ok is 0.
GcFree(s) ==
  /\ Resting /\ s \in typed \ held
  /\ typed' = typed \ {s} /\ Release(s, "exited")
  /\ UNCHANGED <<orlon_ok, held, preparing>>

Next == \/ Orlon \/ Ologof \/ Osql3Fails \/ Describe \/ DescribeFails \/ Prepared
        \/ \E s \in Statements : Prepare(s) \/ SqlRelease(s) \/ Drop(s) \/ GcFree(s)

-----------------------------------------------------------------------------
\* Every address in use is the cursor of one statement, and is open on the server
\* unless ologof closed it, at whichever column prepare_statement failed and whatever
\* was released or dropped: none is lost. (A cursor that oclose fails on may stay open
\* there, but nothing has its address.)  Exceptions are the statements whose osql3 or
\* oclose failed, which keep a freed cursor; and no cursor is freed twice, nor any
\* other statement's in its place, before one of those is released or collected.
CursorsOwned ==
  /\ malloced = {cursor[s] : s \in Owners}
  /\ atServer = {cursor[s] : s \in Owners \ shut}
  /\ \A s, r \in Owners : cursor[s] = cursor[r] => s = r
  /\ robbed # {} \/ process = "wild" => again
=============================================================================
