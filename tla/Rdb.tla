-------------------------------- MODULE Rdb --------------------------------
(***************************************************************************)
(* The RDB interface (sql_rdb.c): associations with a server, and the      *)
(* statements prepared in them. Cells are of type tc_extra; the global     *)
(* list associations, and in each association the list statements, keep    *)
(* them from the collector, which frees storage only. Calls of the library *)
(* may fail; the error then leaves the C function.                         *)
(***************************************************************************)
EXTENDS Integers, Sequences, FiniteSets

CONSTANTS Associations, Statements,   \* cells that may hold one
          None

VARIABLES
  typed,         \* cells that hold an association or a statement
  held,          \* those the program has
  id,            \* which associations have an id
  associations,  \* the global list
  statements,    \* each association's list
  association,   \* each statement's association
  cursor,        \* each statement that has a cursor's name: "closed", "open"; None
  connected,     \* what the server has: associations,
  prepared,      \* and statements
  lost           \* history: what was left there, in no list, when a cons or a
                 \* release failed

vars == <<typed, held, id, associations, statements, association, cursor, connected, prepared, lost>>
server == <<connected, prepared, lost>>

Init == /\ typed = {} /\ held = {} /\ id = {} /\ associations = {}
        /\ statements = [a \in Associations |-> {}]
        /\ association = [s \in Statements |-> None] /\ cursor = [s \in Statements |-> None]
        /\ connected = {} /\ prepared = {} /\ lost = {}

\* sqlrtl_associate. sqlsrv_associate may set the id even if it fails: then it is
\* released, but stays in the cell, which the program does not get. A cons that fails,
\* or that release, whose status is not looked at, loses the association.
Associate(a) ==
  /\ a \notin typed /\ typed' = typed \union {a}
  /\ \/ /\ id' = id \union {a} /\ connected' = connected \union {a}
        /\ held' = held \union {a} /\ associations' = associations \union {a} /\ UNCHANGED lost
     \/ id' \in {id, id \union {a}} /\ UNCHANGED <<held, associations, connected, lost>>
     \/ /\ id' = id \union {a} /\ connected' = connected \union {a} /\ lost' = lost \union {a}
        /\ UNCHANGED <<held, associations>>
  /\ UNCHANGED <<statements, association, cursor, prepared>>

\* get_association with oflag; get_statement and the association of it.
Open(a) == a \in held /\ a \in id
Usable(s) == s \in held /\ s \in typed \intersect Statements /\ association[s] \in id

\* Its statements go with an association, on the server.
Of(a, objects) == {o \in objects \intersect Statements : association[o] = a}

\* sqlrtl_release: the association is cleared and leaves the list. If the library
\* fails, the server has it still, and what was prepared in it.
Release(a) ==
  /\ Open(a)
  /\ id' = id \ {a} /\ associations' = associations \ {a}
  /\ statements' = [statements EXCEPT ![a] = {}]
  /\ \/ /\ connected' = connected \ {a}
        /\ prepared' = prepared \ Of(a, prepared) /\ lost' = lost \ Of(a, lost)
     \/ /\ lost' = lost \union {a} \union Of(a, prepared) /\ UNCHANGED <<connected, prepared>>
  /\ UNCHANGED <<typed, held, association, cursor>>

\* Mutant of Allocated: the statement stays on the server when it gets no storage.
AllocatedKept(s, all) == prepared' = prepared \union {s}

\* sqlsrv_allocate_sqlda_data, of the parameters and of the columns: if one fails,
\* the statement is released, or lost if that fails too.
Allocated(s, all) == prepared' = IF all THEN prepared \union {s} ELSE prepared

\* sqlrtl_prepare: sqlsrv_prepare, the storage, then conses: the first may leave the
\* statement on the server and in no list; those for its names and its cursor leave
\* it in the list, and the program without it.
Prepare(a, s) ==
  /\ Open(a) /\ s \notin typed /\ typed' = typed \union {s}
  /\ association' = [association EXCEPT ![s] = a]
  /\ \/ /\ Allocated(s, TRUE) /\ statements' = [statements EXCEPT ![a] = @ \union {s}]
        /\ \/ held' = held \union {s} /\ cursor' \in {[cursor EXCEPT ![s] = c] : c \in {None, "closed"}}
           \/ UNCHANGED <<held, cursor>>
        /\ UNCHANGED lost
     \/ /\ Allocated(s, TRUE) /\ lost' = lost \union {s} /\ UNCHANGED <<held, cursor, statements>>
     \/ Allocated(s, FALSE) /\ UNCHANGED <<held, cursor, statements, lost>>
     \/ UNCHANGED <<held, cursor, statements, prepared, lost>>
  /\ UNCHANGED <<id, associations, connected>>

\* sqlrtl_release_statement: it leaves the list. If the library fails, the server has
\* it still; its id stays in it, and the program may try again.
ReleaseStatement(s) ==
  /\ Usable(s)
  /\ statements' = [statements EXCEPT ![association[s]] = @ \ {s}]
  /\ \/ prepared' = prepared \ {s} /\ lost' = lost \ {s}
     \/ lost' = lost \union ({s} \intersect prepared) /\ UNCHANGED prepared
  /\ cursor' = [cursor EXCEPT ![s] = IF @ = None \/ s \in prepared' THEN @ ELSE "closed"]
  /\ UNCHANGED <<typed, held, id, associations, association, connected>>

\* sqlrtl_open_cursor and sqlrtl_close_cursor; the server refuses what is not
\* prepared. declare_cursor, execute and fetch change nothing here.
Cursor(s, from, to) ==
  /\ Usable(s) /\ s \in prepared /\ cursor[s] = from
  /\ cursor' = [cursor EXCEPT ![s] = to]
  /\ UNCHANGED <<typed, held, id, associations, statements, association, server>>

\* (rdb-sql-associations), (rdb-sql-association-statements): the program has again
\* what it had dropped.
Listed(o) ==
  /\ o \in associations \union UNION {statements[a] : a \in associations}
  /\ held' = held \union {o}
  /\ UNCHANGED <<typed, id, associations, statements, association, cursor, server>>

Drop(o) == /\ o \in held /\ held' = held \ {o}
           /\ UNCHANGED <<typed, id, associations, statements, association, cursor, server>>

\* Mutant of Reached: a statement does not keep its association.
ReachedShallow ==
  LET roots == held \union associations
  IN roots \union UNION {statements[a] : a \in roots \intersect Associations}

\* extra_gc_mark: an association's statements, a statement's association.
Reached ==
  LET roots == held \union associations
      marked == roots \union {association[s] : s \in roots \intersect Statements}
  IN marked \union UNION {statements[a] : a \in marked \intersect Associations}

\* extra_gc_free: the storage, and nothing of the server's. (A cell in lost is not
\* used again here: its name is what the server's object goes by.)
GcFree(o) ==
  /\ o \in typed \ (Reached \union lost) /\ typed' = typed \ {o}
  /\ IF o \in Associations
     THEN id' = id \ {o} /\ statements' = [statements EXCEPT ![o] = {}] /\ UNCHANGED <<association, cursor>>
     ELSE /\ association' = [association EXCEPT ![o] = None]
          /\ cursor' = [cursor EXCEPT ![o] = None] /\ UNCHANGED <<id, statements>>
  /\ UNCHANGED <<held, associations, server>>

Next == \/ \E a \in Associations : Associate(a) \/ Release(a) \/ \E s \in Statements : Prepare(a, s)
        \/ \E s \in Statements : ReleaseStatement(s) \/ Cursor(s, "closed", "open") \/ Cursor(s, "open", "closed")
        \/ \E o \in Associations \union Statements : Listed(o) \/ Drop(o) \/ GcFree(o)

-----------------------------------------------------------------------------
\* The lists (rdb-sql-associations) and (rdb-sql-association-statements) name only
\* what the server has, and all of it but what was lost there: where a cons failed
\* between the server's answer and the list, or where the library failed to release
\* and the code took it off the list all the same. No failure of anything else in
\* prepare, no release of an association around its statements, and nothing that the
\* program drops, loses one.
ListsAgree ==
  /\ connected = associations \union (lost \intersect Associations)
  /\ prepared = (UNION {statements[a] : a \in associations}) \union (lost \intersect Statements)

\* What the program, or a list, has is not freed, nor the association of it: no
\* statement is used after its association's storage is gone.
OwnersKept ==
  /\ Reached \subseteq typed
  /\ \A s \in typed \intersect Reached \intersect Statements : association[s] \in typed
=============================================================================
