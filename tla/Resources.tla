----------------------------- MODULE Resources -----------------------------
(***************************************************************************)
(* The parts of the interpreter whose cells own something outside the      *)
(* heap: sockets, files, and the clients of three data bases.  They share  *)
(* the collector's rule, that a cell nobody holds is freed by its type's   *)
(* gc_free, and nothing else, so that a behaviour is one of a single part: *)
(* part says which.                                                        *)
(***************************************************************************)
EXTENDS Integers, Sequences

CONSTANTS
  Streams, Fds, Bufsiz, MaxBytes, Newlines,    \* Sockets
  Cells, Handles, Contents, Parser, Depth,     \* Files
  Statements, Cursors, MaxColumns,             \* Oracle
  Associations,                                \* Rdb, which has Statements too
  Connections, MaxRows,                        \* Sybase
  None

VARIABLES part,
  object, held, sd, ibuf, ipos, obuf, socket, arriving, call, written, sent, faulty, arrived, taken,
  type, f, opened, program, stack, loaded, complete,
  orlon_ok, typed, kept, cursor, selects, preparing, malloced, atServer, process, shut, freed, robbed, again,
  rdb, rdbHeld, id, associations, statements, association, rdbCursor, connected, prepared, lost,
  states, sybHeld, fields, inLibrary, default, working, step, command, rows, left

sockets == <<object, held, sd, ibuf, ipos, obuf, socket, arriving, call, written, sent, faulty, arrived, taken>>
files   == <<type, f, opened, program, stack, loaded, complete>>
oracle  == <<orlon_ok, typed, kept, cursor, selects, preparing, malloced, atServer,
             process, shut, freed, robbed, again>>
rdbs    == <<rdb, rdbHeld, id, associations, statements, association, rdbCursor, connected, prepared, lost>>
sybase  == <<states, sybHeld, fields, inLibrary, default, working, step, command, rows, left>>
vars    == <<part, sockets, files, oracle, rdbs, sybase>>

S == INSTANCE Sockets
F == INSTANCE Files WITH held <- program
O == INSTANCE Oracle WITH held <- kept
R == INSTANCE Rdb WITH typed <- rdb, held <- rdbHeld, cursor <- rdbCursor
Y == INSTANCE Sybase WITH typed <- states, held <- sybHeld, opened <- inLibrary, Cells <- Connections

\* A buffer has a size.
ASSUME SocketsAssumption == Bufsiz \in Nat /\ MaxBytes \in Nat

\* fopen does not return NULL for a file that is open, and files name libraries.
ASSUME FilesAssumption ==
  /\ 0 \notin Handles /\ None \notin F!Libraries
  /\ \A l \in F!Libraries :
       /\ Parser[l] \in F!Libraries \union {None}
       /\ Contents[l] \in Seq({"plain", "require", "try"} \X (F!Libraries \union {None}))
       /\ \A i \in DOMAIN Contents[l] : Contents[l][i][1] # "plain" => Contents[l][i][2] \in F!Libraries

\* Nor does malloc for a cursor; 0 is where there is none.
ASSUME OracleAssumption == 0 \notin Cursors /\ 0 \notin Statements

\* A cell is an association or a statement.
ASSUME RdbAssumption ==
  Associations \intersect Statements = {} /\ None \notin Associations \union Statements

\* None is no connection, and not what one has.
ASSUME SybaseAssumption == None \notin Connections /\ \A set \in SUBSET Y!Complete : set # None

Parts == {"sockets", "files", "oracle", "rdb", "sybase"}

Init == part \in Parts /\ S!Init /\ F!Init /\ O!Init /\ R!Init /\ Y!Init

Next == /\ UNCHANGED part
        /\ \/ part = "sockets" /\ S!Next /\ UNCHANGED <<files, oracle, rdbs, sybase>>
           \/ part = "files" /\ F!Next /\ UNCHANGED <<sockets, oracle, rdbs, sybase>>
           \/ part = "oracle" /\ O!Next /\ UNCHANGED <<sockets, files, rdbs, sybase>>
           \/ part = "rdb" /\ R!Next /\ UNCHANGED <<sockets, files, oracle, sybase>>
           \/ part = "sybase" /\ Y!Next /\ UNCHANGED <<sockets, files, oracle, rdbs>>

Spec == Init /\ [][Next]_vars

-----------------------------------------------------------------------------
\* ss.c: bytes are sent in order and once.
SentInOrder == S!SentInOrder
\* ss.c: bytes are received in order and once.
ReceivedExactly == S!ReceivedExactly
\* ss.c: no stream has a descriptor that is closed, or another stream's.
OwnsDescriptor == S!OwnsDescriptor
\* slib.c, slibu.c, ndbm.c, gd.c: what is open is in one cell.
OneCellPerHandle == F!OneCellPerHandle
\* slib.c, require: what was required is loaded.
RequiredIsLoaded == F!RequiredIsLoaded
\* sql_oracle.c: each cursor is one statement's.
CursorsOwned == O!CursorsOwned
\* sql_rdb.c: the lists are what the server has.
ListsAgree == R!ListsAgree
\* sql_rdb.c: what is in use is not freed.
OwnersKept == R!OwnersKept
\* sql_sybase.c: a connection has what its fields say, and takes the next command.
ConnectionSound == Y!ConnectionSound
=============================================================================
