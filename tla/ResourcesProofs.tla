--------------------------- MODULE ResourcesProofs ---------------------------
(***************************************************************************)
(* What lies outside the heap has one owner in it, and what goes over it   *)
(* goes once: proved for the composition.  Sockets and files have modules  *)
(* of their own, whose theorems are carried over at the end; the clients   *)
(* of the data bases are proved here: the cursors of Oracle, the lists of  *)
(* RDB, the connections of Sybase.                                         *)
(***************************************************************************)
EXTENDS Resources, TLAPS

-----------------------------------------------------------------------------
(* A step of the composition is one of each part, or leaves it alone.      *)

LEMMA PartSteps ==
  [Next]_vars => /\ [S!Next]_(S!vars) /\ [F!Next]_(F!vars) /\ [O!Next]_(O!vars)
                 /\ [R!Next]_(R!vars) /\ [Y!Next]_(Y!vars)
<1> USE DEF sockets, files, oracle, rdbs, sybase
<1>1. UNCHANGED sockets => UNCHANGED S!vars
  BY DEF S!vars
<1>2. UNCHANGED files => UNCHANGED F!vars
  BY DEF F!vars
<1>3. UNCHANGED oracle => UNCHANGED O!vars
  BY DEF O!vars, O!history
<1>4. UNCHANGED rdbs => UNCHANGED R!vars
  BY DEF R!vars
<1>5. UNCHANGED sybase => UNCHANGED Y!vars
  BY DEF Y!vars
<1>6. UNCHANGED vars => UNCHANGED <<sockets, files, oracle, rdbs, sybase>>
  BY DEF vars
<1> QED
  BY <1>1, <1>2, <1>3, <1>4, <1>5, <1>6 DEF Next

-----------------------------------------------------------------------------
(* Oracle.                                                                 *)

\* A cell that is not a statement yet, or no more, has no cursor: Prepare would
\* lose it otherwise.  Nothing is said of a cell without one, and the statement that
\* is being prepared has its own.
OracleTypes ==
  /\ cursor \in [Statements -> Cursors \union {0}]
  /\ preparing \in Statements \union {0}
  /\ process = "runs" => /\ \A s \in Statements \ typed : cursor[s] = 0
                         /\ \A s \in shut \union freed \union robbed : s \in Statements /\ cursor[s] # 0
                         /\ preparing # 0 => preparing \in O!Owners

OracleInv == OracleTypes /\ O!CursorsOwned

\* A release takes away what has the address, of whichever statement.
LEMMA OracleRelease ==
  ASSUME OracleInv, process = "runs", NEW s \in Statements, NEW failing \in {"runs", "exited"},
         O!Release(s, failing),
         preparing' = 0, typed' = typed \/ (typed' = typed \ {s} /\ failing # "runs")
  PROVE  OracleInv'
<1> DEFINE c == cursor[s]
           rest == {r \in O!Owners : cursor[r] # c}
<1>1. /\ c \in Cursors \union {0} /\ malloced' = malloced \ {c} /\ atServer' = atServer \ {c}
      /\ robbed' = (robbed \ {s}) \union {r \in O!Owners \ {s} : cursor[r] = c}
      /\ again' = (again \/ (s \in freed /\ c # 0))
  BY Zenon DEF O!Release, O!FreeCursor, O!Robbed, OracleInv, OracleTypes
<1>2. \/ /\ cursor' = [cursor EXCEPT ![s] = 0] /\ shut' = shut \ {s} /\ freed' = freed \ {s}
         /\ process' = IF c \notin malloced \union {0} THEN "wild" ELSE "runs"
      \/ /\ c # 0 /\ freed' = freed \union {s} /\ UNCHANGED <<cursor, shut>>
         /\ process' = IF c \notin malloced \union {0} THEN "wild" ELSE failing
  BY DEF O!Release, O!Forget, O!Twice
<1>3. \A r \in O!Owners : r \in Statements /\ cursor[r] # 0 /\ r \notin freed \union robbed
  BY DEF O!Owners
<1>4. s \in O!Owners => \A r \in O!Owners : cursor[r] = c => r = s
  BY DEF OracleInv, O!CursorsOwned
<1>5. s \notin O!Owners => c = 0 \/ s \in freed \union robbed
  BY DEF O!Owners
<1>6. O!Owners' = rest /\ \A r \in rest : cursor'[r] = cursor[r] /\ (r \in shut' <=> r \in shut)
  <2>1. \A r \in Statements \ {s} : /\ cursor'[r] = cursor[r] /\ (r \in shut' <=> r \in shut)
                                    /\ r \in freed' <=> r \in freed
                                    /\ r \in robbed' <=> r \in robbed \/ (r \in O!Owners /\ cursor[r] = c)
    BY <1>1, <1>2 DEF OracleInv, OracleTypes
  <2>2. s \notin O!Owners'
    BY <1>2 DEF O!Owners, OracleInv, OracleTypes
  <2>3. \A r \in Statements \ {s} : r \in O!Owners' <=> r \in O!Owners /\ cursor[r] # c
    BY <2>1 DEF O!Owners
  <2>4. s \notin rest /\ rest \subseteq Statements /\ O!Owners' \subseteq Statements
    BY DEF O!Owners
  <2> QED
    BY <2>1, <2>2, <2>3, <2>4
<1>7. malloced' = {cursor'[r] : r \in O!Owners'}
  <2>1. malloced = {cursor[r] : r \in O!Owners}
    BY DEF OracleInv, O!CursorsOwned
  <2>2. malloced' = {cursor[r] : r \in rest}
    BY <1>1, <2>1
  <2> QED
    BY <1>6, <2>2
<1>8. atServer' = {cursor'[r] : r \in (O!Owners \ shut)'}
  <2>1. atServer = {cursor[r] : r \in O!Owners \ shut}
    BY DEF OracleInv, O!CursorsOwned
  <2>2. atServer' = {cursor[r] : r \in rest \ shut}
    BY <1>1, <2>1
  <2>3. (O!Owners \ shut)' = rest \ shut
    BY <1>6
  <2> QED
    BY <1>6, <2>2, <2>3
<1>9. \A q, r \in O!Owners' : cursor'[q] = cursor'[r] => q = r
  BY <1>6 DEF OracleInv, O!CursorsOwned
<1>10. robbed' # {} \/ process' = "wild" => again'
  <2>1. CASE s \in O!Owners \/ c = 0
    <3>1. {r \in O!Owners \ {s} : cursor[r] = c} = {}
      BY <1>3, <1>4, <2>1
    <3>2. c \in malloced \union {0}
      BY <2>1 DEF OracleInv, O!CursorsOwned
    <3>3. process' = "wild" => failing = "wild"
      BY <1>2, <3>2
    <3> QED
      BY <1>1, <1>2, <3>1, <3>2, <3>3 DEF OracleInv, O!CursorsOwned, OracleTypes
  <2>2. CASE s \in freed \union robbed /\ c # 0
    BY <1>1, <2>2 DEF OracleInv, O!CursorsOwned
  <2> QED
    BY <1>5, <2>1, <2>2
<1>11. OracleTypes'
  <2>1. cursor' \in [Statements -> Cursors \union {0}]
    BY <1>2 DEF OracleInv, OracleTypes
  <2>2. ASSUME process' = "runs"
        PROVE  /\ \A r \in Statements \ typed' : cursor'[r] = 0
               /\ \A r \in (shut \union freed \union robbed)' : r \in Statements /\ cursor'[r] # 0
    BY <1>1, <1>2, <1>3, <2>2 DEF OracleInv, OracleTypes
  <2> QED
    BY <2>1, <2>2 DEF OracleTypes
<1> QED
  BY <1>7, <1>8, <1>9, <1>10, <1>11 DEF OracleInv, O!CursorsOwned

LEMMA OraclePrepare ==
  ASSUME OracleInv, NEW s \in Statements, O!Prepare(s)
  PROVE  OracleInv'
<1>1. /\ process = "runs" /\ preparing = 0 /\ s \notin typed /\ typed' = typed \union {s} /\ cursor[s] = 0
      /\ s \notin shut \union freed \union robbed
      /\ UNCHANGED <<process, shut, freed, robbed, again>>
  BY DEF O!Prepare, O!Resting, O!history, OracleInv, OracleTypes
<1>2. CASE UNCHANGED <<cursor, preparing, malloced, atServer>>
  <2>1. O!Owners' = O!Owners
    BY <1>1, <1>2 DEF O!Owners
  <2> QED
    BY <1>1, <1>2, <2>1 DEF OracleInv, OracleTypes, O!CursorsOwned
<1>3. ASSUME NEW c \in Cursors \ malloced,
             malloced' = malloced \union {c}, atServer' = atServer \union {c},
             cursor' = [cursor EXCEPT ![s] = c], preparing' = s
      PROVE  OracleInv'
  <2>1. c # 0 /\ cursor'[s] = c /\ \A r \in Statements \ {s} : cursor'[r] = cursor[r]
    BY <1>3, OracleAssumption DEF OracleInv, OracleTypes
  <2>2. O!Owners' = O!Owners \union {s} /\ s \notin O!Owners /\ O!Owners \subseteq Statements
    BY <1>1, <2>1 DEF O!Owners
  <2>3. \A r \in O!Owners : cursor'[r] = cursor[r] /\ cursor[r] # c
    BY <1>3, <2>1, <2>2 DEF OracleInv, O!CursorsOwned
  <2>4. malloced' = {cursor'[r] : r \in O!Owners'}
    BY <1>3, <2>1, <2>2, <2>3 DEF OracleInv, O!CursorsOwned
  <2>5. atServer' = {cursor'[r] : r \in (O!Owners \ shut)'}
    BY <1>1, <1>3, <2>1, <2>2, <2>3 DEF OracleInv, O!CursorsOwned
  <2>6. \A q, r \in O!Owners' : cursor'[q] = cursor'[r] => q = r
    BY <2>1, <2>2, <2>3 DEF OracleInv, O!CursorsOwned
  <2>7. OracleTypes'
    BY <1>1, <1>3, <2>1, <2>2, OracleAssumption DEF OracleInv, OracleTypes
  <2> QED
    BY <1>1, <2>4, <2>5, <2>6, <2>7 DEF OracleInv, O!CursorsOwned
<1> QED
  BY <1>2, <1>3 DEF O!Prepare

LEMMA OracleOsql3 ==
  ASSUME OracleInv, O!Osql3Fails
  PROVE  OracleInv'
<1> DEFINE s == preparing
<1>1. /\ process = "runs" /\ s \in O!Owners /\ s \in Statements
      /\ malloced' = malloced \ {cursor[s]} /\ atServer' = atServer \ {cursor[s]}
      /\ freed' = freed \union {s} /\ preparing' = 0
      /\ UNCHANGED <<typed, cursor, process, shut, robbed, again>>
  BY OracleAssumption DEF O!Osql3Fails, O!Preparing, O!FreeCursor, OracleInv, OracleTypes
<1>2. O!Owners' = O!Owners \ {s}
  BY <1>1 DEF O!Owners
<1>3. \A r \in O!Owners \ {s} : cursor[r] # cursor[s]
  BY <1>1 DEF OracleInv, O!CursorsOwned
<1>4. malloced' = {cursor'[r] : r \in O!Owners'}
  BY <1>1, <1>2, <1>3 DEF OracleInv, O!CursorsOwned
<1>5. atServer' = {cursor'[r] : r \in (O!Owners \ shut)'}
  BY <1>1, <1>2, <1>3 DEF OracleInv, O!CursorsOwned
<1>6. OracleTypes'
  BY <1>1 DEF OracleInv, OracleTypes, O!Owners
<1> QED
  BY <1>1, <1>2, <1>4, <1>5, <1>6 DEF OracleInv, O!CursorsOwned

LEMMA OracleStep == OracleInv /\ [O!Next]_(O!vars) => OracleInv'
<1> SUFFICES ASSUME OracleInv, [O!Next]_(O!vars)
             PROVE  OracleInv'
  OBVIOUS
<1>1. ASSUME UNCHANGED <<cursor, typed, malloced, atServer, process, shut, freed, robbed, again>>,
             preparing' \in {preparing, 0}
      PROVE  OracleInv'
  <2>1. O!Owners' = O!Owners
    BY <1>1 DEF O!Owners
  <2> QED
    BY <1>1, <2>1, OracleAssumption DEF OracleInv, OracleTypes, O!CursorsOwned
<1>2. CASE O!Orlon \/ O!Describe \/ O!Prepared \/ (\E s \in Statements : O!Drop(s)) \/ UNCHANGED O!vars
  BY <1>1, <1>2 DEF O!Orlon, O!Describe, O!Prepared, O!Drop, O!history, O!vars
<1>3. CASE O!Ologof
  <2>1. /\ process = "runs" /\ preparing = 0 /\ atServer' = {} /\ shut' = {s \in Statements : cursor[s] # 0}
        /\ UNCHANGED <<typed, cursor, preparing, malloced, process, freed, robbed, again>>
    BY <1>3 DEF O!Ologof, O!Resting
  <2>2. O!Owners' = O!Owners /\ (O!Owners \ shut)' = {}
    BY <2>1 DEF O!Owners
  <2> QED
    BY <2>1, <2>2 DEF OracleInv, OracleTypes, O!CursorsOwned
<1>4. CASE O!DescribeFails
  BY <1>4, OracleAssumption, OracleRelease DEF O!DescribeFails, O!Preparing, OracleInv, OracleTypes
<1>5. ASSUME NEW s \in Statements, O!SqlRelease(s)
      PROVE  OracleInv'
  BY <1>5, OracleRelease DEF O!SqlRelease, O!Usable, O!Resting
<1>6. ASSUME NEW s \in Statements, O!GcFree(s)
      PROVE  OracleInv'
  BY <1>6, OracleRelease DEF O!GcFree, O!Resting
<1> QED
  BY <1>2, <1>3, <1>4, <1>5, <1>6, OraclePrepare, OracleOsql3 DEF O!Next

\* The statements and the cursors that are malloced and open on the server are one
\* to one, whatever fails in prepare and whatever the program releases or drops, but
\* for statements whose osql3 or oclose failed and for what ologof closed; and no
\* cursor is freed twice, or under another statement, until a statement whose osql3
\* or oclose failed is released or collected (sql_oracle.c).  An address is not NULL.
THEOREM OracleCursors == Spec => []CursorsOwned
<1>1. Init => OracleInv
  BY DEF Init, O!Init, OracleInv, OracleTypes, O!CursorsOwned, O!Owners
<1>2. OracleInv /\ [Next]_vars => OracleInv'
  BY OracleStep, PartSteps
<1>3. OracleInv => CursorsOwned
  BY DEF OracleInv, CursorsOwned
<1> QED
  BY <1>1, <1>2, <1>3, PTL DEF Spec

-----------------------------------------------------------------------------
(* RDB.                                                                    *)

\* The cells and the lists: an association that the program can use is in the global
\* list, one that is not in it has no statements, and a statement that is in a list
\* is of that association.
RdbTypes ==
  /\ rdb \subseteq Associations \union Statements /\ rdbHeld \subseteq rdb
  /\ id \subseteq Associations /\ associations \subseteq rdb \intersect Associations
  /\ statements \in [Associations -> SUBSET Statements]
  /\ association \in [Statements -> Associations \union {None}]
  /\ lost \subseteq rdb

RdbLists ==
  /\ rdbHeld \intersect id \subseteq associations
  /\ \A a \in Associations : /\ statements[a] # {} => a \in associations
                             /\ \A s \in statements[a] : s \in rdb /\ association[s] = a
  /\ \A s \in rdbHeld \intersect Statements : association[s] \in rdb

\* What is lost is in no list.
RdbLost ==
  /\ lost \intersect associations = {}
  /\ \A a \in Associations : lost \intersect statements[a] = {}

RdbInv == RdbTypes /\ RdbLists /\ RdbLost /\ R!ListsAgree

\* The lists, and what is marked from them and from the program.
LEMMA MarkedFact == ASSUME RdbTypes, RdbLists
  PROVE  /\ \A a \in associations : a \in R!Reached /\ statements[a] \subseteq R!Reached
         /\ rdbHeld \subseteq R!Reached
         /\ \A s \in rdbHeld \intersect Statements : association[s] \in R!Reached
         /\ R!OwnersKept
<1>1. \A a \in associations : a \in R!Reached /\ statements[a] \subseteq R!Reached
  BY DEF R!Reached, RdbTypes
<1>2. rdbHeld \subseteq R!Reached
  BY DEF R!Reached
<1>3. \A s \in rdbHeld \intersect Statements : association[s] \in R!Reached
  BY DEF R!Reached
<1>4. R!Reached \subseteq rdb
  BY RdbAssumption DEF R!Reached, RdbTypes, RdbLists
<1>5. \A s \in R!Reached \intersect Statements : association[s] \in rdb
  BY RdbAssumption DEF R!Reached, RdbTypes, RdbLists
<1> QED
  BY <1>1, <1>2, <1>3, <1>4, <1>5 DEF R!OwnersKept

LEMMA RdbAssociate ==
  ASSUME RdbInv, NEW a \in Associations, R!Associate(a)
  PROVE  RdbInv'
<1>1. /\ a \notin rdb /\ rdb' = rdb \union {a} /\ statements[a] = {}
      /\ UNCHANGED <<statements, association, rdbCursor, prepared>>
      /\ id' \in {id, id \union {a}}
  BY DEF R!Associate, RdbInv, RdbTypes, RdbLists
<1>2. \/ /\ rdbHeld' = rdbHeld \union {a} /\ associations' = associations \union {a}
         /\ connected' = connected \union {a} /\ UNCHANGED lost
      \/ UNCHANGED <<rdbHeld, associations, connected, lost>>
      \/ /\ connected' = connected \union {a} /\ lost' = lost \union {a}
         /\ UNCHANGED <<rdbHeld, associations>>
  BY DEF R!Associate
<1>3. RdbTypes'
  BY <1>1, <1>2 DEF RdbInv, RdbTypes
<1>4. RdbLists'
  BY <1>1, <1>2, RdbAssumption DEF RdbInv, RdbTypes, RdbLists
<1>5. RdbLost'
  BY <1>1, <1>2, RdbAssumption DEF RdbInv, RdbTypes, RdbLists, RdbLost
<1>6. R!ListsAgree'
  <2>1. connected' = associations' \union (lost' \intersect Associations)
    BY <1>2 DEF RdbInv, R!ListsAgree
  <2>2. UNION {statements'[b] : b \in associations'} = UNION {statements[b] : b \in associations}
    BY <1>1, <1>2
  <2>3. lost' \intersect Statements = lost \intersect Statements
    BY <1>2, RdbAssumption
  <2> QED
    BY <1>1, <2>1, <2>2, <2>3 DEF RdbInv, R!ListsAgree
<1> QED
  BY <1>3, <1>4, <1>5, <1>6 DEF RdbInv

LEMMA RdbRelease ==
  ASSUME RdbInv, NEW a \in Associations, R!Release(a)
  PROVE  RdbInv'
<1> DEFINE gone == {s \in prepared : s \in Statements /\ association[s] = a}
           rest == {o \in lost : ~ (o \in Statements /\ association[o] = a)}
           listed == UNION {statements[b] : b \in associations}
<1>1. /\ a \in rdbHeld /\ a \in id /\ a \in associations /\ a \in rdb /\ a \notin lost
      /\ UNCHANGED <<rdb, rdbHeld, association, rdbCursor>>
      /\ id' = id \ {a} /\ associations' = associations \ {a}
      /\ statements' = [statements EXCEPT ![a] = {}]
  BY DEF R!Release, R!Open, RdbInv, RdbTypes, RdbLists, RdbLost
<1>2. \/ connected' = connected \ {a} /\ prepared' = prepared \ gone /\ lost' = rest
      \/ connected' = connected /\ prepared' = prepared /\ lost' = lost \union {a} \union gone
  BY DEF R!Release, R!Of
<1>3. prepared = listed \union (lost \intersect Statements) /\ listed \subseteq rdb \intersect Statements
  BY DEF RdbInv, RdbTypes, RdbLists, R!ListsAgree
<1>4. UNION {statements'[b] : b \in associations'} = {s \in listed : association[s] # a}
  BY <1>1 DEF RdbInv, RdbTypes, RdbLists
<1>5. gone \subseteq rdb /\ rest \subseteq lost
  BY <1>3 DEF RdbInv, RdbTypes
<1>6. RdbTypes'
  BY <1>1, <1>2, <1>5 DEF RdbInv, RdbTypes
<1>7. RdbLists'
  BY <1>1 DEF RdbInv, RdbTypes, RdbLists
<1>8. RdbLost'
  <2>1. \A b \in Associations : (gone \union {a}) \intersect statements'[b] = {}
    BY <1>1, RdbAssumption DEF RdbInv, RdbTypes, RdbLists
  <2>2. (gone \union {a}) \intersect associations' = {}
    BY <1>1, RdbAssumption DEF RdbInv, RdbTypes
  <2>3. lost' \subseteq lost \union gone \union {a}
    BY <1>2, <1>5
  <2> QED
    BY <1>1, <2>1, <2>2, <2>3 DEF RdbInv, RdbTypes, RdbLost
<1>9. connected' = associations' \union (lost' \intersect Associations)
  BY <1>1, <1>2, RdbAssumption DEF RdbInv, R!ListsAgree
<1>10. prepared' = (UNION {statements'[b] : b \in associations'}) \union (lost' \intersect Statements)
  <2> HIDE DEF listed
  <2> QED
    BY <1>2, <1>3, <1>4, RdbAssumption
<1> QED
  BY <1>6, <1>7, <1>8, <1>9, <1>10 DEF RdbInv, R!ListsAgree

LEMMA RdbPrepare ==
  ASSUME RdbInv, NEW a \in Associations, NEW s \in Statements, R!Prepare(a, s)
  PROVE  RdbInv'
<1>1. /\ a \in rdbHeld /\ a \in id /\ a \in associations /\ s \notin rdb /\ rdb' = rdb \union {s}
      /\ association' = [association EXCEPT ![s] = a]
      /\ UNCHANGED <<id, associations, connected>>
  BY DEF R!Prepare, R!Open, RdbInv, RdbLists
<1>2. \/ /\ prepared' = prepared \union {s} /\ statements' = [statements EXCEPT ![a] = @ \union {s}]
         /\ rdbHeld' \in {rdbHeld, rdbHeld \union {s}} /\ UNCHANGED lost
      \/ /\ prepared' = prepared \union {s} /\ lost' = lost \union {s} /\ UNCHANGED <<rdbHeld, statements>>
      \/ UNCHANGED <<rdbHeld, statements, prepared, lost>>
  BY DEF R!Prepare, R!Allocated
<1>3. a \in rdb /\ s \notin rdbHeld /\ s \notin lost /\ \A b \in Associations : s \notin statements[b]
  BY <1>1 DEF RdbInv, RdbTypes, RdbLists
<1>4. RdbTypes'
  BY <1>1, <1>2, <1>3 DEF RdbInv, RdbTypes
<1>5. RdbLists'
  BY <1>1, <1>2, <1>3, RdbAssumption DEF RdbInv, RdbTypes, RdbLists
<1>6. RdbLost'
  BY <1>1, <1>2, <1>3, RdbAssumption DEF RdbInv, RdbTypes, RdbLost
<1>7. connected' = associations' \union (lost' \intersect Associations)
  BY <1>1, <1>2, RdbAssumption DEF RdbInv, R!ListsAgree
<1>8. prepared' = (UNION {statements'[b] : b \in associations'}) \union (lost' \intersect Statements)
  BY <1>1, <1>2 DEF RdbInv, RdbTypes, R!ListsAgree
<1> QED
  BY <1>4, <1>5, <1>6, <1>7, <1>8 DEF RdbInv, R!ListsAgree

LEMMA RdbReleaseStatement ==
  ASSUME RdbInv, NEW s \in Statements, R!ReleaseStatement(s)
  PROVE  RdbInv'
<1> DEFINE a == association[s]
           listed == UNION {statements[b] : b \in associations}
<1>1. /\ s \in rdbHeld /\ s \in rdb /\ a \in Associations
      /\ statements' = [statements EXCEPT ![a] = @ \ {s}]
      /\ UNCHANGED <<rdb, rdbHeld, id, associations, association, connected>>
  BY DEF R!ReleaseStatement, R!Usable, RdbInv, RdbTypes
<1>2. \/ prepared' = prepared \ {s} /\ lost' = lost \ {s}
      \/ prepared' = prepared /\ lost' = lost \union ({s} \intersect prepared)
  BY DEF R!ReleaseStatement
<1>3. \A b \in Associations : statements'[b] = statements[b] \ {s}
  BY <1>1 DEF RdbInv, RdbTypes, RdbLists
<1>4. RdbTypes' /\ RdbLists' /\ RdbLost'
  BY <1>1, <1>2, <1>3, RdbAssumption DEF RdbInv, RdbTypes, RdbLists, RdbLost
<1>5. prepared = listed \union (lost \intersect Statements)
  BY DEF RdbInv, R!ListsAgree
<1>6. UNION {statements'[b] : b \in associations'} = listed \ {s}
  BY <1>1, <1>3 DEF RdbInv, RdbTypes
<1>7. prepared' = (UNION {statements'[b] : b \in associations'}) \union (lost' \intersect Statements)
  <2> HIDE DEF listed
  <2> QED
    BY <1>2, <1>5, <1>6
<1>8. connected' = associations' \union (lost' \intersect Associations)
  BY <1>1, <1>2, RdbAssumption DEF RdbInv, R!ListsAgree
<1> QED
  BY <1>4, <1>7, <1>8 DEF RdbInv, R!ListsAgree

LEMMA RdbGcFree ==
  ASSUME RdbInv, NEW o \in Associations \union Statements, R!GcFree(o)
  PROVE  RdbInv'
<1>1. /\ o \in rdb /\ o \notin R!Reached /\ o \notin lost /\ rdb' = rdb \ {o}
      /\ UNCHANGED <<rdbHeld, associations, connected, prepared, lost>>
      /\ o \in Associations => /\ id' = id \ {o} /\ statements' = [statements EXCEPT ![o] = {}]
                               /\ UNCHANGED association
      /\ o \notin Associations => /\ association' = [association EXCEPT ![o] = None]
                                  /\ UNCHANGED <<id, statements>>
  BY DEF R!GcFree, R!server
<1>2. /\ o \notin rdbHeld /\ o \notin associations
      /\ \A s \in rdbHeld \intersect Statements : association[s] # o
      /\ \A b \in Associations : o \notin statements[b]
      /\ o \in Associations => statements[o] = {}
  BY <1>1, MarkedFact DEF RdbInv, RdbLists
<1>3. statements' = statements
  BY <1>1, <1>2 DEF RdbInv, RdbTypes
<1>4. RdbTypes' /\ RdbLists' /\ RdbLost'
  BY <1>1, <1>2, <1>3, RdbAssumption DEF RdbInv, RdbTypes, RdbLists, RdbLost
<1> QED
  BY <1>1, <1>3, <1>4 DEF RdbInv, R!ListsAgree

LEMMA RdbStep == RdbInv /\ [R!Next]_(R!vars) => RdbInv'
<1> SUFFICES ASSUME RdbInv, [R!Next]_(R!vars)
             PROVE  RdbInv'
  OBVIOUS
<1>1. ASSUME NEW s \in Statements, R!Cursor(s, "closed", "open") \/ R!Cursor(s, "open", "closed")
      PROVE  RdbInv'
  BY <1>1 DEF R!Cursor, R!server, RdbInv, RdbTypes, RdbLists, RdbLost, R!ListsAgree
<1>2. ASSUME NEW o \in Associations \union Statements, R!Drop(o)
      PROVE  RdbInv'
  BY <1>2 DEF R!Drop, R!server, RdbInv, RdbTypes, RdbLists, RdbLost, R!ListsAgree
<1>3. ASSUME NEW o \in Associations \union Statements, R!Listed(o)
      PROVE  RdbInv'
  <2>1. o \in rdb /\ (o \in Statements => association[o] \in rdb)
    BY <1>3, RdbAssumption DEF R!Listed, RdbInv, RdbTypes, RdbLists
  <2>2. o \in id => o \in associations
    BY <1>3, RdbAssumption DEF R!Listed, RdbInv, RdbTypes
  <2>3. rdbHeld' = rdbHeld \union {o}
        /\ UNCHANGED <<rdb, id, associations, statements, association, rdbCursor, connected, prepared, lost>>
    BY <1>3 DEF R!Listed, R!server
  <2> QED
    BY <2>1, <2>2, <2>3 DEF RdbInv, RdbTypes, RdbLists, RdbLost, R!ListsAgree
<1>4. CASE UNCHANGED R!vars
  BY <1>4 DEF R!vars, RdbInv, RdbTypes, RdbLists, RdbLost, R!ListsAgree
<1> QED
  BY <1>1, <1>2, <1>3, <1>4, RdbAssociate, RdbRelease, RdbPrepare, RdbReleaseStatement, RdbGcFree
  DEF R!Next

LEMMA RdbInvariance == Spec => []RdbInv
<1>1. Init => RdbInv
  BY DEF Init, R!Init, RdbInv, RdbTypes, RdbLists, RdbLost, R!ListsAgree
<1>2. RdbInv /\ [Next]_vars => RdbInv'
  BY RdbStep, PartSteps
<1> QED
  BY <1>1, <1>2, PTL DEF Spec

\* Whatever fails in the calls of the library and in the conses between, and whatever
\* the program drops, the lists name what the server has, and all of it but what a
\* cons or a release that failed left there (sql_rdb.c).
THEOREM RdbListsAgree == Spec => []ListsAgree
<1>1. RdbInv => ListsAgree
  BY DEF RdbInv, ListsAgree
<1> QED
  BY <1>1, RdbInvariance, PTL

\* The collector frees no association of which the program, or a list, still has a
\* statement, because a statement marks its association (extra_gc_mark).
THEOREM RdbOwnersKept == Spec => []OwnersKept
<1>1. RdbInv => OwnersKept
  BY MarkedFact, RdbAssumption DEF RdbInv, OwnersKept
<1> QED
  BY <1>1, RdbInvariance, PTL

-----------------------------------------------------------------------------
(* Sybase.                                                                 *)

\* A connection that is being set up has no command yet, and only the one that is
\* executing may have a command that is not clean.
SybInv ==
  /\ fields \in [Connections -> (SUBSET Y!Complete) \union {None}]
  /\ inLibrary \in [Connections -> SUBSET Y!Complete]
  /\ command \in [Connections -> {"clean", "built", "sent"}]
  /\ working \in Connections \union {None}
  /\ working # None /\ step = "setup" => fields[working] # None /\ "cmd" \notin fields[working]
  /\ \A c \in Connections \ left :
       /\ inLibrary[c] = Y!Told(c)
       /\ command[c] # "clean" => c = working /\ step # "setup"

\* The value that is not a set of stages is NULL.

\* There is a stage left, and it is none of those done.
LEMMA NextStageFact ==
  ASSUME NEW set \in SUBSET Y!Complete, "cmd" \notin set
  PROVE  Y!Stages[Y!NextStage(set)] \in Y!Complete \ set
<1> DEFINE P(i) == Y!Stages[i] \notin set /\ \A j \in 1 .. i - 1 : Y!Stages[j] \in set
<1>1. /\ Len(Y!Stages) = 5 /\ DOMAIN Y!Stages = 1 .. 5
      /\ Y!Stages[1] = "cp" /\ Y!Stages[2] = "inited" /\ Y!Stages[3] = "conn"
      /\ Y!Stages[4] = "connected" /\ Y!Stages[5] = "cmd"
  BY DEF Y!Stages
<1>2. \E i \in 1 .. 5 : P(i)
  <2>1. CASE "cp" \notin set
    BY <1>1, <2>1
  <2>2. CASE "cp" \in set /\ "inited" \notin set
    <3>1. P(2)
      BY <1>1, <2>2
    <3> QED
      BY <3>1
  <2>3. CASE "cp" \in set /\ "inited" \in set /\ "conn" \notin set
    <3>1. P(3)
      BY <1>1, <2>3
    <3> QED
      BY <3>1
  <2>4. CASE {"cp", "inited", "conn"} \subseteq set /\ "connected" \notin set
    <3>1. P(4)
      BY <1>1, <2>4
    <3> QED
      BY <3>1
  <2>5. CASE {"cp", "inited", "conn", "connected"} \subseteq set
    <3>1. P(5)
      BY <1>1, <2>5
    <3> QED
      BY <3>1
  <2> QED
    BY <2>1, <2>2, <2>3, <2>4, <2>5
<1>3. Y!NextStage(set) \in 1 .. 5 /\ P(Y!NextStage(set))
  BY <1>1, <1>2 DEF Y!NextStage
<1> QED
  BY <1>1, <1>3 DEF Y!Complete

\* Before cmd is allocated the next stage may be cmd, or leaves it to come.
LEMMA SybStage == ASSUME SybInv, Y!Stage PROVE SybInv'
<1> DEFINE name == Y!Stages[Y!NextStage(fields[working])]
<1>1. /\ working \in Connections /\ step = "setup" /\ fields[working] \in SUBSET Y!Complete
      /\ "cmd" \notin fields[working]
  BY SybaseAssumption DEF Y!Stage, SybInv
<1>2. name \in Y!Complete
  BY <1>1, NextStageFact
<1>3. /\ fields' = [fields EXCEPT ![working] = @ \union {name}]
      /\ inLibrary' = [inLibrary EXCEPT ![working] = @ \union {name}]
      /\ IF name = "cmd" THEN working' = None ELSE working' = working
      /\ UNCHANGED <<step, command, left>>
  BY DEF Y!Stage
<1> HIDE DEF name
<1>4. fields[working] \union {name} \in SUBSET Y!Complete
  BY <1>1, <1>2
<1>5. \A c \in Connections \ left : inLibrary'[c] = Y!Told(c)'
  BY <1>1, <1>3, <1>4, SybaseAssumption DEF SybInv, Y!Told
<1>6. \A c \in Connections \ left : command'[c] = "clean"
  BY <1>1, <1>3 DEF SybInv
<1> QED
  BY <1>1, <1>2, <1>3, <1>4, <1>5, <1>6, SybaseAssumption DEF SybInv

\* What the fields name is torn down.
LEMMA SybTeardown ==
  ASSUME SybInv, NEW c \in Connections, NEW v \in {{}, None}, Y!Teardown(c),
         fields' = [fields EXCEPT ![c] = v], UNCHANGED <<step, left>>,
         IF working = c THEN working' = None ELSE working' = working
  PROVE  SybInv'
<1>1. /\ inLibrary' = [inLibrary EXCEPT ![c] = @ \ Y!Told(c)]
      /\ command' = [command EXCEPT ![c] = "clean"]
  BY DEF Y!Teardown
<1>2. v \in (SUBSET Y!Complete) \union {None}
  OBVIOUS
<1>3. \A d \in Connections \ left' : inLibrary'[d] = Y!Told(d)'
  <2> SUFFICES ASSUME NEW d \in Connections \ left
               PROVE  inLibrary'[d] = Y!Told(d)'
    OBVIOUS
  <2>1. inLibrary[d] = Y!Told(d)
    BY DEF SybInv
  <2>2. CASE d = c
    BY <1>1, <2>1, <2>2 DEF SybInv, Y!Told
  <2>3. CASE d # c
    BY <1>1, <2>1, <2>3 DEF SybInv, Y!Told
  <2> QED
    BY <2>2, <2>3
<1>4. working' \in Connections \union {None}
      /\ (working' # None => working' = working /\ working # c)
  BY DEF SybInv
<1> QED
  BY <1>1, <1>2, <1>3, <1>4 DEF SybInv

LEMMA SybStep == SybInv /\ [Y!Next]_(Y!vars) => SybInv'
<1> SUFFICES ASSUME SybInv, [Y!Next]_(Y!vars)
             PROVE  SybInv'
  OBVIOUS
<1>1. CASE Y!StageFails
  BY <1>1, SybTeardown DEF Y!StageFails, SybInv
<1>2. CASE Y!StageThrows
  <2>1. /\ working \in Connections /\ fields[working] \in SUBSET Y!Complete
        /\ "cmd" \notin fields[working]
    BY <1>2, SybaseAssumption DEF Y!StageThrows, SybInv
  <2>2. Y!Stages[Y!NextStage(fields[working])] \in Y!Complete
    BY <2>1, NextStageFact
  <2>3. inLibrary' \in [Connections -> SUBSET Y!Complete]
        /\ \A c \in Connections \ {working} : inLibrary'[c] = inLibrary[c]
    BY <1>2, <2>1, <2>2 DEF Y!StageThrows, SybInv
  <2>4. left' = left \union {working} /\ working' = None /\ UNCHANGED <<fields, step, command>>
    BY <1>2 DEF Y!StageThrows
  <2>5. step = "setup"
    BY <1>2 DEF Y!StageThrows
  <2> QED
    BY <2>1, <2>3, <2>4, <2>5 DEF SybInv, Y!Told
<1>3. ASSUME NEW c \in Connections, Y!Open(c)
      PROVE  SybInv'
  <2>1. /\ working = None /\ inLibrary[c] = {} /\ fields' = [fields EXCEPT ![c] = {}]
        /\ working' = c /\ step' = "setup" /\ UNCHANGED <<inLibrary, command, left>>
    BY <1>3 DEF Y!Open
  <2>2. \A d \in Connections \ left : command[d] = "clean"
    BY <2>1, SybaseAssumption DEF SybInv
  <2>3. \A d \in Connections \ left : inLibrary'[d] = Y!Told(d)'
    BY <2>1 DEF SybInv, Y!Told
  <2> QED
    BY <2>1, <2>2, <2>3, SybaseAssumption DEF SybInv
<1>4. ASSUME NEW c \in Connections, Y!Close(c)
      PROVE  SybInv'
  BY <1>4, SybTeardown, SybaseAssumption DEF Y!Close
<1>5. ASSUME NEW c \in Connections, Y!GcFree(c)
      PROVE  SybInv'
  BY <1>5, SybTeardown DEF Y!GcFree
<1>6. ASSUME NEW c \in Connections, Y!Drop(c)
      PROVE  SybInv'
  BY <1>6 DEF Y!Drop, SybInv, Y!Told
<1>7. ASSUME NEW c \in Connections, Y!Command(c)
      PROVE  SybInv'
  BY <1>7, SybaseAssumption DEF Y!Command, SybInv, Y!Told
<1>8. CASE Y!Param \/ Y!Send \/ Y!Fetch
  <2>1. /\ working # None /\ step # "setup" /\ step' # "setup"
        /\ command' \in {command, [command EXCEPT ![working] = "sent"]}
        /\ UNCHANGED <<fields, inLibrary, working, left>>
    BY <1>8 DEF Y!Param, Y!Send, Y!Fetch
  <2> QED
    BY <2>1 DEF SybInv, Y!Told
<1>9. CASE Y!Results
  <2>1. /\ working # None /\ step # "setup" /\ step' # "setup"
        /\ \/ UNCHANGED <<working, command>>
           \/ command' = [command EXCEPT ![working] = "clean"] /\ working' \in {working, None}
        /\ UNCHANGED <<fields, inLibrary, left>>
    BY <1>9 DEF Y!Results
  <2> QED
    BY <2>1 DEF SybInv, Y!Told
<1>10. CASE Y!FetchFails
  BY <1>10 DEF Y!FetchFails, Y!Cancelled, SybInv, Y!Told
<1>11. CASE Y!Abandoned
  BY <1>11 DEF Y!Abandoned, SybInv, Y!Told
<1>12. CASE UNCHANGED Y!vars
  BY <1>12 DEF Y!vars, SybInv, Y!Told
<1> QED
  BY <1>1, <1>2, <1>3, <1>4, <1>5, <1>6, <1>7, <1>8, <1>9, <1>10, <1>11, <1>12, SybStage
  DEF Y!Next

\* At whichever stage the setup of a connection fails, what the library has is what
\* the fields say, and teardown gives it back; and the command of a connection is
\* clean between two executes, however the last one ended, but for an error that left
\* the library or execute in the middle (sql_sybase.c).
THEOREM SybaseConnections == Spec => []ConnectionSound
<1>1. Init => SybInv
  BY DEF Init, Y!Init, SybInv, Y!Told
<1>2. SybInv /\ [Next]_vars => SybInv'
  BY SybStep, PartSteps
<1>3. SybInv => ConnectionSound
  BY DEF SybInv, ConnectionSound, Y!ConnectionSound
<1> QED
  BY <1>1, <1>2, <1>3, PTL DEF Spec

-----------------------------------------------------------------------------
(* Sockets and files: the instances of their proofs are the parts of the   *)
(* composition.                                                            *)

SocketsPart == INSTANCE SocketsProofs
FilesPart   == INSTANCE FilesProofs WITH held <- program

LEMMA SameTraffic == S!Traffic = SocketsPart!Traffic
  BY DEF S!Traffic, SocketsPart!Traffic, S!FoldFunction, SocketsPart!FoldFunction,
         S!FoldFunctionOnSet, SocketsPart!FoldFunctionOnSet, S!MapThenFoldSet, SocketsPart!MapThenFoldSet

LEMMA SameSockets ==
  /\ S!Init <=> SocketsPart!Init
  /\ S!Next <=> SocketsPart!Next
  /\ S!vars = SocketsPart!vars
<1>1. S!Init <=> SocketsPart!Init
  BY DEF S!Init, SocketsPart!Init, S!Idle, SocketsPart!Idle
<1>2. S!vars = SocketsPart!vars
  BY DEF S!vars, SocketsPart!vars
<1>3. S!Next <=> SocketsPart!Next
  BY SameTraffic
  DEF S!Next, SocketsPart!Next, S!Open, SocketsPart!Open, S!Accept, SocketsPart!Accept, S!Close,
      SocketsPart!Close, S!Drop, SocketsPart!Drop, S!GcFree, SocketsPart!GcFree, S!ForceOutput,
      SocketsPart!ForceOutput, S!PeerSends, SocketsPart!PeerSends, S!Shutdown,
      SocketsPart!Shutdown, S!Put, SocketsPart!Put, S!Write, SocketsPart!Write, S!PutByte,
      SocketsPart!PutByte, S!SendFails, SocketsPart!SendFails, S!PutReturn, SocketsPart!PutReturn,
      S!Send, SocketsPart!Send, S!Get, SocketsPart!Get, S!GetByte, SocketsPart!GetByte,
      S!GetReturn, SocketsPart!GetReturn, S!Unget, SocketsPart!Unget, S!Filbuf, SocketsPart!Filbuf,
      S!Made, SocketsPart!Made, S!NewStream, SocketsPart!NewStream, S!Forget, SocketsPart!Forget,
      S!cells, SocketsPart!cells, S!output, SocketsPart!output, S!input, SocketsPart!input,
      S!Usable, SocketsPart!Usable, S!Idle, SocketsPart!Idle, S!Call, SocketsPart!Call, S!Bytes,
      SocketsPart!Bytes, S!SsForce, SocketsPart!SsForce, S!Sending, SocketsPart!Sending, S!Reading,
      SocketsPart!Reading, S!Wants, SocketsPart!Wants, S!Satisfied, SocketsPart!Satisfied,
      S!Buffered, SocketsPart!Buffered, S!Last, SocketsPart!Last, S!Front, SocketsPart!Front,
      S!FirstByte, SocketsPart!FirstByte
<1> QED
  BY <1>1, <1>2, <1>3

LEMMA SameFiles ==
  /\ F!Init <=> FilesPart!Init
  /\ F!Next <=> FilesPart!Next
  /\ F!vars = FilesPart!vars
<1>1. F!Init <=> FilesPart!Init
  BY DEF F!Init, FilesPart!Init
<1>2. F!vars = FilesPart!vars
  BY DEF F!vars, FilesPart!vars
<1>3. ASSUME NEW k PROVE F!Thrown(k) <=> FilesPart!Thrown(k)
  BY DEF F!Thrown, FilesPart!Thrown, F!Max, FilesPart!Max, F!Form, FilesPart!Form
<1>4. F!Next <=> FilesPart!Next
  BY <1>3
  DEF F!Next, FilesPart!Next, F!Open, FilesPart!Open, F!Opendir, FilesPart!Opendir, F!LdbmOpen,
      FilesPart!LdbmOpen, F!ImageCreate, FilesPart!ImageCreate, F!Hold, FilesPart!Hold, F!Close,
      FilesPart!Close, F!Drop, FilesPart!Drop, F!GcFree, FilesPart!GcFree, F!Start,
      FilesPart!Start, F!Plain, FilesPart!Plain, F!ReadFails, FilesPart!ReadFails, F!Require,
      FilesPart!Require, F!EndOfFile, FilesPart!EndOfFile, F!Released, FilesPart!Released,
      F!Running, FilesPart!Running, F!Push, FilesPart!Push, F!Fopen, FilesPart!Fopen, F!Done,
      FilesPart!Done, F!Mark, FilesPart!Mark, F!Active, FilesPart!Active, F!Size, FilesPart!Size,
      F!Forms, FilesPart!Forms, F!Libraries, FilesPart!Libraries, F!Form, FilesPart!Form, F!Front,
      FilesPart!Front
<1> QED
  BY <1>1, <1>2, <1>4

LEMMA SocketsSpec == SocketsPart!Sizes /\ (Spec => SocketsPart!Spec)
<1>1. SocketsPart!Sizes
  BY SocketsAssumption DEF SocketsPart!Sizes
<1>2. Init => SocketsPart!Init
  BY SameSockets DEF Init
<1>3. [Next]_vars => [SocketsPart!Next]_(SocketsPart!vars)
  BY SameSockets, PartSteps DEF S!vars, SocketsPart!vars
<1> QED
  BY <1>1, <1>2, <1>3, PTL DEF Spec, SocketsPart!Spec

LEMMA FilesSpec == FilesPart!Program /\ (Spec => FilesPart!Spec)
<1>1. FilesPart!Program
  BY FilesAssumption DEF FilesPart!Program, FilesPart!Libraries, F!Libraries
<1>2. Init => FilesPart!Init
  BY SameFiles DEF Init
<1>3. [Next]_vars => [FilesPart!Next]_(FilesPart!vars)
  BY SameFiles, PartSteps DEF F!vars, FilesPart!vars
<1> QED
  BY <1>1, <1>2, <1>3, PTL DEF Spec, FilesPart!Spec

\* No stream uses a descriptor that was closed, or that another stream has, after any
\* closes, failed opens and collections (ss.c).
THEOREM StreamsOwn == Spec => []OwnsDescriptor
<1>1. SocketsPart!OwnsDescriptor => OwnsDescriptor
  BY DEF OwnsDescriptor, S!OwnsDescriptor, SocketsPart!OwnsDescriptor
<1> QED
  BY <1>1, SocketsSpec, SocketsPart!DescriptorsOwned, PTL

\* Bytes are sent in the order in which they were written and once, for buffers of any
\* size and whatever send takes of them (ss_force, ss_flsbuf, s_write).
THEOREM StreamsSend == Spec => []SentInOrder
<1>1. SocketsPart!SentInOrder => SentInOrder
  BY DEF SentInOrder, S!SentInOrder, SocketsPart!SentInOrder, S!Increasing, SocketsPart!Increasing,
         S!Pending, SocketsPart!Pending, S!Reading, SocketsPart!Reading, S!Bytes, SocketsPart!Bytes
<1> QED
  BY <1>1, SocketsSpec, SocketsPart!BytesGoOut, PTL

\* Bytes are received in order and once, whatever recv delivers and whichever functions
\* read, the reader with its ungetc among them (ss_filbuf, s_gets, s_read_sexp).
THEOREM StreamsReceive == Spec => []ReceivedExactly
<1>1. SocketsPart!ReceivedExactly => ReceivedExactly
  BY DEF ReceivedExactly, S!ReceivedExactly, SocketsPart!ReceivedExactly, S!Reading,
         SocketsPart!Reading, S!Bytes, SocketsPart!Bytes, S!Last, SocketsPart!Last
<1> QED
  BY <1>1, SocketsSpec, SocketsPart!BytesComeIn, PTL

\* What fopen, opendir, DBM and gd have open is in one cell each, whose gc_free closes
\* it, and no other cell has an address that is open (slib.c, slibu.c, ndbm.c, gd.c).
THEOREM FilesOwn == Spec => []OneCellPerHandle
<1>1. FilesPart!OneCellPerHandle => OneCellPerHandle
  BY DEF OneCellPerHandle, F!OneCellPerHandle, FilesPart!OneCellPerHandle,
         F!Cardinality, FilesPart!Cardinality
<1> QED
  BY <1>1, FilesSpec, FilesPart!HandlesOwned, PTL

\* The form after a require is evaluated only when every form of what it required has
\* been, however loads nest, come in circles, fail and are caught (require, vload).
THEOREM FilesLoaded == Spec => []RequiredIsLoaded
<1>1. FilesPart!RequiredIsLoaded => RequiredIsLoaded
  BY DEF RequiredIsLoaded, F!RequiredIsLoaded, FilesPart!RequiredIsLoaded
<1> QED
  BY <1>1, FilesSpec, FilesPart!RequiredLoaded, PTL
=============================================================================
