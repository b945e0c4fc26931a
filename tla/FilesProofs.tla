---------------------------- MODULE FilesProofs ----------------------------
(***************************************************************************)
(* Files, proved: what is open is in one cell, and what a library has      *)
(* required is loaded.                                                     *)
(***************************************************************************)
EXTENDS Files, FiniteSetTheorems, WellFoundedInduction, TLAPS

Spec == Init /\ [][Next]_vars

\* An address is not NULL, and the files name libraries.
Program ==
  /\ 0 \notin Handles /\ None \notin Libraries
  /\ \A l \in Libraries :
       /\ Parser[l] \in Libraries \union {None}
       /\ Contents[l] \in Seq({"plain", "require", "try"} \X (Libraries \union {None}))
       /\ \A i \in DOMAIN Contents[l] : Contents[l][i][1] # "plain" => Contents[l][i][2] \in Libraries

Activation == [file : Libraries \union {None}, op : {"load", "require", "save"},
               lf : Cells, pos : Int]

TypeOK ==
  /\ type \in [Cells -> {"free", "file", "dir", "dbm", "image"}]
  /\ f \in [Cells -> Handles \union {0}]
  /\ stack \in Seq(Activation)

\* A cell that is free has nothing: Open types a cell without a look at its data.
CellsInv ==
  /\ TypeOK
  /\ \A c \in Cells : /\ type[c] = "free" => f[c] = 0
                      /\ f[c] # 0 => f[c] \in opened
  /\ opened \intersect Handles \subseteq {f[c] : c \in Cells}
  /\ \A c, d \in Cells : c # d /\ f[c] = f[d] => f[c] = 0

-----------------------------------------------------------------------------
(* Cells.                                                                  *)

LEMMA OpenCells ==
  ASSUME Program, CellsInv, NEW c \in Cells, NEW h \in Handles, h \notin opened, type[c] = "free",
         NEW kind \in {"file", "dir", "dbm", "image"}, type' = [type EXCEPT ![c] = kind],
         f' = [f EXCEPT ![c] = h], opened' = opened \union {h}, stack' \in Seq(Activation)
  PROVE  CellsInv'
<1>1. f[c] = 0 /\ h # 0
  BY DEF CellsInv, Program
<1>2. TypeOK'
  BY DEF CellsInv, TypeOK
<1>3. \A d \in Cells : /\ type'[d] = "free" => f'[d] = 0
                       /\ f'[d] # 0 => f'[d] \in opened'
  BY <1>1 DEF CellsInv, TypeOK
<1>4. opened' \intersect Handles \subseteq {f'[d] : d \in Cells}
  <2> SUFFICES ASSUME NEW g \in opened' \intersect Handles
               PROVE  \E d \in Cells : f'[d] = g
    OBVIOUS
  <2>1. CASE g = h
    BY <2>1 DEF CellsInv, TypeOK
  <2>2. CASE g # h
    <3>1. PICK d \in Cells : f[d] = g
      BY <2>2 DEF CellsInv
    <3>2. d # c
      BY <1>1, <3>1 DEF Program
    <3> QED
      BY <3>1, <3>2 DEF CellsInv, TypeOK
  <2> QED
    BY <2>1, <2>2
<1>5. \A d, e \in Cells : d # e /\ f'[d] = f'[e] => f'[d] = 0
  BY <1>1 DEF CellsInv, TypeOK
<1> QED
  BY <1>2, <1>3, <1>4, <1>5 DEF CellsInv

LEMMA ReleaseCells ==
  ASSUME Program, CellsInv, NEW c \in Cells, Released(c), stack' \in Seq(Activation),
         type' \in {type, [type EXCEPT ![c] = "free"]}
  PROVE  CellsInv'
<1>1. opened' = opened \ {f[c]} /\ f' = [f EXCEPT ![c] = 0]
  BY DEF Released
<1>2. TypeOK'
  BY <1>1 DEF CellsInv, TypeOK
<1>3. \A d \in Cells : /\ type'[d] = "free" => f'[d] = 0
                       /\ f'[d] # 0 => f'[d] \in opened'
  BY <1>1 DEF CellsInv, TypeOK
<1>4. opened' \intersect Handles \subseteq {f'[d] : d \in Cells}
  <2> SUFFICES ASSUME NEW g \in opened' \intersect Handles
               PROVE  \E d \in Cells : f'[d] = g
    OBVIOUS
  <2>1. PICK d \in Cells : f[d] = g
    BY <1>1 DEF CellsInv
  <2> QED
    BY <1>1, <2>1 DEF CellsInv, TypeOK
<1>5. \A d, e \in Cells : d # e /\ f'[d] = f'[e] => f'[d] = 0
  BY <1>1 DEF CellsInv, TypeOK
<1> QED
  BY <1>2, <1>3, <1>4, <1>5 DEF CellsInv

-----------------------------------------------------------------------------
(* Stacks.                                                                 *)

\* A set of positions has a last one.
LEMMA LastExists ==
  ASSUME NEW n \in Nat, NEW S \in SUBSET (1 .. n), S # {}
  PROVE  Max(S) \in S
<1> DEFINE T == {n - a : a \in S}
<1>1. \A a \in S : a \in 1 .. n /\ n - a \in Nat
  OBVIOUS
<1>2. T \subseteq Nat /\ T # {}
  BY <1>1
<1>3. PICK x \in T : \A y \in T : ~ (<<y, x>> \in OpToRel(<, Nat))
  BY <1>2, WFMin, NatLessThanWellFounded
<1>4. \A y \in T : ~ (y < x)
  BY <1>2, <1>3 DEF OpToRel
<1>5. PICK a \in S : x = n - a
  OBVIOUS
<1>6. ASSUME NEW b \in S
      PROVE  a >= b
  <2>1. ~ (n - b < n - a)
    BY <1>4, <1>5
  <2> QED
    BY <1>1, <2>1
<1> QED
  BY <1>6 DEF Max

\* The stack cut back to the activation n, whose form is done.
Advanced(n) == [SubSeq(stack, 1, n) EXCEPT ![n].pos = @ + 1]

LEMMA PosFact ==
  ASSUME NEW a \in Activation
  PROVE  LET b == [a EXCEPT !.pos = @ + 1] IN
         b \in Activation /\ b.file = a.file /\ b.op = a.op /\ b.pos = a.pos + 1
BY DEF Activation

LEMMA AdvanceFact ==
  ASSUME stack \in Seq(Activation), NEW n \in 1 .. Len(stack)
  PROVE  /\ Advanced(n) \in Seq(Activation) /\ Len(Advanced(n)) = n
         /\ \A k \in 1 .. n - 1 : Advanced(n)[k] = stack[k]
         /\ Advanced(n)[n] = [stack[n] EXCEPT !.pos = @ + 1]
         /\ Advanced(n)[n].file = stack[n].file /\ Advanced(n)[n].op = stack[n].op
         /\ Advanced(n)[n].pos = stack[n].pos + 1
<1> DEFINE s == SubSeq(stack, 1, n)
           a == [stack[n] EXCEPT !.pos = @ + 1]
<1>1. /\ s \in Seq(Activation) /\ Len(s) = n /\ \A k \in 1 .. n : s[k] = stack[k]
      /\ stack[n] \in Activation /\ n \in 1 .. n
  OBVIOUS
<1>2. a \in Activation /\ a.file = stack[n].file /\ a.op = stack[n].op /\ a.pos = stack[n].pos + 1
  BY ONLY <1>1, PosFact DEF a
<1>3. Advanced(n) = [s EXCEPT ![n] = a]
  BY <1>1 DEF Advanced
<1> HIDE DEF s, a
<1>4. /\ [s EXCEPT ![n] = a] \in Seq(Activation) /\ Len([s EXCEPT ![n] = a]) = n
      /\ \A k \in 1 .. n - 1 : [s EXCEPT ![n] = a][k] = s[k]
      /\ [s EXCEPT ![n] = a][n] = a
  BY <1>1, <1>2
<1> QED
  BY <1>1, <1>2, <1>3, <1>4 DEF a

LEMMA PushFact ==
  ASSUME stack \in Seq(Activation), NEW a \in Activation
  PROVE  /\ Append(stack, a) \in Seq(Activation) /\ Len(Append(stack, a)) = Len(stack) + 1
         /\ \A k \in 1 .. Len(stack) : Append(stack, a)[k] = stack[k]
         /\ Append(stack, a)[Len(stack) + 1] = a
  OBVIOUS

\* An error goes to an activation whose form is a *catch.
LEMMA ThrownFact ==
  ASSUME stack \in Seq(Activation), NEW top \in 0 .. Len(stack), Thrown(top)
  PROVE  \/ stack' = <<>>
         \/ \E n \in 1 .. top : Form(stack[n])[1] = "try" /\ stack' = Advanced(n)
<1> DEFINE catches == {k \in 1 .. top : Form(stack[k])[1] = "try"}
<1>1. CASE catches = {}
  BY <1>1 DEF Thrown
<1>2. CASE catches # {}
  <2>1. Max(catches) \in catches
    <3>1. top \in Nat /\ catches \in SUBSET (1 .. top)
      OBVIOUS
    <3> HIDE DEF catches
    <3> QED
      BY <1>2, <3>1, LastExists
  <2>2. stack' = Advanced(Max(catches))
    BY <1>2 DEF Thrown, Advanced
  <2> QED
    BY <2>1, <2>2
<1> QED
  BY <1>1, <1>2

-----------------------------------------------------------------------------
(* What the activations wait for.                                          *)

\* An activation of load that is not the outermost is of the library that the form
\* of the one outside it names; what counts as loaded is loaded.
StackInv ==
  /\ \A k \in 1 .. Len(stack) :
       /\ stack[k].pos >= -1
       /\ stack[k].op # "save" => stack[k].file \in Libraries
       /\ stack[k].pos = -1 => stack[k].op # "save" /\ Parser[stack[k].file] # None
  /\ \A k \in 2 .. Len(stack) :
       /\ stack[k].op = "require"
       /\ Form(stack[k - 1])[1] \in {"require", "try"} /\ Form(stack[k - 1])[2] = stack[k].file
  /\ loaded \subseteq complete

FilesInv == CellsInv /\ StackInv /\ RequiredIsLoaded

\* The form of a is done: what it had to load is loaded.
Settled(a, all, done) ==
  a.op # "save" => IF a.pos = -1 THEN Parser[a.file] \in all
                   ELSE Contents[a.file][a.pos + 1][1] = "require"
                          => Contents[a.file][a.pos + 1][2] \in done

LEMMA FormFact ==
  ASSUME Program, NEW a \in Activation, a.pos >= -1, a.op # "save" => a.file \in Libraries,
         a.pos = -1 => Parser[a.file] # None, a.pos < Size(a), Form(a)[1] \in {"require", "try"}
  PROVE  Form(a)[2] \in Libraries /\ a.op # "save" /\ a.file \in Libraries
<1>1. a.op # "save" /\ a.file \in Libraries /\ a.pos \in Int
  BY DEF Form, Activation
<1>2. CASE a.pos = -1
  BY <1>1, <1>2 DEF Form, Program
<1>3. CASE a.pos # -1
  <2>1. a.file # None /\ a.pos + 1 \in DOMAIN Contents[a.file]
    BY <1>1, <1>3 DEF Program, Size, Forms
  <2> QED
    BY <1>1, <1>3, <2>1 DEF Form, Program
<1> QED
  BY <1>1, <1>2, <1>3

LEMMA AdvanceStep ==
  ASSUME TypeOK, StackInv, RequiredIsLoaded, NEW n \in 1 .. Len(stack), stack' = Advanced(n),
         loaded \subseteq loaded', complete \subseteq complete', loaded' \subseteq complete',
         Settled(stack[n], loaded', complete')
  PROVE  StackInv' /\ RequiredIsLoaded'
<1> DEFINE a == stack[n]  b == stack'[n]
<1>1. /\ stack' \in Seq(Activation) /\ Len(stack') = n /\ Len(stack) \in Nat
      /\ DOMAIN stack' = 1 .. n /\ DOMAIN stack = 1 .. Len(stack)
      /\ \A k \in 1 .. n - 1 : stack'[k] = stack[k] /\ k \in 1 .. Len(stack)
      /\ b.file = a.file /\ b.op = a.op /\ b.pos = a.pos + 1 /\ a.pos \in Int /\ a.pos >= -1
      /\ a.op # "save" => a.file \in Libraries
  <2>1. stack \in Seq(Activation)
    BY DEF TypeOK
  <2>2. /\ Advanced(n) \in Seq(Activation) /\ Len(Advanced(n)) = n
        /\ \A k \in 1 .. n - 1 : Advanced(n)[k] = stack[k]
        /\ Advanced(n)[n].file = stack[n].file /\ Advanced(n)[n].op = stack[n].op
        /\ Advanced(n)[n].pos = stack[n].pos + 1
    BY <2>1, AdvanceFact
  <2>3. a \in Activation /\ Len(stack) \in Nat /\ DOMAIN stack = 1 .. Len(stack)
    BY <2>1
  <2>4. a.pos \in Int
    BY <2>3 DEF Activation
  <2>5. a.pos >= -1 /\ (a.op # "save" => a.file \in Libraries)
    BY DEF StackInv
  <2>6. DOMAIN stack' = 1 .. n
    BY <2>2
  <2>7. \A k \in 1 .. n - 1 : k \in 1 .. Len(stack)
    BY <2>3
  <2> QED
    BY <2>2, <2>3, <2>4, <2>5, <2>6, <2>7
<1>2. \A k \in 1 .. n : /\ stack'[k].pos >= -1
                        /\ stack'[k].op # "save" => stack'[k].file \in Libraries
                        /\ stack'[k].pos = -1 => stack'[k].op # "save" /\ Parser[stack'[k].file] # None
  <2> TAKE k \in 1 .. n
  <2>1. CASE k = n
    BY <1>1, <2>1
  <2>2. CASE k # n
    BY <1>1, <2>2 DEF StackInv
  <2> QED
    BY <2>1, <2>2
<1>3. \A k \in 2 .. n : /\ stack'[k].op = "require"
                        /\ Form(stack'[k - 1])[1] \in {"require", "try"}
                        /\ Form(stack'[k - 1])[2] = stack'[k].file
  <2> TAKE k \in 2 .. n
  <2>1. k - 1 \in 1 .. n - 1 /\ k \in 2 .. Len(stack)
    BY <1>1
  <2>2. stack'[k - 1] = stack[k - 1] /\ stack'[k].op = stack[k].op /\ stack'[k].file = stack[k].file
    <3>1. CASE k = n
      BY <1>1, <2>1, <3>1
    <3>2. CASE k # n
      BY <1>1, <2>1, <3>2
    <3> QED
      BY <3>1, <3>2
  <2> QED
    BY <2>1, <2>2 DEF StackInv
<1>4. StackInv'
  BY <1>1, <1>2, <1>3 DEF StackInv
<1>5. ASSUME NEW k \in 1 .. n, stack'[k].op # "save"
      PROVE  /\ stack'[k].pos >= 0 => Parser[stack'[k].file] \in loaded' \union {None}
             /\ \A i \in 1 .. stack'[k].pos : Contents[stack'[k].file][i][1] = "require"
                                                => Contents[stack'[k].file][i][2] \in complete'
  <2>1. CASE k # n
    BY <1>1, <1>5, <2>1 DEF RequiredIsLoaded
  <2>2. CASE k = n
    <3>1. Parser[a.file] \in loaded' \union {None}
      <4>1. CASE a.pos = -1
        BY <1>1, <1>5, <2>2, <4>1 DEF Settled
      <4>2. CASE a.pos # -1
        BY <1>1, <1>5, <2>2, <4>2 DEF RequiredIsLoaded
      <4> QED
        BY <4>1, <4>2
    <3>2. ASSUME NEW i \in 1 .. a.pos + 1, Contents[a.file][i][1] = "require"
          PROVE  Contents[a.file][i][2] \in complete'
      <4>1. CASE i = a.pos + 1
        BY <1>1, <1>5, <2>2, <3>2, <4>1 DEF Settled
      <4>2. CASE i # a.pos + 1
        <5>1. i \in 1 .. a.pos
          BY <1>1, <4>2
        <5> QED
          BY <1>1, <1>5, <2>2, <3>2, <5>1 DEF RequiredIsLoaded
      <4> QED
        BY <4>1, <4>2
    <3> QED
      BY <1>1, <2>2, <3>1, <3>2
  <2> QED
    BY <2>1, <2>2
<1> QED
  BY <1>1, <1>4, <1>5 DEF RequiredIsLoaded

LEMMA PushStep ==
  ASSUME TypeOK, StackInv, RequiredIsLoaded, NEW a \in Activation, stack' = Append(stack, a),
         UNCHANGED <<loaded, complete>>,
         a.op # "save" => a.file \in Libraries,
         a.pos = IF a.op # "save" /\ Parser[a.file] # None THEN -1 ELSE 0,
         stack # <<>> => /\ a.op = "require" /\ Form(Active)[1] \in {"require", "try"}
                         /\ Form(Active)[2] = a.file
  PROVE  StackInv' /\ RequiredIsLoaded'
<1> DEFINE n == Len(stack)
<1>1. /\ stack' \in Seq(Activation) /\ Len(stack') = n + 1 /\ n \in Nat
      /\ DOMAIN stack' = 1 .. n + 1 /\ DOMAIN stack = 1 .. n
      /\ \A k \in 1 .. n : stack'[k] = stack[k]
      /\ stack'[n + 1] = a /\ (n > 0 => stack # <<>>)
  BY PushFact DEF TypeOK
<1> HIDE DEF n
<1>2. \A k \in 1 .. n + 1 : /\ stack'[k].pos >= -1
                            /\ stack'[k].op # "save" => stack'[k].file \in Libraries
                            /\ stack'[k].pos = -1 => stack'[k].op # "save" /\ Parser[stack'[k].file] # None
  <2> TAKE k \in 1 .. n + 1
  <2>1. CASE k = n + 1
    BY <1>1, <2>1
  <2>2. CASE k # n + 1
    <3>1. k \in 1 .. n
      BY <1>1, <2>2
    <3> QED
      BY <1>1, <3>1 DEF StackInv, n
  <2> QED
    BY <2>1, <2>2
<1>3. \A k \in 2 .. n + 1 : /\ stack'[k].op = "require"
                            /\ Form(stack'[k - 1])[1] \in {"require", "try"}
                            /\ Form(stack'[k - 1])[2] = stack'[k].file
  <2> TAKE k \in 2 .. n + 1
  <2>1. k - 1 \in 1 .. n /\ stack'[k - 1] = stack[k - 1]
    BY <1>1
  <2>2. CASE k = n + 1
    <3>1. n > 0 /\ k - 1 = n /\ stack'[k] = a
      BY <1>1, <2>2
    <3> QED
      BY <1>1, <2>1, <3>1 DEF Active, n
  <2>3. CASE k # n + 1
    <3>1. k \in 2 .. n /\ stack'[k] = stack[k]
      BY <1>1, <2>3
    <3> QED
      BY <2>1, <3>1 DEF StackInv, n
  <2> QED
    BY <2>2, <2>3
<1>4. StackInv'
  BY <1>1, <1>2, <1>3 DEF StackInv
<1>5. ASSUME NEW k \in 1 .. n + 1, stack'[k].op # "save"
      PROVE  /\ stack'[k].pos >= 0 => Parser[stack'[k].file] \in loaded' \union {None}
             /\ \A i \in 1 .. stack'[k].pos : Contents[stack'[k].file][i][1] = "require"
                                                => Contents[stack'[k].file][i][2] \in complete'
  <2>1. CASE k = n + 1
    BY <1>1, <1>5, <2>1
  <2>2. CASE k # n + 1
    <3>1. k \in 1 .. n /\ stack'[k] = stack[k]
      BY <1>1, <2>2
    <3> QED
      BY <1>1, <1>5, <3>1 DEF RequiredIsLoaded, n
  <2> QED
    BY <2>1, <2>2
<1> QED
  BY <1>1, <1>4, <1>5 DEF RequiredIsLoaded

\* An error leaves what is required, because the form it goes to is no require.
LEMMA ThrownStep ==
  ASSUME TypeOK, StackInv, RequiredIsLoaded, NEW top \in 0 .. Len(stack), Thrown(top),
         UNCHANGED <<loaded, complete>>
  PROVE  stack' \in Seq(Activation) /\ StackInv' /\ RequiredIsLoaded'
<1>1. CASE stack' = <<>>
  <2>1. Len(stack') = 0 /\ DOMAIN stack' = {} /\ stack' \in Seq(Activation)
    BY <1>1
  <2> QED
    BY <2>1 DEF StackInv, RequiredIsLoaded
<1>2. ASSUME NEW n \in 1 .. top, Form(stack[n])[1] = "try", stack' = Advanced(n)
      PROVE  stack' \in Seq(Activation) /\ StackInv' /\ RequiredIsLoaded'
  <2>1. n \in 1 .. Len(stack)
    BY DEF TypeOK
  <2>2. Settled(stack[n], loaded, complete)
    BY <1>2 DEF Settled, Form
  <2>3. stack' \in Seq(Activation)
    BY <1>2, <2>1, AdvanceFact DEF TypeOK
  <2>4. loaded \subseteq complete
    BY DEF StackInv
  <2> QED
    BY <1>2, <2>1, <2>2, <2>3, <2>4, AdvanceStep
<1> QED
  BY <1>1, <1>2, ThrownFact DEF TypeOK

-----------------------------------------------------------------------------
(* The steps.                                                              *)

LEMMA ActiveFact ==
  ASSUME TypeOK, stack # <<>>
  PROVE  /\ Len(stack) \in 1 .. Len(stack) /\ Active = stack[Len(stack)] /\ Active \in Activation
         /\ Active.lf \in Cells /\ Active.op \in {"load", "require", "save"}
         /\ SubSeq(stack, 1, Len(stack)) = stack
<1>1. stack \in Seq(Activation)
  BY DEF TypeOK
<1>2. Len(stack) \in 1 .. Len(stack) /\ SubSeq(stack, 1, Len(stack)) = stack
  BY <1>1
<1>3. Active = stack[Len(stack)] /\ Active \in Activation
  BY <1>1, <1>2 DEF Active
<1>4. Active.lf \in Cells /\ Active.op \in {"load", "require", "save"}
  BY ONLY <1>3 DEF Activation
<1> QED
  BY <1>2, <1>3, <1>4

\* A load begins, or the save of forms.
LEMMA PushKeeps ==
  ASSUME Program, FilesInv, NEW file, NEW op \in {"load", "require", "save"}, Push(file, op),
         UNCHANGED <<loaded, complete>>,
         IF op = "save" THEN file = None ELSE file \in Libraries,
         stack # <<>> => /\ op = "require" /\ Form(Active)[1] \in {"require", "try"}
                         /\ Form(Active)[2] = file
  PROVE  FilesInv'
<1>1. PICK c \in Cells, h \in Handles :
        /\ Fopen(c, h)
        /\ stack' = Append(stack, [file |-> file, op |-> op, lf |-> c,
                                   pos |-> IF op # "save" /\ Parser[file] # None THEN -1 ELSE 0])
  BY DEF Push
<1> DEFINE p == IF op # "save" /\ Parser[file] # None THEN -1 ELSE 0
           a == [file |-> file, op |-> op, lf |-> c, pos |-> p]
<1>2. a \in Activation /\ a.op = op /\ a.file = file /\ a.pos = p
  <2>1. p \in Int
    OBVIOUS
  <2> QED
    BY <2>1 DEF Activation
<1>3. stack' = Append(stack, a)
  BY <1>1
<1> HIDE DEF a
<1>4. StackInv' /\ RequiredIsLoaded'
  BY <1>2, <1>3, PushStep DEF FilesInv, CellsInv
<1>5. stack' \in Seq(Activation)
  BY <1>2, <1>3, PushFact DEF FilesInv, CellsInv, TypeOK
<1>6. CellsInv'
  BY <1>1, <1>5, OpenCells DEF Fopen, FilesInv
<1> QED
  BY <1>4, <1>6 DEF FilesInv

\* The cells change, and no activation.
LEMMA CellsOnly ==
  ASSUME FilesInv, CellsInv', UNCHANGED <<stack, loaded, complete>>
  PROVE  FilesInv'
BY DEF FilesInv, StackInv, RequiredIsLoaded

LEMMA RequireKeeps == ASSUME Program, FilesInv, Require PROVE FilesInv'
<1> DEFINE l == Form(Active)[2]
<1>1. /\ stack # <<>> /\ Active.pos < Size(Active) /\ Form(Active)[1] \in {"require", "try"}
      /\ UNCHANGED complete /\ TypeOK /\ StackInv /\ RequiredIsLoaded /\ CellsInv
  BY DEF Require, FilesInv, CellsInv
<1>2. /\ Len(stack) \in 1 .. Len(stack) /\ Active = stack[Len(stack)] /\ Active \in Activation
      /\ SubSeq(stack, 1, Len(stack)) = stack /\ Len(stack) \in 0 .. Len(stack)
  BY <1>1, ActiveFact
<1>3. l \in Libraries /\ Active.op # "save"
  <2>1. Active.pos >= -1 /\ (Active.op # "save" => Active.file \in Libraries)
        /\ (Active.pos = -1 => Parser[Active.file] # None)
    BY <1>1, <1>2 DEF StackInv
  <2> QED
    BY <1>1, <1>2, <2>1, FormFact
<1>4. CASE l \in loaded /\ Done /\ UNCHANGED <<type, f, opened, loaded>>
  <2>1. stack' = Advanced(Len(stack))
    BY <1>2, <1>4 DEF Done, Advanced
  <2>2. Settled(stack[Len(stack)], loaded, complete)
    BY <1>1, <1>2, <1>4 DEF Settled, Form, StackInv
  <2>3. stack' \in Seq(Activation)
    BY <1>1, <1>2, <2>1, AdvanceFact DEF TypeOK
  <2>4. loaded \subseteq complete /\ loaded' = loaded
    BY <1>1, <1>4 DEF StackInv
  <2>5. StackInv' /\ RequiredIsLoaded'
    BY <1>1, <1>2, <2>1, <2>2, <2>4, AdvanceStep
  <2>6. CellsInv'
    BY <1>1, <1>4, <2>3 DEF CellsInv, TypeOK
  <2> QED
    BY <2>5, <2>6 DEF FilesInv
<1>5. CASE Push(l, "require") /\ Mark(l, FALSE)
  <2>1. UNCHANGED <<loaded, complete>>
    BY <1>1, <1>5 DEF Mark
  <2> QED
    BY <1>1, <1>3, <1>5, <2>1, PushKeeps
<1>6. CASE /\ Thrown(Len(stack)) /\ UNCHANGED loaded
           /\ \/ UNCHANGED <<type, f, opened>>
              \/ \E c \in Cells, h \in Handles : Fopen(c, h)
  <2>1. stack' \in Seq(Activation) /\ StackInv' /\ RequiredIsLoaded'
    BY <1>1, <1>2, <1>6, ThrownStep
  <2>2. CASE UNCHANGED <<type, f, opened>>
    <3>1. CellsInv'
      BY <1>1, <2>1, <2>2 DEF CellsInv, TypeOK
    <3> QED
      BY <2>1, <3>1 DEF FilesInv
  <2>3. ASSUME NEW c \in Cells, NEW h \in Handles, Fopen(c, h)
        PROVE  CellsInv'
    BY <1>1, <2>1, <2>3, OpenCells DEF Fopen
  <2> QED
    BY <1>6, <2>1, <2>2, <2>3 DEF FilesInv
<1> QED
  BY <1>4, <1>5, <1>6 DEF Require

LEMMA EndOfFileKeeps == ASSUME Program, FilesInv, EndOfFile PROVE FilesInv'
<1> DEFINE n == Len(stack)
<1>1. /\ stack # <<>> /\ TypeOK /\ StackInv /\ RequiredIsLoaded /\ CellsInv
      /\ Released(Active.lf) /\ UNCHANGED <<type, held>>
      /\ stack' = IF n = 1 THEN <<>> ELSE [Front(stack) EXCEPT ![n - 1].pos = @ + 1]
      /\ Mark(Active.file, Active.op = "require")
      /\ complete' = IF Active.op = "save" THEN complete ELSE complete \union {Active.file}
  BY DEF EndOfFile, FilesInv, CellsInv
<1>2. n \in 1 .. n /\ Active = stack[n] /\ Active \in Activation /\ Active.lf \in Cells
  BY <1>1, ActiveFact
<1>3. /\ loaded \subseteq complete /\ loaded \subseteq loaded' /\ complete \subseteq complete'
      /\ loaded' \subseteq complete'
      /\ Active.op = "require" => Active.file \in loaded' /\ Active.file \in complete'
  BY <1>1 DEF Mark, StackInv
<1>4. stack' \in Seq(Activation) /\ StackInv' /\ RequiredIsLoaded'
  <2>1. CASE n = 1
    <3>1. stack' = <<>> /\ Len(stack') = 0 /\ DOMAIN stack' = {} /\ stack' \in Seq(Activation)
      BY <1>1, <2>1
    <3> QED
      BY <1>3, <3>1 DEF StackInv, RequiredIsLoaded
  <2>2. CASE n # 1
    <3>1. n \in 2 .. Len(stack) /\ n - 1 \in 1 .. Len(stack)
      BY <1>2, <2>2
    <3>2. stack' = Advanced(n - 1)
      BY <1>1, <2>2 DEF Advanced, Front
    <3>3. /\ Active.op = "require"
          /\ Form(stack[n - 1])[1] \in {"require", "try"} /\ Form(stack[n - 1])[2] = Active.file
      BY <1>1, <1>2, <3>1 DEF StackInv
    <3>4. Settled(stack[n - 1], loaded', complete')
      BY <1>3, <3>3 DEF Settled, Form
    <3>5. stack' \in Seq(Activation)
      BY <1>1, <3>1, <3>2, AdvanceFact DEF TypeOK
    <3> QED
      BY <1>1, <1>3, <3>1, <3>2, <3>4, <3>5, AdvanceStep
  <2> QED
    BY <2>1, <2>2
<1>5. CellsInv'
  BY <1>1, <1>2, <1>4, ReleaseCells
<1> QED
  BY <1>4, <1>5 DEF FilesInv

LEMMA PlainKeeps == ASSUME Program, FilesInv, Plain \/ ReadFails PROVE FilesInv'
<1>1. /\ stack # <<>> /\ UNCHANGED <<type, f, opened, loaded, complete>>
      /\ TypeOK /\ StackInv /\ RequiredIsLoaded /\ CellsInv /\ loaded \subseteq complete
  BY DEF Plain, ReadFails, FilesInv, CellsInv, StackInv
<1>2. /\ Len(stack) \in 1 .. Len(stack) /\ Active = stack[Len(stack)]
      /\ SubSeq(stack, 1, Len(stack)) = stack
      /\ Len(stack) \in 0 .. Len(stack) /\ Len(stack) - 1 \in 0 .. Len(stack)
  BY <1>1, ActiveFact
<1>3. CASE Thrown(Len(stack)) \/ Thrown(Len(stack) - 1)
  BY <1>1, <1>2, <1>3, ThrownStep DEF FilesInv, CellsInv, TypeOK
<1>4. CASE Done /\ Form(Active)[1] = "plain"
  <2>1. stack' = Advanced(Len(stack))
    BY <1>2, <1>4 DEF Done, Advanced
  <2>2. Settled(stack[Len(stack)], loaded, complete)
    BY <1>2, <1>4 DEF Settled, Form
  <2>3. stack' \in Seq(Activation)
    BY <1>1, <1>2, <2>1, AdvanceFact DEF TypeOK
  <2>4. StackInv' /\ RequiredIsLoaded'
    BY <1>1, <1>2, <2>1, <2>2, AdvanceStep
  <2> QED
    BY <1>1, <2>3, <2>4 DEF FilesInv, CellsInv, TypeOK
<1> QED
  BY <1>3, <1>4 DEF Plain, ReadFails

LEMMA FilesStep == ASSUME Program PROVE FilesInv /\ [Next]_vars => FilesInv'
<1> SUFFICES ASSUME FilesInv, [Next]_vars
             PROVE  FilesInv'
  OBVIOUS
<1>0. CellsInv /\ stack \in Seq(Activation)
  BY DEF FilesInv, CellsInv, TypeOK
<1>1. CASE Open
  <2>1. ASSUME NEW c \in Cells, NEW h \in Handles, Fopen(c, h), UNCHANGED <<stack, loaded, complete>>
        PROVE  FilesInv'
    BY <1>0, <2>1, OpenCells, CellsOnly DEF Fopen
  <2>2. ASSUME NEW c \in Cells, type[c] = "free", type' = [type EXCEPT ![c] = "file"],
               UNCHANGED <<f, opened, stack, loaded, complete>>
        PROVE  FilesInv'
    BY <1>0, <2>2, CellsOnly DEF CellsInv, TypeOK
  <2> QED
    BY <1>1, <2>1, <2>2 DEF Open
<1>2. CASE Opendir \/ LdbmOpen \/ ImageCreate
  <2>1. PICK kind \in {"dir", "dbm", "image"} : Hold(kind)
    BY <1>2 DEF Opendir, LdbmOpen, ImageCreate
  <2>2. PICK c \in Cells, h \in Handles :
          /\ type[c] = "free" /\ h \notin opened
          /\ type' = [type EXCEPT ![c] = kind] /\ f' = [f EXCEPT ![c] = h]
          /\ opened' = opened \union {h}
          /\ UNCHANGED <<stack, loaded, complete>>
    BY <2>1 DEF Hold
  <2>3. CellsInv'
    BY <1>0, <2>2, OpenCells
  <2> QED
    BY <2>2, <2>3, CellsOnly
<1>3. ASSUME NEW c \in Cells, Close(c) \/ GcFree(c)
      PROVE  FilesInv'
  <2>1. /\ Released(c) /\ type' \in {type, [type EXCEPT ![c] = "free"]}
        /\ UNCHANGED <<stack, loaded, complete>>
    BY <1>3 DEF Close, GcFree
  <2>2. CellsInv'
    BY <1>0, <2>1, ReleaseCells
  <2> QED
    BY <2>1, <2>2, CellsOnly
<1>4. ASSUME NEW c \in Cells, Drop(c)
      PROVE  FilesInv'
  BY <1>0, <1>4, CellsOnly DEF Drop, CellsInv, TypeOK
<1>5. CASE Start
  BY <1>5, PushKeeps DEF Start
<1>6. CASE UNCHANGED vars
  BY <1>0, <1>6, CellsOnly DEF vars, CellsInv, TypeOK
<1> QED
  BY <1>1, <1>2, <1>3, <1>4, <1>5, <1>6, PlainKeeps, RequireKeeps, EndOfFileKeeps DEF Next

LEMMA FilesInvariance == ASSUME Program PROVE Spec => []FilesInv
<1>1. Init => FilesInv
  <2> SUFFICES ASSUME Init PROVE FilesInv
    OBVIOUS
  <2>1. /\ type = [c \in Cells |-> "free"] /\ f = [c \in Cells |-> 0] /\ opened = {}
        /\ stack = <<>> /\ loaded = {} /\ Len(stack) = 0 /\ DOMAIN stack = {}
        /\ stack \in Seq(Activation)
    BY DEF Init
  <2> QED
    BY <2>1 DEF FilesInv, CellsInv, TypeOK, StackInv, RequiredIsLoaded
<1> QED
  BY <1>1, FilesStep, PTL DEF Spec

\* Whatever errors leave the functions that use them, and whenever the collector
\* runs, what is open and the cells that close it are one to one (fopen_cg,
\* file_gc_free and their like).
THEOREM HandlesOwned == ASSUME Program PROVE Spec => []OneCellPerHandle
<1>1. Program /\ FilesInv => OneCellPerHandle
  <2> SUFFICES ASSUME Program, FilesInv, NEW h \in Handles
               PROVE  Cardinality({c \in Cells : f[c] = h /\ type[c] # "free"})
                        = IF h \in opened THEN 1 ELSE 0
    BY DEF OneCellPerHandle
  <2> DEFINE S == {c \in Cells : f[c] = h /\ type[c] # "free"}
  <2>0. h # 0
    BY DEF Program
  <2>1. CASE h \in opened
    <3>1. PICK c \in Cells : f[c] = h
      BY <2>1 DEF FilesInv, CellsInv
    <3>2. S = {c}
      BY <2>0, <3>1 DEF FilesInv, CellsInv
    <3> QED
      BY <2>1, <3>2, FS_Singleton
  <2>2. CASE h \notin opened
    <3>1. S = {}
      BY <2>0, <2>2 DEF FilesInv, CellsInv
    <3> QED
      BY <2>2, <3>1, FS_EmptySet
  <2> QED
    BY <2>1, <2>2
<1> QED
  BY <1>1, FilesInvariance, PTL

\* However requires nest, come in circles, fail and are caught: a library goes on
\* after a require only when what it required is loaded to its last form (require,
\* vload).
THEOREM RequiredLoaded == ASSUME Program PROVE Spec => []RequiredIsLoaded
<1>1. FilesInv => RequiredIsLoaded
  BY DEF FilesInv
<1> QED
  BY <1>1, FilesInvariance, PTL
=============================================================================
