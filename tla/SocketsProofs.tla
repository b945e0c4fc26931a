--------------------------- MODULE SocketsProofs ---------------------------
(***************************************************************************)
(* Buffered streams, proved: a descriptor is one stream's, and bytes go    *)
(* and come in order and once.                                             *)
(***************************************************************************)
EXTENDS Sockets, TLAPS

Spec == Init /\ [][Next]_vars

Sizes == Bufsiz \in Nat /\ MaxBytes \in Nat

Ops == {"idle", "put", "direct", "read", "gets", "drain", "sexp"}
Bstring == Seq(Nat)

Calls == [op : Ops, s : Streams \union {0}, rest : Bstring, todo : Bstring, want : Nat]

CellsOK ==
  /\ object \in [Streams -> {"free", "open", "closed"}] /\ held \subseteq Streams
  /\ sd \in [Streams -> Fds \union {0}]
  /\ \A s \in Streams : object[s] = "open" => sd[s] \in Fds
BuffersOK ==
  /\ ibuf \in [Streams -> Bstring] /\ ipos \in [Streams -> Nat] /\ obuf \in [Streams -> Bstring]
KernelOK ==
  /\ socket \in [Fds -> {"closed", "listening", "both", "reading", "writing", "shut"}]
  /\ arriving \in [Fds -> Bstring]
HistoryOK ==
  /\ written \in [Streams -> Nat] /\ sent \in [Streams -> Bstring] /\ faulty \in [Streams -> BOOLEAN]
  /\ arrived \in [Streams -> Nat] /\ taken \in [Streams -> Bstring]
TypeOK == CellsOK /\ BuffersOK /\ KernelOK /\ HistoryOK /\ call \in Calls

\* The function that runs has an open stream, and writes past an empty buffer.
CallInv ==
  /\ call.op = "idle" => call.rest = <<>> /\ call.todo = <<>>
  /\ call.op # "idle" => call.s \in Streams /\ object[call.s] = "open"
  /\ call.op = "direct" => obuf[call.s] = <<>>
  /\ Reading => call.rest = <<>>

-----------------------------------------------------------------------------
(* Sequences.                                                              *)

\* What a concatenation has at each place.
LEMMA ConcatFact ==
  ASSUME NEW a \in Bstring, NEW b \in Bstring
  PROVE  /\ a \o b \in Bstring /\ Len(a \o b) = Len(a) + Len(b) /\ Len(a) \in Nat /\ Len(b) \in Nat
         /\ \A i \in 1 .. Len(a) : (a \o b)[i] = a[i]
         /\ \A i \in Len(a) + 1 .. Len(a) + Len(b) : (a \o b)[i] = b[i - Len(a)]
         /\ \A i \in 1 .. Len(b) : (a \o b)[Len(a) + i] = b[i]
  BY DEF Bstring

LEMMA SameSeq ==
  ASSUME NEW a \in Bstring, NEW b \in Bstring, NEW n, Len(a) = n, Len(b) = n,
         \A i \in 1 .. n : a[i] = b[i]
  PROVE  a = b
  BY DEF Bstring

LEMMA SplitFact ==
  ASSUME NEW a \in Bstring, NEW k \in 0 .. Len(a)
  PROVE  /\ SubSeq(a, 1, k) \in Bstring /\ SubSeq(a, k + 1, Len(a)) \in Bstring
         /\ a = SubSeq(a, 1, k) \o SubSeq(a, k + 1, Len(a))
         /\ Len(SubSeq(a, 1, k)) = k
         /\ \A i \in 1 .. k : SubSeq(a, 1, k)[i] = a[i]
<1> DEFINE p == SubSeq(a, 1, k)  q == SubSeq(a, k + 1, Len(a))  n == Len(a)
<1>1. n \in Nat /\ k \in Nat /\ k <= n
  BY DEF Bstring
<1>2. p \in Bstring /\ Len(p) = k /\ \A i \in 1 .. k : p[i] = a[i]
  BY DEF Bstring
<1>3. q \in Bstring /\ Len(q) = n - k /\ \A i \in 1 .. n - k : q[i] = a[k + i]
  BY DEF Bstring
<1> HIDE DEF p, q, n
<1>4. Len(p) + Len(q) = n
  BY <1>1, <1>2, <1>3
<1>5. /\ p \o q \in Bstring /\ Len(p \o q) = n
      /\ \A i \in 1 .. k : (p \o q)[i] = p[i]
      /\ \A i \in k + 1 .. n : (p \o q)[i] = q[i - k]
  <2>1. /\ p \o q \in Bstring /\ Len(p \o q) = Len(p) + Len(q)
        /\ \A i \in 1 .. Len(p) : (p \o q)[i] = p[i]
        /\ \A i \in Len(p) + 1 .. Len(p) + Len(q) : (p \o q)[i] = q[i - Len(p)]
    BY <1>2, <1>3, ConcatFact
  <2> QED
    BY <1>2, <1>4, <2>1
<1>6. \A i \in 1 .. n : (p \o q)[i] = a[i]
  <2> TAKE i \in 1 .. n
  <2>1. CASE i <= k
    BY <1>1, <1>2, <1>5, <2>1
  <2>2. CASE ~ (i <= k)
    <3>1. i \in k + 1 .. n /\ i - k \in 1 .. n - k /\ k + (i - k) = i
      BY <1>1, <2>2
    <3> QED
      BY <1>3, <1>5, <3>1
  <2> QED
    BY <2>1, <2>2
<1>7. a = p \o q
  <2>1. Len(a) = n
    BY DEF n
  <2> QED
    BY <1>5, <1>6, <2>1, SameSeq
<1> QED
  BY <1>2, <1>3, <1>7 DEF p, q

LEMMA HeadFact ==
  ASSUME NEW a \in Bstring, a # <<>>
  PROVE  /\ <<Head(a)>> \in Bstring /\ Tail(a) \in Bstring /\ a = <<Head(a)>> \o Tail(a)
         /\ Head(a) \in Nat /\ Head(a) = a[1] /\ Len(a) > 0
  BY DEF Bstring

LEMMA AppendFact ==
  ASSUME NEW a \in Bstring, NEW e \in Nat
  PROVE  /\ Append(a, e) = a \o <<e>> /\ <<e>> \in Bstring /\ Append(a, e) \in Bstring
         /\ Append(a, e) # <<>> /\ Last(Append(a, e)) = e
  BY DEF Bstring, Last

LEMMA LastFact ==
  ASSUME NEW a \in Bstring, a # <<>>
  PROVE  /\ Front(a) \in Bstring /\ Last(a) \in Nat /\ a = Front(a) \o <<Last(a)>>
         /\ <<Last(a)>> \in Bstring
  BY DEF Bstring, Front, Last

\* The bytes of a buffer from one place on.
LEMMA RestFact ==
  ASSUME NEW a \in Bstring, NEW k \in 1 .. Len(a)
  PROVE  /\ SubSeq(a, k, Len(a)) = <<a[k]>> \o SubSeq(a, k + 1, Len(a))
         /\ a[k] \in Nat /\ <<a[k]>> \in Bstring
         /\ SubSeq(a, k, Len(a)) \in Bstring /\ SubSeq(a, k + 1, Len(a)) \in Bstring
  BY DEF Bstring

-----------------------------------------------------------------------------
(* Bytes by number.                                                        *)

\* q has each byte once, in order, and none after the m-th.
Sorted(q, m) ==
  /\ q \in Bstring
  /\ \A i, j \in 1 .. Len(q) : i < j => q[i] < q[j]
  /\ \A i \in 1 .. Len(q) : q[i] <= m

LEMMA BytesFact ==
  ASSUME NEW m \in Nat, NEW n \in Nat
  PROVE  /\ Bytes(m, n) \in Bstring /\ Len(Bytes(m, n)) = n
         /\ \A i \in 1 .. n : Bytes(m, n)[i] = m + i
  BY DEF Bytes, Bstring

LEMMA BytesOn ==
  ASSUME NEW m \in Nat, NEW n \in Nat
  PROVE  Bytes(0, m) \o Bytes(m, n) = Bytes(0, m + n)
<1> DEFINE p == Bytes(0, m)  q == Bytes(m, n)  r == Bytes(0, m + n)
<1>1. p \in Bstring /\ Len(p) = m /\ \A i \in 1 .. m : p[i] = i
  BY BytesFact
<1>2. q \in Bstring /\ Len(q) = n /\ \A i \in 1 .. n : q[i] = m + i
  BY BytesFact
<1>3. r \in Bstring /\ Len(r) = m + n /\ \A i \in 1 .. m + n : r[i] = i
  BY BytesFact
<1> HIDE DEF p, q, r
<1>4. /\ p \o q \in Bstring /\ Len(p \o q) = m + n
      /\ \A i \in 1 .. m : (p \o q)[i] = p[i]
      /\ \A i \in m + 1 .. m + n : (p \o q)[i] = q[i - m]
  BY <1>1, <1>2, ConcatFact
<1>5. \A i \in 1 .. m + n : (p \o q)[i] = r[i]
  <2> TAKE i \in 1 .. m + n
  <2>1. CASE i <= m
    BY <1>1, <1>3, <1>4, <2>1
  <2>2. CASE ~ (i <= m)
    <3>1. i \in m + 1 .. m + n /\ i - m \in 1 .. n /\ m + (i - m) = i
      BY <2>2
    <3> QED
      BY <1>2, <1>3, <1>4, <3>1
  <2> QED
    BY <2>1, <2>2
<1>6. p \o q = r
  BY <1>3, <1>4, <1>5, SameSeq
<1> QED
  BY <1>6 DEF p, q, r

LEMMA BytesSorted == ASSUME NEW n \in Nat PROVE Sorted(Bytes(0, n), n)
<1> DEFINE p == Bytes(0, n)
<1>1. p \in Bstring /\ Len(p) = n /\ \A i \in 1 .. n : p[i] = 0 + i
  <2>1. 0 \in Nat
    OBVIOUS
  <2> QED
    BY <2>1, BytesFact, Zenon
<1> HIDE DEF p
<1>2. Sorted(p, n)
  BY <1>1 DEF Sorted
<1> QED
  BY <1>2 DEF p

LEMMA SortedOn ==
  ASSUME NEW m \in Nat, NEW n \in Nat, NEW q, Sorted(q, m)
  PROVE  Sorted(q \o Bytes(m, n), m + n)
<1> DEFINE b == Bytes(m, n)  s == q \o b  l == Len(q)
<1>1. q \in Bstring /\ l \in Nat /\ \A i \in 1 .. l : q[i] \in Nat
  BY DEF Sorted, Bstring
<1>2. b \in Bstring /\ Len(b) = n /\ \A i \in 1 .. n : b[i] = m + i
  BY BytesFact
<1> HIDE DEF b
<1>3. /\ s \in Bstring /\ Len(s) = l + n
      /\ \A i \in 1 .. l : s[i] = q[i]
      /\ \A i \in l + 1 .. l + n : s[i] = b[i - l]
  BY <1>1, <1>2, ConcatFact
<1>4. \A i \in l + 1 .. l + n : s[i] = m + (i - l)
  <2> TAKE i \in l + 1 .. l + n
  <2>1. i - l \in 1 .. n
    BY <1>1
  <2> QED
    BY <1>2, <1>3, <2>1
<1>5. \A i \in 1 .. l : q[i] <= m
  BY DEF Sorted
<1>6. \A i, j \in 1 .. l : i < j => q[i] < q[j]
  BY DEF Sorted
<1> HIDE DEF s, l
<1>7. \A i \in 1 .. l + n : i <= l \/ i \in l + 1 .. l + n
  BY <1>1
<1>8. \A i \in 1 .. l + n : s[i] <= m + n
  <2> TAKE i \in 1 .. l + n
  <2>1. CASE i <= l
    <3>1. i \in 1 .. l
      BY <1>1, <2>1
    <3> QED
      BY <1>1, <1>3, <1>5, <3>1
  <2>2. CASE i \in l + 1 .. l + n
    BY <1>1, <1>4, <2>2
  <2> QED
    BY <1>7, <2>1, <2>2
<1>9. ASSUME NEW i \in 1 .. l + n, NEW j \in 1 .. l + n, i < j
      PROVE  s[i] < s[j]
  <2>1. CASE j <= l
    <3>1. i \in 1 .. l /\ j \in 1 .. l
      BY <1>1, <1>9, <2>1
    <3> QED
      BY <1>3, <1>6, <1>9, <3>1
  <2>2. CASE i <= l /\ j \in l + 1 .. l + n
    <3>1. i \in 1 .. l
      BY <1>1, <2>2
    <3> QED
      BY <1>1, <1>3, <1>4, <1>5, <2>2, <3>1
  <2>3. CASE i \in l + 1 .. l + n /\ j \in l + 1 .. l + n
    BY <1>1, <1>4, <1>9, <2>3
  <2> QED
    BY <1>1, <1>7, <1>9, <2>1, <2>2, <2>3
<1> QED
  BY <1>3, <1>8, <1>9 DEF Sorted, s, b

\* What is left when a part is dropped.
LEMMA SortedDrop ==
  ASSUME NEW a \in Bstring, NEW b \in Bstring, NEW c \in Bstring, NEW m, Sorted(a \o (b \o c), m)
  PROVE  Sorted(a \o c, m)
<1> DEFINE bc == b \o c  p == a \o bc  q == a \o c
           x == Len(a)  y == Len(b)  z == Len(c)
           at(i) == IF i <= x THEN i ELSE i + y
<1>1. /\ bc \in Bstring /\ Len(bc) = y + z /\ x \in Nat /\ y \in Nat /\ z \in Nat
      /\ \A i \in y + 1 .. y + z : bc[i] = c[i - y]
  BY ConcatFact
<1> HIDE DEF bc, y, z
<1>2. /\ p \in Bstring /\ Len(p) = x + (y + z)
      /\ \A i \in 1 .. x : p[i] = a[i]
      /\ \A i \in x + 1 .. x + (y + z) : p[i] = bc[i - x]
  <2>1. /\ p \in Bstring /\ Len(p) = Len(a) + Len(bc)
        /\ \A i \in 1 .. Len(a) : p[i] = a[i]
        /\ \A i \in Len(a) + 1 .. Len(a) + Len(bc) : p[i] = bc[i - Len(a)]
    BY <1>1, ConcatFact
  <2> HIDE DEF p
  <2> QED
    BY <1>1, <2>1
<1>3. /\ q \in Bstring /\ Len(q) = x + z
      /\ \A i \in 1 .. x : q[i] = a[i]
      /\ \A i \in x + 1 .. x + z : q[i] = c[i - x]
  BY ConcatFact DEF z
<1>4. /\ \A i, j \in 1 .. x + (y + z) : i < j => p[i] < p[j]
      /\ \A i \in 1 .. x + (y + z) : p[i] <= m
  BY <1>2 DEF Sorted, bc
<1> HIDE DEF p, q, x
<1>5. \A i \in 1 .. x + z : at(i) \in 1 .. x + (y + z) /\ q[i] = p[at(i)]
  <2> TAKE i \in 1 .. x + z
  <2>1. CASE i <= x
    BY <1>1, <1>2, <1>3, <2>1
  <2>2. CASE ~ (i <= x)
    <3>1. /\ i \in x + 1 .. x + z /\ i + y \in x + 1 .. x + (y + z) /\ i + y \in 1 .. x + (y + z)
          /\ (i + y) - x \in y + 1 .. y + z /\ ((i + y) - x) - y = i - x
      BY <1>1, <2>2
    <3> QED
      BY <1>1, <1>2, <1>3, <2>2, <3>1
  <2> QED
    BY <2>1, <2>2
<1>6. \A i, j \in 1 .. x + z : i < j => at(i) < at(j)
  BY <1>1
<1> HIDE DEF at
<1>7. \A i, j \in 1 .. x + z : i < j => q[i] < q[j]
  BY <1>4, <1>5, <1>6
<1>8. \A i \in 1 .. x + z : q[i] <= m
  BY <1>4, <1>5
<1> QED
  BY <1>3, <1>7, <1>8 DEF Sorted, q

-----------------------------------------------------------------------------
(* A stream's bytes in four places, one after the other.                   *)

Join(a, b) == a \o b
Cat(a, b, c, d) == Join(a, Join(b, Join(c, d)))

LEMMA JoinFact ==
  /\ \A t, u \in Bstring : Join(t, u) \in Bstring
  /\ \A t, u, v \in Bstring : Join(Join(t, u), v) = Join(t, Join(u, v))
  /\ \A t \in Bstring : Join(t, <<>>) = t /\ Join(<<>>, t) = t
  /\ <<>> \in Bstring
<1>1. \A t, u \in Bstring : t \o u \in Bstring
  BY DEF Bstring
<1>2. \A t, u, v \in Bstring : (t \o u) \o v = t \o (u \o v)
  BY DEF Bstring
<1>3. \A t \in Bstring : t \o <<>> = t /\ <<>> \o t = t
  BY DEF Bstring
<1>4. <<>> \in Bstring
  BY DEF Bstring
<1>5. \A t, u \in Bstring : Join(t, u) \in Bstring
  BY <1>1 DEF Join
<1>6. \A t, u, v \in Bstring : Join(Join(t, u), v) = Join(t, Join(u, v))
  BY <1>2 DEF Join
<1>7. \A t \in Bstring : Join(t, <<>>) = t /\ Join(<<>>, t) = t
  BY <1>3 DEF Join
<1> QED
  BY <1>4, <1>5, <1>6, <1>7

\* The buffer is taken to be sent.
LEMMA CatForce ==
  ASSUME NEW a \in Bstring, NEW c \in Bstring, NEW d \in Bstring
  PROVE  Cat(a, <<>>, c, d) = Cat(a, c, <<>>, d)
  BY JoinFact DEF Cat

\* A byte goes from what is to be put into the buffer.
LEMMA CatPut ==
  ASSUME NEW a \in Bstring, NEW c \in Bstring, NEW d \in Bstring, d # <<>>
  PROVE  Cat(a, <<>>, c, d) = Cat(a, <<>>, Append(c, Head(d)), Tail(d))
<1>1. PICK h \in Bstring, l \in Bstring : h = <<Head(d)>> /\ l = Tail(d) /\ d = Join(h, l)
  BY HeadFact DEF Join
<1>2. Append(c, Head(d)) = Join(c, h)
  BY <1>1, HeadFact, AppendFact DEF Join
<1>3. Join(Join(c, h), l) = Join(c, Join(h, l))
  BY JoinFact
<1> QED
  BY <1>1, <1>2, <1>3 DEF Cat

\* A part p of what is being sent is taken.
LEMMA CatSend ==
  ASSUME NEW a \in Bstring, NEW p \in Bstring, NEW q \in Bstring, NEW c \in Bstring, NEW d \in Bstring
  PROVE  /\ Cat(a, Join(p, q), c, d) = Cat(Join(a, p), q, c, d)
         /\ Cat(a, <<>>, <<>>, Join(p, q)) = Cat(Join(a, p), <<>>, <<>>, q)
  BY JoinFact DEF Cat

\* More is to be put, into the buffer or past it.
LEMMA CatOn ==
  ASSUME NEW a \in Bstring, NEW c \in Bstring, NEW d \in Bstring
  PROVE  /\ Cat(a, <<>>, c, <<>>) = Join(a, c)
         /\ Cat(a, <<>>, c, d) = Join(Join(a, c), d)
         /\ Cat(a, c, <<>>, d) = Join(Join(a, c), d)
  BY JoinFact DEF Cat

\* What was being sent and put is given up.
LEMMA SortedCut ==
  ASSUME NEW a \in Bstring, NEW b \in Bstring, NEW c \in Bstring, NEW d \in Bstring, NEW m,
         Sorted(Cat(a, b, c, d), m)
  PROVE  Sorted(Cat(a, <<>>, c, <<>>), m)
<1>1. \A t, u, v \in Bstring : Sorted(Join(t, Join(u, v)), m) => Sorted(Join(t, v), m)
  BY SortedDrop DEF Join
<1>2. Sorted(Join(a, Join(c, d)), m)
  BY <1>1, JoinFact DEF Cat
<1>3. Join(a, Join(c, d)) = Join(Join(a, c), Join(d, <<>>))
  BY JoinFact
<1>4. Sorted(Join(Join(a, c), <<>>), m)
  BY <1>1, <1>2, <1>3, JoinFact
<1> QED
  BY <1>4, JoinFact, CatOn

\* A byte goes from the buffer to the call, and back.
LEMMA CatGet ==
  ASSUME NEW a \in Bstring, NEW b \in Bstring, NEW x \in Bstring, NEW c \in Bstring, NEW d \in Bstring
  PROVE  /\ Cat(a, b, Join(x, c), d) = Cat(a, Join(b, x), c, d)
         /\ Cat(a, b, <<>>, Join(x, Join(c, d))) = Cat(a, Join(b, x), c, d)
         /\ Cat(a, Join(b, x), c, d) = Cat(Join(a, b), <<>>, Join(x, c), d)
         /\ Cat(a, b, c, d) = Cat(Join(a, b), <<>>, c, d)
         /\ Cat(a, b, c, Join(d, x)) = Join(Cat(a, b, c, d), x)
<1>1. PICK y \in Bstring : y = Join(c, d)
  BY JoinFact
<1>2. Join(Join(x, c), d) = Join(x, y) /\ Join(c, Join(d, x)) = Join(y, x)
  BY <1>1, JoinFact
<1>3. Join(<<>>, Join(x, y)) = Join(x, y) /\ Join(<<>>, y) = y
  BY JoinFact
<1>4. Join(b, Join(x, y)) = Join(Join(b, x), y) /\ Join(b, Join(y, x)) = Join(Join(b, y), x)
  BY JoinFact
<1>5. /\ Join(a, Join(b, Join(x, y))) = Join(Join(a, b), Join(x, y))
      /\ Join(a, Join(b, y)) = Join(Join(a, b), y)
      /\ Join(a, Join(Join(b, y), x)) = Join(Join(a, Join(b, y)), x)
  BY JoinFact
<1> QED
  BY <1>1, <1>2, <1>3, <1>4, <1>5 DEF Cat

-----------------------------------------------------------------------------
(* Output: sent, being sent, in the buffer, still to be put.               *)

OutGood(a, b, c, d, n, f) == Sorted(Cat(a, b, c, d), n) /\ (~ f => Cat(a, b, c, d) = Bytes(0, n))

LEMMA OutNew == OutGood(<<>>, <<>>, <<>>, <<>>, 0, FALSE)
<1>1. Bytes(0, 0) = <<>>
  BY DEF Bytes
<1>2. Cat(<<>>, <<>>, <<>>, <<>>) = <<>>
  BY JoinFact DEF Cat
<1>3. Sorted(<<>>, 0)
  BY <1>1, BytesSorted
<1> QED
  BY <1>1, <1>2, <1>3 DEF OutGood

LEMMA OutForce ==
  ASSUME NEW a \in Bstring, NEW c \in Bstring, NEW d \in Bstring, NEW n, NEW f,
         OutGood(a, <<>>, c, d, n, f)
  PROVE  OutGood(a, c, <<>>, d, n, f)
  BY CatForce DEF OutGood

LEMMA OutPut ==
  ASSUME NEW a \in Bstring, NEW c \in Bstring, NEW d \in Bstring, d # <<>>, NEW n, NEW f,
         OutGood(a, <<>>, c, d, n, f)
  PROVE  OutGood(a, <<>>, Append(c, Head(d)), Tail(d), n, f)
  BY CatPut DEF OutGood

LEMMA OutSend ==
  ASSUME NEW a \in Bstring, NEW b \in Bstring, NEW c \in Bstring, NEW d \in Bstring, NEW n, NEW f,
         NEW k \in 0 .. Len(b), OutGood(a, b, c, d, n, f)
  PROVE  OutGood(a \o SubSeq(b, 1, k), SubSeq(b, k + 1, Len(b)), c, d, n, f)
<1>1. PICK p \in Bstring, q \in Bstring :
        p = SubSeq(b, 1, k) /\ q = SubSeq(b, k + 1, Len(b)) /\ b = Join(p, q)
  <2>1. /\ SubSeq(b, 1, k) \in Bstring /\ SubSeq(b, k + 1, Len(b)) \in Bstring
        /\ b = Join(SubSeq(b, 1, k), SubSeq(b, k + 1, Len(b)))
    BY SplitFact DEF Join
  <2> QED
    BY <2>1, Zenon
<1>2. Cat(a, b, c, d) = Cat(Join(a, p), q, c, d)
  BY <1>1, CatSend
<1>3. Join(a, p) = a \o SubSeq(b, 1, k)
  BY <1>1 DEF Join
<1> QED
  BY <1>1, <1>2, <1>3 DEF OutGood

LEMMA OutDirect ==
  ASSUME NEW a \in Bstring, NEW d \in Bstring, NEW n, NEW f,
         NEW k \in 0 .. Len(d), OutGood(a, <<>>, <<>>, d, n, f)
  PROVE  OutGood(a \o SubSeq(d, 1, k), <<>>, <<>>, SubSeq(d, k + 1, Len(d)), n, f)
<1>1. PICK p \in Bstring, q \in Bstring :
        p = SubSeq(d, 1, k) /\ q = SubSeq(d, k + 1, Len(d)) /\ d = Join(p, q)
  <2>1. /\ SubSeq(d, 1, k) \in Bstring /\ SubSeq(d, k + 1, Len(d)) \in Bstring
        /\ d = Join(SubSeq(d, 1, k), SubSeq(d, k + 1, Len(d)))
    BY SplitFact DEF Join
  <2> QED
    BY <2>1, Zenon
<1>2. Cat(a, <<>>, <<>>, d) = Cat(Join(a, p), <<>>, <<>>, q)
  BY <1>1, CatSend, JoinFact
<1>3. Join(a, p) = a \o SubSeq(d, 1, k)
  BY <1>1 DEF Join
<1> QED
  BY <1>1, <1>2, <1>3 DEF OutGood

LEMMA OutOn ==
  ASSUME NEW a \in Bstring, NEW c \in Bstring, NEW n \in Nat, NEW k \in Nat, NEW f,
         OutGood(a, <<>>, c, <<>>, n, f)
  PROVE  /\ OutGood(a, <<>>, c, Bytes(n, k), n + k, f)
         /\ OutGood(a, c, <<>>, Bytes(n, k), n + k, f)
<1>1. PICK x \in Bstring : x = Bytes(n, k)
  BY BytesFact
<1>2. Sorted(Join(a, c), n) /\ (~ f => Join(a, c) = Bytes(0, n))
  BY CatOn DEF OutGood
<1>3. Sorted(Join(Join(a, c), x), n + k)
  BY <1>1, <1>2, SortedOn DEF Join
<1>4. Join(Bytes(0, n), x) = Bytes(0, n + k)
  BY <1>1, BytesOn DEF Join
<1>5. Cat(a, <<>>, c, x) = Join(Join(a, c), x) /\ Cat(a, c, <<>>, x) = Join(Join(a, c), x)
  BY CatOn
<1> QED
  BY <1>1, <1>2, <1>3, <1>4, <1>5 DEF OutGood

LEMMA OutFail ==
  ASSUME NEW a \in Bstring, NEW b \in Bstring, NEW c \in Bstring, NEW d \in Bstring, NEW n, NEW f,
         OutGood(a, b, c, d, n, f)
  PROVE  OutGood(a, <<>>, c, <<>>, n, TRUE)
  BY SortedCut DEF OutGood

-----------------------------------------------------------------------------
(* Input: taken, collected by the call, in the buffer, not yet received.   *)

InGood(a, b, i, p, d, n) ==
  p \in 0 .. Len(i) /\ Cat(a, b, SubSeq(i, p + 1, Len(i)), d) = Bytes(0, n)

LEMMA TailIn ==
  ASSUME NEW i \in Bstring, NEW p, p \in 0 .. Len(i)
  PROVE  SubSeq(i, p + 1, Len(i)) \in Bstring
  BY SplitFact

LEMMA InNew == InGood(<<>>, <<>>, <<>>, 0, <<>>, 0)
<1>1. Bytes(0, 0) = <<>>
  BY DEF Bytes
<1>2. Cat(<<>>, <<>>, <<>>, <<>>) = <<>>
  BY JoinFact DEF Cat
<1>3. SubSeq(<<>>, 0 + 1, Len(<<>>)) = <<>> /\ 0 \in 0 .. Len(<<>>)
  OBVIOUS
<1> QED
  BY <1>1, <1>2, <1>3, Zenon DEF InGood

LEMMA InGetByte ==
  ASSUME NEW a \in Bstring, NEW b \in Bstring, NEW i \in Bstring, NEW d \in Bstring, NEW n,
         NEW p \in Nat, p < Len(i), InGood(a, b, i, p, d, n)
  PROVE  InGood(a, Append(b, i[p + 1]), i, p + 1, d, n)
<1>1. p + 1 \in 1 .. Len(i) /\ p + 1 \in 0 .. Len(i) /\ i[p + 1] \in Nat
  BY DEF Bstring
<1>2. PICK x \in Bstring, y \in Bstring :
        /\ x = <<i[p + 1]>> /\ y = SubSeq(i, (p + 1) + 1, Len(i))
        /\ SubSeq(i, p + 1, Len(i)) = Join(x, y)
  BY <1>1, RestFact DEF Join
<1>3. Append(b, i[p + 1]) = Join(b, x)
  BY <1>1, <1>2, AppendFact DEF Join
<1>4. Cat(a, b, Join(x, y), d) = Cat(a, Join(b, x), y, d)
  BY <1>2, CatGet
<1> QED
  BY <1>1, <1>2, <1>3, <1>4 DEF InGood

LEMMA InFilbuf ==
  ASSUME NEW a \in Bstring, NEW b \in Bstring, NEW i \in Bstring, NEW d \in Bstring, NEW n,
         NEW p \in Nat, ~ (p < Len(i)), NEW k \in 1 .. Len(d), InGood(a, b, i, p, d, n)
  PROVE  /\ InGood(a, Append(b, d[1]), SubSeq(d, 1, k), 1, SubSeq(d, k + 1, Len(d)), n)
         /\ SubSeq(d, 1, k)[1] = d[1] /\ d[1] \in Nat
<1>1. k \in 0 .. Len(d) /\ 1 \in 1 .. k /\ Len(d) > 0 /\ d[1] \in Nat
  BY DEF Bstring
<1>2. PICK u \in Bstring, v \in Bstring :
        /\ u = SubSeq(d, 1, k) /\ v = SubSeq(d, k + 1, Len(d)) /\ d = Join(u, v)
        /\ Len(u) = k /\ u[1] = d[1]
  BY <1>1, SplitFact DEF Join
<1>3. PICK x \in Bstring, y \in Bstring :
        x = <<d[1]>> /\ y = SubSeq(u, 1 + 1, Len(u)) /\ u = Join(x, y)
  <2>1. u = SubSeq(u, 1, Len(u))
    BY DEF Bstring
  <2>2. 1 \in 1 .. Len(u)
    BY <1>1, <1>2
  <2>3. /\ SubSeq(u, 1, Len(u)) = Join(<<u[1]>>, SubSeq(u, 1 + 1, Len(u)))
        /\ <<u[1]>> \in Bstring /\ SubSeq(u, 1 + 1, Len(u)) \in Bstring
    BY <2>2, RestFact DEF Join
  <2> QED
    BY <1>2, <2>1, <2>3, Zenon
<1>4. Append(b, d[1]) = Join(b, x)
  BY <1>1, <1>3, AppendFact DEF Join
<1>5. SubSeq(i, p + 1, Len(i)) = <<>>
  BY DEF Bstring
<1>6. Cat(a, b, <<>>, d) = Cat(a, Join(b, x), y, v)
  <2>1. d = Join(x, Join(y, v))
    <3>1. Join(Join(x, y), v) = Join(x, Join(y, v))
      BY JoinFact
    <3> QED
      BY <1>2, <1>3, <3>1
  <2> QED
    BY <1>2, <1>3, <2>1, CatGet
<1>7. 1 \in 0 .. Len(u)
  BY <1>1, <1>2
<1> QED
  BY <1>1, <1>2, <1>3, <1>4, <1>5, <1>6, <1>7 DEF InGood

LEMMA InReturn ==
  ASSUME NEW a \in Bstring, NEW b \in Bstring, NEW i \in Bstring, NEW d \in Bstring, NEW n,
         NEW p \in Nat, InGood(a, b, i, p, d, n)
  PROVE  InGood(a \o b, <<>>, i, p, d, n)
<1>1. PICK y \in Bstring : y = SubSeq(i, p + 1, Len(i))
  BY TailIn, Zenon DEF InGood
<1>2. Cat(a, b, y, d) = Cat(Join(a, b), <<>>, y, d)
  BY CatGet
<1> QED
  BY <1>1, <1>2 DEF InGood, Join

LEMMA InUnget ==
  ASSUME NEW a \in Bstring, NEW b \in Bstring, b # <<>>, NEW i \in Bstring, NEW d \in Bstring, NEW n,
         NEW p \in Nat, p > 0, i[p] = Last(b), InGood(a, b, i, p, d, n)
  PROVE  InGood(a \o Front(b), <<>>, i, p - 1, d, n) /\ p - 1 \in Nat
<1>1. p \in 1 .. Len(i) /\ p - 1 \in 0 .. Len(i) /\ (p - 1) + 1 = p
  <2>1. p \in 0 .. Len(i) /\ Len(i) \in Nat
    BY DEF InGood, Bstring
  <2> QED
    BY <2>1
<1>2. PICK x \in Bstring, y \in Bstring :
        x = <<i[p]>> /\ y = SubSeq(i, p + 1, Len(i)) /\ SubSeq(i, p, Len(i)) = Join(x, y)
  BY <1>1, RestFact DEF Join
<1>3. PICK u \in Bstring : u = Front(b) /\ b = Join(u, x)
  BY <1>2, LastFact DEF Join
<1>4. Cat(a, Join(u, x), y, d) = Cat(Join(a, u), <<>>, Join(x, y), d)
  BY CatGet
<1>5. Join(a, u) = a \o Front(b)
  BY <1>3 DEF Join
<1>6. p - 1 \in Nat
  BY <1>1
<1> QED
  BY <1>1, <1>2, <1>3, <1>4, <1>5, <1>6 DEF InGood

LEMMA InSends ==
  ASSUME NEW a \in Bstring, NEW b \in Bstring, NEW i \in Bstring, NEW d \in Bstring, NEW n \in Nat,
         NEW p \in Nat, InGood(a, b, i, p, d, n)
  PROVE  InGood(a, b, i, p, Append(d, n + 1), n + 1)
<1>1. PICK y \in Bstring : y = SubSeq(i, p + 1, Len(i))
  BY TailIn, Zenon DEF InGood
<1>2. PICK x \in Bstring : x = <<n + 1>> /\ Append(d, n + 1) = Join(d, x)
  <2>1. n + 1 \in Nat
    OBVIOUS
  <2>2. <<n + 1>> \in Bstring /\ Append(d, n + 1) = Join(d, <<n + 1>>)
    BY <2>1, AppendFact DEF Join
  <2> QED
    BY <2>2, Zenon
<1>3. Cat(a, b, y, Join(d, x)) = Join(Cat(a, b, y, d), x)
  BY CatGet
<1>4. Bytes(n, 1) = x
  <2>1. PICK z \in Bstring : z = Bytes(n, 1) /\ Len(z) = 1 /\ z[1] = n + 1
    <3>1. /\ Bytes(n, 1) \in Bstring /\ Len(Bytes(n, 1)) = 1
          /\ \A j \in 1 .. 1 : Bytes(n, 1)[j] = n + j
      BY ONLY n \in Nat, 1 \in Nat, BytesFact
    <3>2. 1 \in 1 .. 1
      OBVIOUS
    <3> QED
      BY <3>1, <3>2, Zenon
  <2>2. x \in Bstring /\ Len(x) = 1 /\ x[1] = n + 1
    BY <1>2
  <2>3. \A j \in 1 .. 1 : z[j] = x[j]
    BY <2>1, <2>2
  <2>4. z = x
    BY ONLY x \in Bstring, z \in Bstring, <2>1, <2>2, <2>3, SameSeq
  <2> QED
    BY <2>1, <2>4
<1>5. Join(Bytes(0, n), x) = Bytes(0, n + 1)
  BY <1>4, BytesOn DEF Join
<1> QED
  BY <1>1, <1>2, <1>3, <1>5 DEF InGood

-----------------------------------------------------------------------------
(* Types, and the function that runs.                                      *)

LEMMA CallFact ==
  ASSUME NEW op \in Ops, NEW s \in Streams, NEW r \in Bstring, NEW t \in Bstring, NEW w \in Nat
  PROVE  /\ Call(op, s, r, t, w) \in Calls
         /\ Call(op, s, r, t, w).op = op /\ Call(op, s, r, t, w).s = s
         /\ Call(op, s, r, t, w).rest = r /\ Call(op, s, r, t, w).todo = t
  BY DEF Call, Calls

LEMMA IdleFact ==
  Idle \in Calls /\ Idle.op = "idle" /\ Idle.s = 0 /\ Idle.rest = <<>> /\ Idle.todo = <<>>
BY JoinFact DEF Idle, Calls, Ops

LEMMA StepFact ==
  ASSUME NEW c \in Calls, NEW r \in Bstring
  PROVE  /\ [c EXCEPT !.rest = r] \in Calls /\ [c EXCEPT !.todo = r] \in Calls
         /\ [c EXCEPT !.rest = r].op = c.op /\ [c EXCEPT !.rest = r].s = c.s
         /\ [c EXCEPT !.rest = r].rest = r /\ [c EXCEPT !.rest = r].todo = c.todo
         /\ [c EXCEPT !.todo = r].op = c.op /\ [c EXCEPT !.todo = r].s = c.s
         /\ [c EXCEPT !.todo = r].rest = c.rest /\ [c EXCEPT !.todo = r].todo = r
  BY DEF Calls

\* The parts of the invariant that need no argument.
Base == TypeOK /\ CallInv

LEMMA BaseInit == Init => Base
<1> SUFFICES ASSUME Init PROVE Base
  OBVIOUS
<1>1. CellsOK
  BY DEF Init, CellsOK
<1>2. BuffersOK /\ KernelOK
  BY JoinFact DEF Init, BuffersOK, KernelOK
<1>3. HistoryOK
  BY JoinFact DEF Init, HistoryOK
<1>4. call \in Calls /\ CallInv
  BY IdleFact DEF Init, CallInv, Reading
<1> QED
  BY <1>1, <1>2, <1>3, <1>4 DEF Base, TypeOK

LEMMA ForgetFact ==
  ASSUME BuffersOK, HistoryOK, NEW s \in Streams, Forget(s)
  PROVE  BuffersOK' /\ HistoryOK'
  BY JoinFact DEF Forget, BuffersOK, HistoryOK

LEMMA MadeFact ==
  ASSUME Base, call = Idle, NEW f \in Fds, socket[f] = "closed",
         NEW kind \in {"both", "listening"}, Made(f, kind), UNCHANGED call
  PROVE  Base'
<1> USE DEF Base, TypeOK
<1>1. KernelOK'
  BY JoinFact DEF Made, KernelOK
<1>2. call' \in Calls /\ CallInv'
  BY IdleFact DEF CallInv, Reading
<1>3. CASE UNCHANGED <<cells, output, ibuf, ipos, arrived, taken>>
  BY <1>1, <1>2, <1>3 DEF cells, output, CellsOK, BuffersOK, HistoryOK
<1>4. CASE \E s \in Streams : object[s] = "free" /\ NewStream(s, f)
  <2>1. PICK s \in Streams : NewStream(s, f)
    BY <1>4
  <2>2. CellsOK'
    BY <2>1 DEF NewStream, CellsOK
  <2>3. BuffersOK' /\ HistoryOK'
    BY <2>1, ForgetFact DEF NewStream
  <2> QED
    BY <1>1, <1>2, <2>2, <2>3
<1> QED
  BY <1>3, <1>4 DEF Made

\* A call starts on an open stream.
LEMMA StartFact ==
  ASSUME Base, NEW s \in Streams, Usable(s), UNCHANGED cells,
         NEW op \in Ops \ {"idle"}, NEW r \in Bstring, NEW t \in Bstring, NEW w \in Nat,
         call' = Call(op, s, r, t, w), op = "direct" => obuf'[s] = <<>>,
         op \in {"read", "gets", "drain", "sexp"} => r = <<>>
  PROVE  CellsOK' /\ call' \in Calls /\ CallInv'
<1>1. CellsOK'
  BY DEF Base, TypeOK, CellsOK, cells
<1>2. call' \in Calls /\ call'.op = op /\ call'.s = s /\ call'.rest = r /\ call'.todo = t
  BY CallFact
<1>3. object'[s] = "open"
  BY DEF Usable, cells
<1> QED
  BY <1>1, <1>2, <1>3 DEF CallInv, Reading

\* It goes on.
LEMMA GoesOn ==
  ASSUME Base, UNCHANGED cells, call.op # "idle", call' \in Calls, call'.op = call.op, call'.s = call.s,
         call.op = "direct" => obuf'[call.s] = <<>>, Reading => call'.rest = <<>>
  PROVE  CellsOK' /\ CallInv'
<1>1. CellsOK'
  BY DEF Base, TypeOK, CellsOK, cells
<1> QED
  BY <1>1 DEF Base, CallInv, Reading, cells

\* It ends.
LEMMA Ends ==
  ASSUME Base, UNCHANGED cells, call' = Idle
  PROVE  CellsOK' /\ call' \in Calls /\ CallInv'
<1>1. CellsOK'
  BY DEF Base, TypeOK, CellsOK, cells
<1> QED
  BY <1>1, IdleFact DEF CallInv, Reading

LEMMA BaseObject ==
  ASSUME Base, Open \/ Accept \/ \E s \in Streams : Close(s) \/ Drop(s) \/ GcFree(s)
                 \/ \E left \in {"reading", "writing", "shut"} : Shutdown(s, left)
  PROVE  Base'
<1>1. CASE Open
  <2>1. PICK f \in Fds, kind \in {"both", "listening"} : socket[f] = "closed" /\ Made(f, kind)
    BY <1>1 DEF Open
  <2> QED
    BY <1>1, <2>1, MadeFact DEF Open
<1>2. CASE Accept
  <2>1. PICK f \in Fds : socket[f] = "closed" /\ Made(f, "both")
    BY <1>2 DEF Accept
  <2>2. call = Idle
    BY <1>2 DEF Accept, Usable
  <2> QED
    BY <1>2, <2>1, <2>2, MadeFact DEF Accept
<1>3. ASSUME NEW s \in Streams, Close(s) PROVE Base'
  <2> USE DEF Base, TypeOK
  <2>1. CellsOK' /\ sd[s] \in Fds
    BY <1>3 DEF Close, Usable, CellsOK
  <2>2. KernelOK'
    BY <1>3, JoinFact DEF Close, KernelOK
  <2>3. BuffersOK' /\ HistoryOK'
    BY <1>3, ForgetFact DEF Close
  <2>4. call' \in Calls /\ CallInv'
    BY <1>3, IdleFact DEF Close, Usable, CallInv, Reading
  <2> QED
    BY <2>1, <2>2, <2>3, <2>4
<1>4. ASSUME NEW s \in Streams, Drop(s) PROVE Base'
  <2> USE DEF Base, TypeOK
  <2>1. CellsOK' /\ KernelOK' /\ BuffersOK' /\ HistoryOK'
    BY <1>4 DEF Drop, output, input, CellsOK, KernelOK, BuffersOK, HistoryOK
  <2>2. call' \in Calls /\ CallInv'
    BY <1>4, IdleFact DEF Drop, CallInv, Reading
  <2> QED
    BY <2>1, <2>2
<1>5. ASSUME NEW s \in Streams, GcFree(s) PROVE Base'
  <2> USE DEF Base, TypeOK
  <2>1. CellsOK'
    BY <1>5 DEF GcFree, CellsOK
  <2>2. KernelOK'
    BY <1>5, JoinFact DEF GcFree, KernelOK
  <2>3. BuffersOK' /\ HistoryOK'
    BY <1>5, ForgetFact DEF GcFree
  <2>4. call' \in Calls /\ CallInv'
    BY <1>5, IdleFact DEF GcFree, CallInv, Reading
  <2> QED
    BY <2>1, <2>2, <2>3, <2>4
<1>6. ASSUME NEW s \in Streams, NEW left \in {"reading", "writing", "shut"}, Shutdown(s, left)
      PROVE  Base'
  <2> USE DEF Base, TypeOK
  <2>1. CellsOK' /\ BuffersOK' /\ HistoryOK'
    BY <1>6 DEF Shutdown, cells, output, input, CellsOK, BuffersOK, HistoryOK
  <2>2. KernelOK'
    BY <1>6 DEF Shutdown, input, KernelOK
  <2>3. call' \in Calls /\ CallInv'
    BY <1>6, IdleFact DEF Shutdown, Usable, CallInv, Reading
  <2> QED
    BY <2>1, <2>2, <2>3
<1> QED
  BY <1>1, <1>2, <1>3, <1>4, <1>5, <1>6

LEMMA BasePut ==
  ASSUME Base, NEW s \in Streams, NEW n \in Nat, Put(s, n) \/ Write(s, n) \/ ForceOutput(s)
  PROVE  Base'
<1> USE DEF Base, TypeOK
<1>1. /\ written[s] \in Nat /\ Bytes(written[s], n) \in Bstring
      /\ obuf[s] \in Bstring /\ <<>> \in Bstring /\ 0 \in Nat
  BY BytesFact, JoinFact DEF HistoryOK, BuffersOK
<1>2. "put" \in Ops \ {"idle"} /\ "direct" \in Ops \ {"idle"}
  BY DEF Ops
<1>3. CASE Put(s, n)
  <2>1. CellsOK' /\ call' \in Calls /\ CallInv'
    BY <1>1, <1>2, <1>3, StartFact DEF Put
  <2>2. KernelOK' /\ BuffersOK' /\ HistoryOK'
    BY <1>1, <1>3 DEF Put, KernelOK, BuffersOK, HistoryOK, input
  <2> QED
    BY <2>1, <2>2
<1>4. CASE Write(s, n)
  <2>1. KernelOK' /\ BuffersOK' /\ HistoryOK' /\ obuf'[s] = <<>>
    BY <1>1, <1>4 DEF Write, SsForce, KernelOK, BuffersOK, HistoryOK, input
  <2>2. CellsOK' /\ call' \in Calls /\ CallInv'
    BY <1>1, <1>2, <1>4, <2>1, StartFact DEF Write, SsForce
  <2> QED
    BY <2>1, <2>2
<1>5. CASE ForceOutput(s)
  <2>1. KernelOK' /\ BuffersOK' /\ HistoryOK'
    BY <1>1, <1>5 DEF ForceOutput, SsForce, KernelOK, BuffersOK, HistoryOK, input
  <2>2. CellsOK' /\ call' \in Calls /\ CallInv'
    BY <1>1, <1>2, <1>5, StartFact DEF ForceOutput, SsForce
  <2> QED
    BY <2>1, <2>2
<1> QED
  BY <1>3, <1>4, <1>5

\* The stream of the function that runs.
LEMMA RunsOn ==
  ASSUME Base, call.op # "idle"
  PROVE  /\ call.s \in Streams /\ object[call.s] = "open" /\ sd[call.s] \in Fds
         /\ call.rest \in Bstring /\ call.todo \in Bstring /\ call.op \in Ops
         /\ obuf[call.s] \in Bstring /\ ibuf[call.s] \in Bstring /\ ipos[call.s] \in Nat
         /\ sent[call.s] \in Bstring /\ taken[call.s] \in Bstring /\ arriving[sd[call.s]] \in Bstring
<1>1. call.s \in Streams /\ object[call.s] = "open"
  BY DEF Base, CallInv
<1>2. call.rest \in Bstring /\ call.todo \in Bstring /\ call.op \in Ops
  BY DEF Base, TypeOK, Calls
<1>3. sd[call.s] \in Fds
  BY <1>1 DEF Base, TypeOK, CellsOK
<1>4. obuf[call.s] \in Bstring /\ ibuf[call.s] \in Bstring /\ ipos[call.s] \in Nat
  BY <1>1 DEF Base, TypeOK, BuffersOK
<1>5. sent[call.s] \in Bstring /\ taken[call.s] \in Bstring
  BY <1>1 DEF Base, TypeOK, HistoryOK
<1>6. arriving[sd[call.s]] \in Bstring
  BY <1>3 DEF Base, TypeOK, KernelOK
<1> QED
  BY <1>1, <1>2, <1>3, <1>4, <1>5, <1>6

LEMMA BaseOutput ==
  ASSUME Base, NEW k \in Nat, PutByte \/ SendFails \/ PutReturn \/ Send(k)
  PROVE  Base'
<1> DEFINE s == call.s
<1>1. call.op \in {"put", "direct"}
  BY DEF PutByte, SendFails, Sending, PutReturn, Send
<1>2. /\ s \in Streams /\ obuf[s] \in Bstring /\ sent[s] \in Bstring /\ faulty \in [Streams -> BOOLEAN]
      /\ call.rest \in Bstring /\ call.todo \in Bstring /\ <<>> \in Bstring /\ call \in Calls
  BY <1>1, RunsOn, JoinFact DEF Base, TypeOK, HistoryOK
<1>3. CASE PutByte /\ Len(obuf[s]) < Bufsiz
  <2>1. Head(call.todo) \in Nat /\ Tail(call.todo) \in Bstring
    BY <1>2, <1>3, HeadFact DEF PutByte
  <2>2. Append(obuf[s], Head(call.todo)) \in Bstring
    BY <1>2, <2>1, AppendFact
  <2>3. KernelOK' /\ BuffersOK' /\ HistoryOK'
    BY <1>2, <1>3, <2>2 DEF PutByte, Base, TypeOK, KernelOK, BuffersOK, HistoryOK, input
  <2>4. call.op = "put" /\ call.rest = <<>> /\ call' = [call EXCEPT !.todo = Tail(call.todo)]
    BY <1>3 DEF PutByte
  <2>5. call' \in Calls /\ call'.op = "put" /\ call'.s = s
    BY <1>2, <2>1, <2>4, StepFact
  <2>6. CellsOK' /\ CallInv'
    BY <1>3, <2>4, <2>5, GoesOn DEF Reading, PutByte
  <2> QED
    BY <2>3, <2>5, <2>6 DEF Base, TypeOK
<1>4. CASE PutByte /\ ~ (Len(obuf[s]) < Bufsiz)
  <2>1. call.op = "put" /\ call' = Call("put", s, obuf[s], call.todo, 0) /\ "put" \in Ops /\ 0 \in Nat
    BY <1>4 DEF PutByte, SsForce, Ops
  <2>2. KernelOK' /\ BuffersOK' /\ HistoryOK'
    BY <1>2, <1>4 DEF PutByte, SsForce, Base, TypeOK, KernelOK, BuffersOK, HistoryOK, input
  <2>3. call' \in Calls /\ call'.op = "put" /\ call'.s = s
    BY ONLY <1>2, <2>1, CallFact
  <2>4. CellsOK' /\ CallInv'
    BY <1>4, <2>1, <2>3, GoesOn DEF Reading, PutByte
  <2> QED
    BY <2>2, <2>3, <2>4 DEF Base, TypeOK
<1>5. CASE SendFails
  <2>1. CellsOK' /\ call' \in Calls /\ CallInv'
    BY <1>5, Ends DEF SendFails
  <2>2. KernelOK' /\ BuffersOK' /\ HistoryOK'
    BY <1>2, <1>5 DEF SendFails, Base, TypeOK, KernelOK, BuffersOK, HistoryOK, input
  <2> QED
    BY <2>1, <2>2 DEF Base, TypeOK
<1>6. CASE PutReturn
  <2>1. CellsOK' /\ call' \in Calls /\ CallInv'
    BY <1>6, Ends DEF PutReturn
  <2>2. KernelOK' /\ BuffersOK' /\ HistoryOK'
    BY <1>6 DEF PutReturn, Base, TypeOK, KernelOK, BuffersOK, HistoryOK, input, output
  <2> QED
    BY <2>1, <2>2 DEF Base, TypeOK
<1>7. CASE Send(k)
  <2> DEFINE data == IF call.rest # <<>> THEN call.rest ELSE call.todo
  <2>1. data \in Bstring /\ k \in 0 .. Len(data)
    BY <1>2, <1>7 DEF Send, Bstring
  <2>2. SubSeq(data, 1, k) \in Bstring /\ SubSeq(data, k + 1, Len(data)) \in Bstring
    BY <2>1, SplitFact
  <2>3. sent[s] \o SubSeq(data, 1, k) \in Bstring
    BY <1>2, <2>2, JoinFact DEF Join
  <2>4. sent' = [sent EXCEPT ![s] = sent[s] \o SubSeq(data, 1, k)]
    BY <1>2, <1>7 DEF Send
  <2>5. \/ call' = [call EXCEPT !.rest = SubSeq(data, k + 1, Len(data))]
        \/ call' = [call EXCEPT !.todo = SubSeq(data, k + 1, Len(data))]
    BY <1>7 DEF Send
  <2> HIDE DEF data
  <2>6. KernelOK' /\ BuffersOK'
    BY <1>7 DEF Send, Base, TypeOK, KernelOK, BuffersOK, input
  <2>7. HistoryOK'
    BY <1>2, <1>7, <2>3, <2>4 DEF Send, Base, TypeOK, HistoryOK, input
  <2>8. call' \in Calls /\ call'.op = call.op /\ call'.s = s
    <3>1. PICK r \in Bstring : r = SubSeq(data, k + 1, Len(data))
      BY <2>2, Zenon
    <3>2. CASE call' = [call EXCEPT !.rest = r]
      BY ONLY <1>2, <3>2, StepFact
    <3>3. CASE call' = [call EXCEPT !.todo = r]
      BY ONLY <1>2, <3>3, StepFact
    <3> QED
      BY <2>5, <3>1, <3>2, <3>3
  <2>9. obuf' = obuf /\ UNCHANGED cells
    BY <1>7 DEF Send
  <2>10. CellsOK' /\ CallInv'
    BY <1>1, <2>8, <2>9, GoesOn DEF Reading, Base, CallInv
  <2> QED
    BY <2>6, <2>7, <2>8, <2>10 DEF Base, TypeOK
<1> QED
  BY <1>3, <1>4, <1>5, <1>6, <1>7

\* The last byte a call has collected is the one before the place in the buffer.
PushOK == Reading /\ call.todo # <<>> =>
  ipos[call.s] > 0 /\ ibuf[call.s][ipos[call.s]] = Last(call.todo)

LEMMA BaseInput ==
  ASSUME Base, PushOK, NEW k \in Nat \ {0}, GetByte \/ GetReturn \/ Unget \/ Filbuf(k)
  PROVE  Base'
<1> DEFINE s == call.s  f == sd[s]
<1>1. Reading /\ call.op # "idle" /\ call.op # "direct"
  BY DEF GetByte, GetReturn, Unget, Filbuf, Wants, Reading
<1>2. /\ s \in Streams /\ f \in Fds /\ ibuf[s] \in Bstring /\ ipos[s] \in Nat /\ taken[s] \in Bstring
      /\ call.todo \in Bstring /\ <<>> \in Bstring /\ call \in Calls /\ arriving[f] \in Bstring
  BY <1>1, RunsOn, JoinFact DEF Base, TypeOK
<1>3. CASE GetByte
  <2>1. ipos[s] + 1 \in 1 .. Len(ibuf[s])
    <3>1. ipos[s] < Len(ibuf[s])
      BY <1>3 DEF GetByte, Buffered
    <3> QED
      BY <1>2, <3>1 DEF Bstring
  <2>2. PICK e \in Nat : e = ibuf[s][ipos[s] + 1]
    BY <1>2, <2>1 DEF Bstring
  <2>3. PICK r \in Bstring : r = Append(call.todo, e)
    BY <1>2, AppendFact, Zenon
  <2>4. call' = [call EXCEPT !.todo = r]
    BY <1>3, <2>2, <2>3 DEF GetByte
  <2>5. call' \in Calls /\ call'.op = call.op /\ call'.s = s /\ call'.rest = call.rest
    BY ONLY <1>2, <2>4, StepFact
  <2>6. CellsOK' /\ CallInv'
    BY <1>1, <1>3, <2>5, GoesOn DEF GetByte, Base, CallInv
  <2>7. KernelOK' /\ BuffersOK' /\ HistoryOK'
    BY <1>2, <1>3 DEF GetByte, Base, TypeOK, KernelOK, BuffersOK, HistoryOK, output
  <2> QED
    BY <2>5, <2>6, <2>7 DEF Base, TypeOK
<1>4. CASE Filbuf(k)
  <2>1. k \in 0 .. Len(arriving[f]) /\ Len(arriving[f]) > 0
    <3>1. k <= Len(arriving[f])
      BY <1>4 DEF Filbuf
    <3> QED
      BY <1>2, <3>1 DEF Bstring
  <2>2. PICK e \in Nat : e = arriving[f][1]
    BY <1>2, <2>1 DEF Bstring
  <2>3. PICK r \in Bstring : r = Append(call.todo, e)
    BY <1>2, AppendFact, Zenon
  <2>4. call' = [call EXCEPT !.todo = r]
    BY <1>4, <2>2, <2>3 DEF Filbuf
  <2>5. call' \in Calls /\ call'.op = call.op /\ call'.s = s /\ call'.rest = call.rest
    BY ONLY <1>2, <2>4, StepFact
  <2>6. CellsOK' /\ CallInv'
    BY <1>1, <1>4, <2>5, GoesOn DEF Filbuf, Base, CallInv
  <2>7. /\ SubSeq(arriving[f], 1, k) \in Bstring
        /\ SubSeq(arriving[f], k + 1, Len(arriving[f])) \in Bstring
    BY <1>2, <2>1, SplitFact
  <2>8. BuffersOK' /\ HistoryOK'
    BY <1>2, <1>4, <2>7 DEF Filbuf, FirstByte, Base, TypeOK, BuffersOK, HistoryOK, output
  <2>9. KernelOK'
    BY <1>2, <1>4, <2>7 DEF Filbuf, Base, TypeOK, KernelOK
  <2> QED
    BY <2>5, <2>6, <2>8, <2>9 DEF Base, TypeOK
<1>5. CASE GetReturn
  <2>1. CellsOK' /\ call' \in Calls /\ CallInv'
    BY <1>5, Ends DEF GetReturn
  <2>2. taken[s] \o call.todo \in Bstring
    BY <1>2, JoinFact DEF Join
  <2>3. KernelOK' /\ BuffersOK' /\ HistoryOK'
    BY <1>2, <1>5, <2>2 DEF GetReturn, Base, TypeOK, KernelOK, BuffersOK, HistoryOK, output
  <2> QED
    BY <2>1, <2>3 DEF Base, TypeOK
<1>6. CASE Unget
  <2> ipos[s] > 0
    BY <1>1, <1>6 DEF PushOK, Unget
  <2>1. CellsOK' /\ call' \in Calls /\ CallInv'
    BY <1>6, Ends DEF Unget
  <2>2. Front(call.todo) \in Bstring
    BY <1>2, <1>6, LastFact DEF Unget
  <2>3. taken[s] \o Front(call.todo) \in Bstring
    BY <1>2, <2>2, JoinFact DEF Join
  <2>4. ipos[s] - 1 \in Nat
    BY <1>2, <1>6
  <2>5. KernelOK' /\ BuffersOK'
    BY <1>2, <1>6, <2>4 DEF Unget, Base, TypeOK, KernelOK, BuffersOK, output
  <2>6. HistoryOK'
    BY <1>2, <1>6, <2>3 DEF Unget, Base, TypeOK, HistoryOK, output
  <2> QED
    BY <2>1, <2>5, <2>6 DEF Base, TypeOK
<1> QED
  BY <1>3, <1>4, <1>5, <1>6

LEMMA BaseRest ==
  ASSUME Base, NEW s \in Streams,
         \/ PeerSends(s)
         \/ \E op \in {"read", "gets", "drain", "sexp"}, n \in Nat : Get(op, s, n)
  PROVE  Base'
<1>1. CASE PeerSends(s)
  <2>1. sd[s] \in Fds /\ arrived[s] \in Nat /\ arriving[sd[s]] \in Bstring
    BY <1>1 DEF PeerSends, Base, TypeOK, CellsOK, HistoryOK, KernelOK
  <2>2. arrived[s] + 1 \in Nat
    BY <2>1
  <2>3. Append(arriving[sd[s]], arrived[s] + 1) \in Bstring
    BY <2>1, <2>2, AppendFact
  <2>4. KernelOK'
    BY <1>1, <2>1, <2>3 DEF PeerSends, Base, TypeOK, KernelOK
  <2>5. CellsOK' /\ BuffersOK' /\ HistoryOK'
    BY <1>1, <2>2 DEF PeerSends, Base, TypeOK, CellsOK, BuffersOK, HistoryOK, cells, output
  <2>6. call' \in Calls /\ CallInv'
    BY <1>1 DEF PeerSends, Base, TypeOK, CallInv, Reading, cells, output
  <2> QED
    BY <2>4, <2>5, <2>6 DEF Base, TypeOK
<1>2. ASSUME NEW op \in {"read", "gets", "drain", "sexp"}, NEW n \in Nat, Get(op, s, n)
      PROVE  Base'
  <2>1. op \in Ops \ {"idle"} /\ op # "direct" /\ <<>> \in Bstring
    BY JoinFact DEF Ops
  <2>2. CellsOK' /\ call' \in Calls /\ CallInv'
    BY <1>2, <2>1, StartFact DEF Get
  <2>3. KernelOK' /\ BuffersOK' /\ HistoryOK'
    BY <1>2 DEF Get, Base, TypeOK, KernelOK, BuffersOK, HistoryOK, output, input
  <2> QED
    BY <2>2, <2>3 DEF Base, TypeOK
<1> QED
  BY <1>1, <1>2

-----------------------------------------------------------------------------
(* A step of Next, by what it does.                                        *)

LEMMA Steps ==
  ASSUME Sizes, Next
  PROVE  \/ Open \/ Accept
         \/ \E s \in Streams : Close(s) \/ Drop(s) \/ GcFree(s)
              \/ \E left \in {"reading", "writing", "shut"} : Shutdown(s, left)
         \/ \E s \in Streams : ForceOutput(s) \/ PeerSends(s)
         \/ \E s \in Streams, n \in Nat : Put(s, n) \/ Write(s, n)
         \/ \E k \in Nat : PutByte \/ SendFails \/ PutReturn \/ Send(k)
         \/ \E s \in Streams : \E op \in {"read", "gets", "drain", "sexp"}, n \in Nat : Get(op, s, n)
         \/ \E k \in Nat \ {0} : GetByte \/ GetReturn \/ Unget \/ Filbuf(k)
<1>1. 1 .. MaxBytes \subseteq Nat /\ 0 .. MaxBytes \subseteq Nat /\ 1 .. Bufsiz \subseteq Nat \ {0}
      /\ 0 \in Nat /\ 1 \in Nat \ {0}
  BY DEF Sizes
<1>2. \A op, n : n \in (IF op = "read" THEN 1 .. 2 ELSE {0}) => n \in Nat
  OBVIOUS
<1>3. CASE Open \/ Accept
  BY <1>3
<1>4. CASE \E s \in Streams : Close(s) \/ Drop(s) \/ GcFree(s) \/ ForceOutput(s) \/ PeerSends(s)
  BY <1>4
<1>5. CASE \E s \in Streams, left \in {"reading", "writing", "shut"} : Shutdown(s, left)
  BY <1>5
<1>6. CASE \E s \in Streams, n \in 1 .. MaxBytes : Put(s, n) \/ Write(s, n)
  BY <1>1, <1>6
<1>7. CASE PutByte \/ SendFails \/ PutReturn
  BY <1>1, <1>7
<1>8. CASE \E k \in 0 .. MaxBytes : Send(k)
  BY <1>1, <1>8
<1>9. CASE \E s \in Streams, op \in {"read", "gets", "drain", "sexp"} :
             \E n \in (IF op = "read" THEN 1 .. 2 ELSE {0}) : Get(op, s, n)
  BY <1>2, <1>9
<1>10. CASE GetByte \/ GetReturn \/ Unget
  BY <1>1, <1>10
<1>11. CASE \E k \in 1 .. Bufsiz : Filbuf(k)
  BY <1>1, <1>11
<1> QED
  BY <1>3, <1>4, <1>5, <1>6, <1>7, <1>8, <1>9, <1>10, <1>11 DEF Next

LEMMA BaseNext ==
  ASSUME Sizes, Base, PushOK, Next
  PROVE  Base'
<1>1. 0 \in Nat
  OBVIOUS
<1> QED
  BY <1>1, Steps, BaseObject, BasePut, BaseOutput, BaseInput, BaseRest

-----------------------------------------------------------------------------
(* Descriptors.                                                            *)

LEMMA OwnsNext ==
  ASSUME Sizes, Base, OwnsDescriptor, Next
  PROVE  OwnsDescriptor'
<1> USE DEF Base, TypeOK
<1>1. ASSUME NEW f \in Fds, socket[f] = "closed", NEW kind \in {"both", "listening"}, Made(f, kind)
      PROVE  OwnsDescriptor'
  <2>1. socket' = [socket EXCEPT ![f] = kind] /\ kind # "closed"
    BY <1>1 DEF Made
  <2>2. CASE UNCHANGED cells
    BY <1>1, <2>1, <2>2 DEF cells, OwnsDescriptor, CellsOK, KernelOK
  <2>3. CASE \E s \in Streams : object[s] = "free" /\ NewStream(s, f)
    <3>1. PICK s \in Streams : object' = [object EXCEPT ![s] = "open"] /\ sd' = [sd EXCEPT ![s] = f]
      BY <2>3 DEF NewStream
    <3>2. \A r \in Streams : object[r] = "open" => sd[r] # f
      BY <1>1 DEF OwnsDescriptor
    <3> QED
      BY <2>1, <3>1, <3>2 DEF OwnsDescriptor, CellsOK, KernelOK
  <2> QED
    BY <1>1, <2>2, <2>3 DEF Made
<1>2. CASE Open \/ Accept
  BY <1>1, <1>2 DEF Open, Accept
<1>3. ASSUME NEW s \in Streams, Close(s) \/ GcFree(s)
      PROVE  OwnsDescriptor'
  <2>1. CASE object[s] = "open"
    <3>1. /\ \E o \in {"closed", "free"} : object' = [object EXCEPT ![s] = o]
          /\ socket' = [socket EXCEPT ![sd[s]] = "closed"] /\ sd' = sd
      BY <1>3, <2>1 DEF Close, GcFree
    <3> QED
      BY <2>1, <3>1 DEF OwnsDescriptor, CellsOK, KernelOK
  <2>2. CASE object[s] # "open"
    BY <1>3, <2>2 DEF Close, Usable, GcFree, OwnsDescriptor, CellsOK
  <2> QED
    BY <2>1, <2>2
<1>4. ASSUME NEW s \in Streams, NEW left \in {"reading", "writing", "shut"}, Shutdown(s, left)
      PROVE  OwnsDescriptor'
  BY <1>4 DEF Shutdown, cells, OwnsDescriptor, CellsOK, KernelOK
<1>5. CASE UNCHANGED <<object, sd, socket>>
  BY <1>5 DEF OwnsDescriptor
<1>6. ASSUME NEW s \in Streams, Drop(s) \/ ForceOutput(s) \/ PeerSends(s)
      PROVE  OwnsDescriptor'
  BY <1>5, <1>6 DEF Drop, ForceOutput, PeerSends, cells
<1>7. ASSUME NEW s \in Streams, NEW n \in Nat, Put(s, n) \/ Write(s, n)
      PROVE  OwnsDescriptor'
  BY <1>5, <1>7 DEF Put, Write, cells
<1>8. ASSUME NEW k \in Nat, PutByte \/ SendFails \/ PutReturn \/ Send(k)
      PROVE  OwnsDescriptor'
  BY <1>5, <1>8 DEF PutByte, SendFails, PutReturn, Send, cells
<1>9. ASSUME NEW s \in Streams, NEW op, NEW n \in Nat, Get(op, s, n)
      PROVE  OwnsDescriptor'
  BY <1>5, <1>9 DEF Get, cells
<1>10. ASSUME NEW k \in Nat, GetByte \/ GetReturn \/ Unget \/ Filbuf(k)
       PROVE  OwnsDescriptor'
  BY <1>5, <1>10 DEF GetByte, GetReturn, Unget, Filbuf, cells
<1> QED
  BY Steps, <1>2, <1>3, <1>4, <1>6, <1>7, <1>8, <1>9, <1>10

-----------------------------------------------------------------------------
(* The place in the buffer and the last byte collected.                    *)

LEMMA PushNext ==
  ASSUME Sizes, Base, PushOK, Next
  PROVE  PushOK'
<1>1. CASE call'.op \in {"idle", "put", "direct"} \/ call'.todo = <<>>
  BY <1>1 DEF PushOK, Reading
<1>2. CASE call' = Idle
  BY <1>1, <1>2, IdleFact
<1>3. CASE Open \/ Accept
  BY <1>2, <1>3 DEF Open, Accept, Usable
<1>4. ASSUME NEW s \in Streams, NEW left, Close(s) \/ Drop(s) \/ GcFree(s) \/ Shutdown(s, left)
      PROVE  PushOK'
  BY <1>2, <1>4 DEF Close, Drop, GcFree, Shutdown, Usable
<1>5. ASSUME NEW s \in Streams, NEW n \in Nat, Put(s, n) \/ Write(s, n) \/ ForceOutput(s)
      PROVE  PushOK'
  <2>1. call'.op \in {"put", "direct"}
    BY <1>5 DEF Put, Write, ForceOutput, SsForce, Call
  <2> QED
    BY <1>1, <2>1
<1>6. ASSUME NEW s \in Streams, PeerSends(s)
      PROVE  PushOK'
  BY <1>6 DEF PeerSends, PushOK, Reading
<1>7. ASSUME NEW k \in Nat, PutByte \/ SendFails \/ PutReturn \/ Send(k)
      PROVE  PushOK'
  <2>1. CASE SendFails \/ PutReturn
    BY <1>2, <2>1 DEF SendFails, PutReturn
  <2>2. CASE PutByte \/ Send(k)
    <3>1. call \in Calls /\ call.op \in {"put", "direct"}
      BY <2>2 DEF PutByte, Send, Sending, Base, TypeOK
    <3>2. call'.op \in {"put", "direct"}
      BY <2>2, <3>1 DEF PutByte, SsForce, Call, Send, Calls
    <3> QED
      BY <1>1, <3>2
  <2> QED
    BY <1>7, <2>1, <2>2
<1>8. ASSUME NEW s \in Streams, NEW op, NEW n \in Nat, Get(op, s, n)
      PROVE  PushOK'
  <2>1. call'.todo = <<>>
    BY <1>8 DEF Get, Call
  <2> QED
    BY <1>1, <2>1
<1>9. CASE GetReturn \/ Unget
  BY <1>2, <1>9 DEF GetReturn, Unget
<1>10. ASSUME NEW e \in Nat, NEW s \in Streams, s = call.s,
              call' = [call EXCEPT !.todo = Append(@, e)], ipos'[s] > 0, ibuf'[s][ipos'[s]] = e
       PROVE  PushOK'
  <2>1. call \in Calls /\ call.todo \in Bstring
    BY DEF Base, TypeOK, Calls
  <2>2. PICK r \in Bstring : r = Append(call.todo, e) /\ Last(r) = e
    BY <2>1, AppendFact, Zenon
  <2>3. call'.todo = r /\ call'.s = s
    BY <1>10, <2>1, <2>2, StepFact
  <2> QED
    BY <1>10, <2>2, <2>3 DEF PushOK
<1>11. CASE GetByte
  <2> DEFINE s == call.s
  <2>1. s \in Streams /\ ibuf[s] \in Bstring /\ ipos[s] \in Nat
    BY <1>11, RunsOn DEF GetByte, Wants, Reading
  <2>2. ipos[s] + 1 \in 1 .. Len(ibuf[s]) /\ ipos[s] + 1 > 0
    <3>1. ipos[s] < Len(ibuf[s])
      BY <1>11 DEF GetByte, Buffered
    <3> QED
      BY <2>1, <3>1 DEF Bstring
  <2>3. PICK e \in Nat : e = ibuf[s][ipos[s] + 1]
    BY <2>1, <2>2 DEF Bstring
  <2>4. ibuf' = ibuf /\ ipos'[s] = ipos[s] + 1
    BY <1>11, <2>1 DEF GetByte, Base, TypeOK, BuffersOK
  <2>5. call' = [call EXCEPT !.todo = Append(@, e)]
    BY <1>11, <2>3 DEF GetByte
  <2> QED
    BY <1>10, <2>1, <2>2, <2>3, <2>4, <2>5
<1>12. ASSUME NEW k \in Nat \ {0}, Filbuf(k)
       PROVE  PushOK'
  <2> DEFINE s == call.s  d == arriving[sd[s]]
  <2>1. s \in Streams /\ d \in Bstring
    BY <1>12, RunsOn DEF Filbuf, Wants, Reading
  <2>2. k \in 0 .. Len(d) /\ 1 \in 1 .. k /\ Len(d) > 0
    <3>1. k <= Len(d)
      BY <1>12 DEF Filbuf
    <3> QED
      BY <2>1, <3>1 DEF Bstring
  <2>3. PICK e \in Nat : e = d[1]
    BY <2>1, <2>2 DEF Bstring
  <2>4. ibuf'[s] = SubSeq(d, 1, k) /\ ipos'[s] = 1
    BY <1>12, <2>1 DEF Filbuf, FirstByte, Base, TypeOK, BuffersOK
  <2>5. SubSeq(d, 1, k)[1] = e
    BY <2>1, <2>2, <2>3, SplitFact
  <2>6. call' = [call EXCEPT !.todo = Append(@, e)]
    BY <1>12, <2>3 DEF Filbuf
  <2>7. ibuf'[s][ipos'[s]] = e /\ ipos'[s] > 0
    BY <2>4, <2>5
  <2> QED
    BY <1>10, <2>1, <2>6, <2>7
<1> QED
  BY Steps, <1>3, <1>4, <1>5, <1>6, <1>7, <1>8, <1>9, <1>11, <1>12

-----------------------------------------------------------------------------
(* The bytes of a stream, between two steps.                               *)

Rest(s) == IF call.s = s /\ ~ Reading THEN call.rest ELSE <<>>
Todo(s) == IF call.s = s /\ ~ Reading THEN call.todo ELSE <<>>
Now(s)  == IF call.s = s /\ Reading THEN call.todo ELSE <<>>

OutOK(s) == OutGood(sent[s], Rest(s), obuf[s], Todo(s), written[s], faulty[s])
InOK(s)  == InGood(taken[s], Now(s), ibuf[s], ipos[s], arriving[sd[s]], arrived[s])

OutInv == \A s \in Streams : object[s] = "open" => OutOK(s)
InInv  == \A s \in Streams : object[s] = "open" => InOK(s)

LEMMA Quiet ==
  Base => \A t : /\ call.op = "idle" \/ call.s # t => Rest(t) = <<>> /\ Todo(t) = <<>> /\ Now(t) = <<>>
                 /\ Reading => Rest(t) = <<>> /\ Todo(t) = <<>>
                 /\ ~ Reading => Now(t) = <<>>
BY DEF Base, CallInv, Rest, Todo, Now, Reading

\* A stream whose output nothing happens to.
LEMMA OutSame ==
  ASSUME NEW t, OutOK(t), Rest(t)' = Rest(t), Todo(t)' = Todo(t),
         sent'[t] = sent[t], obuf'[t] = obuf[t], written'[t] = written[t], faulty'[t] = faulty[t]
  PROVE  OutOK(t)'
  BY DEF OutOK

LEMMA InSame ==
  ASSUME NEW t, InOK(t), Now(t)' = Now(t), sd'[t] = sd[t], arriving'[sd[t]] = arriving[sd[t]],
         taken'[t] = taken[t], ibuf'[t] = ibuf[t], ipos'[t] = ipos[t], arrived'[t] = arrived[t]
  PROVE  InOK(t)'
  BY DEF InOK

\* The types of what a stream has.
LEMMA StreamFact ==
  ASSUME Base, NEW s \in Streams
  PROVE  /\ sent[s] \in Bstring /\ obuf[s] \in Bstring /\ written[s] \in Nat
         /\ ibuf[s] \in Bstring /\ ipos[s] \in Nat /\ taken[s] \in Bstring /\ arrived[s] \in Nat
         /\ object[s] = "open" => arriving[sd[s]] \in Bstring /\ sd[s] \in Fds
  BY DEF Base, TypeOK, CellsOK, BuffersOK, HistoryOK, KernelOK

\* The history and buffers of a stream that is new, and those of the others.
LEMMA ForgetAt ==
  ASSUME Base, NEW s \in Streams, Forget(s)
  PROVE  /\ ibuf'[s] = <<>> /\ ipos'[s] = 0 /\ obuf'[s] = <<>> /\ written'[s] = 0 /\ sent'[s] = <<>>
         /\ faulty'[s] = FALSE /\ arrived'[s] = 0 /\ taken'[s] = <<>>
         /\ \A t \in Streams \ {s} :
              /\ ibuf'[t] = ibuf[t] /\ ipos'[t] = ipos[t] /\ obuf'[t] = obuf[t]
              /\ written'[t] = written[t] /\ sent'[t] = sent[t] /\ faulty'[t] = faulty[t]
              /\ arrived'[t] = arrived[t] /\ taken'[t] = taken[t]
  BY DEF Forget, Base, TypeOK, BuffersOK, HistoryOK

\* Opening, closing and freeing do nothing to the other streams.
LEMMA ObjectStep ==
  ASSUME Base, Base', OwnsDescriptor, OutInv, InInv, Open \/ Accept \/ \E s \in Streams : Close(s) \/ Drop(s)
           \/ GcFree(s) \/ \E left \in {"reading", "writing", "shut"} : Shutdown(s, left)
  PROVE  OutInv' /\ InInv'
<1>1. call = Idle /\ call' = call
  BY DEF Open, Accept, Close, Drop, GcFree, Shutdown, Usable
<1>2. \A t : Rest(t) = <<>> /\ Todo(t) = <<>> /\ Now(t) = <<>>
  BY <1>1, IdleFact, Quiet
<1>3. \A t : Rest(t)' = <<>> /\ Todo(t)' = <<>> /\ Now(t)' = <<>>
  BY <1>1, <1>2 DEF Rest, Todo, Now, Reading
<1>4. ASSUME NEW t \in Streams, object[t] = "open", UNCHANGED output, UNCHANGED <<ibuf, ipos, arrived, taken>>,
             sd'[t] = sd[t], arriving'[sd[t]] = arriving[sd[t]]
      PROVE  OutOK(t)' /\ InOK(t)'
  BY <1>2, <1>3, <1>4, OutSame, InSame DEF OutInv, InInv, output
<1>5. ASSUME NEW s \in Streams, Forget(s), NEW t \in Streams \ {s}, object[t] = "open",
             sd'[t] = sd[t], arriving'[sd[t]] = arriving[sd[t]]
      PROVE  OutOK(t)' /\ InOK(t)'
  BY <1>2, <1>3, <1>5, ForgetAt, OutSame, InSame DEF OutInv, InInv
<1>6. ASSUME NEW f \in Fds, socket[f] = "closed", NEW kind, Made(f, kind), NEW t \in Streams, object'[t] = "open"
      PROVE  OutOK(t)' /\ InOK(t)'
  <2>1. \A r \in Streams : object[r] = "open" => sd[r] # f /\ arriving'[sd[r]] = arriving[sd[r]]
    BY <1>6 DEF OwnsDescriptor, Made, Base, TypeOK, KernelOK
  <2>2. CASE UNCHANGED <<cells, output, ibuf, ipos, arrived, taken>>
    BY <1>4, <1>6, <2>1, <2>2 DEF cells
  <2>3. CASE \E s \in Streams : object[s] = "free" /\ NewStream(s, f)
    <3>1. PICK s \in Streams : object[s] = "free" /\ NewStream(s, f)
      BY <2>3
    <3>2. Forget(s) /\ object' = [object EXCEPT ![s] = "open"] /\ sd' = [sd EXCEPT ![s] = f]
      BY <3>1 DEF NewStream
    <3>3. CASE t = s
      <4>1. sd'[t] = f /\ arriving'[f] = <<>>
        BY <1>6, <3>2, <3>3 DEF Made, Base, TypeOK, CellsOK, KernelOK
      <4>2. OutOK(t)'
        BY <1>3, <3>2, <3>3, ForgetAt, OutNew DEF OutOK
      <4>3. InOK(t)'
        BY <1>3, <3>2, <3>3, <4>1, ForgetAt, InNew DEF InOK
      <4> QED
        BY <4>2, <4>3
    <3>4. CASE t # s
      <4>1. object[t] = "open" /\ sd'[t] = sd[t]
        BY <1>6, <3>2, <3>4 DEF Base, TypeOK, CellsOK
      <4> QED
        BY <1>5, <2>1, <3>2, <3>4, <4>1
    <3> QED
      BY <3>3, <3>4
  <2> QED
    BY <1>6, <2>2, <2>3 DEF Made
<1>7. ASSUME NEW s \in Streams, Close(s) \/ GcFree(s), NEW t \in Streams, object'[t] = "open"
      PROVE  OutOK(t)' /\ InOK(t)'
  <2>1. t # s /\ object[t] = "open" /\ Forget(s) /\ sd' = sd
    BY <1>7 DEF Close, GcFree, Base, TypeOK, CellsOK
  <2>2. (arriving' = [arriving EXCEPT ![sd[s]] = <<>>] /\ object[s] = "open") \/ arriving' = arriving
    BY <1>7 DEF Close, GcFree, Usable
  <2>3. arriving'[sd[t]] = arriving[sd[t]]
    BY <2>1, <2>2 DEF OwnsDescriptor, Base, TypeOK, CellsOK, KernelOK
  <2> QED
    BY <1>5, <2>1, <2>3
<1>8. ASSUME NEW s \in Streams, NEW left, Drop(s) \/ Shutdown(s, left), NEW t \in Streams, object'[t] = "open"
      PROVE  OutOK(t)' /\ InOK(t)'
  BY <1>4, <1>8 DEF Drop, Shutdown, cells, input
<1> QED
  BY <1>6, <1>7, <1>8 DEF Open, Accept, OutInv, InInv

\* What the output functions leave alone.
LEMMA OutputInput ==
  ASSUME Base, Base', InInv, UNCHANGED <<cells, socket, input>>, ~ Reading, ~ Reading'
  PROVE  InInv'
<1>1. \A t \in Streams : Now(t) = <<>> /\ Now(t)' = <<>>
  BY DEF Now
<1> QED
  BY <1>1, InSame DEF InInv, cells, input

LEMMA PutStep ==
  ASSUME Base, Base', OutInv, InInv, NEW s \in Streams, NEW n \in Nat, Put(s, n) \/ Write(s, n) \/ ForceOutput(s)
  PROVE  OutInv' /\ InInv'
<1>1. call.op = "idle" /\ ~ Reading /\ object[s] = "open" /\ object' = object
  BY IdleFact DEF Put, Write, ForceOutput, Usable, Reading, cells
<1>2. \A t : Rest(t) = <<>> /\ Todo(t) = <<>>
  BY <1>1, Quiet
<1>3. /\ sent[s] \in Bstring /\ obuf[s] \in Bstring /\ written[s] \in Nat
      /\ Bytes(written[s], n) \in Bstring /\ <<>> \in Bstring
  BY StreamFact, BytesFact, JoinFact
<1>4. OutGood(sent[s], <<>>, obuf[s], <<>>, written[s], faulty[s])
  BY <1>1, <1>2 DEF OutInv, OutOK
<1>5. ASSUME call'.op \in {"put", "direct"}, call'.s = s, sent' = sent, faulty' = faulty,
             \A t \in Streams \ {s} : obuf'[t] = obuf[t] /\ written'[t] = written[t],
             OutGood(sent[s], call'.rest, obuf'[s], call'.todo, written'[s], faulty[s]),
             UNCHANGED <<cells, socket, input>>
      PROVE  OutInv' /\ InInv'
  <2>1. ~ Reading'
    BY <1>5 DEF Reading
  <2>2. InInv'
    BY <1>1, <1>5, <2>1, OutputInput
  <2>3. OutOK(s)'
    BY <1>5, <2>1 DEF OutOK, Rest, Todo
  <2>4. ASSUME NEW t \in Streams \ {s}, object[t] = "open"
        PROVE  OutOK(t)'
    <3>1. Rest(t)' = <<>> /\ Todo(t)' = <<>>
      BY <1>5 DEF Rest, Todo
    <3> QED
      BY <1>2, <1>5, <2>4, <3>1, OutSame DEF OutInv
  <2> QED
    BY <1>1, <2>2, <2>3, <2>4 DEF OutInv
<1>6. CASE Put(s, n)
  <2>1. /\ call'.op = "put" /\ call'.s = s /\ call'.rest = <<>> /\ call'.todo = Bytes(written[s], n)
        /\ obuf' = obuf /\ sent' = sent /\ faulty' = faulty /\ written' = [written EXCEPT ![s] = @ + n]
        /\ UNCHANGED <<cells, socket, input>>
    BY <1>6 DEF Put, Call
  <2>2. written'[s] = written[s] + n /\ \A t \in Streams \ {s} : written'[t] = written[t]
    BY <2>1 DEF Base, TypeOK, HistoryOK
  <2>3. OutGood(sent[s], <<>>, obuf[s], Bytes(written[s], n), written[s] + n, faulty[s])
    BY <1>3, <1>4, OutOn
  <2> QED
    BY <1>5, <2>1, <2>2, <2>3
<1>7. CASE Write(s, n)
  <2>1. /\ call'.op = "direct" /\ call'.s = s /\ call'.rest = obuf[s] /\ call'.todo = Bytes(written[s], n)
        /\ obuf' = [obuf EXCEPT ![s] = <<>>] /\ sent' = sent /\ faulty' = faulty
        /\ written' = [written EXCEPT ![s] = @ + n] /\ UNCHANGED <<cells, socket, input>>
    BY <1>7 DEF Write, SsForce, Call
  <2>2. /\ written'[s] = written[s] + n /\ \A t \in Streams \ {s} : written'[t] = written[t]
        /\ obuf'[s] = <<>> /\ \A t \in Streams \ {s} : obuf'[t] = obuf[t]
    BY <2>1 DEF Base, TypeOK, HistoryOK, BuffersOK
  <2>3. OutGood(sent[s], obuf[s], <<>>, Bytes(written[s], n), written[s] + n, faulty[s])
    BY <1>3, <1>4, OutOn
  <2> QED
    BY <1>5, <2>1, <2>2, <2>3
<1>8. CASE ForceOutput(s)
  <2>1. /\ call'.op = "put" /\ call'.s = s /\ call'.rest = obuf[s] /\ call'.todo = <<>>
        /\ obuf' = [obuf EXCEPT ![s] = <<>>] /\ sent' = sent /\ faulty' = faulty
        /\ written' = written /\ UNCHANGED <<cells, socket, input>>
    BY <1>8 DEF ForceOutput, SsForce, Call
  <2>2. obuf'[s] = <<>> /\ \A t \in Streams \ {s} : obuf'[t] = obuf[t]
    BY <2>1 DEF Base, TypeOK, BuffersOK
  <2>3. OutGood(sent[s], obuf[s], <<>>, <<>>, written[s], faulty[s])
    BY <1>3, <1>4, OutForce
  <2> QED
    BY <1>5, <2>1, <2>2, <2>3
<1> QED
  BY <1>6, <1>7, <1>8

LEMMA OutputStep ==
  ASSUME Base, Base', OutInv, InInv, NEW k \in Nat, PutByte \/ SendFails \/ PutReturn \/ Send(k)
  PROVE  OutInv' /\ InInv'
<1> DEFINE s == call.s  a == sent[s]  b == call.rest  c == obuf[s]  d == call.todo
           n == written[s]  f == faulty[s]
<1>1. call.op \in {"put", "direct"} /\ ~ Reading
  BY DEF PutByte, SendFails, Sending, PutReturn, Send, Reading
<1>2. /\ s \in Streams /\ object[s] = "open" /\ a \in Bstring /\ b \in Bstring /\ c \in Bstring
      /\ d \in Bstring /\ <<>> \in Bstring /\ call \in Calls
  BY <1>1, RunsOn, JoinFact DEF Base, TypeOK
<1>3. OutGood(a, b, c, d, n, f)
  BY <1>1, <1>2 DEF OutInv, OutOK, Rest, Todo
<1>4. \A t \in Streams \ {s} : Rest(t) = <<>> /\ Todo(t) = <<>>
  BY DEF Rest, Todo
<1>5. UNCHANGED <<cells, socket, input>> /\ written' = written
  BY DEF PutByte, SendFails, PutReturn, Send, output
<1>6. ASSUME \/ call'.op \in {"put", "direct"} /\ call'.s = s
             \/ call'.op = "idle" /\ call'.rest = <<>> /\ call'.todo = <<>>,
             OutGood(sent'[s], call'.rest, obuf'[s], call'.todo, n, faulty'[s]),
             \A t \in Streams \ {s} : sent'[t] = sent[t] /\ obuf'[t] = obuf[t] /\ faulty'[t] = faulty[t]
      PROVE  OutInv' /\ InInv'
  <2>1. ~ Reading'
    BY <1>6 DEF Reading
  <2>2. InInv'
    BY <1>1, <1>5, <2>1, OutputInput
  <2>3. PICK u \in Streams : u = s
    BY <1>2
  <2>4. Rest(u)' = call'.rest /\ Todo(u)' = call'.todo
    BY <1>6, <2>1, <2>3 DEF Rest, Todo
  <2>5. OutOK(u)'
    BY <1>5, <1>6, <2>3, <2>4 DEF OutOK
  <2>6. ASSUME NEW t \in Streams, t # u, object[t] = "open"
        PROVE  OutOK(t)'
    <3>1. Rest(t)' = <<>> /\ Todo(t)' = <<>>
      BY <1>6, <2>3, <2>6 DEF Rest, Todo
    <3> QED
      BY <1>4, <1>5, <1>6, <2>3, <2>6, <3>1, OutSame DEF OutInv
  <2>7. \A t \in Streams : object'[t] = "open" => OutOK(t)'
    BY <1>5, <2>5, <2>6 DEF cells
  <2> QED
    BY <2>2, <2>7 DEF OutInv
<1>7. CASE PutByte
  <2>1. /\ b = <<>> /\ d # <<>> /\ call.op = "put" /\ sent' = sent /\ faulty' = faulty
    BY <1>7 DEF PutByte
  <2>2. CASE Len(c) < Bufsiz
    <3>1. obuf' = [obuf EXCEPT ![s] = Append(c, Head(d))] /\ call' = [call EXCEPT !.todo = Tail(d)]
      BY <1>7, <2>2 DEF PutByte
    <3>2. Tail(d) \in Bstring
      BY <1>2, <2>1, HeadFact
    <3>3. call'.op = "put" /\ call'.s = s /\ call'.rest = <<>> /\ call'.todo = Tail(d)
      BY ONLY <1>2, <2>1, <3>1, <3>2, StepFact
    <3>4. obuf'[s] = Append(c, Head(d)) /\ \A t \in Streams \ {s} : obuf'[t] = obuf[t]
      BY <1>2, <3>1 DEF Base, TypeOK, BuffersOK
    <3>5. OutGood(a, <<>>, Append(c, Head(d)), Tail(d), n, f)
      BY <1>2, <1>3, <2>1, OutPut
    <3> QED
      BY <1>6, <2>1, <3>3, <3>4, <3>5
  <2>3. CASE ~ (Len(c) < Bufsiz)
    <3>1. /\ obuf' = [obuf EXCEPT ![s] = <<>>]
          /\ call'.op = "put" /\ call'.s = s /\ call'.rest = c /\ call'.todo = d
      BY <1>7, <2>3 DEF PutByte, SsForce, Call
    <3>2. obuf'[s] = <<>> /\ \A t \in Streams \ {s} : obuf'[t] = obuf[t]
      BY <1>2, <3>1 DEF Base, TypeOK, BuffersOK
    <3>3. OutGood(a, c, <<>>, d, n, f)
      BY <1>2, <1>3, <2>1, OutForce
    <3> QED
      BY <1>6, <2>1, <3>1, <3>2, <3>3
  <2> QED
    BY <2>2, <2>3
<1>8. CASE SendFails
  <2>1. call' = Idle /\ sent' = sent /\ obuf' = obuf /\ faulty' = [faulty EXCEPT ![s] = TRUE]
    BY <1>8 DEF SendFails
  <2>2. faulty'[s] = TRUE /\ \A t \in Streams \ {s} : faulty'[t] = faulty[t]
    BY <1>2, <2>1 DEF Base, TypeOK, HistoryOK
  <2>3. OutGood(a, <<>>, c, <<>>, n, TRUE)
    BY <1>2, <1>3, OutFail
  <2> QED
    BY <1>6, <2>1, <2>2, <2>3, IdleFact
<1>9. CASE PutReturn
  <2>1. call' = Idle /\ b = <<>> /\ d = <<>> /\ sent' = sent /\ obuf' = obuf /\ faulty' = faulty
    BY <1>9 DEF PutReturn, output
  <2> QED
    BY <1>3, <1>6, <2>1, IdleFact
<1>10. CASE Send(k) /\ b # <<>>
  <2>1. /\ k \in 0 .. Len(b) /\ sent' = [sent EXCEPT ![s] = a \o SubSeq(b, 1, k)]
        /\ call' = [call EXCEPT !.rest = SubSeq(b, k + 1, Len(b))] /\ obuf' = obuf /\ faulty' = faulty
    <3>1. k <= Len(b) /\ Len(b) \in Nat
      BY <1>2, <1>10 DEF Send, Bstring
    <3> QED
      BY <1>10, <3>1 DEF Send
  <2>2. PICK r \in Bstring : r = SubSeq(b, k + 1, Len(b))
    BY <1>2, <2>1, SplitFact, Zenon
  <2>3. call'.op = call.op /\ call'.s = s /\ call'.rest = r /\ call'.todo = d
    BY ONLY <1>2, <2>1, <2>2, StepFact
  <2>4. sent'[s] = a \o SubSeq(b, 1, k) /\ \A t \in Streams \ {s} : sent'[t] = sent[t]
    BY <1>2, <2>1 DEF Base, TypeOK, HistoryOK
  <2>5. OutGood(a \o SubSeq(b, 1, k), SubSeq(b, k + 1, Len(b)), c, d, n, f)
    BY <1>2, <1>3, <2>1, OutSend
  <2> QED
    BY <1>1, <1>6, <2>1, <2>2, <2>3, <2>4, <2>5
<1>11. CASE Send(k) /\ b = <<>>
  <2>1. call.op = "direct" /\ c = <<>>
    BY <1>11 DEF Send, Sending, Base, CallInv
  <2>2. /\ k \in 0 .. Len(d) /\ sent' = [sent EXCEPT ![s] = a \o SubSeq(d, 1, k)]
        /\ call' = [call EXCEPT !.todo = SubSeq(d, k + 1, Len(d))] /\ obuf' = obuf /\ faulty' = faulty
    <3>1. k <= Len(d) /\ Len(d) \in Nat
      BY <1>2, <1>11 DEF Send, Bstring
    <3> QED
      BY <1>11, <3>1 DEF Send
  <2>3. PICK r \in Bstring : r = SubSeq(d, k + 1, Len(d))
    BY <1>2, <2>2, SplitFact, Zenon
  <2>4. call'.op = call.op /\ call'.s = s /\ call'.rest = <<>> /\ call'.todo = r
    BY ONLY <1>2, <1>11, <2>2, <2>3, StepFact
  <2>5. sent'[s] = a \o SubSeq(d, 1, k) /\ \A t \in Streams \ {s} : sent'[t] = sent[t]
    BY <1>2, <2>2 DEF Base, TypeOK, HistoryOK
  <2>6. OutGood(a \o SubSeq(d, 1, k), <<>>, <<>>, SubSeq(d, k + 1, Len(d)), n, f)
    BY <1>2, <1>3, <1>11, <2>1, <2>2, OutDirect
  <2> QED
    BY <1>1, <1>6, <2>1, <2>2, <2>3, <2>4, <2>5, <2>6
<1> QED
  BY <1>7, <1>8, <1>9, <1>10, <1>11

\* What the input functions leave alone.
LEMMA InputOutput ==
  ASSUME Base, Base', OutInv, UNCHANGED <<cells, output>>,
         call.op = "idle" \/ Reading, call'.op = "idle" \/ Reading'
  PROVE  OutInv'
<1>1. \A t : Rest(t) = <<>> /\ Todo(t) = <<>>
  BY Quiet
<1>2. \A t : Rest(t)' = <<>> /\ Todo(t)' = <<>>
  BY DEF Base, CallInv, Rest, Todo, Reading
<1> QED
  BY <1>1, <1>2, OutSame DEF OutInv, cells, output

LEMMA GetStep ==
  ASSUME Base, Base', OutInv, InInv, NEW s \in Streams,
         NEW op \in {"read", "gets", "drain", "sexp"}, NEW n \in Nat, Get(op, s, n)
  PROVE  OutInv' /\ InInv'
<1>1. call.op = "idle" /\ call'.op = op /\ call'.todo = <<>> /\ UNCHANGED <<cells, socket, output, input>>
  BY IdleFact DEF Get, Usable, Call
<1>2. OutInv'
  BY <1>1, InputOutput DEF Reading
<1>3. \A t : Now(t) = <<>> /\ Now(t)' = <<>>
  BY <1>1, Quiet DEF Now
<1> QED
  BY <1>1, <1>2, <1>3, InSame DEF InInv, cells, input

LEMMA PeerStep ==
  ASSUME Base, Base', OwnsDescriptor, OutInv, InInv, NEW s \in Streams, PeerSends(s)
  PROVE  OutInv' /\ InInv'
<1>1. /\ object[s] = "open" /\ arriving' = [arriving EXCEPT ![sd[s]] = Append(@, arrived[s] + 1)]
      /\ arrived' = [arrived EXCEPT ![s] = @ + 1] /\ UNCHANGED <<cells, socket, output, ibuf, ipos, call, taken>>
  BY DEF PeerSends
<1>2. \A t : Rest(t)' = Rest(t) /\ Todo(t)' = Todo(t) /\ Now(t)' = Now(t)
  BY <1>1 DEF Rest, Todo, Now, Reading
<1>3. OutInv'
  BY <1>1, <1>2, OutSame DEF OutInv, cells, output
<1>4. ASSUME NEW t \in Streams \ {s}, object[t] = "open"
      PROVE  InOK(t)'
  <2>1. sd[t] # sd[s]
    BY <1>1, <1>4 DEF OwnsDescriptor
  <2>2. arriving'[sd[t]] = arriving[sd[t]] /\ arrived'[t] = arrived[t]
    BY <1>1, <1>4, <2>1, StreamFact DEF Base, TypeOK, KernelOK, HistoryOK
  <2> QED
    BY <1>1, <1>2, <1>4, <2>2, InSame DEF InInv, cells
<1>5. InOK(s)'
  <2>1. PICK b \in Bstring : b = Now(s)
    BY JoinFact DEF Now, Base, TypeOK, Calls
  <2>2. InGood(taken[s], b, ibuf[s], ipos[s], arriving[sd[s]], arrived[s])
    BY <1>1, <2>1 DEF InInv, InOK
  <2>3. InGood(taken[s], b, ibuf[s], ipos[s], Append(arriving[sd[s]], arrived[s] + 1), arrived[s] + 1)
    BY <1>1, <2>2, StreamFact, InSends
  <2>4. arriving'[sd[s]] = Append(arriving[sd[s]], arrived[s] + 1) /\ arrived'[s] = arrived[s] + 1
    BY <1>1, StreamFact DEF Base, TypeOK, KernelOK, HistoryOK
  <2> QED
    BY <1>1, <1>2, <2>1, <2>3, <2>4 DEF InOK, cells
<1> QED
  BY <1>1, <1>3, <1>4, <1>5 DEF InInv, cells

LEMMA InputStep ==
  ASSUME Base, Base', PushOK, OwnsDescriptor, OutInv, InInv, NEW k \in Nat \ {0},
         GetByte \/ GetReturn \/ Unget \/ Filbuf(k)
  PROVE  OutInv' /\ InInv'
<1> DEFINE s == call.s  a == taken[s]  b == call.todo  i == ibuf[s]  p == ipos[s]
           d == arriving[sd[s]]  n == arrived[s]
<1>1. Reading /\ call.op # "idle" /\ UNCHANGED <<cells, socket, output>> /\ arrived' = arrived
  BY DEF GetByte, GetReturn, Unget, Filbuf, Wants, Reading
<1>2. /\ s \in Streams /\ object[s] = "open" /\ a \in Bstring /\ b \in Bstring /\ i \in Bstring
      /\ p \in Nat /\ d \in Bstring /\ n \in Nat /\ sd[s] \in Fds /\ call \in Calls
  BY <1>1, RunsOn, StreamFact DEF Base, TypeOK
<1>3. InGood(a, b, i, p, d, n)
  BY <1>1, <1>2 DEF InInv, InOK, Now
<1>4. ASSUME \/ call'.op = call.op /\ call'.s = s
             \/ call'.op = "idle" /\ call'.todo = <<>>,
             InGood(taken'[s], call'.todo, ibuf'[s], ipos'[s], arriving'[sd[s]], n),
             \A t \in Streams \ {s} : taken'[t] = taken[t] /\ ibuf'[t] = ibuf[t] /\ ipos'[t] = ipos[t],
             \A f \in Fds \ {sd[s]} : arriving'[f] = arriving[f]
      PROVE  OutInv' /\ InInv'
  <2>1. call'.op = "idle" \/ Reading'
    BY <1>1, <1>4 DEF Reading
  <2>2. OutInv'
    BY <1>1, <2>1, InputOutput
  <2>3. PICK u \in Streams : u = s
    BY <1>2
  <2>4. Now(u)' = call'.todo
    BY <1>1, <1>4, <2>3 DEF Now, Reading
  <2>5. InOK(u)'
    BY <1>1, <1>4, <2>3, <2>4 DEF InOK, cells
  <2>6. ASSUME NEW t \in Streams, t # u, object[t] = "open"
        PROVE  InOK(t)'
    <3>1. Now(t) = <<>> /\ Now(t)' = <<>>
      BY <1>4, <2>3, <2>6 DEF Now
    <3>2. sd[t] \in Fds \ {sd[s]}
      BY <1>2, <2>3, <2>6, StreamFact DEF OwnsDescriptor
    <3>3. arriving'[sd[t]] = arriving[sd[t]] /\ sd' = sd
      BY <1>1, <1>4, <3>2 DEF cells
    <3> QED
      BY <1>1, <1>4, <2>3, <2>6, <3>1, <3>3, InSame DEF InInv
  <2>7. \A t \in Streams : object'[t] = "open" => InOK(t)'
    BY <1>1, <2>5, <2>6 DEF cells
  <2> QED
    BY <2>2, <2>7 DEF InInv
<1>5. CASE GetByte
  <2>1. p < Len(i)
    BY <1>5 DEF GetByte, Buffered
  <2>2. p + 1 \in 1 .. Len(i)
    BY <1>2, <2>1 DEF Bstring
  <2>3. PICK r \in Bstring : r = Append(b, i[p + 1])
    <3>1. i[p + 1] \in Nat
      BY <1>2, <2>2, RestFact
    <3> QED
      BY <1>2, <3>1, AppendFact, Zenon
  <2>4. call' = [call EXCEPT !.todo = r] /\ ipos' = [ipos EXCEPT ![s] = p + 1]
        /\ UNCHANGED <<ibuf, arriving, taken>>
    BY <1>5, <2>3 DEF GetByte
  <2>5. call'.op = call.op /\ call'.s = s /\ call'.todo = r
    BY ONLY <1>2, <2>3, <2>4, StepFact
  <2>6. ipos'[s] = p + 1 /\ \A t \in Streams \ {s} : ipos'[t] = ipos[t]
    BY <1>2, <2>4 DEF Base, TypeOK, BuffersOK
  <2>7. InGood(a, r, i, p + 1, d, n)
    BY <1>2, <1>3, <2>1, <2>3, InGetByte
  <2> QED
    BY <1>4, <2>4, <2>5, <2>6, <2>7
<1>6. CASE Filbuf(k)
  <2>1. ~ (p < Len(i)) /\ k \in 1 .. Len(d)
    <3>1. k <= Len(d) /\ Len(d) \in Nat
      BY <1>2, <1>6 DEF Filbuf, Bstring
    <3> QED
      BY <1>6, <3>1 DEF Filbuf, Buffered
  <2>2. /\ InGood(a, Append(b, d[1]), SubSeq(d, 1, k), 1, SubSeq(d, k + 1, Len(d)), n)
        /\ d[1] \in Nat
    BY <1>2, <1>3, <2>1, InFilbuf
  <2>3. PICK r \in Bstring : r = Append(b, d[1])
    BY <1>2, <2>2, AppendFact, Zenon
  <2>4. /\ call' = [call EXCEPT !.todo = r] /\ ipos' = [ipos EXCEPT ![s] = 1]
        /\ ibuf' = [ibuf EXCEPT ![s] = SubSeq(d, 1, k)] /\ taken' = taken
        /\ arriving' = [arriving EXCEPT ![sd[s]] = SubSeq(d, k + 1, Len(d))]
    BY <1>6, <2>3 DEF Filbuf, FirstByte
  <2>5. call'.op = call.op /\ call'.s = s /\ call'.todo = r
    BY ONLY <1>2, <2>3, <2>4, StepFact
  <2>6. /\ ipos'[s] = 1 /\ \A t \in Streams \ {s} : ipos'[t] = ipos[t]
        /\ ibuf'[s] = SubSeq(d, 1, k) /\ \A t \in Streams \ {s} : ibuf'[t] = ibuf[t]
    BY <1>2, <2>4 DEF Base, TypeOK, BuffersOK
  <2>7. /\ arriving'[sd[s]] = SubSeq(d, k + 1, Len(d))
        /\ \A f \in Fds \ {sd[s]} : arriving'[f] = arriving[f]
    BY <1>2, <2>4 DEF Base, TypeOK, KernelOK
  <2> QED
    BY <1>4, <2>2, <2>3, <2>4, <2>5, <2>6, <2>7
<1>7. CASE GetReturn
  <2>1. call' = Idle /\ taken' = [taken EXCEPT ![s] = a \o b] /\ UNCHANGED <<ibuf, ipos, arriving>>
    BY <1>7 DEF GetReturn
  <2>2. taken'[s] = a \o b /\ \A t \in Streams \ {s} : taken'[t] = taken[t]
    BY <1>2, <2>1 DEF Base, TypeOK, HistoryOK
  <2>3. InGood(a \o b, <<>>, i, p, d, n)
    BY <1>2, <1>3, InReturn
  <2> QED
    BY <1>4, <2>1, <2>2, <2>3, IdleFact
<1>8. CASE Unget
  <2>1. b # <<>> /\ p > 0 /\ i[p] = Last(b)
    BY <1>1, <1>8 DEF Unget, PushOK
  <2>2. /\ call' = Idle /\ taken' = [taken EXCEPT ![s] = a \o Front(b)] /\ ipos' = [ipos EXCEPT ![s] = p - 1]
        /\ UNCHANGED <<ibuf, arriving>>
    BY <1>8 DEF Unget
  <2>3. /\ taken'[s] = a \o Front(b) /\ \A t \in Streams \ {s} : taken'[t] = taken[t]
        /\ ipos'[s] = p - 1 /\ \A t \in Streams \ {s} : ipos'[t] = ipos[t]
    BY <1>2, <2>2 DEF Base, TypeOK, HistoryOK, BuffersOK
  <2>4. InGood(a \o Front(b), <<>>, i, p - 1, d, n)
    BY <1>2, <1>3, <2>1, InUnget
  <2> QED
    BY <1>4, <2>2, <2>3, <2>4, IdleFact
<1> QED
  BY <1>5, <1>6, <1>7, <1>8

-----------------------------------------------------------------------------
(* The invariant, and what it says.                                        *)

SocketsInv == Base /\ PushOK /\ OwnsDescriptor /\ OutInv /\ InInv

LEMMA SocketsInitially == Init => SocketsInv
<1> SUFFICES ASSUME Init PROVE SocketsInv
  OBVIOUS
<1>1. Base
  BY BaseInit
<1>2. PushOK
  BY IdleFact DEF Init, PushOK, Reading
<1>3. \A s \in Streams : object[s] # "open"
  BY DEF Init
<1> QED
  BY <1>1, <1>2, <1>3 DEF SocketsInv, OwnsDescriptor, OutInv, InInv

LEMMA SocketsStep == Sizes /\ SocketsInv /\ [Next]_vars => SocketsInv'
<1> SUFFICES ASSUME Sizes, SocketsInv, [Next]_vars PROVE SocketsInv'
  OBVIOUS
<1> USE DEF SocketsInv
<1>1. CASE Next
  <2>1. Base' /\ PushOK' /\ OwnsDescriptor'
    BY <1>1, BaseNext, PushNext, OwnsNext
  <2>2. OutInv' /\ InInv'
    <3>1. ASSUME NEW s \in Streams, ForceOutput(s) PROVE OutInv' /\ InInv'
      <4>1. 0 \in Nat
        OBVIOUS
      <4> QED
        BY <2>1, <3>1, <4>1, PutStep
    <3>2. ASSUME NEW s \in Streams, PeerSends(s) PROVE OutInv' /\ InInv'
      BY <2>1, <3>2, PeerStep
    <3>3. ASSUME NEW s \in Streams, NEW n \in Nat, Put(s, n) \/ Write(s, n) PROVE OutInv' /\ InInv'
      BY <2>1, <3>3, PutStep
    <3>4. ASSUME NEW k \in Nat, PutByte \/ SendFails \/ PutReturn \/ Send(k) PROVE OutInv' /\ InInv'
      BY <2>1, <3>4, OutputStep
    <3>5. ASSUME NEW s \in Streams, NEW op \in {"read", "gets", "drain", "sexp"}, NEW n \in Nat,
                 Get(op, s, n)
          PROVE  OutInv' /\ InInv'
      BY <2>1, <3>5, GetStep
    <3>6. ASSUME NEW k \in Nat \ {0}, GetByte \/ GetReturn \/ Unget \/ Filbuf(k)
          PROVE  OutInv' /\ InInv'
      BY <2>1, <3>6, InputStep
    <3>7. ASSUME Open \/ Accept \/ \E s \in Streams : Close(s) \/ Drop(s) \/ GcFree(s)
                   \/ \E left \in {"reading", "writing", "shut"} : Shutdown(s, left)
          PROVE  OutInv' /\ InInv'
      BY <2>1, <3>7, ObjectStep
    <3> QED
      BY <1>1, <3>1, <3>2, <3>3, <3>4, <3>5, <3>6, <3>7, Steps
  <2> QED
    BY <2>1, <2>2
<1>2. CASE UNCHANGED vars
  <2>1. /\ object' = object /\ held' = held /\ sd' = sd /\ ibuf' = ibuf /\ ipos' = ipos /\ obuf' = obuf
        /\ socket' = socket /\ arriving' = arriving /\ call' = call /\ written' = written /\ sent' = sent
        /\ faulty' = faulty /\ arrived' = arrived /\ taken' = taken
    BY <1>2 DEF vars
  <2>2. Base'
    BY <2>1 DEF Base, TypeOK, CellsOK, BuffersOK, KernelOK, HistoryOK, CallInv, Reading
  <2>3. PushOK' /\ OwnsDescriptor'
    BY <2>1 DEF PushOK, OwnsDescriptor, Reading
  <2>4. \A t : Rest(t)' = Rest(t) /\ Todo(t)' = Todo(t) /\ Now(t)' = Now(t)
    BY <2>1 DEF Rest, Todo, Now, Reading
  <2>5. OutInv' /\ InInv'
    BY <2>1, <2>4, OutSame, InSame DEF OutInv, InInv
  <2> QED
    BY <2>2, <2>3, <2>5
<1> QED
  BY <1>1, <1>2

LEMMA SocketsInvariance == ASSUME Sizes PROVE Spec => []SocketsInv
<1>1. SocketsInv /\ [Next]_vars => SocketsInv'
  BY SocketsStep
<1> QED
  BY <1>1, SocketsInitially, PTL DEF Spec

\* No stream uses or will close a descriptor that the kernel has closed, and no two
\* have the same: s_close, the failures of s_open and s_accept and the collector.
THEOREM DescriptorsOwned == ASSUME Sizes PROVE Spec => []OwnsDescriptor
<1>1. SocketsInv => OwnsDescriptor
  BY DEF SocketsInv
<1> QED
  BY <1>1, SocketsInvariance, PTL

\* What is sent of a stream and what it still has to send are one after the other.
LEMMA PendingFact ==
  ASSUME Base, NEW s \in Streams
  PROVE  sent[s] \o Pending(s) = Cat(sent[s], Rest(s), obuf[s], Todo(s))
<1>1. /\ sent[s] \in Bstring /\ obuf[s] \in Bstring /\ call.rest \in Bstring /\ call.todo \in Bstring
      /\ <<>> \in Bstring
  BY StreamFact, JoinFact DEF Base, TypeOK, Calls
<1>2. CASE call.s # s \/ Reading
  <2>1. Rest(s) = <<>> /\ Todo(s) = <<>> /\ Pending(s) = obuf[s]
    BY <1>2 DEF Rest, Todo, Pending
  <2>2. Cat(sent[s], <<>>, obuf[s], <<>>) = Join(sent[s], obuf[s])
    BY <1>1, CatOn
  <2> QED
    BY <2>1, <2>2 DEF Join
<1>3. CASE call.s = s /\ ~ Reading /\ call.op = "direct"
  <2>1. Rest(s) = call.rest /\ Todo(s) = call.todo /\ obuf[s] = <<>>
        /\ Pending(s) = Join(call.rest, call.todo)
    BY <1>3 DEF Rest, Todo, Pending, Base, CallInv, Join
  <2>2. Join(call.rest, Join(<<>>, call.todo)) = Join(call.rest, call.todo)
    BY <1>1, JoinFact
  <2>3. Cat(sent[s], Rest(s), obuf[s], Todo(s)) = Join(sent[s], Pending(s))
    BY <2>1, <2>2 DEF Cat
  <2> QED
    BY <2>3 DEF Join
<1>4. CASE call.s = s /\ ~ Reading /\ call.op # "direct"
  <2>1. /\ Rest(s) = call.rest /\ Todo(s) = call.todo
        /\ Pending(s) = Join(Join(call.rest, obuf[s]), call.todo)
    BY <1>4 DEF Rest, Todo, Pending, Join
  <2>2. Join(Join(call.rest, obuf[s]), call.todo) = Join(call.rest, Join(obuf[s], call.todo))
    BY <1>1, JoinFact
  <2>3. Cat(sent[s], Rest(s), obuf[s], Todo(s)) = Join(sent[s], Pending(s))
    BY <2>1, <2>2 DEF Cat
  <2> QED
    BY <2>3 DEF Join
<1> QED
  BY <1>2, <1>3, <1>4

\* Bytes of a stream go out in the order they were written and never twice, whatever
\* send takes at a time and also after an error of send has dropped some; until one
\* has, all that was written is sent or on its way (s_write, ss_force, SS_PUTC).
THEOREM BytesGoOut == ASSUME Sizes PROVE Spec => []SentInOrder
<1>1. SocketsInv => SentInOrder
  <2> SUFFICES ASSUME SocketsInv, NEW s \in Streams, object[s] = "open"
               PROVE  /\ Increasing(sent[s] \o Pending(s))
                      /\ ~ faulty[s] => sent[s] \o Pending(s) = Bytes(0, written[s])
    BY DEF SentInOrder
  <2>1. PICK q : q = sent[s] \o Pending(s)
    OBVIOUS
  <2>2. Sorted(q, written[s]) /\ (~ faulty[s] => q = Bytes(0, written[s]))
    BY <2>1, PendingFact DEF SocketsInv, OutInv, OutOK, OutGood
  <2>3. Increasing(q)
    <3>1. Len(q) \in Nat /\ \A i, j \in 1 .. Len(q) : i < j => q[i] < q[j]
      BY <2>2 DEF Sorted, Bstring
    <3> QED
      BY <3>1 DEF Increasing
  <2> QED
    BY <2>1, <2>2, <2>3
<1> QED
  BY <1>1, SocketsInvariance, PTL

\* Every byte the peer sent is read once and in order, whatever recv delivers at a
\* time and whichever of s_getc, s_read, s_gets, s_drain and s_read_sexp reads it;
\* the byte that ss_ungetc_fcn puts back is the one before the place in the buffer.
THEOREM BytesComeIn == ASSUME Sizes PROVE Spec => []ReceivedExactly
<1>1. SocketsInv => ReceivedExactly
  <2> SUFFICES ASSUME SocketsInv, NEW s \in Streams, object[s] = "open"
               PROVE  /\ taken[s] \o Now(s) \o SubSeq(ibuf[s], ipos[s] + 1, Len(ibuf[s])) \o arriving[sd[s]]
                           = Bytes(0, arrived[s])
                      /\ (call.s = s /\ call.op = "sexp" /\ Now(s) # <<>>)
                           => ipos[s] > 0 /\ ibuf[s][ipos[s]] = Last(Now(s))
    BY DEF ReceivedExactly, Now
  <2>1. InGood(taken[s], Now(s), ibuf[s], ipos[s], arriving[sd[s]], arrived[s])
    BY DEF SocketsInv, InInv, InOK
  <2>2. PICK y \in Bstring : y = SubSeq(ibuf[s], ipos[s] + 1, Len(ibuf[s]))
    BY <2>1, StreamFact, TailIn, Zenon DEF InGood, SocketsInv
  <2>3. PICK b \in Bstring : b = Now(s)
    BY JoinFact DEF Now, SocketsInv, Base, TypeOK, Calls
  <2>4. PICK a \in Bstring, d \in Bstring : a = taken[s] /\ d = arriving[sd[s]]
    BY StreamFact, Zenon DEF SocketsInv
  <2>5. Cat(a, b, y, d) = Bytes(0, arrived[s])
    BY <2>1, <2>2, <2>3, <2>4 DEF InGood
  <2>6. Join(Join(Join(a, b), y), d) = Cat(a, b, y, d)
    <3>1. Join(Join(a, b), y) = Join(a, Join(b, y)) /\ Join(b, y) \in Bstring
      BY JoinFact
    <3>2. Join(Join(a, Join(b, y)), d) = Join(a, Join(Join(b, y), d))
      BY <3>1, JoinFact
    <3>3. Join(Join(b, y), d) = Join(b, Join(y, d))
      BY JoinFact
    <3> QED
      BY <3>1, <3>2, <3>3 DEF Cat
  <2>7. a \o b \o y \o d = Bytes(0, arrived[s])
    BY <2>5, <2>6 DEF Join
  <2>8. (call.s = s /\ call.op = "sexp" /\ Now(s) # <<>>) => ipos[s] > 0 /\ ibuf[s][ipos[s]] = Last(Now(s))
    BY DEF SocketsInv, PushOK, Now, Reading
  <2> QED
    BY <2>2, <2>3, <2>4, <2>7, <2>8
<1> QED
  BY <1>1, SocketsInvariance, PTL
=============================================================================
