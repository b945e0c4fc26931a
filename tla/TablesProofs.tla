---------------------------- MODULE TablesProofs ----------------------------
(***************************************************************************)
(* Proofs about Tables, for any names, keys, hashes and nesting.            *)
(***************************************************************************)
EXTENDS Tables, TLAPS

\* The tables as the activations see them: what a search for each name and key
\* finds, beside the variables.
Tab == [dim |-> obarray_dim, sym |-> [n \in Names |-> Bucket(n)[n]],
        ent |-> [k \in Keys |-> Slot(k)[k]], data |-> data,
        car |-> car, cdr |-> cdr, last |-> last, made |-> made]

\* What an activation counts on: the symbols it was given, and between its two
\* stores gen_intern's own; the keys it has set.
Sees(T, f, n) ==
  CASE f.op = "lisp" -> f.seen[n]
    [] f.op = "intern" /\ f.at = "oblist" /\ T.dim > 1 -> IF n = f.name THEN f.sym ELSE 0
    [] OTHER -> 0
Sets(f) == IF f.op = "lisp" THEN f.keys ELSE {}

\* The tables have it, and it is what a search finds.
Found(T, f) ==
  /\ \A n \in Names : Sees(T, f, n) # 0 => T.sym[n] = Sees(T, f, n)
  /\ \A k \in Sets(f) : T.ent[k] # 0 /\ T.cdr[T.ent[k]] = T.last[k]

SameBucket(T, n, m) == NameHash[n] % T.dim = NameHash[m] % T.dim

\* What g, called later, is going to store has it too.
Keeps(T, f, g) ==
  /\ g.op = "intern" =>
       /\ Sees(T, f, g.name) = 0
       /\ \A n \in Names : Sees(T, f, n) # 0 =>
            /\ T.dim > 1 /\ SameBucket(T, n, g.name) => g.sl[n] = Sees(T, f, n)
            /\ ~ T.dim > 1 /\ g.at = "oblist" => g.ol[n] = Sees(T, f, n)
  /\ g.op = "hset" =>
       /\ g.key \notin Sets(f)
       /\ \A k \in Sets(f) : Index[k] = Index[g.key] => g.l[k] = T.ent[k]

\* The entry that f has consed is its own until it is stored, and every other
\* entry that is on a list was made with the key it is found by.
Holding(f) == f.op = "hset" /\ f.at = "slot"
Made(T, k, c) == c # 0 => c \in 1 .. T.made /\ T.car[c] = k
Private(T, f) ==
  /\ f.op = "intern" /\ f.at = "bucket" => T.dim > 1
  /\ f.op = "hset" => \A k \in Keys : Made(T, k, f.l[k])
  /\ Holding(f) =>
       /\ f.cell # 0 /\ Made(T, f.key, f.cell) /\ T.cdr[f.cell] = f.value
       /\ \A i \in Slots, k \in Keys : T.data[i][k] # f.cell
       /\ \A k \in Keys : f.l[k] # f.cell

Apart(f, g) ==
  /\ Holding(f) /\ Holding(g) => f.cell # g.cell
  /\ Holding(f) /\ g.op = "hset" => \A k \in Keys : g.l[k] # f.cell

Good(T, s) ==
  /\ \A i \in DOMAIN s : Found(T, s[i]) /\ Private(T, s[i])
  /\ \A i, j \in DOMAIN s : i < j => Keeps(T, s[i], s[j])
  /\ \A i, j \in DOMAIN s : i # j => Apart(s[i], s[j])

Linking(T) == \A i \in Slots, k \in Keys : Made(T, k, T.data[i][k])

IInv == TypeOK /\ Linking(Tab) /\ Good(Tab, stack)

-----------------------------------------------------------------------------
(* Activations and stacks *)

LEMMA ActivationFact ==
  ASSUME NEW f \in Activation
  PROVE  /\ f.op \in {"lisp", "intern", "hset"}
         /\ f.op = "lisp" => f.seen \in List /\ f.keys \in SUBSET Keys
         /\ f.op = "intern" => /\ f.at \in {"symcons", "bucket", "oblist"}
                               /\ f.name \in Names /\ f.sl \in List
                               /\ f.sym \in Objects /\ f.ol \in List
         /\ f.op = "hset" => /\ f.at \in {"entry", "slot"} /\ f.key \in Keys
                             /\ f.value \in Values /\ f.l \in Alist
                             /\ f.cell \in Objects
  BY DEF Activation

LEMMA LispFact ==
  ASSUME NEW seen \in List, NEW keys \in SUBSET Keys
  PROVE  /\ Lisp(seen, keys) \in Activation /\ Lisp(seen, keys).op = "lisp"
         /\ Lisp(seen, keys).seen = seen /\ Lisp(seen, keys).keys = keys
  BY DEF Lisp, Activation

LEMMA InternFact ==
  ASSUME NEW at \in {"symcons", "bucket", "oblist"}, NEW n \in Names,
         NEW sl \in List, NEW sym \in Objects, NEW ol \in List
  PROVE  LET f == InternAt(at, n, sl, sym, ol)
         IN  /\ f \in Activation /\ f.op = "intern" /\ f.at = at /\ f.name = n
             /\ f.sl = sl /\ f.sym = sym /\ f.ol = ol
  BY DEF InternAt, Activation

LEMMA HsetFact ==
  ASSUME NEW at \in {"entry", "slot"}, NEW k \in Keys, NEW v \in Values,
         NEW l \in Alist, NEW cell \in Objects
  PROVE  LET f == HsetAt(at, k, v, l, cell)
         IN  /\ f \in Activation /\ f.op = "hset" /\ f.at = at /\ f.key = k
             /\ f.value = v /\ f.l = l /\ f.cell = cell
  BY DEF HsetAt, Activation

\* What a stack is, whatever the activations count on.
StackType(s) ==
  /\ s \in Seq(Activation) /\ Len(s) \in 1 .. Nesting
  /\ s[1].op = "lisp"
  /\ \A i \in 2 .. Len(s) : "lisp" \in {s[i - 1].op, s[i].op}

LEMMA StackFact ==
  ASSUME NEW s, StackType(s)
  PROVE  /\ Len(s) \in Nat \ {0} /\ DOMAIN s = 1 .. Len(s)
         /\ \A i \in 1 .. Len(s) : s[i] \in Activation
         /\ s[Len(s)].op # "lisp" => Len(s) > 1 /\ s[Len(s) - 1].op = "lisp"
<1>1. Len(s) \in Nat \ {0} /\ DOMAIN s = 1 .. Len(s)
  BY DEF StackType
<1>2. \A i \in 1 .. Len(s) : s[i] \in Activation
  BY <1>1 DEF StackType
<1>3. ASSUME s[Len(s)].op # "lisp"
      PROVE  Len(s) > 1 /\ s[Len(s) - 1].op = "lisp"
  <2>1. Len(s) \in 2 .. Len(s)
    BY <1>1, <1>3 DEF StackType
  <2> QED
    BY <1>3, <2>1 DEF StackType
<1> QED
  BY <1>1, <1>2, <1>3

\* t is s with f on top of its first m activations.
LEMMA TopFact ==
  ASSUME NEW s, StackType(s), NEW m \in 1 .. Len(s), m < Nesting,
         NEW f \in Activation, "lisp" \in {s[m].op, f.op},
         NEW t \in Seq(Activation), Len(t) = m + 1, t[m + 1] = f,
         \A i \in 1 .. m : t[i] = s[i]
  PROVE  StackType(t)
<1>1. Len(s) \in Nat \ {0} /\ m + 1 \in 1 .. Nesting
  BY StackFact, BoundsAssumption
<1>2. t[1].op = "lisp"
  BY <1>1 DEF StackType
<1>3. ASSUME NEW i \in 2 .. m + 1
      PROVE  "lisp" \in {t[i - 1].op, t[i].op}
  <2>1. CASE i = m + 1
    BY <2>1
  <2>2. CASE i # m + 1
    <3>1. i \in 2 .. Len(s) /\ i \in 1 .. m /\ i - 1 \in 1 .. m
      BY <1>1, <2>2
    <3>2. "lisp" \in {s[i - 1].op, s[i].op}
      BY <3>1 DEF StackType
    <3> QED
      BY <3>1, <3>2
  <2> QED
    BY <2>1, <2>2
<1> QED
  BY <1>1, <1>2, <1>3 DEF StackType

\* The stack is cut back.
LEMMA CutFact ==
  ASSUME NEW s, StackType(s), NEW d \in 1 .. Len(s)
  PROVE  /\ StackType(SubSeq(s, 1, d)) /\ Len(SubSeq(s, 1, d)) = d
         /\ SubSeq(s, 1, d) \in Seq(Activation)
         /\ \A i \in 1 .. d : SubSeq(s, 1, d)[i] = s[i]
<1> DEFINE t == SubSeq(s, 1, d)
<1>1. /\ Len(s) \in Nat \ {0} /\ DOMAIN s = 1 .. Len(s) /\ s \in Seq(Activation)
      /\ Len(s) \in 1 .. Nesting
  BY StackFact DEF StackType
<1>2. /\ t \in Seq(Activation) /\ Len(t) = d /\ \A i \in 1 .. d : t[i] = s[i]
  BY <1>1
<1> HIDE DEF t
<1>3. Len(t) \in 1 .. Nesting
  BY <1>1, <1>2, BoundsAssumption
<1>4. t[1].op = "lisp"
  BY <1>1, <1>2 DEF StackType
<1>5. ASSUME NEW i \in 2 .. d
      PROVE  "lisp" \in {t[i - 1].op, t[i].op}
  <2>1. i \in 2 .. Len(s) /\ i \in 1 .. d /\ i - 1 \in 1 .. d
    BY <1>1
  <2>2. "lisp" \in {s[i - 1].op, s[i].op}
    BY <2>1 DEF StackType
  <2> QED
    BY <1>2, <2>1, <2>2
<1>6. StackType(t)
  BY <1>2, <1>3, <1>4, <1>5 DEF StackType
<1> QED
  BY <1>2, <1>6 DEF t

\* The activation on top of s is replaced by one of the same function.
LEMMA GoingFact ==
  ASSUME NEW s, StackType(s), NEW f \in Activation, f.op = s[Len(s)].op
  PROVE  LET t == [s EXCEPT ![Len(s)] = f]
         IN  /\ StackType(t) /\ Len(t) = Len(s) /\ t[Len(s)] = f
             /\ \A i \in 1 .. Len(s) - 1 : t[i] = s[i]
<1> DEFINE t == [s EXCEPT ![Len(s)] = f]
<1>1. /\ Len(s) \in Nat \ {0} /\ DOMAIN s = 1 .. Len(s) /\ s \in Seq(Activation)
      /\ Len(s) \in 1 .. Nesting
  BY StackFact DEF StackType
<1>2. /\ t \in Seq(Activation) /\ Len(t) = Len(s) /\ t[Len(s)] = f
      /\ \A i \in 1 .. Len(s) - 1 : t[i] = s[i]
  BY <1>1
<1> HIDE DEF t
<1>3. \A i \in 1 .. Len(s) : t[i].op = s[i].op
  BY <1>1, <1>2
<1>4. t[1].op = "lisp" /\ \A i \in 2 .. Len(s) : "lisp" \in {s[i - 1].op, s[i].op}
  BY <1>1, <1>3 DEF StackType
<1>5. ASSUME NEW i \in 2 .. Len(s)
      PROVE  "lisp" \in {t[i - 1].op, t[i].op}
  <2>1. i \in 1 .. Len(s) /\ i - 1 \in 1 .. Len(s)
    BY <1>1
  <2> QED
    BY <1>3, <1>4, <2>1
<1>6. StackType(t)
  BY <1>1, <1>2, <1>4, <1>5 DEF StackType
<1> QED
  BY <1>2, <1>6 DEF t

\* A function is called: C code by Lisp code, or *after-gc* by C code.
LEMMA CallingFact ==
  ASSUME NEW s, StackType(s), Len(s) < Nesting, NEW f \in Activation,
         "lisp" \in {s[Len(s)].op, f.op}
  PROVE  LET t == Append(s, f)
         IN  /\ StackType(t) /\ Len(t) = Len(s) + 1 /\ t[Len(s) + 1] = f
             /\ \A i \in 1 .. Len(s) : t[i] = s[i]
<1> DEFINE t == Append(s, f)
<1>1. /\ Len(s) \in Nat \ {0} /\ s \in Seq(Activation)
  BY StackFact DEF StackType
<1>2. /\ t \in Seq(Activation) /\ Len(t) = Len(s) + 1 /\ t[Len(s) + 1] = f
      /\ \A i \in 1 .. Len(s) : t[i] = s[i]
  BY <1>1
<1> HIDE DEF t
<1>3. StackType(t)
  BY <1>1, <1>2, TopFact
<1> QED
  BY <1>2, <1>3 DEF t

\* C code returns to the Lisp code that called it.
LEMMA ReturningFact ==
  ASSUME NEW s, StackType(s), s[Len(s)].op # "lisp",
         NEW f \in Activation, f.op = "lisp"
  PROVE  LET t == [SubSeq(s, 1, Len(s) - 1) EXCEPT ![Len(s) - 1] = f]
         IN  /\ StackType(t) /\ Len(t) = Len(s) - 1 /\ t[Len(s) - 1] = f
             /\ \A i \in 1 .. Len(s) - 2 : t[i] = s[i]
<1> DEFINE r == SubSeq(s, 1, Len(s) - 1)
           t == [r EXCEPT ![Len(r)] = f]
<1>1. Len(s) \in Nat \ {0} /\ Len(s) > 1 /\ s[Len(s) - 1].op = "lisp"
  BY StackFact
<1>2. Len(s) - 1 \in 1 .. Len(s)
  BY <1>1
<1>3. /\ StackType(r) /\ Len(r) = Len(s) - 1
      /\ \A i \in 1 .. Len(s) - 1 : r[i] = s[i]
  BY <1>2, CutFact
<1> HIDE DEF r
<1>4. r[Len(r)].op = "lisp"
  BY <1>1, <1>2, <1>3
<1>5. /\ StackType(t) /\ Len(t) = Len(r) /\ t[Len(r)] = f
      /\ \A i \in 1 .. Len(r) - 1 : t[i] = r[i]
  BY <1>3, <1>4, GoingFact
<1>6. t = [r EXCEPT ![Len(s) - 1] = f]
  BY <1>3
<1> HIDE DEF t
<1>7. \A i \in 1 .. Len(s) - 2 : i \in 1 .. Len(r) - 1 /\ i \in 1 .. Len(s) - 1
  BY <1>1, <1>3
<1>8. \A i \in 1 .. Len(s) - 2 : t[i] = s[i]
  BY <1>3, <1>5, <1>7
<1> QED
  BY <1>3, <1>5, <1>6, <1>8 DEF r

-----------------------------------------------------------------------------
(* Every step keeps IInv *)

\* The tables change from T to U and the stack from s to t, of which the first m
\* activations are those of s and count on nothing that has changed.
Steps(T, U, s, t, m) ==
  /\ U.dim = T.dim /\ m \in Nat /\ 1 .. m \subseteq DOMAIN s
  /\ DOMAIN t = 1 .. m \/ DOMAIN t = 1 .. m + 1
  /\ \A i \in 1 .. m : t[i] = s[i]
  /\ \A i \in 1 .. m : /\ Found(U, s[i]) /\ Private(U, s[i])
                       /\ \A k \in Sets(s[i]) : U.ent[k] = T.ent[k]
  /\ m + 1 \in DOMAIN t =>
       /\ Found(U, t[m + 1]) /\ Private(U, t[m + 1])
       /\ \A i \in 1 .. m : /\ Keeps(U, s[i], t[m + 1])
                            /\ Apart(s[i], t[m + 1]) /\ Apart(t[m + 1], s[i])

LEMMA GoodStep ==
  ASSUME NEW T, NEW U, NEW s, NEW t, NEW m, Good(T, s), Steps(T, U, s, t, m)
  PROVE  Good(U, t)
<1> USE DEF Steps
<1>1. ASSUME NEW i \in DOMAIN t
      PROVE  Found(U, t[i]) /\ Private(U, t[i])
  <2>1. i \in 1 .. m \/ i = m + 1
    BY <1>1
  <2>2. CASE i \in 1 .. m
    BY <2>2
  <2>3. CASE i = m + 1
    BY <2>3
  <2> QED
    BY <2>1, <2>2, <2>3
<1>2. ASSUME NEW i \in DOMAIN t, NEW j \in DOMAIN t
      PROVE  /\ i < j => Keeps(U, t[i], t[j])
             /\ i # j => Apart(t[i], t[j])
  <2>1. CASE i \in 1 .. m /\ j \in 1 .. m
    <3>1. /\ i < j => Keeps(T, s[i], s[j])
          /\ i # j => Apart(s[i], s[j])
      BY <2>1 DEF Good
    <3>2. \A n : Sees(U, s[i], n) = Sees(T, s[i], n)
      BY DEF Sees
    <3>3. i < j => Keeps(U, s[i], s[j])
      BY <2>1, <3>1, <3>2 DEF Keeps, SameBucket
    <3> QED
      BY <2>1, <3>1, <3>3
  <2>2. CASE i \in 1 .. m /\ j = m + 1
    BY <2>2
  <2>3. CASE i = m + 1 /\ j \in 1 .. m
    BY <2>3
  <2>4. CASE i = m + 1 /\ j = m + 1
    BY <2>4
  <2> QED
    BY <2>1, <2>2, <2>3, <2>4
<1> QED
  BY <1>1, <1>2 DEF Good

\* When no table changes, and nothing but entries is made.
LEMMA SameTables ==
  ASSUME NEW T, NEW U, NEW s, Good(T, s), U.dim = T.dim, U.sym = T.sym, U.ent = T.ent,
         U.data = T.data, U.last = T.last, T.made \in Nat, U.made \in Nat,
         U.made >= T.made,
         \A c \in 1 .. T.made : U.car[c] = T.car[c] /\ U.cdr[c] = T.cdr[c],
         Linking(T), \A k \in Keys : \E i \in Slots : T.ent[k] = T.data[i][k],
         NEW i \in DOMAIN s, Sets(s[i]) \subseteq Keys
  PROVE  /\ Found(U, s[i]) /\ Private(U, s[i])
         /\ \A k \in Sets(s[i]) : U.ent[k] = T.ent[k]
<1>1. Found(T, s[i]) /\ Private(T, s[i])
  BY DEF Good
<1>2. \A n : Sees(U, s[i], n) = Sees(T, s[i], n)
  BY DEF Sees
<1>3. \A k, c : Made(T, k, c) => Made(U, k, c)
  BY DEF Made
<1>4. \A k \in Keys : T.ent[k] # 0 => U.cdr[T.ent[k]] = T.cdr[T.ent[k]]
  BY DEF Linking, Made
<1>5. Found(U, s[i])
  BY <1>1, <1>2, <1>4 DEF Found
<1>6. Private(U, s[i])
  BY <1>1, <1>3 DEF Private, Made
<1> QED
  BY <1>5, <1>6

\* The variables other than the stack.
DataType ==
  /\ obarray_dim \in Dims
  /\ obarray \in [0 .. obarray_dim - 1 -> List] /\ oblistvar \in List
  /\ data \in [Slots -> Alist]
  /\ car \in [1 .. MaxNew -> Keys \union {NIL}]
  /\ cdr \in [1 .. MaxNew -> Values \union {NIL}]
  /\ made \in 0 .. MaxNew
  /\ last \in [Keys -> Values \union {NIL}] /\ returned \in List

LEMMA TypeParts == TypeOK <=> DataType /\ StackType(stack)
  BY DEF TypeOK, DataType, StackType

LEMMA TypeNext ==
  ASSUME DataType', StackType(stack')
  PROVE  TypeOK'
  BY DEF TypeOK, DataType, StackType

\* The fields of Tab.
LEMMA TabFact ==
  ASSUME TypeOK
  PROVE  /\ Tab.dim = obarray_dim /\ Tab.data = data /\ Tab.car = car /\ Tab.cdr = cdr
         /\ Tab.last = last /\ Tab.made = made /\ made \in Nat
         /\ \A n \in Names : Tab.sym[n] = Bucket(n)[n]
         /\ \A k \in Keys : Tab.ent[k] = data[Index[k]][k] /\ Index[k] \in Slots
         /\ \A k \in Keys : \E i \in Slots : Tab.ent[k] = Tab.data[i][k]
         /\ obarray_dim \in Nat \ {0}
<1>1. made \in Nat /\ obarray_dim \in Nat \ {0}
  BY BoundsAssumption, NamesAssumption DEF TypeOK
<1>2. \A k \in Keys : Tab.ent[k] = data[Index[k]][k] /\ Index[k] \in Slots
  BY DEF Tab, Slot, Slots
<1> QED
  BY <1>1, <1>2 DEF Tab

\* The lists the bucket of a name may be.
LEMMA BucketFact ==
  ASSUME TypeOK, NEW n \in Names
  PROVE  /\ Bucket(n) \in List /\ Bucket(n)[n] \in Objects
         /\ Hash(n) \in 0 .. obarray_dim - 1
<1>1. Hash(n) \in 0 .. obarray_dim - 1
  BY NamesAssumption DEF TypeOK, Hash
<1> QED
  BY <1>1 DEF TypeOK, Bucket, List

\* The activations on the stack.
LEMMA StackFacts ==
  ASSUME IInv
  PROVE  /\ TypeOK /\ DataType /\ StackType(stack) /\ Linking(Tab) /\ Good(Tab, stack)
         /\ Len(stack) \in Nat \ {0} /\ DOMAIN stack = 1 .. Len(stack)
         /\ \A i \in 1 .. Len(stack) :
              /\ stack[i] \in Activation /\ Sets(stack[i]) \subseteq Keys
              /\ Found(Tab, stack[i]) /\ Private(Tab, stack[i])
         /\ Top \in Activation
<1>1. TypeOK /\ DataType /\ StackType(stack) /\ Linking(Tab) /\ Good(Tab, stack)
  BY TypeParts DEF IInv
<1>2. /\ Len(stack) \in Nat \ {0} /\ DOMAIN stack = 1 .. Len(stack)
      /\ \A i \in 1 .. Len(stack) : stack[i] \in Activation
  BY <1>1, StackFact
<1>3. \A i \in 1 .. Len(stack) : Sets(stack[i]) \subseteq Keys
  BY <1>2, ActivationFact DEF Sets
<1> QED
  BY <1>1, <1>2, <1>3 DEF Good, Top

TableVars == <<obarray_dim, obarray, oblistvar, data, car, cdr, made, last>>

\* A step that changes the stack only.
LEMMA StackOnly ==
  ASSUME IInv, UNCHANGED TableVars, returned' \in List, StackType(stack'),
         NEW m \in Nat, m <= Len(stack), Len(stack') \in {m, m + 1},
         \A i \in 1 .. m : stack'[i] = stack[i],
         Len(stack') = m + 1 =>
           /\ Found(Tab, stack'[m + 1]) /\ Private(Tab, stack'[m + 1])
           /\ \A i \in 1 .. m : /\ Keeps(Tab, stack[i], stack'[m + 1])
                                /\ Apart(stack[i], stack'[m + 1])
                                /\ Apart(stack'[m + 1], stack[i])
  PROVE  IInv'
<1>1. Tab' = Tab
  BY DEF TableVars, Tab, Bucket, Hash, Hashed, Slot
<1>2. DataType'
  BY StackFacts DEF TableVars, DataType
<1>3. TypeOK'
  BY <1>2, TypeNext
<1>4. DOMAIN stack' = 1 .. Len(stack') /\ Len(stack') \in Nat
  BY StackFact
<1>5. \A i \in 1 .. m : i \in 1 .. Len(stack)
  BY StackFacts
<1>6. m + 1 \in DOMAIN stack' => Len(stack') = m + 1
  <2>1. CASE Len(stack') = m
    <3>1. m + 1 \notin 1 .. m
      OBVIOUS
    <3> QED
      BY <1>4, <2>1, <3>1
  <2> QED
    BY <2>1
<1>7. Good(Tab, stack')
  <2> DEFINE T == Tab
             t == stack'
  <2>1. /\ Good(T, stack) /\ 1 .. m \subseteq DOMAIN stack
        /\ DOMAIN t = 1 .. m \/ DOMAIN t = 1 .. m + 1
        /\ \A i \in 1 .. m : t[i] = stack[i]
    BY <1>4, <1>5, StackFacts
  <2>2. \A i \in 1 .. m : Found(T, stack[i]) /\ Private(T, stack[i])
    BY <1>5, StackFacts
  <2>3. m + 1 \in DOMAIN t =>
           /\ Found(T, t[m + 1]) /\ Private(T, t[m + 1])
           /\ \A i \in 1 .. m : /\ Keeps(T, stack[i], t[m + 1])
                                /\ Apart(stack[i], t[m + 1]) /\ Apart(t[m + 1], stack[i])
    BY <1>6
  <2> HIDE DEF T, t
  <2>4. Good(T, t)
    <3>1. Steps(T, T, stack, t, m)
      BY <2>1, <2>2, <2>3 DEF Steps
    <3> QED
      BY <2>1, <3>1, GoodStep
  <2> QED
    BY <2>4 DEF T, t
<1> QED
  BY <1>1, <1>3, <1>7, StackFacts DEF IInv

LEMMA InternFoundStep ==
  ASSUME IInv, NEW n \in Names, InternFound(n)
  PROVE  IInv'
<1> DEFINE sym == Bucket(n)[n]
           seen == [Top.seen EXCEPT ![n] = sym]
           f == Lisp(seen, Top.keys)
           m == Len(stack) - 1
<1>1. /\ Top.op = "lisp" /\ stack' = [stack EXCEPT ![Len(stack)] = f]
      /\ returned' = [returned EXCEPT ![n] = sym] /\ UNCHANGED TableVars
  BY DEF InternFound, Running, Going, Seeing, TableVars
<1>2. Top.seen \in List /\ Top.keys \in SUBSET Keys /\ Tab.sym[n] = sym
  BY <1>1, StackFacts, ActivationFact, TabFact
<1>3. sym \in Objects
  BY StackFacts, BucketFact
<1>4. seen \in List /\ returned' \in List
  BY <1>1, <1>2, <1>3, StackFacts DEF List, DataType
<1>5. f \in Activation /\ f.op = "lisp" /\ f.seen = seen /\ f.keys = Top.keys
  BY <1>2, <1>4, LispFact
<1>6. Found(Tab, f)
  <2>1. Found(Tab, Top)
    BY StackFacts DEF Top
  <2>2. \A x \in Names : Sees(Tab, f, x) = IF x = n THEN sym ELSE Sees(Tab, Top, x)
    BY <1>1, <1>2, <1>5 DEF Sees, List
  <2>3. Sets(f) = Sets(Top)
    BY <1>1, <1>5 DEF Sets
  <2> QED
    BY <1>2, <2>1, <2>2, <2>3 DEF Found
<1>7. Private(Tab, f) /\ \A g : Keeps(Tab, g, f) /\ Apart(g, f) /\ Apart(f, g)
  BY <1>5 DEF Private, Keeps, Apart, Holding
<1> HIDE DEF f, seen, sym
<1>8. /\ StackType(stack') /\ Len(stack') = m + 1 /\ stack'[m + 1] = f
      /\ \A i \in 1 .. m : stack'[i] = stack[i]
      /\ m \in Nat /\ m <= Len(stack)
  <2>1. f.op = stack[Len(stack)].op
    BY <1>1, <1>5 DEF Top
  <2>2. /\ StackType(stack') /\ Len(stack') = Len(stack) /\ stack'[Len(stack)] = f
        /\ \A i \in 1 .. Len(stack) - 1 : stack'[i] = stack[i]
    <3>1. StackType(stack)
      BY StackFacts
    <3> QED
      BY <1>1, <1>5, <2>1, <3>1, GoingFact
  <2> QED
    BY <2>2, StackFacts
<1> HIDE DEF m
<1> QED
  BY <1>1, <1>4, <1>6, <1>7, <1>8, StackOnly

LEMMA InternNewStep ==
  ASSUME IInv, NEW n \in Names, InternNew(n)
  PROVE  IInv'
<1> DEFINE f == InternAt("symcons", n, Bucket(n), 0, Empty)
           m == Len(stack)
<1>1. /\ Top.op = "lisp" /\ stack' = Append(stack, f) /\ Len(stack) < Nesting
      /\ returned' = returned /\ UNCHANGED TableVars /\ Bucket(n)[n] = 0
  BY DEF InternNew, InternMissing, Running, Room, Calling, TableVars
<1>2. Bucket(n) \in List /\ Empty \in List /\ 0 \in Objects
  BY StackFacts, BucketFact, BoundsAssumption DEF Empty, List, Objects
<1>3. /\ f \in Activation /\ f.op = "intern" /\ f.at = "symcons" /\ f.name = n
      /\ f.sl = Bucket(n)
  BY <1>2, InternFact
<1>4. Found(Tab, f) /\ Private(Tab, f)
  BY <1>3 DEF Found, Private, Sees, Sets, Holding
<1>5. ASSUME NEW i \in 1 .. m
      PROVE  Keeps(Tab, stack[i], f) /\ Apart(stack[i], f) /\ Apart(f, stack[i])
  <2>1. Found(Tab, stack[i])
    BY StackFacts
  <2>2. Sees(Tab, stack[i], n) = 0
    BY <1>1, <2>1, StackFacts, TabFact DEF Found
  <2>3. ASSUME NEW x \in Names, Sees(Tab, stack[i], x) # 0,
               Tab.dim > 1, SameBucket(Tab, x, n)
        PROVE  f.sl[x] = Sees(Tab, stack[i], x)
    <3>1. Bucket(x) = Bucket(n)
      BY <2>3, StackFacts, TabFact DEF SameBucket, Bucket, Hash, Hashed
    <3> QED
      BY <1>3, <2>1, <2>3, <3>1, StackFacts, TabFact DEF Found
  <2> QED
    BY <1>3, <2>2, <2>3 DEF Keeps, Apart, Holding
<1> HIDE DEF f
<1>6. /\ StackType(stack') /\ Len(stack') = m + 1 /\ stack'[m + 1] = f
      /\ \A i \in 1 .. m : stack'[i] = stack[i]
      /\ m \in Nat /\ m <= Len(stack)
  BY <1>1, <1>3, StackFacts, CallingFact DEF Top
<1>7. returned' \in List
  BY <1>1, StackFacts DEF DataType
<1> HIDE DEF m
<1> QED
  BY <1>1, <1>4, <1>5, <1>6, <1>7, StackOnly

LEMMA HsetNewStep ==
  ASSUME IInv, NEW k \in Keys, NEW v \in Values, HsetNew(k, v)
  PROVE  IInv'
<1> DEFINE f == HsetAt("entry", k, v, Slot(k), 0)
           m == Len(stack)
<1>1. /\ Top.op = "lisp" /\ stack' = Append(stack, f) /\ Len(stack) < Nesting
      /\ returned' = returned /\ UNCHANGED TableVars /\ Slot(k)[k] = 0
  BY DEF HsetNew, Running, Room, Calling, TableVars
<1>2. Slot(k) \in Alist /\ 0 \in Objects
  BY StackFacts, TabFact, BoundsAssumption DEF DataType, Slot, Objects
<1>3. /\ f \in Activation /\ f.op = "hset" /\ f.at = "entry" /\ f.key = k
      /\ f.l = Slot(k)
  BY <1>2, HsetFact
<1>4. Found(Tab, f)
  BY <1>3 DEF Found, Sees, Sets
<1>5. Private(Tab, f)
  BY <1>3, StackFacts, TabFact DEF Private, Holding, Linking, Slot
<1>6. ASSUME NEW i \in 1 .. m
      PROVE  Keeps(Tab, stack[i], f) /\ Apart(stack[i], f) /\ Apart(f, stack[i])
  <2>1. Found(Tab, stack[i]) /\ Private(Tab, stack[i]) /\ Sets(stack[i]) \subseteq Keys
    BY StackFacts
  <2>2. k \notin Sets(stack[i])
    BY <1>1, <2>1, StackFacts, TabFact DEF Found, Slot
  <2>3. \A x \in Sets(stack[i]) : Index[x] = Index[k] => f.l[x] = Tab.ent[x]
    BY <1>3, <2>1, StackFacts, TabFact DEF Slot
  <2>4. Apart(stack[i], f)
    BY <1>3, <2>1, StackFacts, TabFact DEF Apart, Holding, Private, Slot
  <2>5. Apart(f, stack[i])
    BY <1>3 DEF Apart, Holding
  <2> QED
    BY <1>3, <2>2, <2>3, <2>4, <2>5 DEF Keeps
<1> HIDE DEF f
<1>7. /\ StackType(stack') /\ Len(stack') = m + 1 /\ stack'[m + 1] = f
      /\ \A i \in 1 .. m : stack'[i] = stack[i]
      /\ m \in Nat /\ m <= Len(stack)
  BY <1>1, <1>3, StackFacts, CallingFact DEF Top
<1>8. returned' \in List
  BY <1>1, StackFacts DEF DataType
<1> HIDE DEF m
<1> QED
  BY <1>1, <1>4, <1>5, <1>6, <1>7, <1>8, StackOnly

LEMMA AfterGcStep ==
  ASSUME IInv, AfterGc
  PROVE  IInv'
<1> DEFINE f == Lisp(Empty, {})
           m == Len(stack)
<1>1. /\ stack' = Append(stack, f) /\ Len(stack) < Nesting
      /\ returned' = returned /\ UNCHANGED TableVars
  BY DEF AfterGc, Calling, TableVars
<1>2. Empty \in List
  BY BoundsAssumption DEF Empty, List, Objects
<1>3. f \in Activation /\ f.op = "lisp" /\ f.seen = Empty /\ f.keys = {}
  BY <1>2, LispFact
<1>4. Found(Tab, f) /\ Private(Tab, f)
  BY <1>3 DEF Found, Private, Sees, Sets, Holding, Empty
<1>5. \A g : Keeps(Tab, g, f) /\ Apart(g, f) /\ Apart(f, g)
  BY <1>3 DEF Keeps, Apart, Holding
<1> HIDE DEF f
<1>6. /\ StackType(stack') /\ Len(stack') = m + 1 /\ stack'[m + 1] = f
      /\ \A i \in 1 .. m : stack'[i] = stack[i]
      /\ m \in Nat /\ m <= Len(stack)
  BY <1>1, <1>3, StackFacts, CallingFact
<1>7. returned' \in List
  BY <1>1, StackFacts DEF DataType
<1> HIDE DEF m
<1> QED
  BY <1>1, <1>4, <1>5, <1>6, <1>7, StackOnly

\* The stack is cut back and nothing else happens: AfterGcReturn and Unwind.
LEMMA CutStep ==
  ASSUME IInv, NEW d \in 1 .. Len(stack), stack' = SubSeq(stack, 1, d),
         UNCHANGED TableVars, returned' = returned
  PROVE  IInv'
<1>1. StackType(stack') /\ Len(stack') = d /\ \A i \in 1 .. d : stack'[i] = stack[i]
  BY StackFacts, CutFact
<1>2. d \in Nat /\ d <= Len(stack) /\ returned' \in List
  BY StackFacts DEF DataType
<1>3. Len(stack') # d + 1 /\ Len(stack') \in {d, d + 1}
  BY <1>1, <1>2
<1> QED
  BY <1>1, <1>2, <1>3, StackOnly

\* A step that changes tables, and leaves t on top of the first m activations.
LEMMA TableStep ==
  ASSUME IInv, DataType', UNCHANGED obarray_dim, StackType(stack'),
         NEW m \in Nat, m <= Len(stack), Len(stack') = m + 1,
         \A i \in 1 .. m : stack'[i] = stack[i], NEW t, t = stack'[m + 1],
         NEW U, U = Tab', Linking(U),
         \A i \in 1 .. m : /\ Found(U, stack[i]) /\ Private(U, stack[i])
                           /\ \A k \in Sets(stack[i]) : U.ent[k] = Tab.ent[k],
         Found(U, t), Private(U, t),
         \A i \in 1 .. m : /\ Keeps(U, stack[i], t)
                           /\ Apart(stack[i], t) /\ Apart(t, stack[i])
  PROVE  IInv'
<1> DEFINE T == Tab
           r == stack'
<1>1. TypeOK'
  BY TypeNext
<1>2. U.dim = T.dim
  BY DEF Tab
<1>3. DOMAIN stack' = 1 .. m + 1 /\ m + 1 \in 1 .. m + 1
  BY StackFact
<1>4. Good(T, stack) /\ 1 .. m \subseteq DOMAIN stack
  BY StackFacts
<1> HIDE DEF T
<1>5. Good(U, r)
  <2>1. /\ \A i \in 1 .. m : r[i] = stack[i]
        /\ DOMAIN r = 1 .. m \/ DOMAIN r = 1 .. m + 1
        /\ r[m + 1] = t
    BY <1>3
  <2>2. \A i \in 1 .. m : /\ Found(U, stack[i]) /\ Private(U, stack[i])
                           /\ \A k \in Sets(stack[i]) : U.ent[k] = T.ent[k]
    BY DEF T
  <2>3. m + 1 \in DOMAIN r =>
          /\ Found(U, r[m + 1]) /\ Private(U, r[m + 1])
          /\ \A i \in 1 .. m : /\ Keeps(U, stack[i], r[m + 1])
                               /\ Apart(stack[i], r[m + 1]) /\ Apart(r[m + 1], stack[i])
    BY <2>1
  <2> HIDE DEF r
  <2>4. Good(U, r)
    <3>1. Steps(T, U, stack, r, m)
      BY <1>2, <1>4, <2>1, <2>2, <2>3 DEF Steps
    <3> QED
      BY <1>4, <3>1, GoodStep
  <2> QED
    BY <2>4
<1> QED
  BY <1>1, <1>5 DEF IInv, r

\* The shape of the stack when the activation on top goes on as f, or returns to
\* a Lisp activation that is then f.
LEMMA GoingShape ==
  ASSUME IInv, NEW f \in Activation, f.op = Top.op,
         stack' = [stack EXCEPT ![Len(stack)] = f]
  PROVE  /\ StackType(stack') /\ Len(stack') = (Len(stack) - 1) + 1
         /\ f = stack'[(Len(stack) - 1) + 1]
         /\ \A i \in 1 .. Len(stack) - 1 : stack'[i] = stack[i]
         /\ Len(stack) - 1 \in Nat /\ Len(stack) - 1 <= Len(stack)
         /\ \A i \in 1 .. Len(stack) - 1 : /\ i \in DOMAIN stack
                                           /\ Keeps(Tab, stack[i], Top)
                                           /\ Apart(stack[i], Top)
                                           /\ Apart(Top, stack[i])
<1>1. StackType(stack) /\ Len(stack) \in Nat \ {0} /\ DOMAIN stack = 1 .. Len(stack)
  BY StackFacts
<1>0. f.op = stack[Len(stack)].op /\ StackType(stack)
  BY <1>1 DEF Top
<1>2. /\ StackType(stack') /\ Len(stack') = Len(stack) /\ stack'[Len(stack)] = f
      /\ \A i \in 1 .. Len(stack) - 1 : stack'[i] = stack[i]
  BY <1>0, GoingFact
<1>3. ASSUME NEW i \in 1 .. Len(stack) - 1
      PROVE  /\ i \in DOMAIN stack /\ Keeps(Tab, stack[i], Top)
             /\ Apart(stack[i], Top) /\ Apart(Top, stack[i])
  <2>1. i \in DOMAIN stack /\ Len(stack) \in DOMAIN stack /\ i < Len(stack)
    BY <1>1
  <2> QED
    BY <2>1, StackFacts DEF Good, Top
<1>4. /\ Len(stack) - 1 + 1 = Len(stack)
      /\ Len(stack) - 1 \in Nat /\ Len(stack) - 1 <= Len(stack)
  BY <1>1
<1>5. Len(stack') = (Len(stack) - 1) + 1 /\ f = stack'[(Len(stack) - 1) + 1]
  BY <1>2, <1>4
<1> QED
  BY <1>2, <1>3, <1>4, <1>5

LEMMA ReturningShape ==
  ASSUME IInv, Top.op # "lisp", NEW f \in Activation, f.op = "lisp", Returning(f)
  PROVE  /\ StackType(stack') /\ Len(stack') = (Len(stack) - 2) + 1
         /\ f = stack'[(Len(stack) - 2) + 1]
         /\ \A i \in 1 .. Len(stack) - 2 : stack'[i] = stack[i]
         /\ Len(stack) - 2 \in Nat /\ Len(stack) - 2 <= Len(stack)
         /\ \A i \in 1 .. Len(stack) - 1 : /\ i \in DOMAIN stack
                                           /\ Keeps(Tab, stack[i], Top)
                                           /\ Apart(stack[i], Top)
                                           /\ Apart(Top, stack[i])
         /\ Caller.op = "lisp" /\ Caller \in Activation
         /\ Len(stack) - 1 \in 1 .. Len(stack) - 1
<1>1. /\ StackType(stack) /\ Len(stack) \in Nat \ {0} /\ DOMAIN stack = 1 .. Len(stack)
      /\ \A i \in 1 .. Len(stack) : stack[i] \in Activation
  BY StackFacts
<1>2. Len(stack) > 1 /\ Caller.op = "lisp"
  BY <1>1, StackFact DEF Top, Caller
<1>3. /\ StackType(stack') /\ Len(stack') = Len(stack) - 1 /\ stack'[Len(stack) - 1] = f
      /\ \A i \in 1 .. Len(stack) - 2 : stack'[i] = stack[i]
  BY <1>1, ReturningFact DEF Top, Returning
<1>4. ASSUME NEW i \in 1 .. Len(stack) - 1
      PROVE  /\ i \in DOMAIN stack /\ Keeps(Tab, stack[i], Top)
             /\ Apart(stack[i], Top) /\ Apart(Top, stack[i])
  <2>1. i \in DOMAIN stack /\ Len(stack) \in DOMAIN stack /\ i < Len(stack)
    BY <1>1
  <2> QED
    BY <2>1, StackFacts DEF Good, Top
<1>5. Len(stack) - 1 \in 1 .. Len(stack)
  BY <1>1, <1>2
<1> QED
  BY <1>1, <1>2, <1>3, <1>4, <1>5 DEF Caller

\* The fields of Tab after a step.
LEMMA TabNext ==
  ASSUME DataType'
  PROVE  /\ Tab'.dim = obarray_dim' /\ Tab'.data = data' /\ Tab'.car = car'
         /\ Tab'.cdr = cdr' /\ Tab'.last = last' /\ Tab'.made = made' /\ made' \in Nat
         /\ \A k \in Keys : Tab'.ent[k] = data'[Index[k]][k]
  BY BoundsAssumption DEF Tab, Slot, DataType

\* The tables that a step leaves alone.
LEMMA TabKept ==
  /\ UNCHANGED <<obarray_dim, obarray, oblistvar>> => Tab'.sym = Tab.sym
  /\ UNCHANGED data => Tab'.ent = Tab.ent
  BY DEF Tab, Slot, Bucket, Hash, Hashed

LEMMA SeesSame ==
  ASSUME NEW T, NEW U, U.dim = T.dim
  PROVE  \A f, n : Sees(U, f, n) = Sees(T, f, n)
  BY DEF Sees

LEMMA SymconsStep ==
  ASSUME IInv, Symcons
  PROVE  IInv'
<1> DEFINE at == IF Hashed THEN "bucket" ELSE "oblist"
           f == InternAt(at, Top.name, Top.sl, made + 1, oblistvar)
           m == Len(stack) - 1
           T == Tab
           U == Tab'
<1>1. /\ Top.op = "intern" /\ Top.at = "symcons" /\ made < MaxNew /\ made' = made + 1
      /\ stack' = [stack EXCEPT ![Len(stack)] = f]
      /\ UNCHANGED <<obarray_dim, obarray, oblistvar, data, car, cdr, last, returned>>
  BY DEF Symcons, Going
<1>2. /\ Top.name \in Names /\ Top.sl \in List /\ oblistvar \in List /\ made \in Nat
      /\ at \in {"bucket", "oblist"} /\ made + 1 \in Objects
  BY <1>1, StackFacts, ActivationFact, BoundsAssumption DEF DataType, Objects
<1>3. DataType'
  BY <1>1, <1>2, StackFacts, BoundsAssumption DEF DataType, Objects
<1>4. /\ f \in Activation /\ f.op = "intern" /\ f.at = at /\ f.name = Top.name
      /\ f.sl = Top.sl /\ f.ol = oblistvar
  BY <1>2, InternFact
<1>5. /\ U.dim = T.dim /\ U.sym = T.sym /\ U.ent = T.ent /\ U.data = T.data
      /\ U.last = T.last /\ T.made \in Nat /\ U.made \in Nat /\ U.made >= T.made
      /\ U.car = T.car /\ U.cdr = T.cdr
  BY <1>1, <1>2, TabKept DEF Tab
<1>6. (f.at = "bucket" <=> T.dim > 1) /\ f.at \in {"bucket", "oblist"}
  BY <1>4 DEF Hashed, Tab
<1>7. \A n \in Names : ~ T.dim > 1 => f.ol[n] = T.sym[n]
  BY <1>4 DEF Hashed, Tab, Bucket
<1> HIDE DEF f
<1>8. /\ StackType(stack') /\ Len(stack') = m + 1 /\ f = stack'[m + 1]
      /\ \A i \in 1 .. m : stack'[i] = stack[i]
      /\ m \in Nat /\ m <= Len(stack)
      /\ \A i \in 1 .. m : i \in DOMAIN stack /\ Keeps(T, stack[i], Top)
  BY <1>1, <1>4, GoingShape
<1> HIDE DEF m
<1>9. Good(T, stack) /\ Linking(T)
  BY StackFacts
<1>10. \A k \in Keys : \E i \in Slots : T.ent[k] = T.data[i][k]
  BY StackFacts, TabFact
<1>11. \A i \in DOMAIN stack : Sets(stack[i]) \subseteq Keys /\ Found(T, stack[i])
  BY StackFacts
<1> HIDE DEF T, U
<1>12. \A i \in 1 .. m : /\ Found(U, stack[i]) /\ Private(U, stack[i])
                         /\ \A k \in Sets(stack[i]) : U.ent[k] = T.ent[k]
  BY <1>5, <1>8, <1>9, <1>10, <1>11, SameTables
<1>13. Linking(U)
  BY <1>5, <1>9 DEF Linking, Made
<1>14. Found(U, f) /\ Private(U, f)
  BY <1>4, <1>5, <1>6 DEF Found, Private, Sees, Sets, Holding
<1>15. ASSUME NEW i \in 1 .. m
       PROVE  Keeps(U, stack[i], f) /\ Apart(stack[i], f) /\ Apart(f, stack[i])
  <2>1. Keeps(T, stack[i], Top) /\ Found(T, stack[i])
    BY <1>8, <1>11
  <2>2. \A n : Sees(U, stack[i], n) = Sees(T, stack[i], n)
    BY <1>5, SeesSame
  <2>3. Keeps(U, stack[i], f)
    BY <1>1, <1>4, <1>5, <1>7, <2>1, <2>2 DEF Keeps, Found, SameBucket
  <2> QED
    BY <1>4, <2>3 DEF Apart, Holding
<1> QED
  BY <1>1, <1>3, <1>8, <1>12, <1>13, <1>14, <1>15, TableStep DEF T, U

LEMMA EntryConsStep ==
  ASSUME IInv, EntryCons
  PROVE  IInv'
<1> DEFINE f == HsetAt("slot", Top.key, Top.value, Top.l, made + 1)
           m == Len(stack) - 1
           T == Tab
           U == Tab'
<1>1. /\ Top.op = "hset" /\ Top.at = "entry" /\ made < MaxNew /\ made' = made + 1
      /\ stack' = [stack EXCEPT ![Len(stack)] = f]
      /\ car' = [car EXCEPT ![made + 1] = Top.key]
      /\ cdr' = [cdr EXCEPT ![made + 1] = Top.value]
      /\ UNCHANGED <<obarray_dim, obarray, oblistvar, data, last, returned>>
  BY DEF EntryCons, Going
<1>2. /\ Top.key \in Keys /\ Top.value \in Values /\ Top.l \in Alist /\ made \in Nat
      /\ made + 1 \in Objects /\ made + 1 \in 1 .. MaxNew
  BY <1>1, StackFacts, ActivationFact, BoundsAssumption DEF DataType, Objects
<1>3. DataType'
  BY <1>1, <1>2, StackFacts, BoundsAssumption DEF DataType, Objects
<1>4. /\ f \in Activation /\ f.op = "hset" /\ f.at = "slot" /\ f.key = Top.key
      /\ f.value = Top.value /\ f.l = Top.l /\ f.cell = made + 1
  BY <1>2, HsetFact
<1>5. /\ U.dim = T.dim /\ U.sym = T.sym /\ U.ent = T.ent /\ U.data = T.data
      /\ U.last = T.last /\ T.made \in Nat /\ U.made = T.made + 1 /\ f.cell = U.made
  BY <1>1, <1>2, <1>4, TabKept DEF Tab
<1>6. /\ \A c \in 1 .. T.made : U.car[c] = T.car[c] /\ U.cdr[c] = T.cdr[c]
      /\ U.car[f.cell] = f.key /\ U.cdr[f.cell] = f.value
  BY <1>1, <1>2, <1>4, StackFacts DEF Tab, DataType
<1> HIDE DEF f
<1>8. /\ StackType(stack') /\ Len(stack') = m + 1 /\ f = stack'[m + 1]
      /\ \A i \in 1 .. m : stack'[i] = stack[i]
      /\ m \in Nat /\ m <= Len(stack)
      /\ \A i \in 1 .. m : /\ i \in DOMAIN stack /\ Keeps(T, stack[i], Top)
                           /\ Apart(stack[i], Top)
  BY <1>1, <1>4, GoingShape
<1> HIDE DEF m
<1>9. Good(T, stack) /\ Linking(T) /\ Private(T, Top)
  BY StackFacts DEF Top
<1>10. \A k \in Keys : \E i \in Slots : T.ent[k] = T.data[i][k]
  BY StackFacts, TabFact
<1>11. \A i \in DOMAIN stack : Sets(stack[i]) \subseteq Keys /\ Private(T, stack[i])
  BY StackFacts
<1>12. \A i \in DOMAIN stack : stack[i].op = "hset" => stack[i].key \in Keys
  BY StackFacts, ActivationFact
<1> HIDE DEF T, U
<1>13. \A i \in 1 .. m : /\ Found(U, stack[i]) /\ Private(U, stack[i])
                         /\ \A k \in Sets(stack[i]) : U.ent[k] = T.ent[k]
  <2>1. U.made \in Nat /\ U.made >= T.made
    BY <1>5
  <2> QED
    BY <1>5, <1>6, <1>8, <1>9, <1>10, <1>11, <2>1, SameTables
<1>14. \A k, c : Made(T, k, c) => Made(U, k, c) /\ c # f.cell
  BY <1>5, <1>6 DEF Made
<1>15. Linking(U)
  BY <1>5, <1>9, <1>14 DEF Linking
<1>16. Found(U, f)
  BY <1>4 DEF Found, Sees, Sets
<1>17. Private(U, f)
  <2>1. \A k \in Keys : Made(U, k, f.l[k]) /\ f.l[k] # f.cell
    BY <1>1, <1>4, <1>9, <1>14 DEF Private
  <2>2. f.cell # 0 /\ Made(U, f.key, f.cell)
    BY <1>5, <1>6 DEF Made
  <2>3. \A i \in Slots, k \in Keys : U.data[i][k] # f.cell
    BY <1>5, <1>9, <1>14 DEF Linking
  <2> QED
    BY <1>4, <1>6, <2>1, <2>2, <2>3 DEF Private
<1>18. ASSUME NEW i \in 1 .. m
       PROVE  Keeps(U, stack[i], f) /\ Apart(stack[i], f) /\ Apart(f, stack[i])
  <2>1. Keeps(T, stack[i], Top) /\ Private(T, stack[i]) /\ Apart(stack[i], Top)
    BY <1>8, <1>11
  <2>2. Keeps(U, stack[i], f)
    BY <1>1, <1>4, <1>5, <2>1 DEF Keeps
  <2>3. Holding(stack[i]) => stack[i].cell # f.cell
    BY <1>14, <2>1 DEF Private
  <2>4. stack[i].op = "hset" => \A k \in Keys : stack[i].l[k] # f.cell
    BY <1>14, <2>1 DEF Private
  <2>5. Holding(stack[i]) => \A k \in Keys : f.l[k] # stack[i].cell
    BY <1>1, <1>4, <2>1 DEF Apart
  <2> QED
    BY <2>2, <2>3, <2>4, <2>5 DEF Apart
<1> QED
  BY <1>1, <1>3, <1>8, <1>13, <1>15, <1>16, <1>17, <1>18, TableStep DEF T, U

LEMMA BucketConsStep ==
  ASSUME IInv, BucketCons
  PROVE  IInv'
<1> DEFINE f == InternAt("oblist", Top.name, Top.sl, Top.sym, oblistvar)
           sl == [Top.sl EXCEPT ![Top.name] = Top.sym]
           m == Len(stack) - 1
           T == Tab
           U == Tab'
<1>1. /\ Top.op = "intern" /\ Top.at = "bucket"
      /\ stack' = [stack EXCEPT ![Len(stack)] = f]
      /\ obarray' = [obarray EXCEPT ![Hash(Top.name)] = sl]
      /\ UNCHANGED <<obarray_dim, oblistvar, data, car, cdr, made, last, returned>>
  BY DEF BucketCons, Going
<1>2. /\ Top.name \in Names /\ Top.sl \in List /\ oblistvar \in List
      /\ Top.sym \in Objects
  BY <1>1, StackFacts, ActivationFact DEF DataType
<1>3. sl \in List /\ \A n \in Names : sl[n] = IF n = Top.name THEN Top.sym ELSE Top.sl[n]
  BY <1>2 DEF List
<1>4. /\ f \in Activation /\ f.op = "intern" /\ f.at = "oblist" /\ f.name = Top.name
      /\ f.sl = Top.sl /\ f.sym = Top.sym
  BY <1>2, InternFact
<1>5. Private(T, Top) /\ Good(T, stack) /\ Linking(T)
  BY StackFacts DEF Top
<1>6. T.dim > 1 /\ T.dim = obarray_dim
  BY <1>1, <1>5, TabFact, StackFacts DEF Private
<1> HIDE DEF sl, f
<1>7. DataType'
  BY <1>1, <1>3, StackFacts DEF DataType
<1>8. /\ U.dim = T.dim /\ U.ent = T.ent /\ U.data = T.data /\ U.last = T.last
      /\ U.car = T.car /\ U.cdr = T.cdr /\ U.made = T.made
  BY <1>1, TabKept DEF Tab
<1>9. \A n \in Names : U.sym[n] = IF SameBucket(T, n, Top.name) THEN sl[n] ELSE T.sym[n]
  <2>1. obarray \in [0 .. obarray_dim - 1 -> List]
    BY StackFacts DEF DataType
  <2>2. \A n \in Names : Hash(n) \in 0 .. obarray_dim - 1 /\ Hash(n)' = Hash(n)
    BY <1>1, StackFacts, BucketFact DEF Hash
  <2>3. \A n \in Names : obarray'[Hash(n)] = IF Hash(n) = Hash(Top.name) THEN sl
                                                                     ELSE obarray[Hash(n)]
    BY <1>1, <1>2, <2>1, <2>2
  <2>4. \A n \in Names : U.sym[n] = obarray'[Hash(n)][n] /\ T.sym[n] = obarray[Hash(n)][n]
    BY <1>1, <1>6, <2>2 DEF Tab, Bucket, Hashed
  <2>5. \A n \in Names : SameBucket(T, n, Top.name) <=> Hash(n) = Hash(Top.name)
    BY <1>6 DEF SameBucket, Hash
  <2> QED
    BY <2>3, <2>4, <2>5
<1>10. /\ StackType(stack') /\ Len(stack') = m + 1 /\ f = stack'[m + 1]
       /\ \A i \in 1 .. m : stack'[i] = stack[i]
       /\ m \in Nat /\ m <= Len(stack)
       /\ \A i \in 1 .. m : i \in DOMAIN stack /\ Keeps(T, stack[i], Top)
  BY <1>1, <1>4, GoingShape
<1> HIDE DEF m
<1>11. \A i \in DOMAIN stack : Private(T, stack[i]) /\ Found(T, stack[i])
  BY StackFacts
<1> HIDE DEF T, U
<1>12. \A n : \A i \in 1 .. m : Sees(U, stack[i], n) = Sees(T, stack[i], n)
  BY <1>8, SeesSame
<1>13. ASSUME NEW i \in 1 .. m
       PROVE  /\ Found(U, stack[i]) /\ Private(U, stack[i])
              /\ \A k \in Sets(stack[i]) : U.ent[k] = T.ent[k]
              /\ Keeps(U, stack[i], f) /\ Apart(stack[i], f) /\ Apart(f, stack[i])
  <2>1. Keeps(T, stack[i], Top) /\ Private(T, stack[i]) /\ Found(T, stack[i])
    BY <1>10, <1>11
  <2>2. ASSUME NEW n \in Names, Sees(T, stack[i], n) # 0
        PROVE  U.sym[n] = Sees(T, stack[i], n)
    <3>1. n # Top.name /\ T.sym[n] = Sees(T, stack[i], n)
      BY <1>1, <2>1, <2>2 DEF Keeps, Found
    <3>2. SameBucket(T, n, Top.name) => Top.sl[n] = Sees(T, stack[i], n)
      BY <1>1, <1>6, <2>1, <2>2 DEF Keeps
    <3> QED
      BY <1>3, <1>9, <3>1, <3>2
  <2>3. Found(U, stack[i])
    BY <1>8, <1>12, <2>1, <2>2 DEF Found
  <2>4. Private(U, stack[i])
    BY <1>8, <2>1 DEF Private, Made
  <2>5. Keeps(U, stack[i], f)
    BY <1>1, <1>4, <1>6, <1>8, <1>12, <2>1 DEF Keeps, SameBucket
  <2> QED
    BY <1>4, <1>8, <2>3, <2>4, <2>5 DEF Apart, Holding
<1>14. Linking(U)
  BY <1>5, <1>8 DEF Linking, Made
<1>15. Found(U, f)
  <2>1. \A n \in Names : Sees(U, f, n) = IF n = Top.name THEN Top.sym ELSE 0
    BY <1>4, <1>6, <1>8 DEF Sees
  <2>2. U.sym[Top.name] = Top.sym
    BY <1>2, <1>3, <1>9 DEF SameBucket
  <2>3. Sets(f) = {}
    BY <1>4 DEF Sets
  <2> QED
    BY <2>1, <2>2, <2>3 DEF Found
<1>16. Private(U, f)
  BY <1>4 DEF Private, Holding
<1> QED
  BY <1>1, <1>7, <1>10, <1>13, <1>14, <1>15, <1>16, TableStep DEF T, U

LEMMA OblistConsStep ==
  ASSUME IInv, OblistCons
  PROVE  IInv'
<1> DEFINE seen == [Caller.seen EXCEPT ![Top.name] = Top.sym]
           f == Lisp(seen, Caller.keys)
           m == Len(stack) - 2
           T == Tab
           U == Tab'
<1>1. /\ Top.op = "intern" /\ Top.at = "oblist" /\ Returning(f)
      /\ oblistvar' = [Top.ol EXCEPT ![Top.name] = Top.sym]
      /\ returned' = [returned EXCEPT ![Top.name] = Top.sym]
      /\ UNCHANGED <<obarray_dim, obarray, data, car, cdr, made, last>>
  BY DEF OblistCons, Seeing
<1>2. /\ Top.name \in Names /\ Top.ol \in List /\ Top.sym \in Objects
  BY <1>1, StackFacts, ActivationFact
<1>3. Caller.op = "lisp" /\ Caller \in Activation
  <2>1. Len(stack) - 1 \in 1 .. Len(stack) /\ stack[Len(stack) - 1].op = "lisp"
    BY <1>1, StackFacts, StackFact DEF Top
  <2> QED
    BY <2>1, StackFacts DEF Caller
<1>4. Caller.seen \in List /\ Caller.keys \in SUBSET Keys
  BY <1>3, ActivationFact
<1>5. /\ seen \in List /\ returned' \in List /\ oblistvar' \in List
      /\ \A n \in Names : seen[n] = IF n = Top.name THEN Top.sym ELSE Caller.seen[n]
  BY <1>1, <1>2, <1>4, StackFacts DEF List, DataType
<1>6. f \in Activation /\ f.op = "lisp" /\ f.seen = seen /\ f.keys = Caller.keys
  BY <1>4, <1>5, LispFact
<1>7. DataType'
  BY <1>1, <1>5, StackFacts DEF DataType
<1>8. /\ U.dim = T.dim /\ U.ent = T.ent /\ U.data = T.data /\ U.last = T.last
      /\ U.car = T.car /\ U.cdr = T.cdr /\ U.made = T.made
  BY <1>1, TabKept DEF Tab
<1>9. \A n \in Names : /\ T.dim > 1 => U.sym[n] = T.sym[n]
                       /\ ~ T.dim > 1 => U.sym[n] = IF n = Top.name THEN Top.sym
                                                                  ELSE Top.ol[n]
  <2>1. \A n \in Names : U.sym[n] = IF T.dim > 1 THEN obarray[Hash(n)][n] ELSE oblistvar'[n]
    BY <1>1 DEF Tab, Bucket, Hash, Hashed
  <2>2. \A n \in Names : T.dim > 1 => T.sym[n] = obarray[Hash(n)][n]
    BY DEF Tab, Bucket, Hashed
  <2>3. \A n \in Names : oblistvar'[n] = IF n = Top.name THEN Top.sym ELSE Top.ol[n]
    BY <1>1, <1>2 DEF List
  <2> QED
    BY <2>1, <2>2, <2>3
<1> HIDE DEF f, seen
<1>10. /\ StackType(stack') /\ Len(stack') = m + 1 /\ f = stack'[m + 1]
       /\ \A i \in 1 .. m : stack'[i] = stack[i]
       /\ m \in Nat /\ m <= Len(stack)
       /\ \A i \in 1 .. Len(stack) - 1 : i \in DOMAIN stack /\ Keeps(T, stack[i], Top)
       /\ Len(stack) - 1 \in 1 .. Len(stack) - 1
  BY <1>1, <1>6, ReturningShape
<1>11. /\ \A i \in 1 .. m : i \in 1 .. Len(stack) - 1
       /\ \A i \in DOMAIN stack : Private(T, stack[i]) /\ Found(T, stack[i])
       /\ Found(T, Top) /\ Linking(T)
  BY <1>10, StackFacts DEF Top
<1> HIDE DEF m
<1>12. Keeps(T, Caller, Top) /\ Found(T, Caller)
  BY <1>10, <1>11 DEF Caller
<1> HIDE DEF T, U
<1>13. \A g, n : Sees(U, g, n) = Sees(T, g, n)
  BY <1>8, SeesSame
\* What an activation below counts on is found in the list it was consed on.
<1>14. ASSUME NEW g, Keeps(T, g, Top), Found(T, g), NEW n \in Names, Sees(T, g, n) # 0
       PROVE  n # Top.name /\ U.sym[n] = Sees(T, g, n)
  <2>1. n # Top.name /\ T.sym[n] = Sees(T, g, n)
    BY <1>1, <1>14 DEF Keeps, Found
  <2>2. ~ T.dim > 1 => Top.ol[n] = Sees(T, g, n)
    BY <1>1, <1>14 DEF Keeps
  <2> QED
    BY <1>9, <2>1, <2>2
<1>15. ASSUME NEW i \in 1 .. m
       PROVE  /\ Found(U, stack[i]) /\ Private(U, stack[i])
              /\ \A k \in Sets(stack[i]) : U.ent[k] = T.ent[k]
  <2>1. Keeps(T, stack[i], Top) /\ Private(T, stack[i]) /\ Found(T, stack[i])
    BY <1>10, <1>11
  <2>2. Found(U, stack[i])
    BY <1>8, <1>13, <1>14, <2>1 DEF Found
  <2>3. Private(U, stack[i])
    BY <1>8, <2>1 DEF Private, Made
  <2> QED
    BY <1>8, <2>2, <2>3
<1>16. Linking(U)
  BY <1>8, <1>11 DEF Linking, Made
<1>17. Found(U, f)
  <2>1. Top.sym # 0 => U.sym[Top.name] = Top.sym
    <3>1. T.dim > 1 => Sees(T, Top, Top.name) = Top.sym
      BY <1>1 DEF Sees
    <3> QED
      BY <1>2, <1>9, <1>11, <3>1 DEF Found
  <2>2. \A n \in Names : Sees(U, f, n) = IF n = Top.name THEN Top.sym ELSE Sees(T, Caller, n)
    BY <1>3, <1>5, <1>6 DEF Sees
  <2>3. Sets(f) = Sets(Caller)
    BY <1>3, <1>6 DEF Sets
  <2>4. \A n \in Names : Sees(U, f, n) # 0 => U.sym[n] = Sees(U, f, n)
    BY <1>12, <1>14, <2>1, <2>2
  <2> QED
    BY <1>8, <1>12, <2>3, <2>4 DEF Found
<1>18. Private(U, f) /\ \A g : Keeps(U, g, f) /\ Apart(g, f) /\ Apart(f, g)
  BY <1>6 DEF Private, Keeps, Apart, Holding
<1> QED
  BY <1>1, <1>7, <1>10, <1>15, <1>16, <1>17, <1>18, TableStep DEF T, U

LEMMA HsetFoundStep ==
  ASSUME IInv, NEW k \in Keys, NEW v \in Values, HsetFound(k, v)
  PROVE  IInv'
<1> DEFINE c == Slot(k)[k]
           f == Lisp(Top.seen, Top.keys \union {k})
           m == Len(stack) - 1
           T == Tab
           U == Tab'
<1>1. /\ Top.op = "lisp" /\ c # 0
      /\ stack' = [stack EXCEPT ![Len(stack)] = f]
      /\ cdr' = [cdr EXCEPT ![c] = v] /\ last' = [last EXCEPT ![k] = v]
      /\ UNCHANGED <<obarray_dim, obarray, oblistvar, data, car, made, returned>>
  BY DEF HsetFound, Running, Going, Setting
<1>2. Top.seen \in List /\ Top.keys \in SUBSET Keys
  BY <1>1, StackFacts, ActivationFact
<1>3. /\ f \in Activation /\ f.op = "lisp" /\ f.seen = Top.seen
      /\ f.keys = Top.keys \union {k}
  BY <1>2, LispFact
<1>4. DataType'
  <2>1. cdr' \in [1 .. MaxNew -> Values \union {NIL}]
    BY <1>1, StackFacts DEF DataType
  <2>2. last' \in [Keys -> Values \union {NIL}]
    BY <1>1, StackFacts DEF DataType
  <2> QED
    BY <1>1, <2>1, <2>2, StackFacts DEF DataType
<1>5. /\ U.dim = T.dim /\ U.sym = T.sym /\ U.ent = T.ent /\ U.data = T.data
      /\ U.car = T.car /\ U.made = T.made
  BY <1>1, TabKept DEF Tab
<1>6. \A j \in Keys : U.last[j] = IF j = k THEN v ELSE T.last[j]
  BY <1>1, StackFacts DEF Tab, DataType
<1>7. c = T.ent[k] /\ Linking(T) /\ Found(T, Top)
  BY StackFacts, TabFact DEF Slot, Top
<1>8. \A j \in Keys : \E i \in Slots : T.ent[j] = T.data[i][j]
  BY StackFacts, TabFact
<1>9. made \in 0 .. MaxNew /\ T.made = made /\ c \in 1 .. made
  BY <1>1, <1>7, <1>8, StackFacts, TabFact DEF DataType, Linking, Made
<1>10. U.cdr[c] = v /\ \A d : d \in 1 .. T.made /\ d # c => U.cdr[d] = T.cdr[d]
  BY <1>1, <1>9, StackFacts, BoundsAssumption DEF Tab, DataType
<1> HIDE DEF f, c
<1>11. /\ StackType(stack') /\ Len(stack') = m + 1 /\ f = stack'[m + 1]
       /\ \A i \in 1 .. m : stack'[i] = stack[i]
       /\ m \in Nat /\ m <= Len(stack)
       /\ \A i \in 1 .. m : i \in DOMAIN stack
  BY <1>1, <1>3, GoingShape
<1> HIDE DEF m
<1>12. /\ \A i \in DOMAIN stack : /\ Private(T, stack[i]) /\ Found(T, stack[i])
                                  /\ Sets(stack[i]) \subseteq Keys
       /\ Sets(Top) \subseteq Keys
  BY StackFacts DEF Top
<1>13. \A i \in DOMAIN stack : Holding(stack[i]) => stack[i].key \in Keys
  BY StackFacts, ActivationFact DEF Holding
<1> HIDE DEF T, U
<1>14. \A g, n : Sees(U, g, n) = Sees(T, g, n)
  BY <1>5, SeesSame
\* The entry of another key is another entry.
<1>15. \A j \in Keys : j # k /\ T.ent[j] # 0 => U.cdr[T.ent[j]] = T.cdr[T.ent[j]]
  <2>1. \A j \in Keys : Made(T, j, T.ent[j])
    BY <1>7, <1>8 DEF Linking
  <2> QED
    BY <1>1, <1>7, <1>10, <2>1 DEF Made
<1>16. ASSUME NEW g, Found(T, g), Sets(g) \subseteq Keys
       PROVE  Found(U, g)
  <2>1. ASSUME NEW j \in Sets(g)
        PROVE  U.ent[j] # 0 /\ U.cdr[U.ent[j]] = U.last[j]
    <3>1. j \in Keys /\ T.ent[j] # 0 /\ T.cdr[T.ent[j]] = T.last[j]
      BY <1>16, <2>1 DEF Found
    <3> QED
      BY <1>5, <1>6, <1>7, <1>10, <1>15, <3>1
  <2> QED
    BY <1>5, <1>14, <1>16, <2>1 DEF Found
<1>17. ASSUME NEW i \in 1 .. m
       PROVE  /\ Found(U, stack[i]) /\ Private(U, stack[i])
              /\ \A j \in Sets(stack[i]) : U.ent[j] = T.ent[j]
  <2>1. Private(T, stack[i]) /\ Found(T, stack[i]) /\ Sets(stack[i]) \subseteq Keys
    BY <1>11, <1>12
  <2>2. Holding(stack[i]) => U.cdr[stack[i].cell] = T.cdr[stack[i].cell]
    <3>1. SUFFICES ASSUME Holding(stack[i])
                   PROVE  U.cdr[stack[i].cell] = T.cdr[stack[i].cell]
      OBVIOUS
    <3>2. stack[i].cell \in 1 .. T.made
      BY <2>1, <3>1 DEF Private, Made
    <3>3. stack[i].cell # c
      BY <1>7, <1>8, <2>1, <3>1 DEF Private
    <3> QED
      BY <1>10, <3>2, <3>3
  <2>3. Private(U, stack[i])
    BY <1>5, <2>1, <2>2 DEF Private, Made
  <2> QED
    BY <1>5, <1>16, <2>1, <2>3
<1>18. Linking(U)
  BY <1>5, <1>7 DEF Linking, Made
<1>19. Found(U, f)
  <2>1. Found(U, Top)
    BY <1>7, <1>12, <1>16
  <2>2. \A n : Sees(U, f, n) = Sees(U, Top, n)
    BY <1>1, <1>3 DEF Sees
  <2>3. Sets(f) = Sets(Top) \union {k}
    BY <1>1, <1>3 DEF Sets
  <2>4. U.ent[k] # 0 /\ U.cdr[U.ent[k]] = U.last[k]
    BY <1>1, <1>5, <1>6, <1>7, <1>10
  <2> QED
    BY <2>1, <2>2, <2>3, <2>4 DEF Found
<1>20. Private(U, f) /\ \A g : Keeps(U, g, f) /\ Apart(g, f) /\ Apart(f, g)
  BY <1>3 DEF Private, Keeps, Apart, Holding
<1> QED
  BY <1>1, <1>4, <1>11, <1>17, <1>18, <1>19, <1>20, TableStep DEF T, U

LEMMA SlotConsStep ==
  ASSUME IInv, SlotCons
  PROVE  IInv'
<1> DEFINE k == Top.key
           l == [Top.l EXCEPT ![k] = Top.cell]
           f == Lisp(Caller.seen, Caller.keys \union {k})
           m == Len(stack) - 2
           T == Tab
           U == Tab'
<1>1. /\ Top.op = "hset" /\ Top.at = "slot" /\ Returning(f)
      /\ data' = [data EXCEPT ![Index[k]] = l] /\ last' = [last EXCEPT ![k] = Top.value]
      /\ UNCHANGED <<obarray_dim, obarray, oblistvar, car, cdr, made, returned>>
  BY DEF SlotCons, Setting, Linked
<1>2. /\ k \in Keys /\ Index[k] \in Slots /\ Top.value \in Values /\ Top.l \in Alist
      /\ Top.cell \in Objects
  BY <1>1, StackFacts, ActivationFact, TabFact
<1>3. l \in Alist /\ \A j \in Keys : l[j] = IF j = k THEN Top.cell ELSE Top.l[j]
  BY <1>2 DEF Alist
<1>4. Caller.op = "lisp" /\ Caller \in Activation
  <2>1. Len(stack) - 1 \in 1 .. Len(stack) /\ stack[Len(stack) - 1].op = "lisp"
    BY <1>1, StackFacts, StackFact DEF Top
  <2> QED
    BY <2>1, StackFacts DEF Caller
<1>5. Caller.seen \in List /\ Caller.keys \in SUBSET Keys
  BY <1>4, ActivationFact
<1>6. /\ f \in Activation /\ f.op = "lisp" /\ f.seen = Caller.seen
      /\ f.keys = Caller.keys \union {k}
  BY <1>2, <1>5, LispFact
<1> HIDE DEF l
<1>7. DataType'
  <2>1. data' \in [Slots -> Alist]
    BY <1>1, <1>2, <1>3, StackFacts DEF DataType
  <2>2. last' \in [Keys -> Values \union {NIL}]
    BY <1>1, <1>2, StackFacts DEF DataType
  <2> QED
    BY <1>1, <2>1, <2>2, StackFacts DEF DataType
<1>8. /\ U.dim = T.dim /\ U.sym = T.sym /\ U.car = T.car /\ U.cdr = T.cdr
      /\ U.made = T.made
  BY <1>1, TabKept DEF Tab
<1>9. \A j \in Keys : U.last[j] = IF j = k THEN Top.value ELSE T.last[j]
  BY <1>1, <1>2, StackFacts DEF Tab, DataType
<1>10. \A i \in Slots : U.data[i] = IF i = Index[k] THEN l ELSE T.data[i]
  BY <1>1, <1>2, StackFacts DEF Tab, DataType
<1>11. \A j \in Keys : /\ Index[j] \in Slots /\ U.ent[j] = U.data[Index[j]][j]
                       /\ T.ent[j] = T.data[Index[j]][j]
  BY <1>7, StackFacts, TabFact, TabNext
<1> HIDE DEF f, k
<1>12. /\ StackType(stack') /\ Len(stack') = m + 1 /\ f = stack'[m + 1]
       /\ \A i \in 1 .. m : stack'[i] = stack[i]
       /\ m \in Nat /\ m <= Len(stack)
       /\ \A i \in 1 .. Len(stack) - 1 : /\ i \in DOMAIN stack /\ Keeps(T, stack[i], Top)
                                         /\ Apart(stack[i], Top) /\ Apart(Top, stack[i])
       /\ Len(stack) - 1 \in 1 .. Len(stack) - 1
  BY <1>1, <1>6, ReturningShape
<1>13. /\ \A i \in 1 .. m : i \in 1 .. Len(stack) - 1
       /\ \A i \in DOMAIN stack : /\ Private(T, stack[i]) /\ Found(T, stack[i])
                                  /\ Sets(stack[i]) \subseteq Keys
       /\ Private(T, Top) /\ Linking(T)
  BY <1>12, StackFacts DEF Top
<1> HIDE DEF m
<1>14. Keeps(T, Caller, Top) /\ Found(T, Caller) /\ Sets(Caller) \subseteq Keys
  BY <1>12, <1>13 DEF Caller
<1> HIDE DEF T, U
<1>15. Holding(Top)
  BY <1>1 DEF Holding
<1>16. \A g, n : Sees(U, g, n) = Sees(T, g, n)
  BY <1>8, SeesSame
\* The keys that were set are found in the list the new entry was consed on.
<1>17. ASSUME NEW g, Keeps(T, g, Top), Sets(g) \subseteq Keys
       PROVE  \A j \in Sets(g) : j # k /\ U.ent[j] = T.ent[j]
  <2>1. \A j \in Sets(g) : j # k /\ (Index[j] = Index[k] => Top.l[j] = T.ent[j])
    BY <1>1, <1>17 DEF Keeps, k
  <2> QED
    BY <1>3, <1>10, <1>11, <1>17, <2>1
<1>18. ASSUME NEW g, Keeps(T, g, Top), Sets(g) \subseteq Keys, Found(T, g)
       PROVE  Found(U, g)
  <2>1. \A j \in Sets(g) : j # k /\ U.ent[j] = T.ent[j]
    BY <1>17, <1>18
  <2>2. \A j \in Sets(g) : U.ent[j] # 0 /\ U.cdr[U.ent[j]] = U.last[j]
    BY <1>8, <1>9, <1>18, <2>1 DEF Found
  <2> QED
    BY <1>8, <1>16, <1>18, <2>2 DEF Found
<1>19. ASSUME NEW i \in 1 .. m
       PROVE  /\ Found(U, stack[i]) /\ Private(U, stack[i])
              /\ \A j \in Sets(stack[i]) : U.ent[j] = T.ent[j]
  <2>1. /\ Keeps(T, stack[i], Top) /\ Sets(stack[i]) \subseteq Keys
        /\ Found(T, stack[i]) /\ Private(T, stack[i])
        /\ Apart(stack[i], Top) /\ Apart(Top, stack[i])
    BY <1>12, <1>13
  <2>2. Found(U, stack[i]) /\ \A j \in Sets(stack[i]) : U.ent[j] = T.ent[j]
    BY <1>17, <1>18, <2>1
  <2>3. Holding(stack[i]) => \A x \in Slots, j \in Keys : U.data[x][j] # stack[i].cell
    <3>1. Holding(stack[i]) => /\ Top.cell # stack[i].cell
                               /\ \A j \in Keys : Top.l[j] # stack[i].cell
      BY <1>1, <1>15, <2>1 DEF Apart
    <3>2. Holding(stack[i]) => \A x \in Slots, j \in Keys : T.data[x][j] # stack[i].cell
      BY <2>1 DEF Private
    <3> QED
      BY <1>3, <1>10, <3>1, <3>2
  <2>4. Private(U, stack[i])
    BY <1>8, <2>1, <2>3 DEF Private, Made
  <2> QED
    BY <2>2, <2>4
<1>20. Linking(U)
  <2>1. \A j \in Keys : Made(T, j, Top.l[j])
    BY <1>1, <1>13 DEF Private
  <2>2. Made(T, k, Top.cell)
    BY <1>13, <1>15 DEF Private, k
  <2>3. \A j \in Keys : Made(T, j, l[j])
    BY <1>3, <2>1, <2>2
  <2>4. \A x \in Slots, j \in Keys : Made(T, j, U.data[x][j])
    BY <1>10, <1>13, <2>3 DEF Linking
  <2> QED
    BY <1>8, <2>4 DEF Linking, Made
<1>21. Found(U, f)
  <2>1. Found(U, Caller)
    BY <1>14, <1>18
  <2>2. \A n : Sees(U, f, n) = Sees(U, Caller, n)
    BY <1>4, <1>6 DEF Sees
  <2>3. Sets(f) = Sets(Caller) \union {k}
    BY <1>4, <1>6 DEF Sets
  <2>4. U.ent[k] = Top.cell /\ Top.cell # 0 /\ T.cdr[Top.cell] = Top.value
    BY <1>2, <1>3, <1>10, <1>11, <1>13, <1>15 DEF Private
  <2>5. U.ent[k] # 0 /\ U.cdr[U.ent[k]] = U.last[k]
    BY <1>2, <1>8, <1>9, <2>4
  <2> QED
    BY <2>1, <2>2, <2>3, <2>5 DEF Found
<1>22. Private(U, f) /\ \A g : Keeps(U, g, f) /\ Apart(g, f) /\ Apart(f, g)
  BY <1>6 DEF Private, Keeps, Apart, Holding
<1> QED
  BY <1>1, <1>7, <1>12, <1>19, <1>20, <1>21, <1>22, TableStep DEF T, U

-----------------------------------------------------------------------------
(* The theorems *)

LEMMA InitIInv == Init => IInv
<1> SUFFICES ASSUME Init
             PROVE  IInv
  OBVIOUS
<1> DEFINE f == Lisp(Empty, {})
<1>1. Empty \in List /\ 0 \in Objects
  BY BoundsAssumption DEF Empty, List, Objects
<1>2. f \in Activation /\ f.op = "lisp" /\ f.seen = Empty /\ f.keys = {}
  BY <1>1, LispFact
<1>3. DataType
  <2>1. 0 .. obarray_dim - 1 \subseteq Int /\ made \in 0 .. MaxNew
    BY BoundsAssumption DEF Init
  <2>2. data \in [Slots -> Alist]
    BY <1>1 DEF Init, Alist
  <2> QED
    BY <1>1, <2>1, <2>2 DEF Init, DataType, Empty
<1>4. stack = <<f>> /\ StackType(stack)
  <2>1. stack = <<f>>
    BY DEF Init
  <2> HIDE DEF f
  <2>2. stack \in Seq(Activation) /\ Len(stack) = 1 /\ stack[1] = f
    BY <1>2, <2>1
  <2> QED
    BY <1>2, <2>1, <2>2, BoundsAssumption DEF StackType
<1>5. TypeOK
  BY <1>3, <1>4, TypeParts
<1>6. Linking(Tab)
  <2>1. \A i \in Slots, k \in Keys : data[i][k] = 0
    BY DEF Init
  <2> QED
    BY <1>5, <2>1, TabFact DEF Linking, Made
<1> HIDE DEF f
<1>7. Found(Tab, f) /\ Private(Tab, f)
  BY <1>2 DEF Found, Private, Sees, Sets, Holding, Empty
<1>8. Good(Tab, stack)
  <2>1. DOMAIN stack = {1} /\ stack[1] = f
    BY <1>4
  <2> QED
    BY <1>7, <2>1 DEF Good
<1> QED
  BY <1>5, <1>6, <1>8 DEF IInv

LEMMA StepIInv ==
  ASSUME IInv, [Next]_vars
  PROVE  IInv'
<1>1. CASE Symcons
  BY <1>1, SymconsStep
<1>2. CASE BucketCons
  BY <1>2, BucketConsStep
<1>3. CASE OblistCons
  BY <1>3, OblistConsStep
<1>4. CASE EntryCons
  BY <1>4, EntryConsStep
<1>5. CASE SlotCons
  BY <1>5, SlotConsStep
<1>6. CASE AfterGc
  BY <1>6, AfterGcStep
<1>7. CASE AfterGcReturn
  <2>1. Len(stack) - 1 \in 1 .. Len(stack)
    BY <1>7, StackFacts DEF AfterGcReturn
  <2>2. /\ stack' = SubSeq(stack, 1, Len(stack) - 1)
        /\ UNCHANGED TableVars /\ returned' = returned
    BY <1>7 DEF AfterGcReturn, TableVars
  <2> QED
    BY <2>1, <2>2, CutStep
<1>8. CASE Unwind
  <2>1. PICK d \in 1 .. Len(stack) : stack' = SubSeq(stack, 1, d)
    BY <1>8, StackFacts DEF Unwind
  <2>2. UNCHANGED TableVars /\ returned' = returned
    BY <1>8 DEF Unwind, TableVars
  <2> QED
    BY <2>1, <2>2, CutStep
<1>9. ASSUME NEW n \in Names, InternFound(n) \/ InternNew(n)
      PROVE  IInv'
  BY <1>9, InternFoundStep, InternNewStep
<1>10. ASSUME NEW k \in Keys, NEW v \in Values, HsetFound(k, v) \/ HsetNew(k, v)
       PROVE  IInv'
  BY <1>10, HsetFoundStep, HsetNewStep
<1>11. CASE UNCHANGED vars
  <2>1. UNCHANGED TableVars /\ returned' = returned /\ stack' = stack
    BY <1>11 DEF vars, TableVars
  <2>2. Len(stack) \in Nat \ {0} /\ StackType(stack) /\ returned \in List
    BY StackFacts DEF DataType
  <2>3. StackType(stack') /\ Len(stack') = Len(stack) /\ Len(stack') # Len(stack) + 1
    BY <2>1, <2>2
  <2> QED
    BY <2>1, <2>2, <2>3, StackOnly
<1> QED
  BY <1>1, <1>2, <1>3, <1>4, <1>5, <1>6, <1>7, <1>8, <1>9, <1>10, <1>11 DEF Next

LEMMA Invariance == Spec => []IInv
<1>1. IInv /\ [Next]_vars => IInv'
  BY StepIInv
<1> QED
  BY InitIInv, <1>1, PTL DEF Spec

\* The tables, the activations and the histories have their types: what obarray,
\* oblistvar and the hash table hold was made, and gen_intern and hset are only
\* ever called by Lisp code, *after-gc* only by them.
THEOREM TypeCorrect == Spec => []TypeOK
<1>1. IInv => TypeOK
  BY DEF IInv
<1> QED
  BY <1>1, Invariance, PTL

\* However deep *after-gc* runs in a cons of gen_intern, whatever it interns and
\* wherever an error unwinds to: the symbol that intern returned to Lisp code
\* that still runs is the one that its name is looked up to (gen_intern).
THEOREM SymbolsKeptAlways == Spec => []SymbolsKept
<1>1. IInv => SymbolsKept
  <2> SUFFICES ASSUME IInv, NEW i \in DOMAIN stack, stack[i].op = "lisp",
                      NEW n \in Names, stack[i].seen[n] # 0
               PROVE  Bucket(n)[n] = stack[i].seen[n]
    BY DEF SymbolsKept
  <2>1. Sees(Tab, stack[i], n) = stack[i].seen[n] /\ Found(Tab, stack[i])
    BY StackFacts DEF Sees
  <2> QED
    BY <2>1, StackFacts, TabFact DEF Found
<1> QED
  BY <1>1, Invariance, PTL

\* Lisp code that has set a key in a hash table, and still runs, is given the
\* value last set for it, also when *after-gc* has set keys of the same slot
\* between the search of hset and its store (hset, href).
THEOREM HrefLatestAlways == Spec => []HrefLatest
<1>1. IInv => HrefLatest
  <2> SUFFICES ASSUME IInv, NEW i \in DOMAIN stack, stack[i].op = "lisp",
                      NEW k \in stack[i].keys
               PROVE  Href(k) = last[k]
    BY DEF HrefLatest
  <2>1. Found(Tab, stack[i]) /\ k \in Sets(stack[i]) /\ k \in Keys
    BY StackFacts DEF Sets
  <2> QED
    BY <2>1, StackFacts, TabFact DEF Found, Href, Slot
<1> QED
  BY <1>1, Invariance, PTL
=============================================================================
