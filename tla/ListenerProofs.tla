--------------------------- MODULE ListenerProofs ---------------------------
(***************************************************************************)
(* Proofs about Listener, whose threads change over anywhere, for any      *)
(* number of keystrokes and of interpreter threads.                        *)
(***************************************************************************)
EXTENDS Listener, FiniteSetTheorems, TLAPS

Idle   == {"none", "assign", "ended"}
Reads  == {"head", "tail", "enter", "wait", "check", "fetch"}
Places == Idle \union Reads \union {"eval", "unset", "close", "test", "clear", "create"}

\* Until FreshSiodThread meets one of its holes one thread at most runs or may
\* make another, and none while the dialog makes one.
ThreadsInv ==
  /\ at \in [Threads -> Places]
  /\ ~ hole => /\ \A s, t \in Threads : at[s] \notin Idle /\ at[t] \notin Idle => s = t
               /\ ui = "create" => \A t \in Threads : at[t] \in Idle

LEMMA BoundsFact == MaxKeys \in Nat /\ MaxThreads \in Nat /\ Dialog \notin Threads
                    /\ \A t \in Threads : t \in Nat \ {0} /\ t \in 0 .. MaxThreads
  BY BoundsAssumption DEF Dialog, Threads

-----------------------------------------------------------------------------
(* Threads *)

\* A thread that moves on is as active as before, or less.
LEMMA ThreadMove ==
  ASSUME ThreadsInv, NEW t \in Threads, NEW from, NEW to \in Places,
         Thread(t, from, to), from \notin Idle, UNCHANGED <<ui, hole>>
  PROVE  ThreadsInv'
<1>1. /\ at[t] = from /\ at \in [Threads -> Places] /\ at' = [at EXCEPT ![t] = to]
  BY DEF Thread, Goto, ThreadsInv
<1>2. at' \in [Threads -> Places]
  BY <1>1
<1>3. \A s \in Threads : at'[s] \notin Idle => at[s] \notin Idle
  BY <1>1
<1> QED
  BY <1>2, <1>3 DEF ThreadsInv

\* The dialog moves without making a thread.
LEMMA DialogMove ==
  ASSUME ThreadsInv, UNCHANGED <<at, hole>>, ui' # "create"
  PROVE  ThreadsInv'
BY DEF ThreadsInv

\* A new thread takes the place of the one that made it.
LEMMA SpawnMove ==
  ASSUME ThreadsInv, NEW a \in Threads \union {Dialog}, Spawn(a), UNCHANGED hole,
         a \in Threads => at[a] = "create" /\ UNCHANGED ui,
         a = Dialog => ui = "create" /\ ui' = "assign"
  PROVE  ThreadsInv'
<1>1. at' \in [Threads -> Places]
  BY DEF Spawn, ThreadsInv, Places, Idle
<1>2. PICK u \in Threads \union {Dialog} :
        \A s \in Threads : at'[s] \notin Idle => s = u \/ (at[s] \notin Idle /\ s # a)
  <2>1. CASE \E t \in Threads :
               at' = [b \in Threads |-> IF b = t THEN "eval" ELSE
                                        IF b = a THEN "assign" ELSE at[b]]
    BY <2>1 DEF Idle
  <2>2. CASE at' = [b \in Threads |-> IF b = a THEN "assign" ELSE at[b]]
    BY <2>2 DEF Idle
  <2> QED
    BY <2>1, <2>2 DEF Spawn
<1>3. ASSUME ~ hole
      PROVE  \A s \in Threads : at'[s] \notin Idle => s = u
  <2>1. CASE a = Dialog
    BY <1>2, <1>3, <2>1 DEF ThreadsInv
  <2>2. CASE a \in Threads
    <3>1. at[a] \notin Idle
      BY <2>2 DEF Idle
    <3> QED
      BY <1>2, <1>3, <2>2, <3>1 DEF ThreadsInv
  <2> QED
    BY <2>1, <2>2
<1>4. ASSUME ~ hole
      PROVE  ui' # "create"
  BY <1>4, BoundsFact DEF ThreadsInv, Idle
<1> QED
  BY <1>1, <1>3, <1>4 DEF ThreadsInv

LEMMA ThreadsStep == ThreadsInv /\ [Next]_vars => ThreadsInv'
<1> SUFFICES ASSUME ThreadsInv, [Next]_vars PROVE ThreadsInv'
  OBVIOUS
<1>1. CASE UiCreate
  BY <1>1, SpawnMove, BoundsFact DEF UiCreate, Step
<1>2. CASE UiAssign \/ FreshQuit \/ FreshNeed \/ LoadTail \/ EraseTail \/ BumpTail \/ Store
  <2>1. UNCHANGED <<at, hole>> /\ ui' # "create"
    BY <1>2 DEF UiAssign, FreshQuit, FreshNeed, LoadTail, EraseTail, BumpTail, Store, Step
  <2> QED
    BY <2>1, DialogMove
<1>3. CASE UiPulse
  <2>1. CASE UNCHANGED at
    BY <1>3, <2>1, DialogMove DEF UiPulse, Step
  <2>2. CASE \E t \in Threads : at[t] = "wait" /\ Goto(t, "check")
    <3>1. PICK t \in Threads : at[t] = "wait" /\ at' = [at EXCEPT ![t] = "check"]
      BY <2>2 DEF Goto
    <3>2. at \in [Threads -> Places] /\ at' \in [Threads -> Places]
      BY <3>1 DEF ThreadsInv, Places, Reads
    <3>3. \A s \in Threads : at'[s] \notin Idle => at[s] \notin Idle
      BY <3>1, <3>2 DEF Idle
    <3>4. ui' # "create" /\ UNCHANGED hole
      BY <1>3 DEF UiPulse, Step
    <3> QED
      BY <3>2, <3>3, <3>4 DEF ThreadsInv
  <2> QED
    BY <1>3, <2>1, <2>2 DEF UiPulse, Pulse
<1>4. CASE Fresh
  <2>1. UNCHANGED at /\ (~ hole' => ~ hole /\ (g_hSiodReplThread # 0 \/ Active = {}))
        /\ ui' = IF g_hSiodReplThread # 0 THEN "quit" ELSE "create"
    BY <1>4 DEF Fresh, Step
  <2>2. Active = {} => \A t \in Threads : at[t] \in Idle
    BY DEF Active, Idle
  <2> QED
    BY <2>1, <2>2 DEF ThreadsInv
<1>5. ASSUME NEW k \in {"char", "cr", "bs"}, OnChar(k)
      PROVE  ThreadsInv'
  BY <1>5, DialogMove DEF OnChar, Step
<1>6. ASSUME NEW t \in Threads, Siod(t)
      PROVE  ThreadsInv'
  <2>1. CASE Reget(t) \/ GetC(t) \/ Fetch(t) \/ UngetC(t) \/ Quit(t)
    <3>1. \E from \in {"eval", "fetch"}, to \in Places : Thread(t, from, to)
      BY <2>1 DEF Reget, GetC, Fetch, UngetC, Quit, Places, Reads
    <3>2. UNCHANGED <<ui, hole>>
      BY <2>1 DEF Reget, GetC, Fetch, UngetC, Quit
    <3>3. "eval" \notin Idle /\ "fetch" \notin Idle
      BY DEF Idle
    <3> QED
      BY <3>1, <3>2, <3>3, ThreadMove
  <2>2. CASE ResetHead(t) \/ ResetTail(t) \/ Wait(t) \/ Check(t) \/ Unset(t)
    <3>1. \E from \in {"head", "tail", "enter", "check", "unset"}, to \in Places :
             Thread(t, from, to)
      BY <2>2 DEF ResetHead, ResetTail, Wait, Check, Unset, Places, Reads
    <3>2. UNCHANGED <<ui, hole>>
      BY <2>2 DEF ResetHead, ResetTail, Wait, Check, Unset
    <3>3. \A l \in {"head", "tail", "enter", "check", "unset"} : l \notin Idle
      BY DEF Idle
    <3> QED
      BY <3>1, <3>2, <3>3, ThreadMove
  <2>3. CASE Close(t) \/ TestNeeded(t) \/ ClearNeeded(t)
    <3>1. \E from \in {"close", "test", "clear"}, to \in Places : Thread(t, from, to)
      BY <2>3 DEF Close, TestNeeded, ClearNeeded, Places, Idle
    <3>2. UNCHANGED <<ui, hole>>
      BY <2>3 DEF Close, TestNeeded, ClearNeeded
    <3>3. \A l \in {"close", "test", "clear"} : l \notin Idle
      BY DEF Idle
    <3> QED
      BY <3>1, <3>2, <3>3, ThreadMove
  <2>4. CASE Create(t)
    BY <2>4, SpawnMove, BoundsFact DEF Create
  <2>5. CASE Assign(t)
    <3>1. /\ at' = [at EXCEPT ![t] = "ended"] /\ UNCHANGED <<ui, hole>>
          /\ at \in [Threads -> Places]
      BY <2>5 DEF Assign, Thread, Goto, ThreadsInv
    <3>2. at' \in [Threads -> Places]
          /\ \A s \in Threads : at'[s] \notin Idle => at[s] \notin Idle
      BY <3>1 DEF Places, Idle
    <3> QED
      BY <3>1, <3>2 DEF ThreadsInv
  <2> QED
    BY <1>6, <2>1, <2>2, <2>3, <2>4, <2>5 DEF Siod
<1>7. CASE UNCHANGED vars
  BY <1>7 DEF vars, ThreadsInv
<1> QED
  BY <1>1, <1>2, <1>3, <1>4, <1>5, <1>6, <1>7 DEF Next, Ui

\* Wherever the threads change over, an interpreter and a thread that may make
\* another are one, and there is none while the dialog makes one, as long as
\* FreshSiodThread has not met one of its two holes.
THEOREM ThreadsInvariance == Spec => []ThreadsInv
<1>1. Init => ThreadsInv
  BY DEF Init, ThreadsInv, Places, Idle
<1> QED
  BY <1>1, ThreadsStep, PTL DEF Spec

\* Two interpreters run only after FreshSiodThread has found no handle while a
\* thread was ending, or ran and was not assigned yet: the holes its comments name.
THEOREM OneRunsButForHoles == Spec => []OneButForHoles
<1>1. ThreadsInv => OneButForHoles
  <2> SUFFICES ASSUME ThreadsInv, ~ hole PROVE Cardinality(Alive) <= 1
    BY DEF OneButForHoles, OneInterpreter
  <2>1. \A s, t \in Alive : s = t
    BY DEF Alive, Active, ThreadsInv, Idle
  <2>2. CASE Alive = {}
    BY <2>2, FS_EmptySet
  <2>3. CASE Alive # {}
    <3>1. PICK t : t \in Alive
      BY <2>3
    <3>2. Alive = {t}
      BY <2>1, <3>1
    <3>3. Cardinality({t}) = 1
      BY FS_Singleton
    <3> QED
      BY <3>2, <3>3
  <2> QED
    BY <2>2, <2>3
<1> QED
  BY <1>1, ThreadsInvariance, PTL

-----------------------------------------------------------------------------
(* Buffers *)

\* k is g, then u from its end, then the n characters of b behind h.
Layout(k, g, u, b, h, n) ==
  LET m == Len(g)
      w == Len(g) + Len(u)
  IN  /\ Len(k) = w + n
      /\ \A i \in 1 .. m : k[i] = g[i]
      /\ \A i \in m + 1 .. w : k[i] = u[w + 1 - i]
      /\ \A i \in w + 1 .. w + n : k[i] = b[h + i - w]

LEMMA CutFact ==
  ASSUME NEW s \in Seq(Nat), NEW n \in 0 .. Len(s)
  PROVE  /\ SubSeq(s, 1, n) \in Seq(Nat) /\ Len(SubSeq(s, 1, n)) = n
         /\ \A i \in 1 .. n : SubSeq(s, 1, n)[i] = s[i]
  OBVIOUS

LEMMA FrontFact ==
  ASSUME NEW s \in Seq(Nat), s # <<>>
  PROVE  /\ Front(s) \in Seq(Nat) /\ Len(Front(s)) = Len(s) - 1
         /\ \A i \in 1 .. Len(s) - 1 : Front(s)[i] = s[i]
         /\ Len(s) \in Nat \ {0} /\ s[Len(s)] \in Nat
<1>1. Len(s) - 1 \in 0 .. Len(s) /\ Len(s) \in Nat \ {0} /\ s[Len(s)] \in Nat
  OBVIOUS
<1> QED
  BY <1>1, CutFact DEF Front

LEMMA AppendFact ==
  ASSUME NEW s \in Seq(Nat), NEW c \in Nat
  PROVE  /\ Append(s, c) \in Seq(Nat) /\ Len(Append(s, c)) = Len(s) + 1
         /\ \A i \in 1 .. Len(s) : Append(s, c)[i] = s[i]
         /\ Append(s, c)[Len(s) + 1] = c /\ Len(s) \in Nat
  OBVIOUS

LEMMA AppendFront ==
  ASSUME NEW s \in Seq(Nat), NEW c \in Nat
  PROVE  /\ Append(s, c) # <<>> /\ Append(s, c)[Len(Append(s, c))] = c
         /\ Front(Append(s, c)) = s
<1>1. /\ Append(s, c) \in Seq(Nat) /\ Len(Append(s, c)) = Len(s) + 1 /\ Len(s) \in Nat
      /\ \A i \in 1 .. Len(s) : Append(s, c)[i] = s[i]
      /\ Append(s, c)[Len(s) + 1] = c
  BY AppendFact
<1> DEFINE a == Append(s, c)
<1> HIDE DEF a
<1>2. a \in Seq(Nat) /\ Len(a) = Len(s) + 1 /\ \A i \in 1 .. Len(s) : a[i] = s[i]
  BY <1>1 DEF a
<1>3. a # <<>>
  BY <1>1, <1>2
<1>4. /\ Front(a) \in Seq(Nat) /\ Len(Front(a)) = Len(s)
      /\ \A i \in 1 .. Len(s) : Front(a)[i] = s[i]
  <2>1. /\ Front(a) \in Seq(Nat) /\ Len(Front(a)) = Len(a) - 1
        /\ \A i \in 1 .. Len(a) - 1 : Front(a)[i] = a[i]
    BY <1>2, <1>3, FrontFact
  <2>2. PICK m \in Nat : m = Len(s)
    BY <1>1
  <2>3. Len(a) - 1 = m
    BY <1>2, <2>2
  <2> QED
    BY ONLY <1>2, <2>1, <2>2, <2>3
<1>5. Front(a) = s
  BY <1>4
<1> QED
  BY <1>1, <1>3, <1>5 DEF a

LEMMA FrontAppend ==
  ASSUME NEW s \in Seq(Nat), s # <<>>
  PROVE  s = Append(Front(s), s[Len(s)])
<1>1. /\ Front(s) \in Seq(Nat) /\ Len(Front(s)) = Len(s) - 1
      /\ \A i \in 1 .. Len(s) - 1 : Front(s)[i] = s[i]
      /\ Len(s) \in Nat \ {0} /\ s[Len(s)] \in Nat
  BY FrontFact
<1> DEFINE a == Append(Front(s), s[Len(s)])
<1>2. /\ a \in Seq(Nat) /\ Len(a) = Len(Front(s)) + 1
      /\ \A i \in 1 .. Len(Front(s)) : a[i] = Front(s)[i]
      /\ a[Len(Front(s)) + 1] = s[Len(s)]
  BY <1>1, AppendFact
<1> HIDE DEF a
<1>3. Len(a) = Len(s) /\ \A i \in 1 .. Len(s) : a[i] = s[i]
  <2>1. PICK m \in Nat : m = Len(s) - 1
    BY <1>1
  <2>2. Len(Front(s)) = m /\ Len(s) = m + 1
    BY <1>1, <2>1
  <2>3. /\ Len(a) = m + 1 /\ a[m + 1] = s[m + 1]
        /\ \A i \in 1 .. m : a[i] = s[i]
    BY ONLY <1>1, <1>2, <2>1, <2>2
  <2> QED
    BY ONLY <2>1, <2>2, <2>3
<1>4. a = s
  BY <1>2, <1>3
<1> QED
  BY <1>4 DEF a

\* ListenerGetC takes the next character from the line.
LEMMA LayoutFetch ==
  ASSUME NEW k, NEW g \in Seq(Nat), NEW b, NEW h \in Int, NEW n \in Nat \ {0},
         Layout(k, g, <<>>, b, h, n), b[h + 1] \in Nat
  PROVE  Layout(k, Append(g, b[h + 1]), <<>>, b, h + 1, n - 1)
<1> DEFINE r == Append(g, b[h + 1])
           m == Len(g)
<1>1. /\ Len(r) = m + 1 /\ \A i \in 1 .. m : r[i] = g[i]
      /\ r[m + 1] = b[h + 1] /\ m \in Nat
  BY AppendFact
<1>2. Len(<<>>) = 0
  OBVIOUS
<1>3. /\ Len(k) = m + n /\ \A i \in 1 .. m : k[i] = g[i]
      /\ \A i \in m + 1 .. m + n : k[i] = b[h + i - m]
  BY <1>1, <1>2 DEF Layout
<1> HIDE DEF r, m
<1>4. Len(k) = m + 1 + (n - 1)
  BY <1>1, <1>3
<1>5. ASSUME NEW i \in 1 .. m + 1
      PROVE  k[i] = r[i]
  <2>1. CASE i = m + 1
    <3>1. h + i - m = h + 1 /\ i \in m + 1 .. m + n
      BY <1>1, <2>1
    <3> QED
      BY <1>1, <1>3, <2>1, <3>1
  <2>2. CASE i \in 1 .. m
    BY <1>1, <1>3, <2>2
  <2> QED
    BY <1>1, <2>1, <2>2
<1>6. ASSUME NEW i \in m + 1 + 1 .. m + 1 + (n - 1)
      PROVE  k[i] = b[h + 1 + i - (m + 1)]
  <2>1. h + 1 + i - (m + 1) = h + i - m /\ i \in m + 1 .. m + n
    BY <1>1
  <2> QED
    BY <1>3, <2>1
<1>7. Layout(k, r, <<>>, b, h + 1, n - 1)
  <2> DEFINE e == <<>>
  <2>1. Len(r) + Len(e) = m + 1 /\ Len(r) = m + 1
    BY <1>1, <1>2
  <2> HIDE DEF e
  <2>2. \A i \in m + 1 + 1 .. m + 1 : k[i] = e[m + 1 + 1 - i]
    BY <1>1
  <2>3. Layout(k, r, e, b, h + 1, n - 1)
    BY <1>4, <1>5, <1>6, <2>1, <2>2 DEF Layout
  <2> QED
    BY <2>3 DEF e
<1> QED
  BY <1>7 DEF r

\* ListenerGetC takes a character that was put back.
LEMMA LayoutReget ==
  ASSUME NEW k, NEW g \in Seq(Nat), NEW u \in Seq(Nat), u # <<>>,
         NEW b, NEW h \in Int, NEW n \in Nat, Layout(k, g, u, b, h, n)
  PROVE  Layout(k, Append(g, u[Len(u)]), Front(u), b, h, n)
<1> DEFINE r == Append(g, u[Len(u)])
           m == Len(g)
           w == Len(g) + Len(u)
           v == Front(u)
<1>1. /\ Len(r) = m + 1 /\ \A i \in 1 .. m : r[i] = g[i]
      /\ r[m + 1] = u[w - m] /\ m \in Nat /\ w \in Nat /\ w > m
  BY AppendFact, FrontFact
<1>2. Len(v) = w - m - 1 /\ \A i \in 1 .. w - m - 1 : v[i] = u[i]
  BY FrontFact
<1>3. /\ Len(k) = w + n /\ \A i \in 1 .. m : k[i] = g[i]
      /\ \A i \in m + 1 .. w : k[i] = u[w + 1 - i]
      /\ \A i \in w + 1 .. w + n : k[i] = b[h + i - w]
  BY DEF Layout
<1> HIDE DEF r, m, w, v
<1>4. ASSUME NEW i \in 1 .. m + 1
      PROVE  k[i] = r[i]
  <2>1. CASE i = m + 1
    <3>1. w + 1 - i = w - m /\ i \in m + 1 .. w
      BY <1>1, <2>1
    <3> QED
      BY <1>1, <1>3, <2>1, <3>1
  <2>2. CASE i \in 1 .. m
    BY <1>1, <1>3, <2>2
  <2> QED
    BY <1>1, <2>1, <2>2
<1>5. ASSUME NEW i \in m + 1 + 1 .. w
      PROVE  k[i] = v[w + 1 - i]
  <2>1. w + 1 - i \in 1 .. w - m - 1 /\ i \in m + 1 .. w
    BY <1>1
  <2> QED
    BY <1>2, <1>3, <2>1
<1>6. Layout(k, r, v, b, h, n)
  <2>1. Len(r) + Len(v) = w
    BY <1>1, <1>2
  <2> QED
    BY <1>1, <1>3, <1>4, <1>5, <2>1 DEF Layout
<1> QED
  BY <1>6 DEF r, v

\* ListenerUngetC.
LEMMA LayoutUnget ==
  ASSUME NEW k, NEW g \in Seq(Nat), NEW u \in Seq(Nat), g # <<>>,
         NEW b, NEW h \in Int, NEW n \in Nat, Layout(k, g, u, b, h, n)
  PROVE  Layout(k, Front(g), Append(u, g[Len(g)]), b, h, n)
<1> DEFINE r == Append(u, g[Len(g)])
           m == Len(g)
           w == Len(g) + Len(u)
           f == Front(g)
<1>1. /\ Len(r) = w - m + 1 /\ \A i \in 1 .. w - m : r[i] = u[i]
      /\ r[w - m + 1] = g[m]
      /\ Len(f) = m - 1 /\ \A i \in 1 .. m - 1 : f[i] = g[i]
      /\ m \in Nat \ {0} /\ w \in Nat /\ w >= m
  <2>1. g[m] \in Nat /\ Len(u) = w - m
    BY FrontFact
  <2> QED
    BY <2>1, AppendFact, FrontFact
<1>3. /\ Len(k) = w + n /\ \A i \in 1 .. m : k[i] = g[i]
      /\ \A i \in m + 1 .. w : k[i] = u[w + 1 - i]
      /\ \A i \in w + 1 .. w + n : k[i] = b[h + i - w]
  BY DEF Layout
<1> HIDE DEF r, m, w, f
<1>4. ASSUME NEW i \in m .. w
      PROVE  k[i] = r[w + 1 - i]
  <2>1. CASE i = m
    <3>1. w + 1 - i = w - m + 1 /\ i \in 1 .. m
      BY <1>1, <2>1
    <3> QED
      BY <1>1, <1>3, <2>1, <3>1
  <2>2. CASE i \in m + 1 .. w
    <3>1. w + 1 - i \in 1 .. w - m
      BY <1>1, <2>2
    <3> QED
      BY <1>1, <1>3, <2>2, <3>1
  <2> QED
    BY <1>1, <2>1, <2>2
<1>5. ASSUME NEW i \in 1 .. m - 1
      PROVE  k[i] = f[i]
  BY <1>1, <1>3
<1>6. Layout(k, f, r, b, h, n)
  <2>1. Len(f) + Len(r) = w /\ Len(f) + 1 = m
    BY ONLY <1>1
  <2> QED
    BY <1>1, <1>3, <1>4, <1>5, <2>1 DEF Layout
<1> QED
  BY <1>6 DEF r, f

\* A backspace takes back the last character of the line.
LEMMA LayoutErase ==
  ASSUME NEW k \in Seq(Nat), NEW g \in Seq(Nat), NEW u \in Seq(Nat),
         NEW b, NEW h \in Int, NEW n \in Nat \ {0}, Layout(k, g, u, b, h, n)
  PROVE  k # <<>> /\ Layout(Front(k), g, u, b, h, n - 1)
<1> DEFINE m == Len(g)
           w == Len(g) + Len(u)
           f == Front(k)
<1>1. m \in Nat /\ w \in Nat /\ w >= m
  OBVIOUS
<1>2. /\ Len(k) = w + n /\ \A i \in 1 .. m : k[i] = g[i]
      /\ \A i \in m + 1 .. w : k[i] = u[w + 1 - i]
      /\ \A i \in w + 1 .. w + n : k[i] = b[h + i - w]
  BY DEF Layout
<1> HIDE DEF m, w
<1>3. k # <<>>
  <2>1. Len(k) # 0
    BY <1>1, <1>2
  <2> QED
    BY <2>1
<1>4. Len(f) = w + (n - 1) /\ \A i \in 1 .. w + (n - 1) : f[i] = k[i]
  <2>1. Len(k) - 1 = w + (n - 1)
    BY <1>1, <1>2
  <2> QED
    BY <1>3, <2>1, FrontFact
<1> HIDE DEF f
<1>5. ASSUME NEW i \in 1 .. w + (n - 1)
      PROVE  f[i] = k[i] /\ i \in 1 .. w + n
  BY <1>1, <1>4
<1>6. ASSUME NEW i \in 1 .. m
      PROVE  f[i] = g[i]
  BY <1>1, <1>2, <1>5
<1>7. ASSUME NEW i \in m + 1 .. w
      PROVE  f[i] = u[w + 1 - i]
  BY <1>1, <1>2, <1>5
<1>8. ASSUME NEW i \in w + 1 .. w + (n - 1)
      PROVE  f[i] = b[h + i - w]
  BY <1>1, <1>2, <1>5
<1>9. Layout(f, g, u, b, h, n - 1)
  BY <1>4, <1>6, <1>7, <1>8 DEF Layout, m, w
<1> QED
  BY <1>3, <1>9 DEF f

\* The character that ListenerOnChar stores.
LEMMA LayoutStore ==
  ASSUME NEW k \in Seq(Nat), NEW g \in Seq(Nat), NEW u \in Seq(Nat), NEW c \in Nat,
         NEW B, NEW b \in [B -> Nat], NEW h \in Int, NEW n \in Nat, h + n + 1 \in B,
         \A i \in 1 .. n : h + i \in B,
         Layout(k, g, u, b, h, n)
  PROVE  Layout(Append(k, c), g, u, [b EXCEPT ![h + n + 1] = c], h, n + 1)
<1> DEFINE m == Len(g)
           w == Len(g) + Len(u)
           r == Append(k, c)
           d == [b EXCEPT ![h + n + 1] = c]
<1>1. m \in Nat /\ w \in Nat /\ w >= m
  OBVIOUS
<1>2. /\ Len(k) = w + n /\ \A i \in 1 .. m : k[i] = g[i]
      /\ \A i \in m + 1 .. w : k[i] = u[w + 1 - i]
      /\ \A i \in w + 1 .. w + n : k[i] = b[h + i - w]
  BY DEF Layout
<1> HIDE DEF m, w
<1>3. Len(r) = w + (n + 1) /\ r[w + n + 1] = c /\ \A i \in 1 .. w + n : r[i] = k[i]
  BY <1>1, <1>2, AppendFact
<1>4. d[h + n + 1] = c /\ \A i \in 1 .. n : d[h + i] = b[h + i]
  OBVIOUS
<1> HIDE DEF r, d
<1>5. ASSUME NEW i \in 1 .. m
      PROVE  r[i] = g[i]
  BY <1>1, <1>2, <1>3
<1>6. ASSUME NEW i \in m + 1 .. w
      PROVE  r[i] = u[w + 1 - i]
  <2>1. i \in 1 .. w + n
    BY <1>1
  <2> QED
    BY <1>2, <1>3, <2>1
<1>7. ASSUME NEW i \in w + 1 .. w + (n + 1)
      PROVE  r[i] = d[h + i - w]
  <2>1. CASE i = w + n + 1
    <3>1. h + i - w = h + n + 1
      BY <1>1, <2>1
    <3> QED
      BY <1>3, <1>4, <2>1, <3>1
  <2>2. CASE i \in w + 1 .. w + n
    <3>1. i - w \in 1 .. n /\ h + i - w = h + (i - w) /\ i \in 1 .. w + n
      BY <1>1, <2>2
    <3>2. d[h + i - w] = b[h + i - w]
      BY <1>4, <3>1
    <3> QED
      BY <1>2, <1>3, <2>2, <3>1, <3>2
  <2> QED
    <3>1. i = w + n + 1 \/ i \in w + 1 .. w + n
      BY <1>1
    <3> QED
      BY <2>1, <2>2, <3>1
<1>8. Layout(r, g, u, d, h, n + 1)
  BY <1>3, <1>5, <1>6, <1>7 DEF Layout, m, w
<1> QED
  BY <1>8 DEF r, d

-----------------------------------------------------------------------------
(* The input *)

InTail == \E t \in Threads : at[t] = "tail"

\* How many characters of the line are in their place and not read yet: one is
\* counted before it is stored, and the head is reset before the tail.
Waiting == IF InTail THEN 0 ELSE (IF ui = "store" THEN index ELSE g_getTail) - g_getHead

DataTypes ==
  /\ g_getBuffer \in [0 .. MaxKeys -> Nat] /\ g_ungetBuffer \in Seq(Nat)
  /\ kept \in Seq(Nat) /\ got \in Seq(Nat)
  /\ kind \in Seq({"char", "cr", "bs"}) /\ Len(kind) <= MaxKeys
  /\ g_getTail \in -1 .. Len(kind) - 1 /\ g_getHead \in -1 .. MaxKeys
  /\ index \in Int

\* ListenerOnChar writes what it has read, and there is room for the character.
KeyInv ==
  /\ ui \in {"load", "bump"} => g_getTail <= Len(kind) - 2
  /\ ui \in {"erase", "bump"} => index = g_getTail
  /\ ui = "erase" => index >= 0
  /\ ui = "store" => index + 1 = g_getTail

\* Nothing that was typed is lost, also between the count and the store.
LineInv ==
  /\ Waiting \in Nat
  /\ ui # "store" =>
       Layout(kept, got, g_ungetBuffer, g_getBuffer, g_getHead, Waiting)
  /\ ui = "store" =>
       /\ kept # <<>> /\ kept[Len(kept)] = Len(kind)
       /\ Layout(Front(kept), got, g_ungetBuffer, g_getBuffer, g_getHead, Waiting)

\* Where the interpreter is in ListenerGetC nothing is put back, and it resets
\* the indices of a line that it has read.
ReadInv ==
  \A t \in Threads :
    /\ at[t] \in Reads => g_ungetBuffer = <<>>
    /\ at[t] = "head" => g_getHead = g_getTail
    /\ at[t] = "tail" => g_getHead = -1
    /\ at[t] \in {"head", "tail"} => ui # "store"

DataInv == DataTypes /\ KeyInv /\ LineInv /\ ReadInv

LEMMA DataOther ==
  ASSUME DataInv,
         UNCHANGED <<g_getBuffer, g_getTail, g_getHead, g_ungetBuffer, got, typing>>,
         \/ ui' = ui
         \/ {ui, ui'} \intersect {"load", "erase", "bump", "store"} = {},
         \A s \in Threads : \/ at'[s] = at[s]
                            \/ /\ at[s] # "tail" /\ at'[s] \notin {"head", "tail"}
                               /\ at'[s] \in Reads => at[s] \in Reads
  PROVE  DataInv'
<1>1. /\ UNCHANGED <<g_getBuffer, g_getTail, g_getHead, g_ungetBuffer, got, index, kind, kept>>
  BY DEF typing
<1>2. ui' = ui \/ (ui \notin {"load", "erase", "bump", "store"}
                   /\ ui' \notin {"load", "erase", "bump", "store"})
  OBVIOUS
<1>3. DataTypes' /\ KeyInv'
  BY <1>1, <1>2 DEF DataInv, DataTypes, KeyInv
<1>4. InTail' = InTail
  BY DEF InTail
<1>5. Waiting' = Waiting
  BY <1>1, <1>2, <1>4 DEF Waiting
<1>6. LineInv'
  BY <1>1, <1>2, <1>5 DEF DataInv, LineInv
<1>7. ReadInv'
  BY <1>1, <1>2 DEF DataInv, ReadInv, Reads
<1> QED
  BY <1>3, <1>6, <1>7 DEF DataInv

\* Nobody is in the reset, or the interpreter is in it alone.
LEMMA Alone ==
  ASSUME ThreadsInv, ~ hole, NEW t \in Threads, at[t] \notin Idle
  PROVE  \A s \in Threads \ {t} : at[s] \in Idle
BY DEF ThreadsInv

LEMMA DataGetC ==
  ASSUME DataInv, ThreadsInv, NEW t \in Threads, GetC(t)
  PROVE  DataInv'
<1>1. /\ at \in [Threads -> Places] /\ g_ungetBuffer = <<>> /\ at[t] = "eval"
      /\ at' = [at EXCEPT ![t] = IF g_getTail = g_getHead THEN "head" ELSE "check"]
      /\ UNCHANGED <<g_getBuffer, g_getTail, g_getHead, g_ungetBuffer, got, index, kind, kept, ui>>
  BY DEF GetC, Thread, Goto, ThreadsInv, buffers, typing
<1>2. DataTypes' /\ KeyInv'
  BY <1>1 DEF DataInv, DataTypes, KeyInv
<1>3. InTail' = InTail /\ Waiting' = Waiting
  BY <1>1 DEF InTail, Waiting
<1>4. LineInv'
  BY <1>1, <1>3 DEF DataInv, LineInv
<1>5. ASSUME g_getTail = g_getHead
      PROVE  ui # "store"
  <2> SUFFICES ASSUME ui = "store" PROVE FALSE
    OBVIOUS
  <2>1. ~ InTail /\ index + 1 = g_getTail
    BY DEF InTail, DataInv, ReadInv, KeyInv
  <2>2. index - g_getHead \in Nat /\ index \in Int /\ g_getHead \in Int
    BY <2>1 DEF DataInv, LineInv, Waiting, DataTypes
  <2> QED
    BY <1>5, <2>1, <2>2
<1>6. ReadInv'
  BY <1>1, <1>5 DEF DataInv, ReadInv, Reads
<1> QED
  BY <1>2, <1>4, <1>6 DEF DataInv

LEMMA DataResetHead ==
  ASSUME DataInv, ThreadsInv, ~ hole, NEW t \in Threads, ResetHead(t)
  PROVE  DataInv'
<1>1. /\ at \in [Threads -> Places] /\ at[t] = "head" /\ at' = [at EXCEPT ![t] = "tail"]
      /\ g_getHead' = -1
      /\ UNCHANGED <<g_getBuffer, g_getTail, g_ungetBuffer, got, index, kind, kept, ui>>
  BY DEF ResetHead, Thread, Goto, ThreadsInv, Empty, typing
<1>2. g_getHead = g_getTail /\ ui # "store" /\ g_ungetBuffer = <<>>
  BY <1>1 DEF DataInv, ReadInv, Reads
<1>3. \A s \in Threads \ {t} : at[s] \in Idle /\ at'[s] \in Idle
  BY <1>1, Alone DEF Idle
<1>4. ~ InTail /\ InTail' /\ Waiting' = 0
  BY <1>1, <1>3 DEF InTail, Idle, Waiting
<1>5. Waiting = 0
  BY <1>2, <1>4 DEF Waiting, DataInv, DataTypes
<1>6. DataTypes' /\ KeyInv'
  BY <1>1, BoundsFact DEF DataInv, DataTypes, KeyInv
<1>7. Layout(kept, got, g_ungetBuffer, g_getBuffer, -1, 0)
  <2>1. Layout(kept, got, g_ungetBuffer, g_getBuffer, g_getHead, 0)
    BY <1>2, <1>5 DEF DataInv, LineInv
  <2> QED
    BY <2>1 DEF Layout, DataInv, DataTypes
<1>8. LineInv'
  BY <1>1, <1>2, <1>4, <1>7 DEF LineInv
<1>9. ReadInv'
  BY <1>1, <1>2, <1>3 DEF ReadInv, Reads, Idle
<1> QED
  BY <1>6, <1>8, <1>9 DEF DataInv

LEMMA DataResetTail ==
  ASSUME DataInv, ThreadsInv, ~ hole, NEW t \in Threads, ResetTail(t), ~ crossed'
  PROVE  DataInv'
<1>1. /\ at \in [Threads -> Places] /\ at[t] = "tail" /\ at' = [at EXCEPT ![t] = "enter"]
      /\ g_getTail' = -1 /\ ui \notin {"bump", "erase"}
      /\ UNCHANGED <<g_getBuffer, g_getHead, g_ungetBuffer, got, index, kind, kept, ui>>
  BY DEF ResetTail, Thread, Goto, ThreadsInv, Empty, typing
<1>2. g_getHead = -1 /\ ui # "store" /\ g_ungetBuffer = <<>>
  BY <1>1 DEF DataInv, ReadInv, Reads
<1>3. \A s \in Threads \ {t} : at[s] \in Idle /\ at'[s] \in Idle
  BY <1>1, Alone DEF Idle
<1>4. InTail /\ ~ InTail'
  BY <1>1, <1>3 DEF InTail, Idle
<1>5. Waiting = 0 /\ Waiting' = 0
  BY <1>1, <1>2, <1>4 DEF Waiting
<1>6. DataTypes' /\ KeyInv'
  <2>1. Len(kind) \in Nat /\ g_getTail \in -1 .. Len(kind) - 1
    BY DEF DataInv, DataTypes
  <2>2. ui = "load" => -1 <= Len(kind) - 2
    BY <2>1 DEF DataInv, KeyInv
  <2> QED
    BY <1>1, <1>2, <2>1, <2>2 DEF DataInv, DataTypes, KeyInv
<1>7. LineInv'
  BY <1>1, <1>2, <1>5 DEF DataInv, LineInv
<1>8. ReadInv'
  BY <1>1, <1>2, <1>3 DEF ReadInv, Reads, Idle
<1> QED
  BY <1>6, <1>7, <1>8 DEF DataInv

LEMMA DataFetch ==
  ASSUME DataInv, ThreadsInv, ~ hole, NEW t \in Threads, Fetch(t), ~ crossed'
  PROVE  DataInv'
<1>1. /\ at \in [Threads -> Places] /\ at[t] = "fetch" /\ at' = [at EXCEPT ![t] = "eval"]
      /\ g_getHead' = g_getHead + 1 /\ got' = Append(got, g_getBuffer[g_getHead + 1])
      /\ ~ (ui = "store" /\ g_getHead = index) /\ ~ (g_getHead >= g_getTail)
      /\ UNCHANGED <<g_getBuffer, g_getTail, g_ungetBuffer, index, kind, kept, ui>>
  BY DEF Fetch, Thread, Goto, ThreadsInv, typing
<1>2. g_ungetBuffer = <<>>
  BY <1>1 DEF DataInv, ReadInv, Reads
<1>3. \A s \in Threads \ {t} : at[s] \in Idle /\ at'[s] \in Idle
  BY <1>1, Alone DEF Idle
<1>4. ~ InTail /\ ~ InTail'
  BY <1>1, <1>3 DEF InTail, Idle
<1> DEFINE last == IF ui = "store" THEN index ELSE g_getTail
<1>5. PICK h \in -1 .. MaxKeys, n \in Int, b \in [0 .. MaxKeys -> Nat] :
        h = g_getHead /\ n = Waiting /\ b = g_getBuffer
  BY DEF DataInv, DataTypes, LineInv
<1>6. n = last - h /\ Waiting' = last - (h + 1) /\ n \in Nat
  BY <1>1, <1>4, <1>5 DEF Waiting, DataInv, LineInv
<1>7. last \in Int /\ last <= g_getTail /\ h < last /\ g_getTail <= MaxKeys - 1
      /\ g_getTail \in Int
  <2>1. /\ index \in Int /\ g_getTail \in -1 .. Len(kind) - 1 /\ Len(kind) <= MaxKeys
        /\ Len(kind) \in Nat /\ (ui = "store" => index + 1 = g_getTail)
    BY DEF DataInv, DataTypes, KeyInv
  <2> QED
    BY <1>1, <1>5, <1>6, <2>1, BoundsFact
<1> HIDE DEF last
<1>8. n \in Nat \ {0} /\ Waiting' = n - 1 /\ h + 1 \in 0 .. MaxKeys /\ h \in Int
  BY <1>5, <1>6, <1>7, BoundsFact
<1>9. b[h + 1] \in Nat /\ got \in Seq(Nat)
  BY <1>5, <1>8 DEF DataInv, DataTypes
<1>10. got' \in Seq(Nat) /\ got' = Append(got, b[h + 1])
  BY <1>1, <1>5, <1>9, AppendFact
<1>11. DataTypes' /\ KeyInv'
  BY <1>1, <1>5, <1>8, <1>10, BoundsFact DEF DataInv, DataTypes, KeyInv
<1>12. ASSUME NEW k, Layout(k, got, g_ungetBuffer, g_getBuffer, g_getHead, Waiting)
       PROVE  Layout(k, got', g_ungetBuffer', g_getBuffer', g_getHead', Waiting')
  <2>1. Layout(k, got, <<>>, b, h, n)
    BY <1>2, <1>5, <1>12
  <2>2. Layout(k, Append(got, b[h + 1]), <<>>, b, h + 1, n - 1)
    BY <1>8, <1>9, <2>1, LayoutFetch
  <2> QED
    BY <1>1, <1>2, <1>5, <1>8, <1>10, <2>2
<1>13. LineInv'
  BY <1>1, <1>8, <1>12 DEF DataInv, LineInv
<1>14. ReadInv'
  BY <1>1, <1>3 DEF ReadInv, Reads, Idle
<1> QED
  BY <1>11, <1>13, <1>14 DEF DataInv

\* What is put back and got again changes neither indices nor line.
LEMMA DataPutBack ==
  ASSUME DataInv, ThreadsInv, ~ hole, NEW t \in Threads, Reget(t) \/ UngetC(t)
  PROVE  DataInv'
<1>1. /\ at \in [Threads -> Places] /\ at[t] = "eval" /\ at' = [at EXCEPT ![t] = "eval"]
      /\ UNCHANGED <<g_getBuffer, g_getTail, g_getHead, index, kind, kept, ui>>
  BY DEF Reget, UngetC, Thread, Goto, ThreadsInv, typing
<1>2. \A s \in Threads : at'[s] = at[s] /\ at'[s] \notin Reads
  BY <1>1, Alone DEF Idle, Reads
<1>3. InTail' = InTail /\ Waiting' = Waiting
  BY <1>1, <1>2 DEF InTail, Waiting
<1>4. /\ got \in Seq(Nat) /\ g_ungetBuffer \in Seq(Nat) /\ g_getHead \in Int
      /\ Waiting \in Nat
  BY DEF DataInv, DataTypes, LineInv
<1>5. /\ got' \in Seq(Nat) /\ g_ungetBuffer' \in Seq(Nat)
      /\ \A k : Layout(k, got, g_ungetBuffer, g_getBuffer, g_getHead, Waiting)
                => Layout(k, got', g_ungetBuffer', g_getBuffer, g_getHead, Waiting)
  <2>1. CASE Reget(t)
    <3>1. /\ g_ungetBuffer # <<>> /\ got' = Append(got, g_ungetBuffer[Len(g_ungetBuffer)])
          /\ g_ungetBuffer' = Front(g_ungetBuffer)
      BY <2>1 DEF Reget
    <3>2. got' \in Seq(Nat) /\ g_ungetBuffer' \in Seq(Nat)
      BY <1>4, <3>1, AppendFact, FrontFact
    <3> QED
      BY <1>4, <3>1, <3>2, LayoutReget
  <2>2. CASE UngetC(t)
    <3>1. /\ got # <<>> /\ g_ungetBuffer' = Append(g_ungetBuffer, got[Len(got)])
          /\ got' = Front(got)
      BY <2>2 DEF UngetC
    <3>2. got' \in Seq(Nat) /\ g_ungetBuffer' \in Seq(Nat)
      BY <1>4, <3>1, AppendFact, FrontFact
    <3> QED
      BY <1>4, <3>1, <3>2, LayoutUnget
  <2> QED
    BY <2>1, <2>2
<1>6. DataTypes' /\ KeyInv'
  BY <1>1, <1>5 DEF DataInv, DataTypes, KeyInv
<1>7. LineInv'
  BY <1>1, <1>3, <1>5 DEF DataInv, LineInv
<1>8. ReadInv'
  BY <1>2 DEF ReadInv, Reads
<1> QED
  BY <1>6, <1>7, <1>8 DEF DataInv

\* A key is dispatched, and ListenerOnChar reads the tail.
LEMMA DataKey ==
  ASSUME DataInv, (\E k \in {"char", "cr", "bs"} : OnChar(k)) \/ LoadTail
  PROVE  DataInv'
<1>1. /\ UNCHANGED <<g_getBuffer, g_getTail, g_getHead, g_ungetBuffer, got, kept, at>>
      /\ ui \in {"idle", "load"} /\ ui' \in {"load", "bump", "erase", "idle"}
  BY DEF OnChar, LoadTail, Step
<1>2. InTail' = InTail /\ Waiting' = Waiting
  BY <1>1 DEF InTail, Waiting
<1>3. DataTypes' /\ KeyInv'
  <2>1. Len(kind) \in Nat /\ g_getTail \in -1 .. Len(kind) - 1
        /\ kind \in Seq({"char", "cr", "bs"})
    BY DEF DataInv, DataTypes
  <2>2. ASSUME NEW k \in {"char", "cr", "bs"}, OnChar(k)
        PROVE  DataTypes' /\ KeyInv'
    <3>1. /\ kind' = Append(kind, k) /\ Len(kind) < MaxKeys /\ ui' = "load" /\ index' = index
      BY <2>2 DEF OnChar, Step
    <3>2. /\ kind' \in Seq({"char", "cr", "bs"}) /\ Len(kind') = Len(kind) + 1
      BY <2>1, <3>1
    <3> QED
      BY <1>1, <2>1, <3>1, <3>2, BoundsFact DEF DataInv, DataTypes, KeyInv
  <2>3. CASE LoadTail
    <3>1. /\ ui = "load" /\ UNCHANGED kind /\ index' = g_getTail /\ ui' # "load" /\ ui' # "store"
          /\ ui' = "erase" => g_getTail # -1
      BY <2>3 DEF LoadTail, Step, Empty
    <3> QED
      BY <1>1, <2>1, <3>1 DEF DataInv, DataTypes, KeyInv
  <2> QED
    BY <2>2, <2>3
<1>4. LineInv'
  BY <1>1, <1>2 DEF DataInv, LineInv
<1>5. ReadInv'
  BY <1>1 DEF DataInv, ReadInv, Reads
<1> QED
  BY <1>3, <1>4, <1>5 DEF DataInv

LEMMA DataErase ==
  ASSUME DataInv, EraseTail, ~ crossed'
  PROVE  DataInv'
<1>1. /\ ui = "erase" /\ ui' = "idle" /\ g_getTail' = index - 1 /\ index' = -1
      /\ ~ InReset /\ ~ (g_getHead >= index) /\ index = g_getTail /\ index >= 0
      /\ kept' = IF kept = <<>> THEN kept ELSE Front(kept)
      /\ UNCHANGED <<g_getBuffer, g_getHead, g_ungetBuffer, got, kind, at>>
  BY DEF EraseTail, Step, DataInv, KeyInv, Empty
<1>2. ~ InTail /\ ~ InTail'
  BY <1>1 DEF InTail, InReset
<1>3. /\ g_getTail \in -1 .. Len(kind) - 1 /\ g_getHead \in Int /\ Len(kind) \in Nat
      /\ kept \in Seq(Nat) /\ got \in Seq(Nat) /\ g_ungetBuffer \in Seq(Nat)
  BY DEF DataInv, DataTypes
<1>4. PICK n \in Int : n = Waiting
  BY DEF DataInv, LineInv
<1>5. n = g_getTail - g_getHead /\ n \in Nat \ {0} /\ Waiting' = n - 1
  BY <1>1, <1>2, <1>3, <1>4 DEF Waiting
<1>6. Layout(kept, got, g_ungetBuffer, g_getBuffer, g_getHead, n)
  BY <1>1, <1>4 DEF DataInv, LineInv
<1>7. kept # <<>> /\ Layout(Front(kept), got, g_ungetBuffer, g_getBuffer, g_getHead, n - 1)
  <2>1. n \in Nat \ {0}
    BY <1>5
  <2> QED
    BY <1>3, <1>6, <2>1, LayoutErase
<1>8. kept' = Front(kept) /\ kept' \in Seq(Nat)
  BY <1>1, <1>3, <1>7, FrontFact
<1>9. DataTypes' /\ KeyInv'
  BY <1>1, <1>3, <1>8 DEF DataInv, DataTypes, KeyInv
<1>10. LineInv'
  BY <1>1, <1>5, <1>7, <1>8 DEF LineInv
<1>11. ReadInv'
  BY <1>1, <1>2 DEF DataInv, ReadInv, Reads, InReset
<1> QED
  BY <1>9, <1>10, <1>11 DEF DataInv

LEMMA DataBump ==
  ASSUME DataInv, BumpTail, ~ crossed'
  PROVE  DataInv'
<1>1. /\ ui = "bump" /\ ui' = "store" /\ g_getTail' = index + 1 /\ index = g_getTail
      /\ ~ InReset /\ kept' = Append(kept, Len(kind)) /\ g_getTail <= Len(kind) - 2
      /\ UNCHANGED <<g_getBuffer, g_getHead, g_ungetBuffer, got, kind, at, index>>
  BY DEF BumpTail, Step, DataInv, KeyInv
<1>2. ~ InTail /\ ~ InTail'
  BY <1>1 DEF InTail, InReset
<1>3. /\ g_getTail \in -1 .. Len(kind) - 1 /\ Len(kind) \in Nat /\ kept \in Seq(Nat)
  BY DEF DataInv, DataTypes
<1>4. Waiting' = Waiting
  BY <1>1, <1>2 DEF Waiting
<1>5. PICK c \in Nat : c = Len(kind)
  BY <1>3
<1>6. /\ kept' \in Seq(Nat) /\ kept' # <<>> /\ kept'[Len(kept')] = c /\ Front(kept') = kept
  <2>1. kept' = Append(kept, c)
    BY <1>1, <1>5
  <2>2. Append(kept, c) \in Seq(Nat)
    BY <1>3, AppendFact
  <2> QED
    BY <1>3, <2>1, <2>2, AppendFront
<1>7. DataTypes' /\ KeyInv'
  BY <1>1, <1>3, <1>6 DEF DataInv, DataTypes, KeyInv
<1>8. LineInv'
  BY <1>1, <1>4, <1>5, <1>6 DEF DataInv, LineInv
<1>9. ReadInv'
  BY <1>1 DEF DataInv, ReadInv, Reads, InReset
<1> QED
  BY <1>7, <1>8, <1>9 DEF DataInv

LEMMA DataStore ==
  ASSUME DataInv, Store
  PROVE  DataInv'
<1>1. /\ ui = "store" /\ ui' \in {"pulse", "idle"} /\ index + 1 = g_getTail /\ index' = -1
      /\ g_getBuffer' = [g_getBuffer EXCEPT ![index + 1] = Len(kind)]
      /\ UNCHANGED <<g_getTail, g_getHead, g_ungetBuffer, got, kind, kept, at>>
  BY DEF Store, Step, DataInv, KeyInv, Empty
<1>2. ~ InTail /\ ~ InTail'
  BY <1>1 DEF InTail, DataInv, ReadInv
<1>3. /\ g_getTail \in -1 .. Len(kind) - 1 /\ Len(kind) \in Nat /\ Len(kind) <= MaxKeys
      /\ g_getHead \in -1 .. MaxKeys /\ index \in Int
      /\ kept \in Seq(Nat) /\ got \in Seq(Nat) /\ g_ungetBuffer \in Seq(Nat)
      /\ g_getBuffer \in [0 .. MaxKeys -> Nat]
  BY DEF DataInv, DataTypes
<1>4. PICK n \in Nat, h \in -1 .. MaxKeys, c \in Nat :
        n = Waiting /\ h = g_getHead /\ c = Len(kind)
  BY <1>3 DEF DataInv, LineInv
<1>5. n = index - h /\ Waiting' = n + 1 /\ h + n + 1 = index + 1
  BY <1>1, <1>2, <1>3, <1>4 DEF Waiting
<1>6. h + n + 1 \in 0 .. MaxKeys /\ \A i \in 1 .. n : h + i \in 0 .. MaxKeys
  BY <1>1, <1>3, <1>4, <1>5, BoundsFact
<1>7. /\ kept # <<>> /\ kept[Len(kept)] = c
      /\ Layout(Front(kept), got, g_ungetBuffer, g_getBuffer, h, n)
  BY <1>1, <1>4 DEF DataInv, LineInv
<1>8. Front(kept) \in Seq(Nat) /\ kept = Append(Front(kept), c)
  BY <1>3, <1>7, FrontFact, FrontAppend
<1>9. Layout(kept, got, g_ungetBuffer, g_getBuffer', h, n + 1)
  <2> DEFINE f == Front(kept)
  <2>1. f \in Seq(Nat) /\ Layout(f, got, g_ungetBuffer, g_getBuffer, h, n) /\ h \in Int
    BY <1>7, <1>8
  <2> HIDE DEF f
  <2>2. Layout(Append(f, c), got, g_ungetBuffer,
               [g_getBuffer EXCEPT ![h + n + 1] = c], h, n + 1)
    BY <1>3, <1>4, <1>6, <2>1, LayoutStore
  <2>3. kept = Append(f, c) /\ g_getBuffer' = [g_getBuffer EXCEPT ![h + n + 1] = c]
    BY <1>1, <1>4, <1>5, <1>8 DEF f
  <2> QED
    BY <2>2, <2>3
<1>10. DataTypes' /\ KeyInv'
  <2>1. g_getBuffer' \in [0 .. MaxKeys -> Nat]
    BY <1>1, <1>3
  <2> QED
    BY <1>1, <1>3, <2>1 DEF DataTypes, KeyInv, DataInv
<1>11. LineInv'
  BY <1>1, <1>4, <1>5, <1>9 DEF LineInv
<1>12. ReadInv'
  BY <1>1 DEF DataInv, ReadInv, Reads
<1> QED
  BY <1>10, <1>11, <1>12 DEF DataInv

\* What has crossed has crossed.
LEMMA CleanStep ==
  [Next]_vars /\ Uncrossed' => Uncrossed
<1> SUFFICES ASSUME [Next]_vars, ~ crossed', ~ hole' PROVE ~ crossed /\ ~ hole
  BY DEF Uncrossed
<1>1. CASE UNCHANGED vars
  BY <1>1 DEF vars, buffers
<1>2. CASE Fresh
  <2>1. crossed' = crossed /\ (hole' = (hole \/ (g_hSiodReplThread = 0 /\ Active # {})))
    BY <1>2 DEF Fresh, buffers
  <2> QED
    BY <2>1, Zenon
<1>3. CASE Ui
  <2>1. CASE UiCreate \/ UiAssign \/ FreshQuit \/ FreshNeed \/ UiPulse \/ LoadTail \/ Store
    <3>1. hole' = hole /\ crossed' = crossed
      BY <2>1 DEF UiCreate, UiAssign, FreshQuit, FreshNeed, UiPulse, LoadTail, Store, buffers
    <3> QED
      BY <3>1
  <2>2. CASE EraseTail
    <3>1. hole' = hole /\ crossed' = (crossed \/ InReset \/ g_getHead >= index)
      BY <2>2 DEF EraseTail
    <3> QED
      BY <3>1, Zenon
  <2>3. CASE BumpTail
    <3>1. hole' = hole /\ crossed' = (crossed \/ InReset)
      BY <2>3 DEF BumpTail
    <3> QED
      BY <3>1, Zenon
  <2> QED
    BY <1>3, <2>1, <2>2, <2>3 DEF Ui
<1>4. CASE \E k \in {"char", "cr", "bs"} : OnChar(k)
  BY <1>4 DEF OnChar
<1>5. ASSUME NEW t \in Threads, Siod(t)
      PROVE  ~ crossed /\ ~ hole
  <2>1. CASE ResetTail(t)
    <3>1. hole' = hole /\ crossed' = (crossed \/ ui \in {"bump", "erase"})
      BY <2>1 DEF ResetTail
    <3> QED
      BY <3>1, Zenon
  <2>2. CASE Fetch(t)
    <3>1. hole' = hole /\ crossed' = (crossed \/ (ui = "store" /\ g_getHead = index)
                                               \/ g_getHead >= g_getTail)
      BY <2>2 DEF Fetch
    <3> QED
      BY <3>1, Zenon
  <2>3. CASE \/ Reget(t) \/ GetC(t) \/ ResetHead(t) \/ Wait(t) \/ Check(t) \/ Unset(t)
             \/ UngetC(t) \/ Quit(t) \/ Close(t) \/ TestNeeded(t) \/ ClearNeeded(t)
             \/ Create(t) \/ Assign(t)
    <3>1. hole' = hole /\ crossed' = crossed
      BY <2>3 DEF Reget, GetC, ResetHead, Wait, Check, Unset, UngetC, Quit, Close, TestNeeded,
                  ClearNeeded, Create, Assign, buffers
    <3> QED
      BY <3>1
  <2> QED
    BY <1>5, <2>1, <2>2, <2>3 DEF Siod
<1> QED
  BY <1>1, <1>2, <1>3, <1>4, <1>5 DEF Next

LEMMA DataStep ==
  ThreadsInv /\ (Uncrossed => DataInv) /\ [Next]_vars => (Uncrossed' => DataInv')
<1> SUFFICES ASSUME ThreadsInv, DataInv, [Next]_vars, ~ crossed, ~ hole, ~ crossed', ~ hole'
             PROVE  DataInv'
  BY CleanStep DEF Uncrossed
<1>0. at \in [Threads -> Places]
  BY DEF ThreadsInv
<1>1. CASE UiCreate \/ UiAssign \/ FreshQuit \/ FreshNeed \/ Fresh
  <2>1. UNCHANGED <<g_getBuffer, g_getTail, g_getHead, g_ungetBuffer, got, typing>>
    BY <1>1 DEF UiCreate, UiAssign, FreshQuit, FreshNeed, Fresh, buffers
  <2>2. {ui, ui'} \intersect {"load", "erase", "bump", "store"} = {}
    BY <1>1 DEF UiCreate, UiAssign, FreshQuit, FreshNeed, Fresh, Step
  <2>3. \A s \in Threads : at'[s] = at[s] \/ (at[s] # "tail" /\ at'[s] \notin Reads)
    <3>1. CASE UiCreate
      <4>1. \A s \in Threads : at[s] \in Idle
        BY <3>1 DEF UiCreate, Step, ThreadsInv
      <4>2. \A s \in Threads : at'[s] = at[s] \/ at'[s] \in {"eval", "assign"}
        BY <3>1 DEF UiCreate, Spawn
      <4> QED
        BY <4>1, <4>2 DEF Idle, Reads
    <3> QED
      BY <1>1, <3>1 DEF UiAssign, FreshQuit, FreshNeed, Fresh
  <2>4. \A s \in Threads : at'[s] \in {"head", "tail"} => at'[s] \in Reads
    BY DEF Reads
  <2> QED
    BY <2>1, <2>2, <2>3, <2>4, DataOther
<1>2. CASE UiPulse
  <2>1. /\ UNCHANGED <<g_getBuffer, g_getTail, g_getHead, g_ungetBuffer, got, typing>>
        /\ {ui, ui'} \intersect {"load", "erase", "bump", "store"} = {}
    BY <1>2 DEF UiPulse, Step, buffers
  <2>2. \A t \in Threads : at'[t] = at[t] \/ (at[t] = "wait" /\ at'[t] = "check")
    BY <1>0, <1>2 DEF UiPulse, Pulse, Goto
  <2> QED
    BY <2>1, <2>2, DataOther DEF Reads
<1>3. CASE LoadTail \/ \E k \in {"char", "cr", "bs"} : OnChar(k)
  BY <1>3, DataKey
<1>4. CASE EraseTail \/ BumpTail \/ Store
  BY <1>4, DataErase, DataBump, DataStore
<1>5. ASSUME NEW t \in Threads, Siod(t)
      PROVE  DataInv'
  <2>1. CASE Reget(t) \/ UngetC(t)
    BY <2>1, DataPutBack
  <2>2. CASE GetC(t) \/ ResetHead(t) \/ ResetTail(t) \/ Fetch(t)
    BY <2>2, DataGetC, DataResetHead, DataResetTail, DataFetch
  <2>3. CASE Wait(t) \/ Check(t)
    <3>1. UNCHANGED <<g_getBuffer, g_getTail, g_getHead, g_ungetBuffer, got, typing, ui>>
      BY <2>3 DEF Wait, Check, buffers
    <3>2. /\ at[t] \in {"enter", "check"}
          /\ \E to \in {"wait", "unset", "fetch"} : at' = [at EXCEPT ![t] = to]
      BY <2>3 DEF Wait, Check, Thread, Goto
    <3>3. \A s \in Threads : at'[s] = at[s]
            \/ (at[s] \in {"enter", "check"} /\ at'[s] \in {"wait", "unset", "fetch"})
      BY <1>0, <3>2
    <3> QED
      BY <3>1, <3>3, DataOther DEF Reads
  <2>4. CASE Unset(t) \/ Quit(t) \/ Close(t) \/ TestNeeded(t) \/ ClearNeeded(t) \/ Assign(t)
    <3>1. UNCHANGED <<g_getBuffer, g_getTail, g_getHead, g_ungetBuffer, got, typing, ui>>
      BY <2>4 DEF Unset, Quit, Close, TestNeeded, ClearNeeded, Assign, buffers
    <3>2. /\ at[t] # "tail"
          /\ \E to \in {"close", "test", "clear", "create", "ended"} : at' = [at EXCEPT ![t] = to]
      BY <2>4 DEF Unset, Quit, Close, TestNeeded, ClearNeeded, Assign, Thread, Goto
    <3>3. \A s \in Threads : at'[s] = at[s] \/ (at[s] # "tail" /\ at'[s] \notin Reads)
      BY <1>0, <3>2 DEF Reads
    <3>4. \A s \in Threads : at'[s] \in {"head", "tail"} => at'[s] \in Reads
      BY DEF Reads
    <3> QED
      BY <3>1, <3>3, <3>4, DataOther
  <2>5. CASE Create(t)
    <3>1. UNCHANGED <<g_getBuffer, g_getTail, g_getHead, g_ungetBuffer, got, typing, ui>>
      BY <2>5 DEF Create, buffers
    <3>2. \A s \in Threads : at[s] # "tail"
      BY <2>5, Alone DEF Create, Idle
    <3>3. \A s \in Threads : at'[s] = at[s] \/ at'[s] \in {"eval", "assign"}
      BY <2>5 DEF Create, Spawn
    <3> QED
      BY <3>1, <3>2, <3>3, DataOther DEF Reads
  <2> QED
    BY <1>5, <2>1, <2>2, <2>3, <2>4, <2>5 DEF Siod
<1>6. CASE UNCHANGED vars
  BY <1>6, DataOther DEF vars, buffers
<1> QED
  BY <1>1, <1>2, <1>3, <1>4, <1>5, <1>6 DEF Next, Ui


-----------------------------------------------------------------------------
\* The elements of a concatenation.
LEMMA ConcatFact ==
  \A s, t \in Seq(Nat) :
    /\ s \o t \in Seq(Nat) /\ Len(s \o t) = Len(s) + Len(t)
    /\ \A i \in 1 .. Len(s) : (s \o t)[i] = s[i]
    /\ \A i \in Len(s) + 1 .. Len(s) + Len(t) : (s \o t)[i] = t[i - Len(s)]
OBVIOUS

Backwards(u)  == [i \in DOMAIN u |-> u[Len(u) + 1 - i]]
From(b, h, n) == [i \in 1 .. n |-> b[h + i]]

\* In a resting state what was read, the characters put back and those of the
\* line make up what was kept.
LEMMA LayoutExact ==
  ASSUME NEW k \in Seq(Nat), NEW g \in Seq(Nat), NEW u \in Seq(Nat),
         NEW b, NEW h \in Int, NEW n \in Nat,
         From(b, h, n) \in Seq(Nat), Layout(k, g, u, b, h, n)
  PROVE  g \o Backwards(u) \o From(b, h, n) = k
<1> DEFINE r == Backwards(u)
<1> DEFINE l == From(b, h, n)
<1> DEFINE m == Len(g)
           w == Len(g) + Len(u)
           p == g \o r
           q == p \o l
<1>1. /\ m \in Nat /\ w \in Nat /\ w >= m /\ Len(u) = w - m /\ Len(u) \in Nat
      /\ DOMAIN u = 1 .. Len(u)
  OBVIOUS
<1>2. /\ r \in Seq(Nat) /\ Len(r) = w - m
      /\ \A i \in 1 .. w - m : r[i] = u[w - m + 1 - i]
  <2>1. \A i \in 1 .. Len(u) : Len(u) + 1 - i \in 1 .. Len(u)
    BY <1>1
  <2>2. r \in [1 .. Len(u) -> Nat]
    BY <1>1, <2>1 DEF Backwards
  <2> QED
    BY <1>1, <2>2 DEF Backwards
<1>3. l \in Seq(Nat) /\ Len(l) = n /\ \A i \in 1 .. n : l[i] = b[h + i]
  BY DEF From
<1> HIDE DEF r, l
<1>4. /\ Len(k) = w + n /\ \A i \in 1 .. m : k[i] = g[i]
      /\ \A i \in m + 1 .. w : k[i] = u[w + 1 - i]
      /\ \A i \in w + 1 .. w + n : k[i] = b[h + i - w]
  BY DEF Layout
<1>5. /\ p \in Seq(Nat) /\ Len(p) = w
      /\ \A i \in 1 .. m : p[i] = g[i]
      /\ \A i \in m + 1 .. w : p[i] = r[i - m]
  <2>1. Len(g) = m /\ Len(g) + Len(r) = w
    BY <1>1, <1>2
  <2>2. /\ g \o r \in Seq(Nat) /\ Len(g \o r) = Len(g) + Len(r)
        /\ \A i \in 1 .. Len(g) : (g \o r)[i] = g[i]
        /\ \A i \in Len(g) + 1 .. Len(g) + Len(r) : (g \o r)[i] = r[i - Len(g)]
    BY <1>2, ConcatFact, Zenon
  <2> HIDE DEF m, w
  <2> QED
    BY ONLY <2>1, <2>2
<1> HIDE DEF p, m
<1> HIDE DEF w
<1>7. /\ q \in Seq(Nat) /\ Len(q) = w + n
      /\ \A i \in 1 .. w : q[i] = p[i]
      /\ \A i \in w + 1 .. w + n : q[i] = l[i - w]
  <2>1. Len(p) = w /\ Len(p) + Len(l) = w + n
    BY <1>1, <1>3, <1>5
  <2>2. /\ p \o l \in Seq(Nat) /\ Len(p \o l) = Len(p) + Len(l)
        /\ \A i \in 1 .. Len(p) : (p \o l)[i] = p[i]
        /\ \A i \in Len(p) + 1 .. Len(p) + Len(l) : (p \o l)[i] = l[i - Len(p)]
    BY <1>3, <1>5, ConcatFact, Zenon
  <2> QED
    BY ONLY <2>1, <2>2
<1> HIDE DEF q
<1>8. ASSUME NEW i \in 1 .. w + n
      PROVE  q[i] = k[i]
  <2>1. CASE i \in 1 .. m
    <3>1. i \in 1 .. w
      BY <1>1, <2>1
    <3> QED
      BY <1>4, <1>5, <1>7, <2>1, <3>1
  <2>2. CASE i \in m + 1 .. w
    <3>1. i - m \in 1 .. w - m /\ w - m + 1 - (i - m) = w + 1 - i /\ i \in 1 .. w
      BY <1>1, <2>2
    <3>2. q[i] = r[i - m]
      BY <1>5, <1>7, <2>2, <3>1
    <3> QED
      BY <1>2, <1>4, <2>2, <3>1, <3>2
  <2>3. CASE i \in w + 1 .. w + n
    <3>1. i - w \in 1 .. n /\ h + (i - w) = h + i - w
      BY <1>1, <2>3
    <3> QED
      BY <1>3, <1>4, <1>7, <2>3, <3>1
  <2> QED
    BY <1>1, <2>1, <2>2, <2>3
<1>9. q = k
  BY <1>4, <1>7, <1>8
<1> QED
  BY <1>9 DEF q, p, r, l

\* What the interpreters have read, then what was put back, then the rest of the
\* line, is what was typed and not erased, wherever the threads change over and
\* whichever of them runs, as long as no key and no read have crossed: the reset of
\* the indices and a change of the interpreter lose and repeat nothing.
THEOREM InputIsExact == Spec => []InputExact
<1>1. Init => (Uncrossed => DataInv)
  <2> SUFFICES ASSUME Init PROVE DataInv
    OBVIOUS
  <2>1. /\ g_getBuffer = [i \in 0 .. MaxKeys |-> 0] /\ g_getTail = -1 /\ g_getHead = -1
        /\ g_ungetBuffer = <<>> /\ ui = "create" /\ kind = <<>> /\ kept = <<>>
        /\ got = <<>> /\ Len(<<>>) = 0 /\ index = -1 /\ \A t \in Threads : at[t] = "none"
    BY DEF Init, Empty
  <2>2. DataTypes /\ KeyInv
    BY <2>1, BoundsFact DEF DataTypes, KeyInv
  <2>3. Layout(<<>>, <<>>, <<>>, g_getBuffer, -1, 0)
    BY <2>1 DEF Layout
  <2>4. Waiting = 0
    BY <2>1 DEF Waiting, InTail
  <2>5. LineInv
    BY <2>1, <2>3, <2>4 DEF LineInv
  <2>6. ReadInv
    BY <2>1 DEF ReadInv, Reads
  <2> QED
    BY <2>2, <2>5, <2>6 DEF DataInv
<1>2. (Uncrossed => DataInv) => InputExact
  <2> SUFFICES ASSUME DataInv, ui # "store", \A t \in Threads : at[t] # "tail"
               PROVE  got \o PutBack \o Typed = kept
    BY DEF InputExact
  <2>1. PICK n \in Nat, h \in -1 .. MaxKeys : n = Waiting /\ h = g_getHead
    BY DEF DataInv, DataTypes, LineInv
  <2>2. n = g_getTail - h /\ g_getTail \in Int /\ g_getTail <= MaxKeys - 1
    BY <2>1, BoundsFact DEF Waiting, InTail, DataInv, DataTypes
  <2>3. \A i \in 1 .. n : h + i \in 0 .. MaxKeys
    BY <2>1, <2>2, BoundsFact
  <2>4. \A i \in 1 .. n : g_getBuffer[h + i] \in Nat
    BY <2>3 DEF DataInv, DataTypes
  <2>5. Layout(kept, got, g_ungetBuffer, g_getBuffer, h, n)
    BY <2>1 DEF DataInv, LineInv
  <2>6. Typed = From(g_getBuffer, h, n)
    BY <2>1, <2>2 DEF Typed, From
  <2>7. kept \in Seq(Nat) /\ got \in Seq(Nat) /\ g_ungetBuffer \in Seq(Nat)
    BY DEF DataInv, DataTypes
  <2>8. From(g_getBuffer, h, n) \in Seq(Nat)
    BY <2>4 DEF From
  <2>9. PutBack = Backwards(g_ungetBuffer)
    BY DEF PutBack, Backwards
  <2>10. h \in Int /\ n \in Nat
    BY <2>1
  <2>11. got \o Backwards(g_ungetBuffer) \o From(g_getBuffer, h, n) = kept
    BY ONLY <2>5, <2>7, <2>8, <2>10, LayoutExact
  <2> QED
    BY <2>6, <2>9, <2>11
<1> QED
  BY <1>1, <1>2, DataStep, ThreadsInvariance, PTL DEF Spec
=============================================================================
