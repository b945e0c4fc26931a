---------------------------- MODULE ControlProofs ----------------------------
(***************************************************************************)
(* Proofs about Control, for any tags and any size of the stack.            *)
(***************************************************************************)
EXTENDS Control, WellFoundedInduction, TLAPS

\* Beside the chain itself: outside of a driver nothing is on the stack, only a
\* collection has errjmp_ok = 0, and when err is beyond the bound of the stack
\* its own errors go straight to the catch.
StackInv ==
  /\ phase = "host" => stack = <<>>
  /\ Running /\ Top # "gc" => errjmp_ok = 1
  /\ Len(stack) > StackSize => Top = "err" /\ inside_err = 1

IInv == TypeOK /\ CatchChain /\ NeverFatal /\ StackInv

-----------------------------------------------------------------------------
(* Stacks and chains *)

LEMMA FrameFact ==
  ASSUME NEW f \in Frame
  PROVE  /\ f.kind \in {"catch", "section", "gc", "hook", "err"}
         /\ f.kind = "catch" => f.tag \in Tags /\ f.next \in 0 .. Depth
         /\ f.kind \in {"section", "gc"} => f.flag \in 0 .. 1
         /\ f.kind = "err" => f.catch \in 1 .. Depth
  BY DEF Frame

LEMMA CutFact ==
  ASSUME NEW s \in Seq(Frame), NEW n \in 0 .. Len(s)
  PROVE  /\ SubSeq(s, 1, n) \in Seq(Frame) /\ Len(SubSeq(s, 1, n)) = n
         /\ \A a \in 1 .. n : SubSeq(s, 1, n)[a] = s[a]
         /\ DOMAIN SubSeq(s, 1, n) = 1 .. n
  OBVIOUS

LEMMA PushFact ==
  ASSUME NEW s \in Seq(Frame), NEW f \in Frame
  PROVE  /\ Append(s, f) \in Seq(Frame) /\ Len(Append(s, f)) = Len(s) + 1
         /\ \A a \in 1 .. Len(s) : Append(s, f)[a] = s[a]
         /\ Append(s, f)[Len(s) + 1] = f
         /\ DOMAIN Append(s, f) = 1 .. Len(s) + 1
         /\ Len(s) \in Nat /\ DOMAIN s = 1 .. Len(s)
         /\ Append(s, f) # <<>>
  OBVIOUS

\* A set of positions has a last one.
LEMMA LastExists ==
  ASSUME NEW n \in Nat, NEW S \in SUBSET (1 .. n), S # {}
  PROVE  \E a \in S : \A b \in S : b <= a
<1> DEFINE T == {n - a : a \in S}
<1>0. \A a \in S : a \in 1 .. n /\ n - a \in Nat
  OBVIOUS
<1>1. T \subseteq Nat
  BY <1>0
<1>2. T # {}
  OBVIOUS
<1>3. PICK x \in T : \A y \in T : ~ (<<y, x>> \in OpToRel(<, Nat))
  BY <1>1, <1>2, WFMin, NatLessThanWellFounded
<1>4. \A y \in T : ~ (y < x)
  BY <1>1, <1>3 DEF OpToRel
<1>5. PICK a \in S : x = n - a
  OBVIOUS
<1>6. ASSUME NEW b \in S
      PROVE  b <= a
  <2>1. ~ (n - b < n - a)
    BY <1>4, <1>5
  <2>2. a \in Nat /\ b \in Nat
    BY <1>0
  <2> QED
    BY <2>1, <2>2
<1> QED
  BY <1>6

\* Cutting a stack back below a catch frame: its next pointer is the new chain.
LEMMA ChainCut ==
  ASSUME NEW s \in Seq(Frame), NEW c, Chain(s, c),
         NEW l \in 1 .. Len(s), s[l].kind = "catch"
  PROVE  /\ Chain(SubSeq(s, 1, l - 1), s[l].next)
         /\ s[l].next \in 0 .. l - 1
<1> DEFINE r == SubSeq(s, 1, l - 1)
<1>1. /\ r \in Seq(Frame) /\ Len(r) = l - 1 /\ DOMAIN r = 1 .. l - 1
      /\ \A a \in 1 .. l - 1 : r[a] = s[a]
      /\ DOMAIN s = 1 .. Len(s) /\ Len(s) \in Nat
  BY CutFact
<1> HIDE DEF r
<1>2. Innermost(s, l - 1, s[l].next)
  BY <1>1 DEF Chain
<1>3. Innermost(r, Len(r), s[l].next)
  BY <1>1, <1>2 DEF Innermost
<1>4. ASSUME NEW a \in DOMAIN r, r[a].kind = "catch"
      PROVE  Innermost(r, a - 1, r[a].next)
  <2>1. Innermost(s, a - 1, s[a].next)
    BY <1>1, <1>4 DEF Chain
  <2> QED
    BY <1>1, <2>1 DEF Innermost
<1>5. ASSUME NEW a \in DOMAIN r, r[a].kind = "err"
      PROVE  r[a].catch \in 1 .. a - 1 /\ r[r[a].catch].kind = "catch"
  BY <1>1, <1>5 DEF Chain
<1>6. s[l].next \in 0 .. l - 1
  BY <1>1, <1>2 DEF Innermost
<1> QED
  BY <1>3, <1>4, <1>5, <1>6 DEF Chain, r

\* The other activations come and go without a change to the chain.
LEMMA ChainPop ==
  ASSUME NEW s \in Seq(Frame), NEW c, Chain(s, c),
         s # <<>>, s[Len(s)].kind # "catch"
  PROVE  Chain(SubSeq(s, 1, Len(s) - 1), c)
<1> DEFINE r == SubSeq(s, 1, Len(s) - 1)
<1>0. Len(s) \in Nat \ {0} /\ DOMAIN s = 1 .. Len(s)
  OBVIOUS
<1>1. /\ r \in Seq(Frame) /\ Len(r) = Len(s) - 1 /\ DOMAIN r = 1 .. Len(s) - 1
      /\ \A a \in 1 .. Len(s) - 1 : r[a] = s[a]
  BY <1>0, CutFact
<1> HIDE DEF r
<1>2. Innermost(s, Len(s), c)
  BY DEF Chain
<1>3. Innermost(r, Len(r), c)
  BY <1>0, <1>1, <1>2 DEF Innermost
<1>4. ASSUME NEW a \in DOMAIN r, r[a].kind = "catch"
      PROVE  Innermost(r, a - 1, r[a].next)
  <2>1. Innermost(s, a - 1, s[a].next)
    BY <1>0, <1>1, <1>4 DEF Chain
  <2> QED
    BY <1>0, <1>1, <2>1 DEF Innermost
<1>5. ASSUME NEW a \in DOMAIN r, r[a].kind = "err"
      PROVE  r[a].catch \in 1 .. a - 1 /\ r[r[a].catch].kind = "catch"
  BY <1>0, <1>1, <1>5 DEF Chain
<1> QED
  BY <1>3, <1>4, <1>5 DEF Chain, r

LEMMA ChainPush ==
  ASSUME NEW s \in Seq(Frame), NEW c, Chain(s, c), NEW f \in Frame, NEW d,
         \/ f.kind \in {"section", "gc", "hook"} /\ d = c
         \/ /\ f.kind = "err" /\ d = c
            /\ f.catch \in 1 .. Len(s) /\ s[f.catch].kind = "catch"
         \/ f.kind = "catch" /\ f.next = c /\ d = Len(s) + 1
  PROVE  Chain(Append(s, f), d)
<1> DEFINE r == Append(s, f)
<1>1. /\ r \in Seq(Frame) /\ Len(r) = Len(s) + 1 /\ DOMAIN r = 1 .. Len(s) + 1
      /\ \A a \in 1 .. Len(s) : r[a] = s[a]
      /\ r[Len(s) + 1] = f
      /\ Len(s) \in Nat /\ DOMAIN s = 1 .. Len(s)
  BY PushFact
<1> HIDE DEF r
<1>2. Innermost(s, Len(s), c)
  BY DEF Chain
<1>3. Innermost(r, Len(s), c)
  BY <1>1, <1>2 DEF Innermost
<1>4. Innermost(r, Len(r), d)
  BY <1>1, <1>3 DEF Innermost
<1>5. ASSUME NEW a \in DOMAIN r, r[a].kind = "catch"
      PROVE  Innermost(r, a - 1, r[a].next)
  <2>1. CASE a = Len(s) + 1
    BY <1>1, <1>3, <1>5, <2>1
  <2>2. CASE a \in 1 .. Len(s)
    <3>1. Innermost(s, a - 1, s[a].next)
      BY <1>1, <1>5, <2>2 DEF Chain
    <3> QED
      BY <1>1, <2>2, <3>1 DEF Innermost
  <2> QED
    BY <1>1, <2>1, <2>2
<1>6. ASSUME NEW a \in DOMAIN r, r[a].kind = "err"
      PROVE  r[a].catch \in 1 .. a - 1 /\ r[r[a].catch].kind = "catch"
  <2>1. CASE a = Len(s) + 1
    BY <1>1, <1>6, <2>1
  <2>2. CASE a \in 1 .. Len(s)
    BY <1>1, <1>6, <2>2 DEF Chain
  <2> QED
    BY <1>1, <2>1, <2>2
<1> QED
  BY <1>4, <1>5, <1>6 DEF Chain, r

\* A walk along the chain ends at a catch frame on the stack or at NULL.
LEMMA MatchFact ==
  ASSUME NEW s \in Seq(Frame), Chain(s, catch_framep), NEW tags
  PROVE  \/ Match(s, tags) = 0
         \/ Match(s, tags) \in 1 .. Len(s) /\ s[Match(s, tags)].kind = "catch"
<1> DEFINE C == {a \in DOMAIN s : s[a].kind = "catch"}
           found == {a \in OnChain(s) : s[a].tag \in tags}
<1>0. DOMAIN s = 1 .. Len(s) /\ Len(s) \in Nat
  OBVIOUS
<1>1. catch_framep \in C \union {0}
  BY <1>0 DEF Chain, Innermost
<1>2. \A b \in C : s[b].next \in C \union {0}
  <2> SUFFICES ASSUME NEW b \in C
               PROVE  s[b].next \in C \union {0}
    OBVIOUS
  <2>1. Innermost(s, b - 1, s[b].next)
    BY DEF Chain
  <2> QED
    BY <1>0, <2>1 DEF Innermost
<1>3. OnChain(s) \subseteq C
  BY <1>1, <1>2 DEF OnChain
<1>4. found \in SUBSET (1 .. Len(s)) /\ \A a \in found : s[a].kind = "catch"
  BY <1>0, <1>3
<1> HIDE DEF found, C
<1>5. CASE found = {}
  BY <1>5 DEF Match, found
<1>6. CASE found # {}
  <2>1. \E a \in found : \A b \in found : b <= a
    BY <1>0, <1>4, <1>6, LastExists
  <2>2. Match(s, tags) \in found
    BY <1>6, <2>1 DEF Match, found
  <2> QED
    BY <1>4, <2>2
<1> QED
  BY <1>5, <1>6

-----------------------------------------------------------------------------
(* Every step keeps IInv *)

LEMMA SizesFact == Depth = StackSize + 1 /\ Depth \in Nat /\ StackSize \in Nat
  BY StackAssumption DEF Depth

\* longjmp to a catch frame of s.
LEMMA LandFact ==
  ASSUME TypeOK, NEW s \in Seq(Frame), Len(s) <= Depth, Chain(s, catch_framep),
         NEW l \in 1 .. Len(s), s[l].kind = "catch", NEW v, Land(s, l, v)
  PROVE  /\ stack' \in Seq(Frame) /\ Len(stack') <= StackSize
         /\ catch_framep' \in 0 .. Depth
         /\ Chain(stack', catch_framep')
<1>1. l - 1 \in 0 .. Len(s) /\ l - 1 <= StackSize /\ Len(s) \in Nat
  BY SizesFact
<1>2. /\ SubSeq(s, 1, l - 1) \in Seq(Frame) /\ Len(SubSeq(s, 1, l - 1)) = l - 1
  BY <1>1, CutFact
<1>3. s[l].next \in 0 .. l - 1 /\ Chain(SubSeq(s, 1, l - 1), s[l].next)
  BY ChainCut
<1> QED
  BY <1>1, <1>2, <1>3, SizesFact DEF Land

\* err, wherever it is called, with errjmp_ok = 1.
LEMMA ErrFact ==
  ASSUME IInv, Running, NEW s \in Seq(Frame), Len(s) <= Depth,
         Chain(s, catch_framep), Len(s) > StackSize => inside_err = 1,
         NEW m, NEW d \in 0 .. 1, Err(s, m, 1, d)
  PROVE  IInv'
<1> DEFINE l == Match(s, {errobj, all})
<1>0. TypeOK /\ errjmp_ok' = 1 /\ UNCHANGED <<mode, arg, flag>> /\ Len(s) \in Nat
  BY DEF IInv, Err
<1>1. l = 0 \/ (l \in 1 .. Len(s) /\ s[l].kind = "catch")
  BY MatchFact
<1> HIDE DEF l
<1>2. CASE l = 0 /\ Abort(m, d)
  <2>1. Chain(<<>>, 0)
    BY DEF Chain, Innermost
  <2>2. stack' \in Seq(Frame) /\ Len(stack') = 0
    BY <1>2 DEF Abort
  <2>3. TypeOK'
    <3>1. failed' \in Phases \union {"none"} /\ escaped' \in BOOLEAN
      BY <1>0, <1>2, Zenon DEF TypeOK, Abort
    <3>2. /\ phase' \in {"host", "prompt"} /\ rv' \in {0, 2}
          /\ catch_framep' \in 0 .. Depth
      BY <1>0, <1>2, SizesFact DEF TypeOK, Abort
    <3>3. {nointerrupt', interrupt_differed', inside_err'} \subseteq 0 .. 1
      BY <1>0, <1>2 DEF TypeOK, Abort
    <3>4. raised' = "error" /\ value' = "none"
      BY <1>2 DEF Abort
    <3> QED
      BY <1>0, <2>2, <3>1, <3>2, <3>3, <3>4, SizesFact DEF TypeOK, Phases
  <2>4. CatchChain' /\ NeverFatal' /\ StackInv'
    BY <1>0, <1>2, <2>1, <2>2, SizesFact
    DEF CatchChain, NeverFatal, StackInv, Abort, Running
  <2> QED
    BY <2>3, <2>4 DEF IInv
<1>3. CASE /\ l # 0 /\ Land(s, l, IF m = "own" THEN "pair" ELSE "nil")
           /\ nointerrupt' = 0 /\ inside_err' = 0 /\ interrupt_differed' = d
           /\ raised' = "error" /\ escaped' = Settled(stack')
           /\ UNCHANGED <<phase, failed, rv>>
  <2>1. /\ stack' \in Seq(Frame) /\ Len(stack') <= StackSize
        /\ catch_framep' \in 0 .. Depth
        /\ Chain(stack', catch_framep')
    BY <1>0, <1>1, <1>3, LandFact
  <2>2. value' \in {"pair", "nil"} /\ escaped' \in BOOLEAN
    BY <1>0, <1>3 DEF Land, Settled, TypeOK
  <2>3. TypeOK'
    BY <1>0, <1>3, <2>1, <2>2, SizesFact DEF TypeOK
  <2>4. CatchChain' /\ NeverFatal' /\ StackInv'
    BY <1>0, <1>3, <2>1, SizesFact
    DEF CatchChain, NeverFatal, StackInv, Running
  <2> QED
    BY <2>3, <2>4 DEF IInv
<1>4. CASE /\ l # 0 /\ ~ WasInside
           /\ stack' = Append(s, ErrFrame(l))
           /\ nointerrupt' = 1 /\ inside_err' = 1 /\ interrupt_differed' = d
           /\ raised' = "none" /\ value' = "none"
           /\ UNCHANGED <<phase, failed, rv, catch_framep, escaped>>
  <2>1. Len(s) <= StackSize
    BY <1>0, <1>4, SizesFact DEF WasInside, TypeOK
  <2>2. ErrFrame(l) \in Frame /\ ErrFrame(l).kind = "err" /\ ErrFrame(l).catch = l
    BY <1>0, <1>1, <1>4, <2>1, SizesFact DEF ErrFrame, Frame
  <2>3. /\ stack' \in Seq(Frame) /\ Len(stack') = Len(s) + 1
        /\ stack'[Len(stack')].kind = "err" /\ stack' # <<>>
    BY <1>4, <2>2, PushFact
  <2>4. Chain(stack', catch_framep')
    BY <1>1, <1>4, <2>2, ChainPush
  <2>5. TypeOK'
    BY <1>0, <1>4, <2>1, <2>3, SizesFact DEF TypeOK
  <2>6. CatchChain' /\ NeverFatal' /\ StackInv'
    BY <1>0, <1>4, <2>3, <2>4 DEF CatchChain, NeverFatal, StackInv, Running, Top
  <2> QED
    BY <2>5, <2>6 DEF IInv
<1> QED
  BY <1>2, <1>3, <1>4 DEF Err, l

\* What the driver and IInv have in common for all steps below.
LEMMA RunFact ==
  ASSUME IInv, stack # <<>> \/ Working \/ Polls
  PROVE  /\ TypeOK /\ Running /\ Chain(stack, catch_framep)
         /\ Len(stack) \in Nat /\ stack \in Seq(Frame) /\ Len(stack) <= Depth
         /\ Len(stack) > StackSize => inside_err = 1
         /\ Working \/ Polls => errjmp_ok = 1 /\ Top # "gc"
<1>1. Running
  BY DEF IInv, StackInv, NeverFatal, Running, Working, Polls, Evaluating, Reading,
         Printing, Top
<1>2. Working \/ Polls => Top # "gc"
  BY DEF Working, Polls, Evaluating, Reading, Printing
<1> QED
  BY <1>1, <1>2 DEF IInv, TypeOK, StackInv, CatchChain

\* The activation on top, and the stack without it.
LEMMA PopFact ==
  ASSUME IInv, stack # <<>>
  PROVE  /\ stack[Len(stack)] \in Frame /\ Top = stack[Len(stack)].kind
         /\ Pop \in Seq(Frame) /\ Len(Pop) <= StackSize
         /\ Top = "gc" => Len(Pop) < StackSize
         /\ Top # "catch" => Chain(Pop, catch_framep)
<1>1. /\ stack \in Seq(Frame) /\ Len(stack) <= Depth /\ Chain(stack, catch_framep)
      /\ Len(stack) > StackSize => Top = "err"
  BY RunFact DEF IInv, StackInv
<1>2. Len(stack) \in Nat \ {0} /\ stack[Len(stack)] \in Frame
  BY <1>1
<1>3. Top = stack[Len(stack)].kind
  BY DEF Top
<1>4. Len(stack) - 1 \in 0 .. Len(stack)
  BY <1>2
<1>5. Pop \in Seq(Frame) /\ Len(Pop) = Len(stack) - 1
  BY <1>1, <1>4, CutFact DEF Pop
<1>6. Top # "catch" => Chain(Pop, catch_framep)
  BY <1>1, <1>3, ChainPop DEF Pop
<1> QED
  BY <1>1, <1>2, <1>3, <1>5, <1>6, SizesFact

\* A frame that is no catch is pushed, by code that runs or a collection pushes.
LEMMA PushStep ==
  ASSUME IInv, Running, NEW s \in Seq(Frame), Len(s) < StackSize,
         Chain(s, catch_framep),
         NEW f \in Frame, f.kind \in {"section", "gc", "hook"},
         stack' = Append(s, f), f.kind # "gc" => errjmp_ok' = 1,
         errjmp_ok' \in 0 .. 1, nointerrupt' \in 0 .. 1, Calm,
         UNCHANGED <<phase, repl, catch_framep, interrupt_differed, inside_err,
                     failed, escaped>>
  PROVE  IInv'
<1>0. TypeOK
  BY DEF IInv
<1>1. /\ stack' \in Seq(Frame) /\ Len(stack') = Len(s) + 1 /\ stack' # <<>>
      /\ stack'[Len(stack')] = f /\ Len(s) \in Nat
  BY PushFact
<1>2. Chain(stack', catch_framep')
  BY ChainPush
<1>3. TypeOK'
  BY <1>0, <1>1, SizesFact DEF TypeOK, Calm, repl
<1>4. Top' = f.kind /\ Len(stack') <= StackSize
  BY <1>1, SizesFact DEF Top
<1>5. CatchChain' /\ NeverFatal'
  BY <1>2 DEF IInv, CatchChain, NeverFatal, Running
<1>6. StackInv'
  BY <1>1, <1>4, SizesFact DEF IInv, StackInv, Running
<1> QED
  BY <1>3, <1>5, <1>6 DEF IInv

\* The stack, and the chain with it, shrinks or stays, and nothing else happens.
LEMMA CalmStep ==
  ASSUME IInv, Running, stack' \in Seq(Frame), Len(stack') <= StackSize,
         Chain(stack', catch_framep'), catch_framep' \in 0 .. Depth,
         errjmp_ok' = 1, nointerrupt' \in 0 .. 1, Calm,
         UNCHANGED <<phase, repl, interrupt_differed, inside_err, failed, escaped>>
  PROVE  IInv'
<1>0. TypeOK /\ Len(stack') \in Nat
  BY DEF IInv
<1>1. TypeOK'
  BY <1>0, SizesFact DEF TypeOK, Calm, repl
<1>2. CatchChain' /\ NeverFatal' /\ StackInv'
  BY <1>0, SizesFact DEF IInv, CatchChain, NeverFatal, StackInv, Running
<1> QED
  BY <1>1, <1>2 DEF IInv

LEMMA CatchStep ==
  ASSUME IInv, NEW t \in Tags, Catch(t)
  PROVE  IInv'
<1>1. Working /\ Len(stack) < StackSize
  BY DEF Catch, Working, Room
<1>2. /\ Running /\ Chain(stack, catch_framep) /\ TypeOK
      /\ stack \in Seq(Frame) /\ Len(stack) \in Nat /\ errjmp_ok = 1
  BY <1>1, RunFact
<1> DEFINE f == CatchFrame(t, catch_framep)
<1>3. f \in Frame /\ f.kind = "catch" /\ f.next = catch_framep
  BY <1>2 DEF CatchFrame, Frame, TypeOK
<1>4. stack' \in Seq(Frame) /\ Len(stack') = Len(stack) + 1
  BY <1>2, <1>3, PushFact DEF Catch
<1>5. Chain(stack', catch_framep')
  BY <1>2, <1>3, ChainPush DEF Catch
<1>6. nointerrupt' \in 0 .. 1 /\ errjmp_ok' = 1
  BY <1>2 DEF Catch, TypeOK
<1> QED
  BY <1>1, <1>2, <1>4, <1>5, <1>6, SizesFact, CalmStep DEF Catch

LEMMA CatchReturnStep ==
  ASSUME IInv, CatchReturn
  PROVE  IInv'
<1>1. stack # <<>> /\ stack[Len(stack)].kind = "catch"
  BY DEF CatchReturn, Top
<1>2. /\ Running /\ Chain(stack, catch_framep) /\ TypeOK /\ Len(stack) <= Depth
      /\ stack \in Seq(Frame) /\ Len(stack) \in Nat \ {0} /\ errjmp_ok = 1
  BY <1>1, RunFact DEF CatchReturn, Working, Evaluating
<1>3. catch_framep = Len(stack)
  BY <1>1, <1>2 DEF Chain, Innermost
<1>4. /\ Chain(stack', catch_framep') /\ catch_framep' \in 0 .. Len(stack) - 1
  BY <1>1, <1>2, <1>3, ChainCut DEF CatchReturn, Pop
<1>5. stack' \in Seq(Frame) /\ Len(stack') <= StackSize
  BY <1>1, PopFact DEF CatchReturn
<1>6. nointerrupt' \in 0 .. 1 /\ errjmp_ok' = 1
  BY <1>2 DEF CatchReturn, TypeOK
<1> QED
  BY <1>2, <1>4, <1>5, <1>6, SizesFact, CalmStep DEF CatchReturn

LEMMA ThrowStep ==
  ASSUME IInv, NEW t \in Tags, Throw(t)
  PROVE  IInv'
<1> DEFINE l == Match(stack, {t, all})
<1>1. Working
  BY DEF Throw, Working
<1>2. /\ Running /\ Chain(stack, catch_framep) /\ TypeOK /\ Len(stack) <= Depth
      /\ stack \in Seq(Frame) /\ Len(stack) \in Nat /\ errjmp_ok = 1
      /\ Len(stack) > StackSize => inside_err = 1
  BY <1>1, RunFact
<1>3. l = 0 \/ (l \in 1 .. Len(stack) /\ stack[l].kind = "catch")
  BY <1>2, MatchFact
<1> HIDE DEF l
<1>4. CASE l = 0 /\ Err(stack, "message", errjmp_ok, interrupt_differed)
  BY <1>2, <1>4, ErrFact DEF TypeOK
<1>5. CASE /\ l # 0 /\ Land(stack, l, "thrown") /\ raised' = t
           /\ escaped' = (escaped \/ (Quiet(stack') /\ ~ Quiet(stack)))
           /\ UNCHANGED <<phase, repl, errjmp_ok, nointerrupt,
                          interrupt_differed, inside_err, failed>>
  <2>1. /\ stack' \in Seq(Frame) /\ Len(stack') <= StackSize
        /\ catch_framep' \in 0 .. Depth
        /\ Chain(stack', catch_framep') /\ Len(stack') \in Nat
    BY <1>2, <1>3, <1>5, LandFact
  <2>2. escaped' \in BOOLEAN
    BY <1>2, <1>5, Zenon DEF TypeOK
  <2>3. value' = "thrown"
    BY <1>5 DEF Land
  <2>4. TypeOK'
    BY <1>2, <1>5, <2>1, <2>2, <2>3, SizesFact DEF TypeOK, repl
  <2>5. CatchChain' /\ NeverFatal' /\ StackInv'
    BY <1>2, <1>5, <2>1, SizesFact
    DEF IInv, CatchChain, NeverFatal, StackInv, Running
  <2> QED
    BY <2>4, <2>5 DEF IInv
<1> QED
  BY <1>4, <1>5 DEF Throw, l

LEMMA ErrorStep ==
  ASSUME IInv, NEW m, Error(m)
  PROVE  IInv'
<1>1. Working /\ Err(stack, m, errjmp_ok, interrupt_differed)
  BY DEF Error
<1>2. interrupt_differed \in 0 .. 1
  BY <1>1, RunFact DEF TypeOK
<1> QED
  BY <1>1, <1>2, RunFact, ErrFact

LEMMA InterruptedStep ==
  ASSUME IInv, Interrupted
  PROVE  IInv'
<1>1. Polls /\ Err(stack, "message", errjmp_ok, 0)
  BY DEF Interrupted
<1> QED
  BY <1>1, RunFact, ErrFact

LEMMA SectionStep ==
  ASSUME IInv, Section
  PROVE  IInv'
<1>1. Working /\ Len(stack) < StackSize
  BY DEF Section, Room
<1>2. SectionFrame("section", nointerrupt) \in Frame
  BY <1>1, RunFact DEF SectionFrame, Frame, TypeOK
<1>3. SectionFrame("section", nointerrupt).kind = "section"
  BY DEF SectionFrame
<1> QED
  BY <1>1, <1>2, <1>3, RunFact, PushStep DEF Section

LEMMA SectionLeaveStep ==
  ASSUME IInv, SectionLeave
  PROVE  IInv'
<1>1. stack # <<>> /\ Top = "section" /\ Working
  BY DEF SectionLeave, Top, Working
<1>2. /\ Pop \in Seq(Frame) /\ Len(Pop) <= StackSize /\ Chain(Pop, catch_framep)
      /\ stack[Len(stack)].flag \in 0 .. 1
  BY <1>1, PopFact, FrameFact
<1>3. /\ Running /\ TypeOK /\ errjmp_ok = 1
  BY <1>1, RunFact
<1>4. Len(Pop) \in Nat /\ Len(Pop) <= Depth
  BY <1>2, SizesFact
<1>5. CASE Err(Pop, "message", errjmp_ok, 0)
  BY <1>2, <1>3, <1>4, <1>5, SizesFact, ErrFact
<1>6. CASE /\ stack' = Pop /\ nointerrupt' = stack[Len(stack)].flag /\ Calm
           /\ UNCHANGED <<phase, repl, catch_framep, errjmp_ok,
                          interrupt_differed, inside_err, failed, escaped>>
  <2>1. catch_framep' \in 0 .. Depth /\ errjmp_ok' = 1
    BY <1>3, <1>6 DEF TypeOK
  <2> QED
    BY <1>2, <1>3, <1>6, <2>1, CalmStep
<1> QED
  BY <1>5, <1>6 DEF SectionLeave

LEMMA GcStartStep ==
  ASSUME IInv, GcStart
  PROVE  IInv'
<1>1. Working /\ Len(stack) < StackSize /\ errjmp_ok = 1
  BY RunFact DEF GcStart, Room
<1>2. SectionFrame("gc", nointerrupt) \in Frame
  BY <1>1, RunFact DEF SectionFrame, Frame, TypeOK
<1>3. SectionFrame("gc", nointerrupt).kind = "gc"
  BY DEF SectionFrame
<1> QED
  BY <1>1, <1>2, <1>3, RunFact, PushStep DEF GcStart

LEMMA GcEndStep ==
  ASSUME IInv, GcEnd
  PROVE  IInv'
<1>1. stack # <<>> /\ Top = "gc"
  BY DEF GcEnd, GcEndWith, Top
<1>2. /\ Pop \in Seq(Frame) /\ Len(Pop) < StackSize /\ Chain(Pop, catch_framep)
      /\ stack[Len(stack)].flag \in 0 .. 1 /\ Len(Pop) <= Depth
      /\ Len(Pop) \in Nat /\ Len(Pop) <= StackSize
  BY <1>1, PopFact, FrameFact, SizesFact
<1>3. /\ Running /\ TypeOK
  BY <1>1, RunFact
<1>4. CASE Err(Pop, "message", 1, 0)
  BY <1>2, <1>3, <1>4, SizesFact, ErrFact
<1>5. CASE Err(Pop, "message", 1, interrupt_differed)
  BY <1>2, <1>3, <1>5, SizesFact, ErrFact DEF TypeOK
<1>6. CASE nointerrupt' = stack[Len(stack)].flag /\ GcResult(interrupt_differed = 1)
  <2>1. nointerrupt' \in 0 .. 1 /\ errjmp_ok' = 1 /\ Calm
    BY <1>2, <1>6 DEF GcResult
  <2>2. /\ UNCHANGED <<phase, repl, catch_framep, interrupt_differed,
                       inside_err, failed, escaped>>
        /\ catch_framep' \in 0 .. Depth
    BY <1>3, <1>6 DEF GcResult, TypeOK
  <2>3. CASE stack' = Pop
    BY <1>2, <1>3, <2>1, <2>2, <2>3, CalmStep
  <2>4. CASE stack' = Append(Pop, HookFrame)
    <3>1. HookFrame \in Frame /\ HookFrame.kind = "hook"
      BY DEF HookFrame, Frame
    <3>2. stack \in Seq(Frame) /\ Len(stack) <= Depth
      BY <1>3 DEF TypeOK
    <3> QED
      BY <1>2, <1>3, <2>1, <2>2, <2>4, <3>1, PushStep
  <2> QED
    BY <1>6, <2>3, <2>4 DEF GcResult
<1> QED
  BY <1>4, <1>5, <1>6 DEF GcEnd, GcEndWith

LEMMA HookReturnStep ==
  ASSUME IInv, HookReturn
  PROVE  IInv'
<1>1. stack # <<>> /\ Top = "hook" /\ Working
  BY DEF HookReturn, Top, Working, Evaluating
<1>2. Pop \in Seq(Frame) /\ Len(Pop) <= StackSize /\ Chain(Pop, catch_framep)
  BY <1>1, PopFact
<1>3. Running /\ TypeOK /\ errjmp_ok = 1
  BY <1>1, RunFact
<1>4. /\ catch_framep' \in 0 .. Depth /\ errjmp_ok' = 1 /\ nointerrupt' \in 0 .. 1
  BY <1>3 DEF HookReturn, TypeOK
<1> QED
  BY <1>2, <1>3, <1>4, CalmStep DEF HookReturn

LEMMA ErrFinishStep ==
  ASSUME IInv, ErrFinish
  PROVE  IInv'
<1> DEFINE l == stack[Len(stack)].catch
<1>1. stack # <<>> /\ Top = "err" /\ Working
  BY DEF ErrFinish, Top, Working
<1>2. /\ Running /\ TypeOK /\ Chain(stack, catch_framep) /\ errjmp_ok = 1
      /\ stack \in Seq(Frame) /\ Len(stack) \in Nat \ {0} /\ Len(stack) <= Depth
  BY <1>1, RunFact
<1>3. l \in 1 .. Len(stack) /\ stack[l].kind = "catch"
  <2>1. Len(stack) \in DOMAIN stack /\ stack[Len(stack)].kind = "err"
    BY <1>1, <1>2 DEF Top
  <2>2. l \in 1 .. Len(stack) - 1 /\ stack[l].kind = "catch"
    BY <1>2, <2>1 DEF Chain
  <2> QED
    BY <1>2, <2>2
<1> HIDE DEF l
<1>4. Land(stack, l, "pair")
  BY DEF ErrFinish, l
<1>5. /\ stack' \in Seq(Frame) /\ Len(stack') <= StackSize /\ Len(stack') \in Nat
      /\ catch_framep' \in 0 .. Depth /\ Chain(stack', catch_framep')
  BY <1>2, <1>3, <1>4, LandFact
<1>6. value' = "pair" /\ escaped' \in BOOLEAN
  BY <1>2, <1>4 DEF Land, ErrFinish, Settled, TypeOK
<1>7. TypeOK'
  BY <1>2, <1>5, <1>6, SizesFact DEF TypeOK, ErrFinish, repl
<1>8. CatchChain' /\ NeverFatal' /\ StackInv'
  BY <1>2, <1>5, SizesFact
  DEF IInv, CatchChain, NeverFatal, StackInv, Running, ErrFinish
<1> QED
  BY <1>7, <1>8 DEF IInv

LEMMA DriverStep ==
  ASSUME IInv, NEW m \in Modes, NEW first \in {"init", "prompt"}, Driver(m, first)
  PROVE  IInv'
<1>1. TypeOK /\ phase = "host" /\ stack = <<>> /\ stack' = <<>>
  BY DEF IInv, StackInv, Driver
<1>2. Len(stack') = 0 /\ Chain(stack', 0)
  BY <1>1 DEF Chain, Innermost
<1>3. TypeOK'
  <2>1. arg' \in BOOLEAN /\ failed' \in Phases \union {"none"} /\ escaped' \in BOOLEAN
    BY Zenon DEF Driver
  <2>2. stack' \in Seq(Frame)
    BY <1>1
  <2>3. phase' \in {"init", "prompt"} /\ mode' \in Modes /\ flag' = 0
    BY DEF Driver
  <2> QED
    BY <1>1, <1>2, <2>1, <2>2, <2>3, SizesFact DEF TypeOK, Driver, Calm, Phases
<1>4. CatchChain' /\ NeverFatal' /\ StackInv'
  BY <1>1, <1>2, SizesFact
  DEF CatchChain, NeverFatal, StackInv, Running, Driver
<1> QED
  BY <1>3, <1>4 DEF IInv

LEMMA LoopStep ==
  ASSUME IInv, Loop
  PROVE  IInv'
<1>1. TypeOK /\ stack = <<>> /\ stack' = <<>>
  <2>1. ASSUME stack # <<>>
        PROVE  FALSE
    BY <2>1, PopFact, FrameFact DEF Loop, Top
  <2> QED
    BY <2>1 DEF IInv, Loop
<1>2. Len(stack') = 0 /\ Len(stack) = 0
  BY <1>1
<1>3. /\ phase \notin {"host", "exited"}
      /\ phase' \in {"host", "prompt", "copy", "read", "start", "eval", "print"}
      /\ arg' \in BOOLEAN /\ flag' \in 0 .. 1 /\ rv' \in {0, 2}
  <2>1. phase \in {"init", "prompt", "copy", "read", "start", "eval", "print"}
    BY DEF Loop
  <2>2. phase' \in {"host", "prompt", "copy", "read", "start", "eval", "print"}
    BY DEF Loop, Go, Return
  <2>3. arg' \in BOOLEAN
    <3>1. arg' = arg \/ arg' = FALSE
      BY Zenon DEF Loop, Go, Return
    <3> QED
      BY <1>1, <3>1, Zenon DEF TypeOK
  <2>4. flag' \in 0 .. 1 /\ rv' \in {0, 2}
    <3>1. flag' \in {flag, 0, 1} /\ rv' \in {rv, 0, 2}
      BY DEF Loop, Go, Return
    <3> QED
      BY <1>1, <3>1 DEF TypeOK
  <2> QED
    BY <2>1, <2>2, <2>3, <2>4
<1>4. /\ Calm
      /\ UNCHANGED <<stack, mode, catch_framep, errjmp_ok, nointerrupt,
                     interrupt_differed, inside_err, failed, escaped>>
  BY DEF Loop
<1>5. TypeOK'
  BY <1>1, <1>3, <1>4 DEF TypeOK, Calm, Phases
<1>6. Running /\ Top # "gc"
  BY <1>1, <1>3 DEF Running, Top
<1>7. CatchChain' /\ NeverFatal' /\ StackInv'
  BY <1>1, <1>2, <1>3, <1>4, <1>6, SizesFact
  DEF IInv, CatchChain, NeverFatal, StackInv, Running
<1> QED
  BY <1>5, <1>7 DEF IInv

LEMMA SignalStep ==
  ASSUME IInv, Signal
  PROVE  IInv'
<1>1. TypeOK'
  BY DEF IInv, TypeOK, Signal, Calm, repl
<1>2. CatchChain' /\ NeverFatal' /\ StackInv'
  BY DEF IInv, CatchChain, NeverFatal, StackInv, Running, Signal, Top
<1> QED
  BY <1>1, <1>2 DEF IInv

-----------------------------------------------------------------------------
\* The invariant holds in the initial state.
THEOREM InitIInv == Init => IInv
<1> SUFFICES ASSUME Init PROVE IInv
  OBVIOUS
<1>1. stack = <<>> /\ Len(stack) = 0 /\ phase = "host"
  BY DEF Init
<1>2. TypeOK
  <2>1. arg \in BOOLEAN /\ failed \in Phases \union {"none"} /\ escaped \in BOOLEAN
    BY Zenon DEF Init
  <2>2. stack \in Seq(Frame)
    BY <1>1
  <2> QED
    BY <1>1, <2>1, <2>2, SizesFact DEF Init, TypeOK, Phases
<1>3. CatchChain /\ NeverFatal /\ StackInv
  BY <1>1, SizesFact DEF CatchChain, NeverFatal, StackInv, Running
<1> QED
  BY <1>2, <1>3 DEF IInv

\* Every step of the interpreter, of the signal and of the host keeps it.
THEOREM StepIInv == IInv /\ [Next]_vars => IInv'
<1> SUFFICES ASSUME IInv, [Next]_vars PROVE IInv'
  OBVIOUS
<1>1. CASE Interpreter
  <2>1. CASE Loop
    BY <2>1, LoopStep
  <2>2. CASE Interrupted
    BY <2>2, InterruptedStep
  <2>3. CASE CatchReturn
    BY <2>3, CatchReturnStep
  <2>4. CASE Section
    BY <2>4, SectionStep
  <2>5. CASE SectionLeave
    BY <2>5, SectionLeaveStep
  <2>6. CASE GcStart
    BY <2>6, GcStartStep
  <2>7. CASE GcEnd
    BY <2>7, GcEndStep
  <2>8. CASE HookReturn
    BY <2>8, HookReturnStep
  <2>9. CASE ErrFinish
    BY <2>9, ErrFinishStep
  <2>10. CASE \E t \in Tags : Catch(t) \/ Throw(t)
    BY <2>10, CatchStep, ThrowStep
  <2>11. CASE \E m \in {"message", "own", "quit"} : Error(m)
    BY <2>11, ErrorStep
  <2> QED
    BY <1>1, <2>1, <2>2, <2>3, <2>4, <2>5, <2>6, <2>7, <2>8, <2>9, <2>10, <2>11
    DEF Interpreter
<1>2. CASE Signal
  BY <1>2, SignalStep
<1>3. CASE \E m \in Modes, first \in {"init", "prompt"} : Driver(m, first)
  BY <1>3, DriverStep
<1>4. CASE UNCHANGED vars
  BY <1>4 DEF vars, repl, IInv, TypeOK, CatchChain, NeverFatal, StackInv, Running, Top
<1> QED
  BY <1>1, <1>2, <1>3, <1>4 DEF Next

\* IInv holds in every reachable state.
THEOREM Invariance == Spec => []IInv
  BY InitIInv, StepIInv, PTL DEF Spec

\* The variables of the interpreter stay within what C declares, and err needs
\* no more than one activation beyond the bound.
THEOREM TypeCorrect == Spec => []TypeOK
<1>1. IInv => TypeOK
  BY DEF IInv
<1> QED
  BY <1>1, Invariance, PTL

\* However errors, throws, interrupts, collections and *after-gc* interleave,
\* catch_framep and the next pointers link exactly the catch frames that are on
\* the C stack: no longjmp goes to a frame that returned.
THEOREM ChainSound == Spec => []CatchChain
<1>1. IInv => CatchChain
  BY DEF IInv
<1> QED
  BY <1>1, Invariance, PTL

\* No error finds errjmp_ok = 0 and ends the process: a collection calls no
\* err, and errjmp_ok is 1 again before an interrupt that it deferred.
THEOREM ErrorsRecover == Spec => []NeverFatal
<1>1. IInv => NeverFatal
  BY DEF IInv
<1> QED
  BY <1>1, Invariance, PTL

-----------------------------------------------------------------------------
(* Interrupts come back on *)

\* No interrupt may be blocked by the first n activations of s.
QuietTo(s, n) == \A b \in 1 .. n : s[b].kind \in {"catch", "hook"}

\* What a region was entered with outside of any other, no_interrupt will restore.
FlagsOn(s) == \A a \in DOMAIN s :
                s[a].kind \in {"section", "gc"} /\ QuietTo(s, a - 1) => s[a].flag = 0

\* NointerruptRestored with the flags that wait on the stack to be restored.
FlagsInv == Running /\ ~ escaped => /\ Quiet(stack) => nointerrupt = 0
                                    /\ FlagsOn(stack)

\* A stack cut back keeps the flags of what stays.
LEMMA FlagsCut ==
  ASSUME NEW s \in Seq(Frame), NEW n \in 0 .. Len(s)
  PROVE  /\ FlagsOn(s) => FlagsOn(SubSeq(s, 1, n))
         /\ Quiet(s) => Quiet(SubSeq(s, 1, n))
         /\ Quiet(SubSeq(s, 1, n)) <=> QuietTo(s, n)
<1> DEFINE r == SubSeq(s, 1, n)
<1>1. /\ DOMAIN r = 1 .. n /\ \A a \in 1 .. n : r[a] = s[a]
      /\ DOMAIN s = 1 .. Len(s) /\ Len(s) \in Nat
  BY CutFact
<1> HIDE DEF r
<1>2. \A a \in 1 .. n : QuietTo(r, a - 1) => QuietTo(s, a - 1)
  BY <1>1 DEF QuietTo
<1>3. FlagsOn(s) => FlagsOn(r)
  BY <1>1, <1>2 DEF FlagsOn
<1>4. (Quiet(s) => Quiet(r)) /\ (Quiet(r) <=> QuietTo(s, n))
  BY <1>1 DEF Quiet, QuietTo
<1> QED
  BY <1>3, <1>4 DEF r

\* A catch or *after-gc* on top of it blocks nothing.
LEMMA QuietPop ==
  ASSUME NEW s \in Seq(Frame), s # <<>>, s[Len(s)].kind \in {"catch", "hook"}
  PROVE  Quiet(SubSeq(s, 1, Len(s) - 1)) => Quiet(s)
<1>1. Len(s) \in Nat \ {0} /\ DOMAIN s = 1 .. Len(s)
  OBVIOUS
<1>2. Len(s) - 1 \in 0 .. Len(s)
  BY <1>1
<1>3. Quiet(SubSeq(s, 1, Len(s) - 1)) <=> QuietTo(s, Len(s) - 1)
  BY <1>2, FlagsCut
<1> QED
  BY <1>1, <1>3 DEF Quiet, QuietTo

\* What is pushed outside of every region saves a flag of 0.
LEMMA FlagsPush ==
  ASSUME NEW s \in Seq(Frame), NEW f \in Frame, FlagsOn(s),
         f.kind \in {"section", "gc"} /\ Quiet(s) => f.flag = 0
  PROVE  /\ FlagsOn(Append(s, f))
         /\ Quiet(Append(s, f)) <=> Quiet(s) /\ f.kind \in {"catch", "hook"}
<1> DEFINE r == Append(s, f)
<1>1. /\ DOMAIN r = 1 .. Len(s) + 1 /\ \A a \in 1 .. Len(s) : r[a] = s[a]
      /\ r[Len(s) + 1] = f /\ DOMAIN s = 1 .. Len(s) /\ Len(s) \in Nat
  BY PushFact
<1> HIDE DEF r
<1>2. ASSUME NEW a \in DOMAIN r, r[a].kind \in {"section", "gc"}, QuietTo(r, a - 1)
      PROVE  r[a].flag = 0
  <2>1. CASE a = Len(s) + 1
    <3>1. Quiet(s)
      BY <1>1, <1>2, <2>1 DEF Quiet, QuietTo
    <3> QED
      BY <1>1, <1>2, <2>1, <3>1
  <2>2. CASE a \in 1 .. Len(s)
    <3>1. QuietTo(s, a - 1)
      BY <1>1, <1>2, <2>2 DEF QuietTo
    <3> QED
      BY <1>1, <1>2, <2>2, <3>1 DEF FlagsOn
  <2> QED
    BY <1>1, <2>1, <2>2
<1>3. Quiet(r) <=> Quiet(s) /\ f.kind \in {"catch", "hook"}
  BY <1>1 DEF Quiet
<1> QED
  BY <1>2, <1>3 DEF FlagsOn, r

\* err, called with the stack or what is left of it when a region ends.
LEMMA ErrFlags ==
  ASSUME IInv, FlagsInv, Running, NEW s \in Seq(Frame), Chain(s, catch_framep),
         Len(s) <= StackSize \/ inside_err = 1, Len(s) <= Depth,
         FlagsOn(stack) => FlagsOn(s),
         NEW m, NEW d, Err(s, m, 1, d)
  PROVE  FlagsInv'
<1> DEFINE l == Match(s, {errobj, all})
<1>0. TypeOK /\ Len(s) \in Nat
  BY DEF IInv
<1>1. l = 0 \/ (l \in 1 .. Len(s) /\ s[l].kind = "catch")
  BY MatchFact
<1> HIDE DEF l
<1>2. CASE l = 0 /\ Abort(m, d)
  <2>1. stack' = <<>> /\ (Running' => nointerrupt' = 0)
    BY <1>2 DEF Abort, Running
  <2> QED
    BY <2>1 DEF FlagsInv, FlagsOn
<1>3. CASE /\ l # 0 /\ Land(s, l, IF m = "own" THEN "pair" ELSE "nil")
           /\ nointerrupt' = 0 /\ escaped' = Settled(stack')
  <2>1. /\ stack' = SubSeq(s, 1, l - 1) /\ l - 1 \in 0 .. Len(s)
        /\ FlagsOn(s) => FlagsOn(stack')
    BY <1>0, <1>1, <1>3, FlagsCut DEF Land
  <2>2. CASE Quiet(stack')
    BY <1>3, <2>2 DEF FlagsInv, FlagsOn, Quiet
  <2>3. CASE ~ Quiet(stack')
    BY <1>3, <2>1, <2>3 DEF FlagsInv, Settled
  <2> QED
    BY <2>2, <2>3
<1>4. CASE /\ l # 0 /\ ~ WasInside
           /\ stack' = Append(s, ErrFrame(l)) /\ UNCHANGED escaped
  <2>1. Len(s) <= StackSize
    BY <1>4 DEF WasInside
  <2>2. ErrFrame(l) \in Frame /\ ErrFrame(l).kind = "err"
    BY <1>0, <1>1, <1>4, <2>1, SizesFact DEF ErrFrame, Frame
  <2>3. FlagsOn(s) => FlagsOn(stack') /\ ~ Quiet(stack')
    BY <1>4, <2>2, FlagsPush
  <2> QED
    BY <1>4, <2>3 DEF FlagsInv
<1> QED
  BY <1>2, <1>3, <1>4 DEF Err, l

LEMMA FlagsStep == IInv /\ FlagsInv /\ [Next]_vars => FlagsInv'
<1> SUFFICES ASSUME IInv, FlagsInv, [Next]_vars PROVE FlagsInv'
  OBVIOUS
<1>1. ASSUME NEW m, NEW d, Working \/ Polls, Err(stack, m, errjmp_ok, d)
      PROVE  FlagsInv'
  <2>1. /\ Running /\ Chain(stack, catch_framep) /\ stack \in Seq(Frame)
        /\ Len(stack) \in Nat /\ Len(stack) <= Depth /\ errjmp_ok = 1
        /\ Len(stack) > StackSize => inside_err = 1
    BY <1>1, RunFact
  <2> QED
    BY <1>1, <2>1, SizesFact, ErrFlags
<1>2. ASSUME stack # <<>>, Top # "catch"
      PROVE  /\ Running /\ Pop \in Seq(Frame) /\ Len(Pop) <= StackSize
             /\ Len(Pop) \in Nat /\ Len(Pop) <= Depth
             /\ Chain(Pop, catch_framep) /\ (FlagsOn(stack) => FlagsOn(Pop))
             /\ Top \in {"section", "gc"} =>
                  (FlagsOn(stack) /\ Quiet(Pop) => stack[Len(stack)].flag = 0)
  <2>1. stack \in Seq(Frame) /\ Len(stack) \in Nat \ {0} /\ Running
    BY <1>2, RunFact
  <2>2. Pop = SubSeq(stack, 1, Len(stack) - 1) /\ Len(stack) - 1 \in 0 .. Len(stack)
    BY <2>1 DEF Pop
  <2>3. /\ FlagsOn(stack) => FlagsOn(Pop)
        /\ Quiet(Pop) <=> QuietTo(stack, Len(stack) - 1)
    BY <2>1, <2>2, FlagsCut
  <2>4. Top \in {"section", "gc"} =>
          (FlagsOn(stack) /\ Quiet(Pop) => stack[Len(stack)].flag = 0)
    BY <1>2, <2>1, <2>3 DEF FlagsOn, Top
  <2> QED
    BY <1>2, <2>1, <2>3, <2>4, PopFact, SizesFact
<1>3. CASE Loop
  BY <1>3 DEF Loop, FlagsInv, Running
<1>4. CASE Interrupted
  BY <1>1, <1>4 DEF Interrupted
<1>5. CASE CatchReturn
  <2>1. stack # <<>> /\ stack \in Seq(Frame) /\ Len(stack) \in Nat \ {0}
    BY <1>5, RunFact DEF CatchReturn, Top
  <2>2. stack[Len(stack)].kind = "catch" /\ Len(stack) - 1 \in 0 .. Len(stack)
    BY <1>5, <2>1 DEF CatchReturn, Top
  <2>3. FlagsOn(stack) => FlagsOn(stack')
    BY <1>5, <2>1, <2>2, FlagsCut DEF CatchReturn, Pop
  <2>4. Quiet(stack') => Quiet(stack)
    BY <1>5, <2>1, <2>2, QuietPop DEF CatchReturn, Pop
  <2> QED
    BY <1>5, <2>3, <2>4 DEF CatchReturn, FlagsInv, Running
<1>6. CASE Section
  <2>1. Working /\ stack \in Seq(Frame) /\ Running /\ nointerrupt \in 0 .. 1
    BY <1>6, RunFact DEF Section, TypeOK
  <2>2. SectionFrame("section", nointerrupt) \in Frame
    BY <2>1 DEF SectionFrame, Frame
  <2>3. /\ SectionFrame("section", nointerrupt).kind = "section"
        /\ SectionFrame("section", nointerrupt).flag = nointerrupt
    BY DEF SectionFrame
  <2> QED
    BY <1>6, <2>1, <2>2, <2>3, FlagsPush DEF Section, FlagsInv, Running
<1>7. CASE SectionLeave
  <2>1. stack # <<>> /\ Top = "section" /\ errjmp_ok = 1
    BY <1>7, RunFact DEF SectionLeave, Top, Working
  <2>2. CASE Err(Pop, "message", errjmp_ok, 0)
    BY <1>2, <2>1, <2>2, ErrFlags
  <2>3. CASE /\ stack' = Pop /\ nointerrupt' = stack[Len(stack)].flag
             /\ UNCHANGED <<phase, escaped>>
    BY <1>2, <2>1, <2>3 DEF FlagsInv, Running
  <2> QED
    BY <1>7, <2>2, <2>3 DEF SectionLeave
<1>8. CASE GcStart
  <2>1. Working /\ stack \in Seq(Frame) /\ Running /\ nointerrupt \in 0 .. 1
    BY <1>8, RunFact DEF GcStart, TypeOK
  <2>2. SectionFrame("gc", nointerrupt) \in Frame
    BY <2>1 DEF SectionFrame, Frame
  <2>3. /\ SectionFrame("gc", nointerrupt).kind = "gc"
        /\ SectionFrame("gc", nointerrupt).flag = nointerrupt
    BY DEF SectionFrame
  <2>4. errjmp_ok = 1
    BY <2>1, RunFact
  <2>5. FlagsOn(stack) /\ (Quiet(stack) => nointerrupt = 0) =>
          /\ FlagsOn(Append(stack, SectionFrame("gc", nointerrupt)))
          /\ ~ Quiet(Append(stack, SectionFrame("gc", nointerrupt)))
    BY <2>1, <2>2, <2>3, FlagsPush
  <2>6. /\ stack' = Append(stack, SectionFrame("gc", nointerrupt))
        /\ UNCHANGED <<phase, escaped>>
    BY <1>8, <2>4 DEF GcStart
  <2> QED
    BY <2>1, <2>5, <2>6 DEF FlagsInv, Running
<1>9. CASE GcEnd
  <2>1. stack # <<>> /\ Top = "gc"
    BY <1>9 DEF GcEnd, GcEndWith, Top
  <2>2. ASSUME NEW d, Err(Pop, "message", 1, d)
        PROVE  FlagsInv'
    BY <1>2, <2>1, <2>2, ErrFlags
  <2>3. CASE nointerrupt' = stack[Len(stack)].flag /\ GcResult(interrupt_differed = 1)
    <3>1. HookFrame \in Frame /\ HookFrame.kind = "hook"
      BY DEF HookFrame, Frame
    <3>2. FlagsOn(Pop) => /\ FlagsOn(Append(Pop, HookFrame))
                          /\ Quiet(Append(Pop, HookFrame)) <=> Quiet(Pop)
      BY <1>2, <2>1, <3>1, FlagsPush
    <3> QED
      BY <1>2, <2>1, <2>3, <3>2 DEF GcResult, FlagsInv, Running
  <2> QED
    BY <1>9, <2>2, <2>3 DEF GcEnd, GcEndWith
<1>10. CASE HookReturn
  <2>1. stack # <<>> /\ Top = "hook"
    BY <1>10 DEF HookReturn, Top
  <2>2. stack \in Seq(Frame) /\ Len(stack) \in Nat \ {0}
    BY <2>1, RunFact
  <2>3. Quiet(Pop) => Quiet(stack)
    BY <2>1, <2>2, QuietPop DEF Pop, Top
  <2> QED
    BY <1>2, <1>10, <2>1, <2>3 DEF HookReturn, FlagsInv, Running
<1>11. CASE ErrFinish
  <2> DEFINE l == stack[Len(stack)].catch
  <2>1. stack # <<>> /\ Top = "err" /\ stack[Len(stack)].kind = "err"
    BY <1>11 DEF ErrFinish, Top
  <2>2. /\ stack \in Seq(Frame) /\ Len(stack) \in Nat \ {0}
        /\ Chain(stack, catch_framep)
    BY <2>1, RunFact
  <2>3. l \in 1 .. Len(stack) - 1
    BY <2>1, <2>2 DEF Chain
  <2>4. l - 1 \in 0 .. Len(stack) /\ stack' = SubSeq(stack, 1, l - 1)
    BY <1>11, <2>2, <2>3 DEF ErrFinish, Land
  <2>5. FlagsOn(stack) => FlagsOn(stack')
    BY <2>2, <2>4, FlagsCut
  <2>6. CASE Quiet(stack')
    BY <1>11, <2>6 DEF ErrFinish, FlagsInv, FlagsOn, Quiet
  <2>7. CASE ~ Quiet(stack')
    BY <1>11, <2>5, <2>7 DEF ErrFinish, FlagsInv, Settled, Running
  <2> QED
    BY <2>6, <2>7
<1>12. ASSUME NEW t \in Tags, Catch(t)
       PROVE  FlagsInv'
  <2>1. Working /\ stack \in Seq(Frame) /\ Running /\ catch_framep \in 0 .. Depth
    BY <1>12, RunFact DEF Catch, Working, TypeOK
  <2>2. CatchFrame(t, catch_framep) \in Frame
    BY <2>1 DEF CatchFrame, Frame
  <2>3. CatchFrame(t, catch_framep).kind = "catch"
    BY DEF CatchFrame
  <2> QED
    BY <1>12, <2>1, <2>2, <2>3, FlagsPush DEF Catch, FlagsInv, Running
<1>13. ASSUME NEW t \in Tags, Throw(t)
       PROVE  FlagsInv'
  <2> DEFINE l == Match(stack, {t, all})
  <2>1. /\ Working /\ Running /\ stack \in Seq(Frame) /\ Len(stack) \in Nat
        /\ Chain(stack, catch_framep)
    BY <1>13, RunFact DEF Throw, Working
  <2>2. l = 0 \/ (l \in 1 .. Len(stack) /\ stack[l].kind = "catch")
    BY <2>1, MatchFact
  <2> HIDE DEF l
  <2>3. CASE Err(stack, "message", errjmp_ok, interrupt_differed)
    BY <1>1, <2>1, <2>3
  <2>4. CASE /\ l # 0 /\ Land(stack, l, "thrown")
             /\ escaped' = (escaped \/ (Quiet(stack') /\ ~ Quiet(stack)))
             /\ UNCHANGED <<phase, nointerrupt>>
    <3>1. FlagsOn(stack) => FlagsOn(stack')
      BY <2>1, <2>2, <2>4, FlagsCut DEF Land
    <3> QED
      BY <2>4, <3>1 DEF FlagsInv, Running
  <2> QED
    BY <1>13, <2>3, <2>4 DEF Throw, l
<1>14. ASSUME NEW m, Error(m)
       PROVE  FlagsInv'
  BY <1>1, <1>14 DEF Error
<1>15. CASE Signal
  BY <1>15 DEF Signal, FlagsInv, Running
<1>16. ASSUME NEW m \in Modes, NEW first \in {"init", "prompt"}, Driver(m, first)
       PROVE  FlagsInv'
  <2>1. stack' = <<>>
    BY <1>16 DEF IInv, StackInv, Driver
  <2> QED
    BY <1>16, <2>1 DEF Driver, FlagsInv, FlagsOn
<1>17. CASE UNCHANGED vars
  BY <1>17 DEF vars, repl, FlagsInv, Running
<1> QED
  BY <1>3, <1>4, <1>5, <1>6, <1>7, <1>8, <1>9, <1>10, <1>11, <1>12, <1>13, <1>14,
     <1>15, <1>16, <1>17 DEF Next, Interpreter

\* Ordinary code, outside every section and collection, can be interrupted:
\* however err, *throw, the ends of sections and *after-gc* follow each other,
\* nointerrupt is 0 there, unless a *throw left a section without an error since.
THEOREM InterruptsRestored == Spec => []NointerruptRestored
<1>1. Init => FlagsInv
  BY DEF Init, FlagsInv, Running
<1>2. FlagsInv => NointerruptRestored
  BY DEF FlagsInv, NointerruptRestored
<1> QED
  BY <1>1, <1>2, FlagsStep, Invariance, PTL DEF Spec

-----------------------------------------------------------------------------
(* What repl_c_string returns *)

\* While the driver has something to lose, the flag is not yet set, but where
\* want_print = 1 is printing; an error leaves it at 0, and the string as read
\* once strcons has it.
ResultInv ==
  /\ phase = "prompt" => stack = <<>>
  /\ phase = "copy" => arg
  /\ mode # "stdin" /\ phase \in {"read", "start", "eval", "print"} => ~ arg
  /\ mode # "stdin" =>
       /\ phase \in {"init", "copy", "read", "start", "eval", "print"} => failed \in {"none", "copy"}
       /\ phase \in {"init", "copy", "read", "start", "eval"} => flag = 0
       /\ phase = "print" => flag = 0 \/ mode = "print"
       /\ phase = "prompt" /\ arg => flag = 0 /\ failed \in {"none", "copy"}
       /\ phase = "prompt" /\ failed \notin Unnoticed => flag = 0
       /\ phase = "host" /\ failed \notin Unnoticed => rv = 2

\* Where C or Lisp code runs, the driver is in one of its steps.
LEMMA CallerFact ==
  ASSUME IInv, ResultInv, stack # <<>> \/ Working \/ Polls
  PROVE  Running /\ phase \in {"init", "copy", "read", "start", "eval", "print"}
<1>1. Running
  BY RunFact
<1>2. phase # "prompt"
  BY DEF ResultInv, Working, Polls, Evaluating, Reading, Printing, Top
<1> QED
  BY <1>1, <1>2 DEF IInv, TypeOK, Running, Phases

LEMMA ErrResult ==
  ASSUME ResultInv, phase \in {"init", "copy", "read", "start", "eval", "print"},
         NEW s, NEW m, NEW d, Err(s, m, 1, d)
  PROVE  ResultInv'
<1>1. UNCHANGED <<mode, arg, flag>>
  BY DEF Err
<1>2. CASE Abort(m, d)
  <2>1. /\ stack' = <<>>
        /\ failed' = IF mode = "stdin" \/ phase = "init" THEN failed ELSE phase
    BY <1>2 DEF Abort
  <2>2. (phase' = "host" /\ rv' = 2) \/ phase' = "prompt"
    BY <1>2 DEF Abort
  <2> QED
    BY <1>1, <2>1, <2>2 DEF ResultInv, Unnoticed
<1>3. CASE UNCHANGED <<phase, failed, rv>>
  BY <1>1, <1>3 DEF ResultInv, Unnoticed
<1> QED
  BY <1>2, <1>3 DEF Err

LEMMA ResultStep == IInv /\ ResultInv /\ [Next]_vars => ResultInv'
<1> SUFFICES ASSUME IInv, ResultInv, [Next]_vars PROVE ResultInv'
  OBVIOUS
<1>1. ASSUME NEW s, NEW m, NEW d, stack # <<>> \/ Working \/ Polls, Err(s, m, 1, d)
      PROVE  ResultInv'
  BY <1>1, CallerFact, ErrResult
<1>2. ASSUME stack # <<>> \/ Working, UNCHANGED <<phase, repl, failed>>
      PROVE  ResultInv'
  BY <1>2, CallerFact DEF ResultInv, Unnoticed, repl
<1>3. Working \/ Polls => errjmp_ok = 1
  BY RunFact
<1>4. CASE Loop
  <2>1. stack' = stack /\ mode' = mode /\ failed' = failed
    BY <1>4 DEF Loop
  <2>2. stack = <<>>
    <3>1. ASSUME stack # <<>>
          PROVE  FALSE
      BY <1>4, <3>1, PopFact, FrameFact DEF Loop, Top
    <3> QED
      BY <3>1
  <2>3. TypeOK
    BY DEF IInv
  <2>4. CASE phase = "init"
    BY <1>4, <2>1, <2>2, <2>4 DEF Loop, Go, ResultInv, Unnoticed
  <2>5. CASE phase = "prompt"
    BY <1>4, <2>1, <2>2, <2>3, <2>5 DEF Loop, Go, Return, ResultInv, Unnoticed, TypeOK
  <2>6. CASE phase \in {"copy", "read", "start", "eval", "print"}
    BY <1>4, <2>1, <2>2, <2>6 DEF Loop, Go, Return, ResultInv, Unnoticed
  <2> QED
    BY <1>4, <2>4, <2>5, <2>6 DEF Loop
<1>5. CASE Interrupted
  BY <1>1, <1>3, <1>5 DEF Interrupted
<1>6. CASE CatchReturn \/ Section \/ HookReturn
  BY <1>2, <1>6 DEF CatchReturn, Section, HookReturn, Top
<1>7. CASE SectionLeave
  <2>1. stack # <<>> /\ errjmp_ok = 1
    BY <1>3, <1>7 DEF SectionLeave, Top, Working
  <2> QED
    BY <1>1, <1>2, <1>7, <2>1 DEF SectionLeave
<1>8. CASE GcStart
  BY <1>2, <1>3, <1>8 DEF GcStart
<1>9. CASE GcEnd
  <2>1. stack # <<>>
    BY <1>9 DEF GcEnd, GcEndWith, Top
  <2> QED
    BY <1>1, <1>2, <1>9, <2>1 DEF GcEnd, GcEndWith, GcResult
<1>10. CASE ErrFinish
  BY <1>2, <1>10 DEF ErrFinish, Top
<1>11. ASSUME NEW t \in Tags, Catch(t)
       PROVE  ResultInv'
  BY <1>2, <1>11 DEF Catch, Working
<1>12. ASSUME NEW t \in Tags, Throw(t)
       PROVE  ResultInv'
  BY <1>1, <1>2, <1>3, <1>12 DEF Throw, Working
<1>13. ASSUME NEW m, Error(m)
       PROVE  ResultInv'
  BY <1>1, <1>3, <1>13 DEF Error
<1>14. CASE Signal
  BY <1>14 DEF Signal, ResultInv, Unnoticed, repl
<1>15. ASSUME NEW m \in Modes, NEW first \in {"init", "prompt"}, Driver(m, first)
       PROVE  ResultInv'
  <2>1. stack' = <<>>
    BY <1>15 DEF IInv, StackInv, Driver
  <2> QED
    BY <1>15, <2>1 DEF Driver, ResultInv, Unnoticed
<1>16. CASE UNCHANGED vars
  BY <1>16 DEF vars, repl, ResultInv, Unnoticed
<1> QED
  BY <1>4, <1>5, <1>6, <1>7, <1>8, <1>9, <1>10, <1>11, <1>12, <1>13, <1>14, <1>15,
     <1>16 DEF Next, Interpreter

\* When repl_c_string returns 0, no error ended the read, the evaluation or the
\* printing it was called for, wherever in them the error came: but in strcons,
\* after which the string is read again, and in printing with want_print = 1.
THEOREM ReturnTrue == Spec => []ReplReturnString
<1>1. Init => ResultInv
  BY DEF Init, ResultInv, Unnoticed
<1>2. ResultInv => ReplReturnString
  BY DEF ResultInv, ReplReturnString
<1> QED
  BY <1>1, <1>2, ResultStep, Invariance, PTL DEF Spec

-----------------------------------------------------------------------------
(* Control implements AbsCatch *)

\* A set of positions has a first one.
LEMMA FirstExists ==
  ASSUME NEW n \in Nat, NEW S \in SUBSET (1 .. n), S # {}
  PROVE  \E a \in S : \A b \in S : a <= b
<1>1. S \subseteq Nat
  OBVIOUS
<1>2. PICK a \in S : \A b \in S : ~ (<<b, a>> \in OpToRel(<, Nat))
  BY <1>1, WFMin, NatLessThanWellFounded
<1>3. \A b \in S : ~ (b < a)
  BY <1>1, <1>2 DEF OpToRel
<1> QED
  BY <1>1, <1>3

\* A walk from catch_framep meets every catch frame: of those it would not meet
\* take the last; the walk comes by the next one above it.
LEMMA WalkFact ==
  ASSUME NEW s \in Seq(Frame), Chain(s, catch_framep)
  PROVE  OnChain(s) = {a \in DOMAIN s : s[a].kind = "catch"}
<1> DEFINE C == {a \in DOMAIN s : s[a].kind = "catch"}
<1>0. DOMAIN s = 1 .. Len(s) /\ Len(s) \in Nat
  OBVIOUS
<1>1. /\ catch_framep = 0 \/ catch_framep \in C
      /\ \A a \in C : a <= catch_framep
  BY <1>0 DEF Chain, Innermost
<1>2. ASSUME NEW b \in C
      PROVE  /\ s[b].next = 0 \/ (s[b].next \in C /\ s[b].next < b)
             /\ \A a \in C : a < b => a <= s[b].next
  <2>1. Innermost(s, b - 1, s[b].next)
    BY DEF Chain
  <2> QED
    BY <1>0, <2>1 DEF Innermost
<1>3. OnChain(s) \subseteq C
  BY <1>1, <1>2 DEF OnChain
<1>4. ASSUME NEW S \in SUBSET DOMAIN s, catch_framep \in S \union {0},
             \A b \in S : s[b].kind = "catch" => s[b].next \in S \union {0}
      PROVE  C \subseteq S
  <2> SUFFICES ASSUME C \ S # {}
               PROVE  FALSE
    OBVIOUS
  <2>1. C \ S \in SUBSET (1 .. Len(s))
    BY <1>0
  <2>2. PICK a \in C \ S : \A b \in C \ S : b <= a
    BY <1>0, <2>1, LastExists
  <2>3. a \in 1 .. Len(s) /\ a < catch_framep /\ catch_framep \in C /\ catch_framep \in S
    BY <1>0, <1>1, <1>4, <2>2
  <2>4. {b \in C : a < b} \in SUBSET (1 .. Len(s)) /\ {b \in C : a < b} # {}
    BY <1>0, <2>3
  <2>5. PICK b \in {b \in C : a < b} : \A c \in {c \in C : a < c} : b <= c
    BY <1>0, <2>4, FirstExists
  <2>6. b \in S /\ b \in 1 .. Len(s)
    BY <1>0, <2>2, <2>3, <2>5
  <2>7. s[b].next = a
    BY <1>0, <1>2, <2>2, <2>3, <2>5, <2>6
  <2>8. a \in S
    BY <1>4, <2>3, <2>5, <2>6, <2>7
  <2> QED
    BY <2>2, <2>8
<1>5. C \subseteq OnChain(s)
  BY <1>4 DEF OnChain
<1> QED
  BY <1>3, <1>5

\* l is the innermost of the first n activations that is a catch for tags.
IsFor(s, n, l, tags) ==
  /\ l \in 1 .. n /\ s[l].kind = "catch" /\ s[l].tag \in tags
  /\ \A a \in l + 1 .. n : s[a].kind = "catch" => s[a].tag \notin tags

LEMMA MatchExact ==
  ASSUME NEW s \in Seq(Frame), Chain(s, catch_framep), NEW tags
  PROVE  \/ /\ Match(s, tags) = 0
            /\ \A a \in DOMAIN s : s[a].kind = "catch" => s[a].tag \notin tags
         \/ IsFor(s, Len(s), Match(s, tags), tags) /\ Match(s, tags) # 0
<1> DEFINE found == {a \in OnChain(s) : s[a].tag \in tags}
<1>0. DOMAIN s = 1 .. Len(s) /\ Len(s) \in Nat
  OBVIOUS
<1>1. /\ found \in SUBSET (1 .. Len(s))
      /\ \A a \in 1 .. Len(s) :
           a \in found <=> s[a].kind = "catch" /\ s[a].tag \in tags
  BY <1>0, WalkFact
<1> HIDE DEF found
<1>2. CASE found = {}
  BY <1>0, <1>1, <1>2 DEF Match, found
<1>3. CASE found # {}
  <2>1. \E a \in found : \A b \in found : b <= a
    BY <1>0, <1>1, <1>3, LastExists
  <2> DEFINE l == Match(s, tags)
  <2>2. l \in found /\ \A b \in found : b <= l
    BY <1>3, <2>1 DEF Match, found
  <2> HIDE DEF l
  <2>3. l \in 1 .. Len(s) /\ s[l].kind = "catch" /\ s[l].tag \in tags
    BY <1>1, <2>2
  <2>4. \A a \in l + 1 .. Len(s) : s[a].kind = "catch" => s[a].tag \notin tags
    <3> SUFFICES ASSUME NEW a \in l + 1 .. Len(s), a \in found
                 PROVE  FALSE
      BY <1>0, <1>1, <2>3
    <3> QED
      BY <1>0, <2>2, <2>3
  <2> QED
    BY <1>0, <2>3, <2>4 DEF IsFor, l
<1> QED
  BY <1>2, <1>3

\* What an err that conses is going to jump to, when it does, is still the
\* innermost catch for an error that is below it.
Targets(s) == \A a \in DOMAIN s :
                s[a].kind = "err" => IsFor(s, a - 1, s[a].catch, {errobj, all})

\* Cutting a stack back closes the scopes above.
LEMMA ScopesCut ==
  ASSUME NEW s \in Seq(Frame), NEW n \in 0 .. Len(s)
  PROVE  /\ Targets(s) => Targets(SubSeq(s, 1, n))
         /\ Scopes(SubSeq(s, 1, n)) =
              [k \in {k \in DOMAIN Scopes(s) : k < n + 1} |-> Scopes(s)[k]]
<1> DEFINE r == SubSeq(s, 1, n)
<1>1. /\ DOMAIN r = 1 .. n /\ \A a \in 1 .. n : r[a] = s[a]
      /\ DOMAIN s = 1 .. Len(s) /\ Len(s) \in Nat
  BY CutFact
<1> HIDE DEF r
<1>2. ASSUME Targets(s), NEW a \in DOMAIN r, r[a].kind = "err"
      PROVE  IsFor(r, a - 1, r[a].catch, {errobj, all})
  <2>1. a \in DOMAIN s /\ s[a].kind = "err" /\ r[a] = s[a] /\ a \in 1 .. n
    BY <1>1, <1>2
  <2>2. IsFor(s, a - 1, s[a].catch, {errobj, all})
    BY <1>2, <2>1, Zenon DEF Targets
  <2> QED
    BY <1>1, <2>1, <2>2 DEF IsFor
<1>3. DOMAIN Scopes(r) = {k \in DOMAIN Scopes(s) : k < n + 1}
  BY <1>1 DEF Scopes
<1>4. \A k \in DOMAIN Scopes(r) : Scopes(r)[k] = Scopes(s)[k]
  BY <1>1 DEF Scopes
<1>5. Scopes(r) = [k \in DOMAIN Scopes(r) |-> Scopes(r)[k]]
  BY DEF Scopes
<1> QED
  BY <1>2, <1>3, <1>4, <1>5 DEF Targets, r

\* Only a catch that is pushed opens a scope.
LEMMA ScopesPush ==
  ASSUME NEW s \in Seq(Frame), NEW f \in Frame, Targets(s),
         f.kind = "err" => IsFor(s, Len(s), f.catch, {errobj, all})
  PROVE  /\ Targets(Append(s, f))
         /\ f.kind # "catch" => Scopes(Append(s, f)) = Scopes(s)
         /\ f.kind = "catch" =>
              Scopes(Append(s, f)) =
                [k \in DOMAIN Scopes(s) \union {Len(s) + 1} |->
                   IF k = Len(s) + 1 THEN f.tag ELSE Scopes(s)[k]]
<1> DEFINE r == Append(s, f)
           n == Len(s) + 1
<1>1. /\ DOMAIN r = 1 .. n /\ \A a \in 1 .. n - 1 : r[a] = s[a]
      /\ r[n] = f /\ DOMAIN s = 1 .. n - 1 /\ n \in Nat \ {0} /\ Len(s) = n - 1
  BY PushFact
<1> HIDE DEF r, n
<1>2. ASSUME NEW a \in DOMAIN r, r[a].kind = "err"
      PROVE  IsFor(r, a - 1, r[a].catch, {errobj, all})
  <2>1. CASE a = n
    BY <1>1, <1>2, <2>1 DEF IsFor
  <2>2. CASE a \in 1 .. n - 1
    <3>1. a \in DOMAIN s /\ s[a].kind = "err" /\ r[a] = s[a]
      BY <1>1, <1>2, <2>2
    <3>2. IsFor(s, a - 1, s[a].catch, {errobj, all})
      BY <3>1, Zenon DEF Targets
    <3> QED
      BY <1>1, <2>2, <3>1, <3>2 DEF IsFor
  <2> QED
    BY <1>1, <2>1, <2>2
<1>3. CASE f.kind # "catch"
  <2>1. DOMAIN Scopes(r) = DOMAIN Scopes(s)
    BY <1>1, <1>3 DEF Scopes
  <2>2. \A k \in DOMAIN Scopes(r) : Scopes(r)[k] = Scopes(s)[k]
    BY <1>1, <1>3 DEF Scopes
  <2>3. Scopes(r) = Scopes(s)
    BY <2>1, <2>2 DEF Scopes
  <2> QED
    BY <1>2, <1>3, <2>3 DEF Targets, r
<1>4. CASE f.kind = "catch"
  <2>1. DOMAIN Scopes(r) = DOMAIN Scopes(s) \union {n}
    BY <1>1, <1>4 DEF Scopes
  <2>2. \A k \in DOMAIN Scopes(r) :
          Scopes(r)[k] = IF k = n THEN f.tag ELSE Scopes(s)[k]
    BY <1>1, <1>4 DEF Scopes
  <2>3. Scopes(r) = [k \in DOMAIN Scopes(r) |-> Scopes(r)[k]]
    BY DEF Scopes
  <2> QED
    BY <1>2, <1>4, <2>1, <2>2, <2>3 DEF Targets, r, n
<1> QED
  BY <1>3, <1>4

LEMMA ScopesPop ==
  ASSUME NEW s \in Seq(Frame), s # <<>>, s[Len(s)].kind # "catch"
  PROVE  Scopes(SubSeq(s, 1, Len(s) - 1)) = Scopes(s)
<1>1. Len(s) \in Nat \ {0} /\ DOMAIN s = 1 .. Len(s) /\ Len(s) - 1 \in 0 .. Len(s)
  OBVIOUS
<1> DEFINE n == Len(s) - 1
<1>2. Scopes(SubSeq(s, 1, n)) =
        [k \in {k \in DOMAIN Scopes(s) : k < n + 1} |-> Scopes(s)[k]]
  BY <1>1, ScopesCut
<1>3. {k \in DOMAIN Scopes(s) : k < n + 1} = DOMAIN Scopes(s)
  BY <1>1 DEF Scopes
<1>4. Scopes(s) = [k \in DOMAIN Scopes(s) |-> Scopes(s)[k]]
  BY DEF Scopes
<1> QED
  BY <1>2, <1>3, <1>4

\* A jump to the frame for what is raised leaves the scopes from there on.
LEMMA LandRefines ==
  ASSUME NEW s \in Seq(Frame), Targets(s), Scopes(s) = Scopes(stack),
         NEW l, NEW tags, IsFor(s, Len(s), l, tags), stack' = SubSeq(s, 1, l - 1)
  PROVE  Targets(stack') /\ \E k \in DOMAIN Scopes(stack) : AbsCatch!To(k, tags)
<1>1. /\ l \in 1 .. Len(s) /\ s[l].kind = "catch" /\ s[l].tag \in tags
      /\ \A a \in l + 1 .. Len(s) : s[a].kind = "catch" => s[a].tag \notin tags
      /\ DOMAIN s = 1 .. Len(s) /\ Len(s) \in Nat
  BY DEF IsFor
<1> DEFINE n == l - 1
<1>2. n \in 0 .. Len(s) /\ n + 1 = l
  BY <1>1
<1>3. /\ Targets(stack')
      /\ Scopes(stack') = [k \in {k \in DOMAIN Scopes(s) : k < n + 1} |-> Scopes(s)[k]]
  BY <1>2, ScopesCut
<1> HIDE DEF n
<1>4. l \in DOMAIN Scopes(s) /\ Scopes(s)[l] \in tags
  BY <1>1 DEF Scopes
<1>5. \A k \in DOMAIN Scopes(s) : l < k => Scopes(s)[k] \notin tags
  BY <1>1 DEF Scopes
<1>6. AbsCatch!To(l, tags)
  BY <1>2, <1>3, <1>4, <1>5 DEF AbsCatch!To, AbsCatch!Outside
<1> QED
  BY <1>3, <1>4, <1>6

LEMMA ErrRefines ==
  ASSUME IInv, NEW s \in Seq(Frame), Chain(s, catch_framep),
         Len(s) <= StackSize \/ inside_err = 1, Len(s) <= Depth,
         Targets(s), Scopes(s) = Scopes(stack),
         NEW m, NEW d, Err(s, m, 1, d)
  PROVE  Targets(stack') /\ (AbsCatch!Error \/ AbsCatch!Calm)
<1> DEFINE l == Match(s, {errobj, all})
<1>0. TypeOK /\ Len(s) \in Nat /\ DOMAIN s = 1 .. Len(s)
  BY DEF IInv
<1>1. \/ l = 0 /\ \A a \in DOMAIN s : s[a].kind = "catch" => s[a].tag \notin {errobj, all}
      \/ IsFor(s, Len(s), l, {errobj, all}) /\ l # 0
  BY MatchExact
<1> HIDE DEF l
<1>2. CASE l = 0 /\ Abort(m, d)
  <2>1. stack' = <<>> /\ raised' = "error"
    BY <1>2 DEF Abort
  <2>2. Targets(stack')
    BY <2>1 DEF Targets
  <2>3. Scopes(stack') = AbsCatch!NoScopes
    BY <2>1 DEF Scopes, AbsCatch!NoScopes
  <2>4. \A k \in DOMAIN Scopes(stack) : Scopes(stack)[k] \notin {errobj, all}
    <3>1. \A k \in DOMAIN Scopes(s) : Scopes(s)[k] \notin {errobj, all}
      BY <1>1, <1>2 DEF Scopes, IsFor
    <3> QED
      BY <3>1
  <2> QED
    BY <2>1, <2>2, <2>3, <2>4 DEF AbsCatch!Error
<1>3. CASE /\ l # 0 /\ Land(s, l, IF m = "own" THEN "pair" ELSE "nil")
           /\ raised' = "error"
  <2>1. stack' = SubSeq(s, 1, l - 1) /\ IsFor(s, Len(s), l, {errobj, all})
    BY <1>1, <1>3 DEF Land
  <2>2. Targets(stack') /\ \E k \in DOMAIN Scopes(stack) : AbsCatch!To(k, {errobj, all})
    BY <2>1, LandRefines
  <2> QED
    BY <1>3, <2>2 DEF AbsCatch!Error
<1>4. CASE /\ l # 0 /\ ~ WasInside
           /\ stack' = Append(s, ErrFrame(l)) /\ raised' = "none"
  <2>1. IsFor(s, Len(s), l, {errobj, all}) /\ Len(s) <= StackSize
    BY <1>1, <1>4 DEF WasInside
  <2>2. l \in 1 .. Depth
    BY <1>0, <2>1, SizesFact DEF IsFor
  <2>3. ErrFrame(l) \in Frame /\ ErrFrame(l).kind = "err" /\ ErrFrame(l).catch = l
    BY <2>2 DEF ErrFrame, Frame
  <2>4. Targets(stack') /\ Scopes(stack') = Scopes(s)
    BY <1>4, <2>1, <2>3, ScopesPush
  <2> QED
    BY <1>4, <2>4 DEF AbsCatch!Calm
<1> QED
  BY <1>2, <1>3, <1>4 DEF Err, l

LEMMA ScopesStep ==
  IInv /\ Targets(stack) /\ [Next]_vars =>
    Targets(stack)' /\ [AbsCatch!Next]_<<Scopes(stack), raised>>
<1> SUFFICES ASSUME IInv, Targets(stack), [Next]_vars
             PROVE  Targets(stack') /\ [AbsCatch!Next]_<<Scopes(stack), raised>>
  OBVIOUS
<1>1. ASSUME NEW m, NEW d, Working \/ Polls, Err(stack, m, errjmp_ok, d)
      PROVE  Targets(stack') /\ (AbsCatch!Error \/ AbsCatch!Calm)
  <2>1. /\ Running /\ Chain(stack, catch_framep) /\ stack \in Seq(Frame)
        /\ Len(stack) \in Nat /\ Len(stack) <= Depth /\ errjmp_ok = 1
        /\ Len(stack) > StackSize => inside_err = 1
    BY <1>1, RunFact
  <2> QED
    BY <1>1, <2>1, SizesFact, ErrRefines
<1>2. ASSUME stack # <<>>, Top # "catch"
      PROVE  /\ Pop \in Seq(Frame) /\ Len(Pop) <= StackSize /\ Len(Pop) <= Depth
             /\ Chain(Pop, catch_framep)
             /\ Targets(Pop) /\ Scopes(Pop) = Scopes(stack)
  <2>1. stack \in Seq(Frame) /\ Len(stack) \in Nat \ {0}
    BY <1>2, RunFact
  <2>2. Pop = SubSeq(stack, 1, Len(stack) - 1) /\ Len(stack) - 1 \in 0 .. Len(stack)
    BY <2>1 DEF Pop
  <2>3. Targets(Pop)
    BY <2>1, <2>2, ScopesCut
  <2>4. Scopes(Pop) = Scopes(stack)
    BY <1>2, <2>1, <2>2, ScopesPop DEF Top
  <2>5. Len(Pop) \in Nat
    BY <1>2, PopFact
  <2> QED
    BY <1>2, <2>3, <2>4, <2>5, PopFact, SizesFact
<1>3. ASSUME stack # <<>>, Top # "catch", NEW m, NEW d, Err(Pop, m, 1, d)
      PROVE  Targets(stack') /\ (AbsCatch!Error \/ AbsCatch!Calm)
  BY <1>2, <1>3, ErrRefines
<1>4. ASSUME stack # <<>>, Top # "catch", stack' = Pop, Calm
      PROVE  Targets(stack') /\ AbsCatch!Calm
  BY <1>2, <1>4 DEF AbsCatch!Calm, Calm
<1>5. ASSUME Working, NEW f \in Frame, f.kind \in {"section", "gc"},
             stack' = Append(stack, f), Calm
      PROVE  Targets(stack') /\ AbsCatch!Calm
  <2>1. stack \in Seq(Frame)
    BY <1>5, RunFact
  <2> QED
    BY <1>5, <2>1, ScopesPush DEF AbsCatch!Calm, Calm
<1>6. ASSUME stack' = stack, Calm
      PROVE  Targets(stack') /\ AbsCatch!Calm
  BY <1>6 DEF AbsCatch!Calm, Calm
<1>7. Interpreter => Targets(stack') /\ AbsCatch!Next
  <2>1. CASE Loop
    BY <1>6, <2>1 DEF Loop, AbsCatch!Next
  <2>2. CASE Interrupted
    BY <1>1, <2>2 DEF Interrupted, AbsCatch!Next
  <2>3. CASE CatchReturn
    <3>1. /\ stack # <<>> /\ stack \in Seq(Frame) /\ Len(stack) \in Nat \ {0}
          /\ DOMAIN stack = 1 .. Len(stack)
      BY <2>3, RunFact DEF CatchReturn, Top
    <3> DEFINE n == Len(stack) - 1
    <3>2. /\ n \in 0 .. Len(stack) /\ n + 1 = Len(stack)
          /\ stack' = SubSeq(stack, 1, n) /\ stack[Len(stack)].kind = "catch"
      BY <2>3, <3>1 DEF CatchReturn, Pop, Top
    <3>3. /\ Targets(stack')
          /\ Scopes(stack') = [k \in {k \in DOMAIN Scopes(stack) : k < n + 1} |->
                                 Scopes(stack)[k]]
      BY <3>1, <3>2, ScopesCut
    <3> HIDE DEF n
    <3>4. /\ Len(stack) \in DOMAIN Scopes(stack)
          /\ \A k \in DOMAIN Scopes(stack) : k <= Len(stack)
      BY <3>1, <3>2 DEF Scopes
    <3>5. AbsCatch!Leave
      BY <2>3, <3>2, <3>3, <3>4 DEF AbsCatch!Leave, AbsCatch!Outside, CatchReturn, Calm
    <3> QED
      BY <3>3, <3>5 DEF AbsCatch!Next
  <2>4. CASE Section
    <3>1. SectionFrame("section", nointerrupt) \in Frame
      BY <2>4, RunFact DEF Section, SectionFrame, Frame, TypeOK
    <3>2. SectionFrame("section", nointerrupt).kind = "section"
      BY DEF SectionFrame
    <3> QED
      BY <1>5, <2>4, <3>1, <3>2 DEF Section, AbsCatch!Next
  <2>5. CASE SectionLeave
    <3>1. stack # <<>> /\ Top = "section" /\ errjmp_ok = 1
      BY <2>5, RunFact DEF SectionLeave, Top, Working
    <3> QED
      BY <1>3, <1>4, <2>5, <3>1 DEF SectionLeave, AbsCatch!Next
  <2>6. CASE GcStart
    <3>1. Working /\ errjmp_ok = 1 /\ nointerrupt \in 0 .. 1
      BY <2>6, RunFact DEF GcStart, TypeOK
    <3>2. SectionFrame("gc", nointerrupt) \in Frame
      BY <3>1 DEF SectionFrame, Frame
    <3>3. SectionFrame("gc", nointerrupt).kind = "gc"
      BY DEF SectionFrame
    <3>4. stack' = Append(stack, SectionFrame("gc", nointerrupt)) /\ Calm
      BY <2>6, <3>1 DEF GcStart
    <3> QED
      BY <1>5, <3>1, <3>2, <3>3, <3>4 DEF AbsCatch!Next
  <2>7. CASE GcEnd
    <3>1. stack # <<>> /\ Top = "gc"
      BY <2>7 DEF GcEnd, GcEndWith, Top
    <3>2. CASE \E d : Err(Pop, "message", 1, d)
      BY <1>3, <3>1, <3>2 DEF AbsCatch!Next
    <3>3. CASE GcResult(interrupt_differed = 1)
      <4>1. CASE stack' = Pop
        BY <1>4, <3>1, <3>3, <4>1 DEF GcResult, AbsCatch!Next
      <4>2. CASE stack' = Append(Pop, HookFrame)
        <5>1. HookFrame \in Frame /\ HookFrame.kind = "hook"
          BY DEF HookFrame, Frame
        <5>2. Targets(stack') /\ Scopes(stack') = Scopes(stack)
          BY <1>2, <3>1, <4>2, <5>1, ScopesPush
        <5> QED
          BY <3>3, <5>2 DEF GcResult, Calm, AbsCatch!Calm, AbsCatch!Next
      <4> QED
        BY <3>3, <4>1, <4>2 DEF GcResult
    <3> QED
      BY <2>7, <3>2, <3>3 DEF GcEnd, GcEndWith
  <2>8. CASE HookReturn
    <3>1. stack # <<>> /\ Top = "hook"
      BY <2>8 DEF HookReturn, Top
    <3> QED
      BY <1>4, <2>8, <3>1 DEF HookReturn, AbsCatch!Next
  <2>9. CASE ErrFinish
    <3> DEFINE l == stack[Len(stack)].catch
    <3>1. stack # <<>> /\ stack[Len(stack)].kind = "err"
      BY <2>9 DEF ErrFinish, Top
    <3>2. stack \in Seq(Frame) /\ Len(stack) \in Nat \ {0} /\ Len(stack) \in DOMAIN stack
      BY <3>1, RunFact
    <3>3. IsFor(stack, Len(stack) - 1, l, {errobj, all})
      BY <3>1, <3>2, Zenon DEF Targets
    <3>4. IsFor(stack, Len(stack), l, {errobj, all})
      BY <3>1, <3>2, <3>3 DEF IsFor
    <3>5. stack' = SubSeq(stack, 1, l - 1) /\ raised' = "error"
      BY <2>9 DEF ErrFinish, Land
    <3> HIDE DEF l
    <3>6. Targets(stack') /\ \E k \in DOMAIN Scopes(stack) : AbsCatch!To(k, {errobj, all})
      BY <3>2, <3>4, <3>5, LandRefines
    <3> QED
      BY <3>5, <3>6 DEF AbsCatch!Error, AbsCatch!Next
  <2>10. ASSUME NEW t \in Tags, Catch(t)
         PROVE  Targets(stack') /\ AbsCatch!Next
    <3> DEFINE f == CatchFrame(t, catch_framep)
               n == Len(stack) + 1
    <3>1. /\ Working /\ stack \in Seq(Frame) /\ catch_framep \in 0 .. Depth
          /\ Len(stack) \in Nat /\ Len(stack) < StackSize
      BY <2>10, RunFact DEF Catch, Working, TypeOK, Room
    <3>2. f \in Frame /\ f.kind = "catch" /\ f.tag = t
      BY <3>1 DEF CatchFrame, Frame
    <3>3. stack' = Append(stack, f) /\ raised' = "none"
      BY <2>10 DEF Catch, Calm
    <3> HIDE DEF f
    <3>4. /\ Targets(stack')
          /\ Scopes(stack') = [k \in DOMAIN Scopes(stack) \union {n} |->
                                 IF k = n THEN t ELSE Scopes(stack)[k]]
      <4>1. /\ Targets(Append(stack, f))
            /\ Scopes(Append(stack, f)) =
                 [k \in DOMAIN Scopes(stack) \union {n} |->
                    IF k = n THEN f.tag ELSE Scopes(stack)[k]]
        <5>1. f.kind # "err"
          BY <3>2
        <5> QED
          BY <3>1, <3>2, <5>1, ScopesPush
      <4> QED
        BY <3>2, <3>3, <4>1
    <3>5. n \in 1 .. Depth /\ \A k \in DOMAIN Scopes(stack) : k < n
      BY <3>1, SizesFact DEF Scopes
    <3> HIDE DEF n
    <3>6. AbsCatch!Enter(t)
      BY <3>3, <3>4, <3>5 DEF AbsCatch!Enter
    <3> QED
      BY <3>4, <3>6 DEF AbsCatch!Next
  <2>11. ASSUME NEW t \in Tags, Throw(t)
         PROVE  Targets(stack') /\ AbsCatch!Next
    <3> DEFINE l == Match(stack, {t, all})
    <3>1. Working /\ stack \in Seq(Frame) /\ Chain(stack, catch_framep)
      BY <2>11, RunFact DEF Throw, Working
    <3>2. l = 0 \/ IsFor(stack, Len(stack), l, {t, all})
      BY <3>1, MatchExact
    <3> HIDE DEF l
    <3>3. CASE Err(stack, "message", errjmp_ok, interrupt_differed)
      BY <1>1, <3>1, <3>3 DEF AbsCatch!Next
    <3>4. CASE l # 0 /\ Land(stack, l, "thrown") /\ raised' = t
      <4>1. stack' = SubSeq(stack, 1, l - 1)
        BY <3>4 DEF Land
      <4>2. Targets(stack') /\ \E k \in DOMAIN Scopes(stack) : AbsCatch!To(k, {t, all})
        BY <3>1, <3>2, <3>4, <4>1, LandRefines
      <4> QED
        BY <3>4, <4>2 DEF AbsCatch!Throw, AbsCatch!Next
    <3> QED
      BY <2>11, <3>3, <3>4 DEF Throw, l
  <2>12. ASSUME NEW m, Error(m)
         PROVE  Targets(stack') /\ AbsCatch!Next
    BY <1>1, <2>12 DEF Error, AbsCatch!Next
  <2> QED
    BY <2>1, <2>2, <2>3, <2>4, <2>5, <2>6, <2>7, <2>8, <2>9, <2>10, <2>11, <2>12
    DEF Interpreter
<1>8. CASE Signal
  BY <1>6, <1>8 DEF Signal, AbsCatch!Next
<1>9. ASSUME NEW m \in Modes, NEW first \in {"init", "prompt"}, Driver(m, first)
      PROVE  Targets(stack') /\ AbsCatch!Next
  BY <1>6, <1>9 DEF Driver, AbsCatch!Next
<1>10. CASE UNCHANGED vars
  BY <1>10 DEF vars
<1> QED
  BY <1>7, <1>8, <1>9, <1>10 DEF Next

\* To the Lisp program *catch, *throw and errors are dynamic scopes: whatever
\* sections, collections, *after-gc* and errors in err itself come between, each
\* exit goes to the innermost scope for it, and no other is entered or left.
THEOREM ScopesAreDynamic == Spec => Implements
<1>1. Init => Targets(stack) /\ AbsCatch!Init
  <2> SUFFICES ASSUME Init PROVE Targets(stack) /\ AbsCatch!Init
    OBVIOUS
  <2>1. stack = <<>> /\ raised = "none"
    BY DEF Init
  <2>2. Scopes(stack) = AbsCatch!NoScopes
    BY <2>1 DEF Scopes, AbsCatch!NoScopes
  <2> QED
    BY <2>1, <2>2 DEF Targets, AbsCatch!Init
<1> QED
  BY <1>1, ScopesStep, Invariance, PTL DEF Spec, Implements, AbsCatch!Spec
=============================================================================
