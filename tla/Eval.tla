-------------------------------- MODULE Eval --------------------------------
(***************************************************************************)
(* The evaluator (slib.c, sliba.c: cond, trace.c).                         *)
(*                                                                         *)
(* An object is a pair of a type and a value; a cell is an index of cells. *)
(* Forms, argument lists and frames are lists of cells, as in the program: *)
(* the let macros rewrite forms in place, define and set! write into       *)
(* frames. stack has the C activations that wait for a call of leval to    *)
(* return or are in the middle of their conses (control.do is "ready"):    *)
(* there a collection may make gc_for_newcell evaluate *after-gc* on top   *)
(* of everything, or storage may run out. Numbers are unbounded; *catch is *)
(* Control's.                                                              *)
(***************************************************************************)
EXTENDS Integers, Sequences, SequencesExt

CONSTANTS Programs,   \* each: cells, its forms in order, the values they may have, and
                      \* the activations they may take
          MaxHooks,   \* bound: evaluations of *after-gc*
          MaxErrors   \* bound: conses that fail, and control-C

VARIABLES
  cells,    \* the type, car and cdr of each cell; a closure's env and code
  vcell,    \* the value cells of the symbols that have a value
  stack,    \* activations: op, what is left to do (x), env, what is done (acc)
  control,  \* leval(x, env), its value x, or where the activation on top is
  program, turn,          \* the driver: which form of which program
  results,  \* history: each form that returned, or *after-gc*, with its value
  hooks, errors,          \* history: how often
  torn      \* history: frames and forms that were left, or entered again, half written

vars == <<cells, vcell, stack, control, program, turn, results, hooks, errors, torn>>
outside == <<vcell, program, turn, results, hooks, errors, torn>>

Nil == <<"nil", 0>>
S(name) == <<"symbol", name>>
N(n) == <<"number", n>>
Error == <<"error", 0>>

Type(o) == IF o[1] = "cell" THEN cells[o[2]].type ELSE o[1]
\* car and cdr, of NIL too; of what is no list they fail, when it is evaluated.
Car(o) == CASE o = Nil -> Nil [] o[1] = "cell" -> cells[o[2]].car [] OTHER -> Error
Cdr(o) == CASE o = Nil -> Nil [] o[1] = "cell" -> cells[o[2]].cdr [] OTHER -> Error
Cadr(o) == Car(Cdr(o))
Cddr(o) == Cdr(Cdr(o))

\* The cells of the list l, up to what is no cons; their cars; what ends it.
Spine(l) ==
  LET after(o, f) == IF o[1] = "cell" THEN f[o[2]] ELSE <<>>
      spine[i \in DOMAIN cells] ==
        IF cells[i].type # "cons" THEN <<>> ELSE <<i>> \o after(cells[i].cdr, spine)
  IN after(l, spine)
Items(l) == [i \in DOMAIN Spine(l) |-> cells[Spine(l)[i]].car]
End(l) == IF Spine(l) = <<>> THEN l ELSE cells[Last(Spine(l))].cdr

\* Storage with a new cell, with a list of new cells, and the new object.
New(c, type, a, d) == [c |-> Append(c, [type |-> type, car |-> a, cdr |-> d]),
                       o |-> <<"cell", Len(c) + 1>>]
ListIn(c, q, end) ==
  [c |-> c \o [i \in DOMAIN q |-> [type |-> "cons", car |-> q[i],
                                   cdr |-> IF i = Len(q) THEN end ELSE <<"cell", Len(c) + i + 1>>]],
   o |-> IF q = <<>> THEN end ELSE <<"cell", Len(c) + 1>>]
SetCar(c, o, v) == [c EXCEPT ![o[2]].car = v]
SetCdr(c, o, v) == [c EXCEPT ![o[2]].cdr = v]

-----------------------------------------------------------------------------
(* Environments.                                                           *)

\* Where frame fr has something to say of var: the cell that has its value, the
\* rest of the arguments, "too few arguments", or none.
Place(var, fr) ==
  LET names == Items(Car(fr))  values == Spine(Cdr(fr))
      hits == {i \in DOMAIN names : names[i] = var}
      upto == IF hits = {} THEN Len(names) ELSE Min(hits)
  IN IF Len(values) < upto THEN <<"few", 0>>
     ELSE IF hits # {} THEN <<"cell", values[upto]>>
     ELSE IF End(Car(fr)) = var
          THEN <<"rest", IF Len(values) = upto THEN End(Cdr(fr)) ELSE <<"cell", values[upto + 1]>>>>
     ELSE Nil

\* envlookup: the first frame that has.
Envlookup(var, env) ==
  LET frames == Items(env)
      has == {i \in DOMAIN frames : Place(var, frames[i]) # Nil}
  IN IF has = {} THEN Nil ELSE Place(var, frames[Min(has)])

\* The value of a symbol: of its binding, or of its value cell.
Value(var, env) ==
  LET b == Envlookup(var, env) IN
  CASE b[1] = "cell" -> Car(b)
    [] b[1] = "rest" -> b[2]
    [] b = Nil /\ var[2] \in DOMAIN vcell -> vcell[var[2]]
    [] OTHER -> Error

\* setvar's effect on cells and value cells: the rest of the arguments is found
\* in a new cell, and what is set there is lost.
SetVar(var, v, env) ==
  LET b == Envlookup(var, env) IN
  /\ cells' = IF b[1] = "cell" THEN SetCar(cells, b, v) ELSE cells
  /\ vcell' = IF b = Nil THEN (var[2] :> v) @@ vcell ELSE vcell

\* extend_env: names that are one symbol are bound to all the arguments.
ExtendEnv(c, actuals, formals, env) ==
  LET fs == IF Type(formals) = "symbol" THEN ListIn(c, <<formals>>, Nil) ELSE [c |-> c, o |-> formals]
      as == IF Type(formals) = "symbol" THEN ListIn(fs.c, <<actuals>>, Nil) ELSE [c |-> c, o |-> actuals]
      fr == New(as.c, "cons", fs.o, as.o)
  IN New(fr.c, "cons", fr.o, env)

-----------------------------------------------------------------------------
(* Calls and returns of leval.                                             *)

Active == Last(stack)
Below == Front(stack)
Activation(op, x, env, acc) == [op |-> op, x |-> x, env |-> env, acc |-> acc]
Do(do, x, env) == control' = [do |-> do, x |-> x, env |-> env]

\* st is the stack that waits; what the callers leave alone.
Leval(x, env, st) == Do("eval", x, env) /\ stack' = st /\ UNCHANGED <<cells, outside>>
Return(v, st) == Do("return", v, Nil) /\ stack' = st /\ UNCHANGED <<cells, outside>>
Ready(a, st) == Do("ready", Nil, Nil) /\ stack' = Append(st, a) /\ UNCHANGED <<cells, outside>>

\* An error unwinds to the driver, which goes on to its next form.
Form == program.forms[turn]
Err == /\ stack' = <<>> /\ Do("idle", Nil, Nil) /\ turn' = turn + 1
       /\ results' = results \union {<<Form, Error>>}
       /\ UNCHANGED <<cells, vcell, program, hooks, errors, torn>>

Kind ==
  [n \in {"car", "cdr", "not", "pair?", "let-internal-macro", "let*-macro", "letrec-macro"} |-> "subr_1"]
  @@ [n \in {"=", "cons", "apply"} |-> "subr_2"] @@ [n \in {"+", "-"} |-> "subr_2n"]
  @@ [n \in {"list", "untrace"} |-> "lsubr"]
  @@ [n \in {"quote", "the-environment", "set!", "lambda", "define", "while", "trace"} |-> "fsubr"]
  @@ [n \in {"if", "begin", "or", "and", "cond", "let-internal"} |-> "msubr"]
KindOf(fn) == IF fn[1] = "subr" THEN Kind[fn[2]] ELSE Type(fn)

\* The next argument, or the function with all of them: a subr takes as many as it
\* has, NIL for those that are missing; leval_args takes what there is, and conses.
\* acc is the function, or the tail of a let-internal form, and the values.
NextArg(a, st) ==
  LET k == KindOf(a.acc[1])
      least == CASE k = "subr_1" -> 2 [] k \in {"subr_2", "subr_2n"} -> 3 [] OTHER -> 1
  IN IF Len(a.acc) < least \/ (k \notin {"subr_1", "subr_2"} /\ Type(a.x) = "cons")
     THEN Leval(Car(a.x), a.env, Append(st, [a EXCEPT !.x = Cdr(a.x)]))
     ELSE Ready([a EXCEPT !.op = "apply"], st)

\* Mutant of Sequence: the last form is called, as the others are.
SequenceCalls(op, l, env, st) == Leval(Car(l), env, Append(st, Activation(op, l, env, <<>>)))

\* progn, and, or: the forms of l; the last in the place of the whole.
Sequence(op, l, env, st) ==
  Leval(Car(l), env, IF Cdr(l) = Nil THEN st ELSE Append(st, Activation(op, l, env, <<>>)))

\* leval_cond: a last clause of one form is evaluated in the place of the whole.
Clause(l, env, st) ==
  IF l = Nil THEN Return(Nil, st)
  ELSE Leval(Car(Car(l)), env,
             IF Cdr(l) = Nil /\ Cdr(Car(l)) = Nil THEN st
             ELSE Append(st, Activation("cond", l, env, <<>>)))

\* syntax_define conses the form of a variable and a lambda.
Define(args, env, st) ==
  IF Type(Car(args)) = "symbol" THEN Leval(Cadr(args), env, Append(st, Activation("define", Car(args), env, <<>>)))
  ELSE Ready(Activation("syntax", args, env, <<>>), st)

\* A special form, given its arguments.
Special(name, l, env, st) ==
  CASE name = "quote" -> Return(Car(l), st)
    [] name = "the-environment" -> Return(env, st)
    [] name \in {"set!", "while", "trace", "if"} ->
         Leval(IF name = "set!" THEN Cadr(l) ELSE Car(l), env, Append(st, Activation(name, l, env, <<>>)))
    [] name = "lambda" -> Ready(Activation("lambda", l, env, <<>>), st)
    [] name = "define" -> Define(l, env, st)
    [] name = "and" /\ l = Nil -> Return(S("t"), st)
    [] name \in {"begin", "or", "and"} -> Sequence(name, l, env, st)
    [] name = "cond" -> Clause(l, env, st)
    [] name = "let-internal" -> NextArg(Activation("args", Cadr(l), env, <<l>>), st)

\* leval of a form whose function is fn.
Call(fn, x, env, st) ==
  LET k == KindOf(fn) IN
  CASE k \in {"fsubr", "msubr"} -> Special(fn[2], Cdr(x), env, st)
    [] k \in {"subr_1", "subr_2", "subr_2n", "lsubr", "closure", "traced"} ->
         NextArg(Activation("args", Cdr(x), env, <<fn>>), st)
    [] k = "symbol" -> Ready(Activation("macro", x, env, <<fn>>), st)
    [] OTHER -> Err

LevalSymbol ==
  /\ control.do = "eval" /\ Type(control.x) = "symbol"
  /\ LET v == Value(control.x, control.env) IN IF v = Error THEN Err ELSE Return(v, stack)

LevalConstant ==
  /\ control.do = "eval" /\ Type(control.x) \notin {"symbol", "cons"}
  /\ IF control.x = Error THEN Err ELSE Return(control.x, stack)

LevalForm ==
  /\ control.do = "eval" /\ Type(control.x) = "cons"
  /\ LET x == control.x  env == control.env  head == Car(x) IN
     CASE Type(head) = "cons" -> Leval(head, env, Append(stack, Activation("head", x, env, <<>>)))
       [] Type(head) = "symbol" /\ Value(head, env) = Error -> Err
       [] Type(head) = "symbol" -> Call(Value(head, env), x, env, stack)
       [] OTHER -> Call(head, x, env, stack)

-----------------------------------------------------------------------------
(* What an activation does with the value that leval returns to it.        *)

Returned(op) == control.do = "return" /\ stack # <<>> /\ Active.op = op
v == control.x

ReturnHead == Returned("head") /\ Call(v, Active.x, Active.env, Below)

ReturnArg ==
  /\ Returned("args")
  /\ LET a == [Active EXCEPT !.acc = Append(@, v)] IN
     IF Active.acc[1][1] = "subr" /\ KindOf(Active.acc[1]) # "lsubr" THEN NextArg(a, Below) ELSE Ready(a, Below)

\* setvar looks the variable up after the value is there.
ReturnSet ==
  /\ Returned("set!")
  /\ LET var == Car(Active.x) IN
     IF Type(var) # "symbol" \/ Envlookup(var, Active.env)[1] = "few" THEN Err
     ELSE /\ SetVar(var, v, Active.env) /\ Do("return", v, Nil) /\ stack' = Below
          /\ UNCHANGED <<program, turn, results, hooks, errors, torn>>

\* leval_define: an old binding is set, else the innermost frame gets a new one: its
\* names first.
ReturnDefine ==
  /\ Returned("define")
  /\ LET var == Active.x  env == Active.env  b == Envlookup(var, env) IN
     IF b[1] = "few" THEN Err
     ELSE IF b # Nil \/ env = Nil
     THEN /\ SetVar(var, v, env) /\ Do("return", v, Nil) /\ stack' = Below
          /\ UNCHANGED <<program, turn, results, hooks, errors, torn>>
     ELSE Ready(Activation("names", var, env, <<v>>), Below)

ReturnIf ==
  /\ Returned("if")
  /\ Leval(IF v # Nil THEN Cadr(Active.x) ELSE Car(Cddr(Active.x)), Active.env, Below)

ReturnSequence ==
  \E op \in {"begin", "or", "and"} :
    /\ Returned(op)
    /\ IF (op = "or" /\ v # Nil) \/ (op = "and" /\ v = Nil) THEN Return(v, Below)
       ELSE Sequence(op, Cdr(Active.x), Active.env, Below)

ReturnCond ==
  /\ Returned("cond")
  /\ LET body == Cdr(Car(Active.x)) IN
     IF v = Nil THEN Clause(Cdr(Active.x), Active.env, Below)
     ELSE IF body = Nil THEN Return(v, Below)
     ELSE Sequence("begin", body, Active.env, Below)

\* leval_while: the test, then each form of the body, and the test again; acc is
\* the rest of the body, or nothing during the test.
ReturnWhile ==
  /\ Returned("while")
  /\ LET a == Active
         rest == IF a.acc = <<>> THEN Cdr(a.x) ELSE a.acc[1]
     IN IF a.acc = <<>> /\ v = Nil THEN Return(Nil, Below)
        ELSE IF rest = Nil THEN Leval(Car(a.x), a.env, Append(Below, [a EXCEPT !.acc = <<>>]))
        ELSE Leval(Car(rest), a.env, Append(Below, [a EXCEPT !.acc = <<Cdr(rest)>>]))

\* The form that a macro made is evaluated in the place of the old one. lapply,
\* ct_eval and gc_for_newcell call leval as functions.
ReturnExpansion == Returned("expansion") /\ Leval(v, Active.env, Below)
ReturnCall == Returned("call") /\ Return(v, Below)
ReturnHook ==
  /\ Returned("hook") /\ results' = results \union {<<S("*after-gc*"), v>>}
  /\ Do("ready", Nil, Nil) /\ stack' = Below
  /\ UNCHANGED <<cells, vcell, program, turn, hooks, errors, torn>>

\* ltrace_1: the closure's code is named and its type changed, in place.
ReturnTrace ==
  /\ Returned("trace")
  /\ IF Type(v) \notin {"closure", "traced"} THEN Err
     ELSE Ready(Activation("traced", Active.x, Active.env, <<v>>), Below)

-----------------------------------------------------------------------------
(* What an activation does after its conses.                               *)

IsReady(op) == control.do = "ready" /\ Active.op = op

\* The step of the activation on top: storage c; next is leval of x, or the value x.
Then(do, x, env, c, st) ==
  Do(do, x, env) /\ stack' = st /\ cells' = c /\ UNCHANGED outside

ReadyArg == IsReady("args") /\ NextArg(Active, Below)

\* The subrs; (apply f l) is lapply.
Primitive(name, q) ==
  CASE name = "car" -> Car(q[1]) [] name = "cdr" -> Cdr(q[1])
    [] name = "not" -> IF q[1] = Nil THEN S("t") ELSE Nil
    [] name = "pair?" -> IF Type(q[1]) = "cons" THEN S("t") ELSE Nil
    [] name = "=" -> IF q[1] = q[2] THEN S("t") ELSE Nil
    [] name \in {"+", "-"} -> FoldLeft(LAMBDA s, o : N(IF name = "+" THEN s[2] + o[2] ELSE s[2] - o[2]), q[1], Tail(q))

Numbers(q) == \A i \in DOMAIN q : q[i][1] = "number"
Listed(o) == o = Nil \/ Type(o) = "cons"

\* Mutant of Body: the caller's environment.
BodyDynamic(fn, actuals, c, st) ==
  LET code == Cdr(fn)  e == ExtendEnv(c, actuals, Car(code), Active.env) IN
  Then("eval", Cdr(code), e.o, e.c, st)

\* A closure's body in its own environment: in the place of the call (leval), or
\* called (lapply, ct_eval).
Body(fn, actuals, c, st) ==
  LET code == Cdr(fn)  e == ExtendEnv(c, actuals, Car(code), Car(fn)) IN
  Then("eval", Cdr(code), e.o, e.c, st)

ApplyClosure ==
  /\ IsReady("apply") /\ Type(Active.acc[1]) \in {"closure", "traced"}
  /\ LET l == ListIn(cells, Tail(Active.acc), Nil) IN
     Body(Active.acc[1], l.o, l.c,
          IF Type(Active.acc[1]) = "closure" THEN Below ELSE Append(Below, Activation("call", Nil, Nil, <<>>)))

ApplyLet ==
  /\ IsReady("apply") /\ Type(Active.acc[1]) = "cons"
  /\ LET l == ListIn(cells, Tail(Active.acc), Nil)
         e == ExtendEnv(l.c, l.o, Car(Active.acc[1]), Active.env)
     IN Then("eval", Car(Cddr(Active.acc[1])), e.o, e.c, Below)

ApplySubr ==
  /\ IsReady("apply") /\ Active.acc[1][1] = "subr"
  /\ LET name == Active.acc[1][2]  q == Tail(Active.acc)  l == ListIn(cells, q, Nil) IN
     CASE name = "list" -> Then("return", l.o, Nil, l.c, Below)
       [] name = "cons" -> LET z == New(cells, "cons", q[1], q[2]) IN Then("return", z.o, Nil, z.c, Below)
       [] name = "untrace" ->
            IF \E i \in DOMAIN q : Type(q[i]) \notin {"closure", "traced"} THEN Err
            ELSE Then("return", Nil, Nil,
                      [i \in DOMAIN cells |-> IF \E j \in DOMAIN q : q[j] = <<"cell", i>>
                                              THEN [cells[i] EXCEPT !.type = "closure"] ELSE cells[i]], Below)
       [] name = "apply" ->
            CASE Type(q[1]) = "closure" -> Body(q[1], q[2], cells, Append(Below, Activation("call", Nil, Nil, <<>>)))
              [] KindOf(q[1]) \in {"subr_1", "subr_2", "subr_2n", "lsubr"} ->
                   Ready(Activation("apply", Nil, Nil,
                     <<q[1]>> \o LET s == Items(q[2])
                                     k == CASE KindOf(q[1]) = "subr_1" -> 1 [] KindOf(q[1]) = "lsubr" -> Len(s)
                                            [] KindOf(q[1]) = "subr_2" -> 2 [] OTHER -> Max({2, Len(s)})
                                 IN [i \in 1 .. k |-> IF i <= Len(s) THEN s[i] ELSE Nil]), Below)
              [] OTHER -> Err
       [] name \in {"let-internal-macro", "let*-macro", "letrec-macro"} ->
            /\ Do("ready", Nil, Nil) /\ stack' = Append(Below, Activation(name, q[1], Nil, <<Cadr(q[1]), Cddr(q[1])>>))
            /\ torn' = IF \E i, j \in DOMAIN stack : /\ i < j /\ stack[i].x = q[1] /\ stack[j].x = q[1]
                                                   /\ {stack[i].op, stack[j].op} \subseteq {"macro", "expansion"}
                       THEN torn \union {q[1]} ELSE torn
            /\ UNCHANGED <<cells, vcell, program, turn, results, hooks, errors>>
       [] OTHER -> IF (name \in {"car", "cdr"} /\ ~Listed(q[1])) \/ (name \in {"+", "-"} /\ ~Numbers(q)) THEN Err
                   ELSE Return(Primitive(name, q), Below)

ReadyLambda ==
  /\ IsReady("lambda")
  /\ LET l == Active.x
         b == IF Cddr(l) = Nil THEN [c |-> cells, o |-> Cadr(l)] ELSE New(cells, "cons", S("begin"), Cdr(l))
         code == New(b.c, "cons", Car(l), b.o)
         z == New(code.c, "closure", Active.env, code.o)
     IN Then("return", z.o, Nil, z.c, Below)

ReadySyntax ==
  /\ IsReady("syntax")
  /\ LET l == Active.x
         args == New(cells, "cons", Cdr(Car(l)), Cdr(l))
         lambda == New(args.c, "cons", S("lambda"), args.o)
         form == ListIn(lambda.c, <<Car(Car(l)), lambda.o>>, Nil)
     IN Then("ready", Nil, Nil, form.c, Append(Below, [Active EXCEPT !.op = "define", !.x = form.o]))

ReadyDefine == IsReady("define") /\ Define(Active.x, Active.env, Below)

\* leval_define: the frame's names, then a cons, then its values.
ReadyNames ==
  /\ IsReady("names")
  /\ LET fr == Car(Active.env)  l == New(cells, "cons", Active.x, Car(fr)) IN
     Then("ready", Nil, Nil, SetCar(l.c, fr, l.o), Append(Below, [Active EXCEPT !.op = "values"]))
ReadyValues ==
  /\ IsReady("values")
  /\ LET fr == Car(Active.env)  l == New(cells, "cons", Active.acc[1], Cdr(fr)) IN
     Then("return", Active.acc[1], Nil, SetCdr(l.c, fr, l.o), Below)

\* leval: (macro (quote x)), in the outermost environment.
ReadyMacro ==
  /\ IsReady("macro")
  /\ LET q == ListIn(cells, <<S("quote"), Active.x>>, Nil)
         form == ListIn(q.c, <<Active.acc[1], q.o>>, Nil)
     IN Then("eval", form.o, Nil, form.c, Append(Below, [Active EXCEPT !.op = "expansion"]))

ReadyTraced ==
  /\ IsReady("traced")
  /\ LET fn == Active.acc[1]  code == Cdr(fn)  old == Cdr(code)  l == Active.x
         quote == ListIn(cells, <<S("quote"), Car(l)>>, Nil)
         body == ListIn(quote.c, <<S("begin"), quote.o, old>>, Nil)
         c == IF Type(fn) = "traced" \/ (Car(old) = S("begin") /\ Car(Cadr(old)) = S("quote")) THEN cells
              ELSE SetCdr(body.c, code, body.o)
         t == [c EXCEPT ![fn[2]].type = "traced"]
     IN IF Cdr(l) = Nil THEN Then("return", Nil, Nil, t, Below)
        ELSE Then("eval", Cadr(l), Active.env, t, Append(Below, Activation("trace", Cdr(l), Active.env, <<>>)))

\* What no-interrupt polls in cintern comes between setcdr and setcar.
Poll(op, c) == Then("poll", Nil, Nil, c, Append(Below, [Active EXCEPT !.op = op]))

\* let_macro: the bindings were read before its first cons; the body is read now;
\* then it conses again.
ReadyLetBindings ==
  /\ IsReady("let-internal-macro")
  /\ Then("ready", Nil, Nil, cells, Append(Below, [Active EXCEPT !.op = "let-body", !.acc[2] = Cddr(Active.x)]))

ReadyLetBody ==
  /\ IsReady("let-body")
  /\ LET form == Active.x  bindings == Items(Active.acc[1])  p == Active.acc[2]
         bound(b) == Type(b) # "symbol"
         fl == ListIn(cells, [i \in DOMAIN bindings |-> IF bound(bindings[i]) THEN Car(bindings[i]) ELSE bindings[i]], Nil)
         al == ListIn(fl.c, [i \in DOMAIN bindings |-> IF bound(bindings[i]) THEN Cadr(bindings[i]) ELSE Nil], Nil)
         body == IF Cdr(p) = Nil THEN [c |-> al.c, o |-> Car(p)] ELSE New(al.c, "cons", S("begin"), p)
         l == ListIn(body.c, <<fl.o, al.o, body.o>>, Nil)
     IN Poll("let-internal", SetCdr(l.c, form, l.o))

\* letstar_macro: (let (b1) (let* (b2 ...) . body)).
ReadyLetStar ==
  /\ IsReady("let*-macro")
  /\ LET form == Active.x  bindings == Active.acc[1]
         rest == New(cells, "cons", Cdr(bindings), Cddr(form))
         inner == New(rest.c, "cons", S("let*"), rest.o)
         first == New(inner.c, "cons", Car(bindings), Nil)
         l == ListIn(first.c, <<first.o, inner.o>>, Nil)
     IN Poll("let", IF bindings = Nil \/ Cdr(bindings) = Nil THEN cells ELSE SetCdr(l.c, form, l.o))

\* letrec_macro: variables that are NIL, and a set! of each before the body.
ReadyLetrec ==
  /\ IsReady("letrec-macro")
  /\ LET form == Active.x  bindings == Items(Active.acc[1])
         variable(s, b) == LET one == ListIn(s.c, <<Car(b)>>, Nil) IN New(one.c, "cons", one.o, s.o)
         assign(s, b) == LET one == ListIn(s.c, <<S("set!"), Car(b), Cadr(b)>>, Nil) IN New(one.c, "cons", one.o, s.o)
         letb == FoldLeft(variable, [c |-> cells, o |-> Nil], bindings)
         setb == FoldLeft(assign, [c |-> letb.c, o |-> Active.acc[2]], bindings)
         l == New(setb.c, "cons", letb.o, setb.o)
     IN Poll("let", SetCdr(l.c, form, l.o))

Rewritten ==
  /\ control.do = "poll"
  /\ Then("return", Active.x, Nil, SetCar(cells, Active.x, S(Active.op)), Below)

-----------------------------------------------------------------------------
(* What interferes, and the driver.                                        *)

\* gc_for_newcell after a collection that freed enough, in any cons.
Hook ==
  /\ control.do = "ready" /\ hooks < MaxHooks /\ vcell["*after-gc*"] # Nil
  /\ hooks' = hooks + 1
  /\ Do("eval", vcell["*after-gc*"], Nil) /\ stack' = Append(stack, Activation("hook", Nil, Nil, <<>>))
  /\ UNCHANGED <<cells, vcell, program, turn, results, errors, torn>>

\* No storage is left for a cons, or control-C where the code polls for it: the
\* driver is given the form again.
Fail ==
  /\ control.do \in {"eval", "ready", "poll"} /\ errors < MaxErrors
  /\ errors' = errors + 1 /\ stack' = <<>> /\ Do("idle", Nil, Nil)
  /\ torn' = torn \union {Car(stack[i].env) : i \in {j \in DOMAIN stack : stack[j].op = "values"}}
                  \union {stack[i].x : i \in {j \in DOMAIN stack : stack[j].op = "let-internal"}}
  /\ UNCHANGED <<cells, vcell, program, turn, results, hooks>>

Start == /\ control.do = "idle" /\ turn <= Len(program.forms) /\ Leval(Form, Nil, <<>>)

Finish == /\ control.do = "return" /\ stack = <<>> /\ turn' = turn + 1
          /\ results' = results \union {<<Form, v>>} /\ Do("idle", Nil, Nil)
          /\ UNCHANGED <<cells, vcell, stack, program, hooks, errors, torn>>

Init == /\ program \in Programs /\ cells = program.cells /\ turn = 1 /\ results = {}
        /\ vcell = [n \in DOMAIN Kind |-> <<"subr", n>>] @@ ("*after-gc*" :> Nil) @@ ("t" :> S("t"))
                   @@ ("let" :> S("let-internal-macro")) @@ ("let*" :> S("let*-macro"))
                   @@ ("letrec" :> S("letrec-macro"))
        /\ stack = <<>> /\ control = [do |-> "idle", x |-> Nil, env |-> Nil]
        /\ hooks = 0 /\ errors = 0 /\ torn = {}

Next == \/ LevalSymbol \/ LevalConstant \/ LevalForm
        \/ ReturnHead \/ ReturnArg \/ ReturnSet \/ ReturnDefine \/ ReturnIf \/ ReturnSequence
        \/ ReturnCond \/ ReturnWhile \/ ReturnExpansion \/ ReturnCall \/ ReturnHook \/ ReturnTrace
        \/ ReadyArg \/ ApplyClosure \/ ApplyLet \/ ApplySubr \/ ReadyLambda \/ ReadySyntax \/ ReadyDefine
        \/ ReadyNames \/ ReadyValues \/ ReadyMacro \/ ReadyTraced
        \/ ReadyLetBindings \/ ReadyLetBody \/ ReadyLetStar \/ ReadyLetrec \/ Rewritten
        \/ Hook \/ Fail \/ Start \/ Finish

-----------------------------------------------------------------------------
\* Every form, and *after-gc*, has one of the values the language gives it, though
\* collections evaluate functions in the middle of others, conses fail and
\* control-C comes anywhere, and the forms are evaluated again after they were
\* rewritten: unless a let was interrupted or entered again in the middle of its
\* rewriting, or a define was between a frame's names and its values.
MeaningKept == torn = {} => \A r \in results : r[1] \in DOMAIN program.meaning => r[2] \in program.meaning[r[1]]

\* The same of every form without that exception.
LetMeaning == \A r \in results : r[1] \in DOMAIN program.meaning => r[2] \in program.meaning[r[1]]

\* Loops that are written as calls in the last place, through if, cond, and, or,
\* begin and the lets, take no C stack that grows with them (leval's loop).
TailCalls == Len(stack) <= program.depth
=============================================================================
