------------------------------- MODULE MCEval -------------------------------
(***************************************************************************)
(* Programs for the evaluator, as lists of forms with the values they may  *)
(* have; those after S("*after-gc*") are what that may return.             *)
(***************************************************************************)
EXTENDS Eval

Dotted(items, end) == <<"list", items, end>>
Q(items) == Dotted(items, Nil)
Quote(o) == Q(<<S("quote"), o>>)
Lambda(args, body) == Q(<<S("lambda"), args>> \o body)
Def(head, body) == <<Q(<<S("define"), head>> \o body), {}>>
AfterGc(form, values) == <<Q(<<S("set!"), S("*after-gc*"), Quote(form)>>), values>>
Args(names) == Q([i \in DOMAIN names |-> S(names[i])])
Fn(name, q) == Q(<<S(name)>> \o q)

\* The cells of the object o that follow n others, and the object.
RECURSIVE Put(_, _)
Put(n, o) ==
  IF o[1] # "list" THEN [c |-> <<>>, o |-> o]
  ELSE IF o[2] = <<>> THEN [c |-> <<>>, o |-> o[3]]
  ELSE LET rest == Put(n, Dotted(Tail(o[2]), o[3]))
           first == Put(n + Len(rest.c), Head(o[2]))
       IN [c |-> rest.c \o first.c \o <<[type |-> "cons", car |-> first.o, cdr |-> rest.o]>>,
           o |-> <<"cell", n + Len(rest.c) + Len(first.c) + 1>>]

Program(text, depth) ==
  LET laid[i \in 0 .. Len(text)] ==
        IF i = 0 THEN [c |-> <<>>, forms |-> <<>>]
        ELSE LET put == Put(Len(laid[i - 1].c), text[i][1])
             IN [c |-> laid[i - 1].c \o put.c, forms |-> Append(laid[i - 1].forms, put.o)]
      all == laid[Len(text)]
      meant == {i \in DOMAIN text : text[i][2] # {}}
      key(i) == IF text[i][1][2][1] = S("set!") THEN S("*after-gc*") ELSE all.forms[i]
  IN [cells |-> all.c, forms |-> all.forms, depth |-> depth,
      meaning |-> [o \in {key(i) : i \in meant} |-> text[CHOOSE i \in meant : key(i) = o][2]]]

i == S("i") s == S("s") x == S("x") y == S("y") n == S("n") f == S("f") r == S("r")
Plus(a, b) == Fn("+", <<a, b>>)
Minus(a, b) == Fn("-", <<a, b>>)
Zero(a) == Fn("=", <<a, N(0)>>)

\* (define (f i s) (let ((x s)) (cond ((= i 0) x) (t (and t (f (- i 1) (+ x i)))))))
Loop == <<
  Def(Args(<<"f", "i", "s">>),
      <<Fn("let", <<Q(<<Q(<<x, s>>)>>),
          Fn("cond", <<Q(<<Zero(i), x>>),
                       Q(<<S("t"), Fn("and", <<S("t"), Q(<<f, Minus(i, N(1)), Plus(x, i)>>)>>)>>)>>)>>)>>),
  AfterGc(Q(<<f, N(0), N(7)>>), {N(7)}),
  <<Q(<<f, N(3), N(1)>>), {N(7)}>>, <<Q(<<f, N(1), N(1)>>), {N(2)}>> >>

\* A loop by letrec, entered from *after-gc* too; a test that is false ends it.
Mutual == <<
  Def(Args(<<"f", "n">>),
      <<Fn("letrec", <<Q(<<Q(<<S("even"), Lambda(Args(<<"n">>), <<Fn("if", <<Zero(n), S("t"), Fn("odd", <<Minus(n, N(1))>>)>>)>>)>>),
                          Q(<<S("odd"), Lambda(Args(<<"n">>), <<Fn("if", <<Zero(n), Nil, Fn("even", <<Minus(n, N(1))>>)>>)>>)>>)>>),
                       Fn("even", <<n>>)>>)>>),
  AfterGc(Q(<<f, N(0)>>), {S("t")}),
  <<Q(<<f, N(3)>>), {Nil}>>, <<Q(<<f, N(2)>>), {S("t")}>> >>

\* Bindings in sequence, and a while.
Star == <<
  Def(Args(<<"f", "x">>),
      <<Fn("let*", <<Q(<<Q(<<y, x>>), Q(<<n, Plus(y, N(1))>>)>>),
                     Fn("while", <<Fn("not", <<Zero(n)>>), Fn("set!", <<n, Minus(n, N(1))>>)>>), y>>)>>),
  AfterGc(Q(<<f, N(0)>>), {N(0)}),
  <<Q(<<f, N(1)>>), {N(1)}>>, <<Q(<<f, N(0)>>), {N(0)}>> >>

\* Definitions in a body, closures that write what they captured, and arguments
\* that are one list; a function that calls another by a free variable of its own.
Frames == <<
  Def(Args(<<"g", "x">>), <<Lambda(Args(<<"n">>), <<Fn("set!", <<x, n>>), Plus(x, n)>>)>>),
  Def(S("h"), <<Fn("g", <<N(10)>>)>>),
  Def(Args(<<"f", "x">>),
      <<Fn("define", <<y, Plus(x, N(1))>>), Fn("set!", <<x, N(7)>>), Fn("h", <<N(5)>>),
        Q(<<Lambda(r, <<Plus(y, Fn("car", <<r>>))>>), x>>)>>),
  AfterGc(Fn("h", <<N(2)>>), {N(4), N(7)}),
  <<Q(<<f, N(1)>>), {N(9)}>>, <<Fn("h", <<N(5)>>), {N(10), N(7)}>> >>

\* A traced function, called with too few, enough and more arguments; apply.
Traced == <<
  Def(Dotted(<<f, x>>, r), <<Fn("or", <<Fn("car", <<r>>), Plus(x, N(1))>>)>>),
  AfterGc(Q(<<f, N(3), N(8)>>), {N(8)}),
  <<Fn("trace", <<f>>), {Nil}>>, <<Q(<<f, N(1), N(2)>>), {N(2)}>>,
  <<Fn("untrace", <<f>>), {Nil}>>, <<Fn("apply", <<f, Quote(Q(<<N(3)>>))>>), {N(4)}>>,
  <<Fn("apply", <<S("+"), Quote(Q(<<N(1), N(2), N(3)>>))>>), {N(6)}>>,
  <<Q(<<f>>), {Error}>> >>

\* A macro of the program's own; a body of several forms; names and no value.
Macro == <<
  Def(Args(<<"twice", "f">>), <<Fn("list", <<Quote(S("+")), Fn("car", <<Fn("cdr", <<f>>)>>), Fn("car", <<Fn("cdr", <<f>>)>>)>>)>>),
  Def(S("double"), <<Quote(S("twice"))>>),
  Def(Args(<<"g", "n">>), <<Fn("let", <<Q(<<Q(<<x, Fn("double", <<n>>)>>), y>>), Fn("if", <<y, N(0), Fn("begin", <<>>)>>),
                                        Fn("double", <<x>>)>>)>>),
  AfterGc(Fn("double", <<N(1)>>), {N(2)}),
  <<Fn("g", <<N(2)>>), {N(8)}>>, <<Fn("eq", <<x>>), {Error}>>,
  <<Fn("pair?", <<Fn("the-environment", <<>>)>>), {Nil}>> >>

MCPrograms == {Program(Loop, 5), Program(Mutual, 7), Program(Star, 12), Program(Frames, 12),
               Program(Traced, 12), Program(Macro, 12)}
=============================================================================
