------------------------------ MODULE Startup ------------------------------
(***************************************************************************)
(* From the command line to the forms that are evaluated (slibu.c,         *)
(* slib.c): a program that carries its script behind a #!/ line,           *)
(* siod_shuffle_args, siod_main with its options, and what larg-default    *)
(* and lkey-default show of the arguments. An argument or a text is a      *)
(* sequence of characters.                                                 *)
(***************************************************************************)
EXTENDS Integers, Sequences, SequencesExt, FiniteSetsExt

CONSTANTS FlagBuffer,   \* the size of the buffer for the flags
          FileLimit     \* BOOTSTRAP_EXE_FILE_SIZE_LIMIT

Digits == <<"0", "1", "2", "3", "4", "5", "6", "7", "8", "9">>
Value(d) == (CHOOSE k \in 1 .. 10 : Digits[k] = d) - 1
At(s, i) == IF i \in DOMAIN s THEN s[i] ELSE "end"
From(s, i) == SubSeq(s, i, Len(s))
Begins(s, head) == Len(head) <= Len(s) /\ SubSeq(s, 1, Len(head)) = head
\* Where part begins in s from i on, or behind the end.
Find(s, part, i) == Min({Len(s) + 1} \union {k \in i .. Len(s) : Begins(From(s, k), part)})

\* atol and "%ld".
Atol(s) == LET end == Min({Len(s) + 1} \union {i \in DOMAIN s : s[i] \notin Range(Digits)}) IN
           FoldLeft(LAMBDA n, d : 10 * n + Value(d), 0, SubSeq(s, 1, end - 1))
Decimal[n \in Nat] == IF n < 10 THEN <<Digits[n + 1]>> ELSE Append(Decimal[n \div 10], Digits[(n % 10) + 1])

-----------------------------------------------------------------------------
(* position_script, siod_shuffle_args, and what vload makes of the name.   *)

\* The automaton, one character: s is what has been seen of #!/, pos where it began.
Recognize(a, c) ==
  IF a.s = "/" THEN a
  ELSE [offset |-> a.offset + 1, pos |-> IF c = "#" THEN a.offset ELSE a.pos,
        s |-> CASE c = "#" -> "#"
                [] c = "!" /\ a.s = "#" -> "!"
                [] c = "/" /\ a.s = "!" -> "/"
                [] OTHER -> "none"]

PositionScript(text) ==
  LET a == FoldLeft(Recognize, [offset |-> 0, pos |-> -1, s |-> "none"], SubSeq(text, 1, Min({FileLimit, Len(text)})))
      first == Find(text, <<" ">>, a.offset + 1) + 1
      last == Min({Find(text, <<"\n">>, first), first + FlagBuffer, Len(text) + 1}) - 1
      flags == SubSeq(text, first, last) IN
  IF a.s # "/" THEN [pos |-> -1, flags |-> <<>>]
  ELSE [pos |-> a.pos, flags |-> IF Range(flags) \subseteq {" ", "\t", "\r"} THEN <<>> ELSE flags]

ShuffleArgs(argv, text) ==
  LET p == PositionScript(text) IN
  IF p.pos < 0 THEN argv
  ELSE <<<<"s">>>> \o (IF p.flags = <<>> THEN <<>> ELSE <<p.flags>>)
         \o <<Decimal[p.pos] \o <<"|">> \o argv[1]>> \o Tail(argv)

\* vload: the file's name and where it begins, and the text behind its first comments.
LoadName(name) == LET k == Find(name, <<"|">>, 1) IN
                  IF k > Len(name) THEN [file |-> name, from |-> 0]
                  ELSE [file |-> From(name, k + 1), from |-> Atol(name)]
RECURSIVE LoadText(_)
LoadText(text) == IF At(text, 1) \in {"#", ";"} THEN LoadText(From(text, Find(text, <<"\n">>, 1) + 1)) ELSE text

-----------------------------------------------------------------------------
(* siod_main.  set is what the options leave: the text behind each letter, *)
(* the main flag, and whether a heading for plain text was printed.        *)

Letters == {"l", "h", "o", "i", "n", "g", "s", "v"}
Flagged(arg) == At(arg, 1) = "-"

RECURSIVE Options(_)
Options(arg) == IF arg = <<>> THEN <<>>
                ELSE LET end == Find(arg, <<",", "-">>, 1) IN
                     <<SubSeq(arg, 1, end - 1)>> \o Options(From(arg, end + 1))

\* process_cla on one option.
ProcessCla(set, option) ==
  IF At(option, 2) \in Letters THEN [set EXCEPT !.text[option[2]] = From(option, 3)] ELSE set

SetOption(set, option) ==
  LET level == From(option, 3)
      plain == [set EXCEPT !.plain = set.plain \/ (At(option, 2) = "v" /\ Atol(level) > 0 /\ level[1] # "0")] IN
  IF At(option, 2) = "m" THEN [plain EXCEPT !.main = Atol(level)] ELSE ProcessCla(plain, option)

Settings(argv) ==
  LET given == FlattenSeq([j \in 1 .. Len(argv) - 1 |-> IF Flagged(argv[j + 1]) THEN Options(argv[j + 1]) ELSE <<>>]) IN
  FoldLeft(SetOption, [text |-> [c \in Letters |-> <<>>], main |-> 0, plain |-> FALSE], given)

\* htqs_arg: what an argument asks for.
Asked(arg) == IF arg \in {<<"(", "r", ")">>, <<"r">>} THEN <<"repl">>
              ELSE IF "(" \in Range(arg) THEN <<"evaluate", arg>> ELSE <<"require", arg>>
MainCall(set) == IF set.main > 2 /\ ~ set.plain THEN <<"cgi-main">> ELSE <<"main">>

\* Mutant of Limit: one argument more is evaluated under -m2.
LimitOne(argv, set) == IF set.main >= 2 /\ Len(argv) > 3 THEN 4 ELSE Len(argv)

\* The arguments with a smaller index are evaluated.
Limit(argv, set) == IF set.main >= 2 /\ Len(argv) > 3 THEN 3 ELSE Len(argv)

\* What may run, and what does, and the exit value, when returns[x] is what running x returns.
Runnable(argv) == {<<"repl">>, <<"main">>, <<"cgi-main">>} \union {Asked(argv[i]) : i \in DOMAIN argv}
SiodMain(argv, returns) ==
  LET set == Settings(argv)
      run(r, j) == IF r.retval # 0 \/ Flagged(argv[j + 1]) THEN r
                   ELSE [ran |-> Append(r.ran, Asked(argv[j + 1])), retval |-> returns[Asked(argv[j + 1])]]
      args == FoldLeft(run, [ran |-> <<>>, retval |-> 0], [j \in 1 .. Limit(argv, set) - 1 |-> j]) IN
  IF \A j \in 2 .. Len(argv) : Flagged(argv[j]) THEN [ran |-> <<<<"repl">>>>, retval |-> returns[<<"repl">>]]
  ELSE IF set.main = 0 THEN args
  ELSE [ran |-> Append(args.ran, MainCall(set)), retval |-> returns[MainCall(set)]]

-----------------------------------------------------------------------------
(* larg_default, lkey_default on *args*.                                   *)

LargDefault(args, n, default) ==
  LET plain == SelectSeq(args, LAMBDA a : At(a, 1) \notin {"-", ":"}) IN
  IF n < Len(plain) THEN plain[n + 1] ELSE default

LkeyDefault(args, key, default) ==
  LET has(a) == Begins(a, <<":">> \o key \o <<"=">>)
      found == SelectSeq(args, has) IN
  IF found = <<>> THEN default ELSE From(found[1], Len(key) + 3)

-----------------------------------------------------------------------------
\* A program that carries a script behind bytes without #!/, started under its own name,
\* which has no parenthesis (htqs_arg would evaluate it), with any arguments: the script is found at its #!/, loaded from behind that line, and
\* loaded only; under -m2 main runs after it, whatever the load returns; none of the
\* user's arguments is evaluated, as long as none begins with a hyphen; and main finds
\* the same arguments at the same places, and by the same keys, as when the system had
\* started siod with the script.  A script beyond the limit is not looked for.
ScriptRun(name, junk, flags, body, users, retval) ==
  LET text == junk \o <<"#", "!", "/", "b", " ">> \o flags \o <<"\n">> \o body
      argv == ShuffleArgs(<<name>> \o users, text)
      result == SiodMain(argv, [x \in Runnable(argv) |-> IF x[1] = "require" THEN retval ELSE 0])
      load == LoadName(result.ran[1][2])
      started == <<<<"s">>, flags, name>> \o users
      plain == SelectSeq(users, LAMBDA a : At(a, 1) # ":") IN
  IF Len(junk) + 3 > FileLimit THEN argv = <<name>> \o users
  ELSE /\ result.ran = <<<<"require", Decimal[Len(junk)] \o <<"|">> \o name>>, <<"main">>>>
       /\ result.retval = 0
       /\ load.file = name /\ LoadText(From(text, load.from + 1)) = LoadText(body)
       /\ Settings(argv).text["v"] = <<"0">>
       /\ \A n \in 1 .. Len(plain) : LargDefault(argv, n + 1, <<>>) = plain[n]
       /\ \A key \in {<<"k">>, <<"k", "l">>} : LkeyDefault(argv, key, <<>>) = LkeyDefault(started, key, <<>>)

\* Any command line: the arguments that are evaluated are evaluated in their order, up to
\* the first that fails, and then main, if it is asked for, even so; the exit value
\* is that of what ran last; and the last of several settings of one thing counts.
ArgumentsPassed(argv, failing) ==
  LET returns == [x \in Runnable(argv) |-> IF x = Asked(failing) THEN 2 ELSE 0]
      result == SiodMain(argv, returns)
      set == Settings(argv)
      plain == SelectSeq(Tail(argv), LAMBDA a : ~ Flagged(a))
      asked == [i \in DOMAIN plain |-> Asked(plain[i])]
      args == IF set.main > 0 THEN Front(result.ran) ELSE result.ran IN
  /\ plain = <<>> => result.ran = <<<<"repl">>>>
  /\ plain # <<>> =>
       /\ IsPrefix(args, asked)
       /\ \A i \in 1 .. Len(args) - 1 : returns[args[i]] = 0
       /\ set.main < 2 /\ (\A i \in DOMAIN asked : returns[asked[i]] = 0) => args = asked
  /\ result.retval = returns[result.ran[Len(result.ran)]]
=============================================================================
