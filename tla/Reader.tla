------------------------------ MODULE Reader ------------------------------
(***************************************************************************)
(* The printer and the reader (slib.c, sliba.c) on the objects that have a *)
(* printed form to read: lists, symbols, strings, whole numbers and arrays *)
(* of objects.  A text is a sequence of characters, as strings of length   *)
(* one; what reads has a position in it and returns the object and the     *)
(* next position, or Failed for an err.                                    *)
(***************************************************************************)
EXTENDS Objects

CONSTANTS TKBUFFERN   \* the size of the buffer for a token or string

-----------------------------------------------------------------------------
(* lprin1g, array_prin1.                                                   *)

Digit == <<"0", "1", "2", "3", "4", "5", "6", "7", "8", "9">>
Whole[n \in Nat] == IF n < 10 THEN <<Digit[n + 1]>> ELSE Append(Whole[n \div 10], Digit[(n % 10) + 1])

\* Mutant of Escaped: the backslash is printed as any other character.
EscapedQuoteOnly(c) == IF c = "\"" THEN <<"\\", c>> ELSE IF c = "\n" THEN <<"\\", "n">> ELSE <<c>>

Escaped(c) == CASE c \in {"\\", "\""} -> <<"\\", c>>
                [] c = "\n" -> <<"\\", "n">> [] c = "\r" -> <<"\\", "r">> [] c = "\t" -> <<"\\", "t">>
                [] OTHER -> <<c>>

RECURSIVE Printed(_), PrintRest(_)

Printed(x) ==
  CASE x.type = "nil" -> <<"(", ")">>
    [] x.type = "symbol" -> x.pname
    [] x.type = "flonum" -> IF x.value < 0 THEN <<"-">> \o Whole[-x.value] ELSE Whole[x.value]
    [] x.type = "string" -> <<"\"">> \o FlattenSeq([i \in DOMAIN x.data |-> Escaped(x.data[i])]) \o <<"\"">>
    [] x.type = "array" -> <<"#">> \o Printed(List(x.elems))
    [] x.type = "cons" -> <<"(">> \o Printed(x.car) \o PrintRest(x.cdr)

PrintRest(l) ==
  CASE l.type = "cons" -> <<" ">> \o Printed(l.car) \o PrintRest(l.cdr)
    [] l.type = "nil" -> <<")">>
    [] OTHER -> <<" ", ".", " ">> \o Printed(l) \o <<")">>

-----------------------------------------------------------------------------
(* Reading.                                                                *)

EOF == "eof"
Get(text, i) == IF i <= Len(text) THEN text[i] ELSE EOF
Blank  == {" ", "\n", "\r", "\t"}
Backquote == "backquote"   \* no character of a TLA+ string
Delimiters == {"(", ")", "'", Backquote, ",", ";", "\""}
Failed == [obj |-> [type |-> "error"], at |-> 0]
Ok(r)  == r.at # 0
Got(x, i) == [obj |-> x, at |-> i]

RECURSIVE FlushWs(_, _, _), ReadString(_, _, _), Lreadr(_, _), Lreadparen(_, _)

\* flush_ws: where the first character is that is neither space nor comment.
FlushWs(text, i, commentp) ==
  LET c == Get(text, i) IN
  IF c = EOF THEN i
  ELSE IF commentp THEN FlushWs(text, i + 1, c # "\n")
  ELSE IF c = ";" \/ c \in Blank THEN FlushWs(text, i + 1, c = ";")
  ELSE i

SkipDigits(tk, i) == CHOOSE j \in i .. Len(tk) + 1 :
  Get(tk, j) \notin Range(Digit) /\ \A k \in i .. j - 1 : Get(tk, k) \in Range(Digit)

\* lreadtk: which tokens are numbers.
Numeric(tk) ==
  LET sign == IF tk[1] = "-" THEN 2 ELSE 1
      whole == SkipDigits(tk, sign)
      point == IF Get(tk, whole) = "." THEN SkipDigits(tk, whole + 1) ELSE whole
      adigit == whole > sign \/ point > whole + 1
      e == IF Get(tk, point + 1) \in {"-", "+"} THEN point + 2 ELSE point + 1
      exponent == Get(tk, point) = "e" IN
  /\ adigit
  /\ exponent => Get(tk, e) \in Range(Digit)
  /\ (IF exponent THEN SkipDigits(tk, e) ELSE point) = Len(tk) + 1

\* atof, of whole numbers.
Atof(tk) == LET value(n, c) == 10 * n + (CHOOSE d \in 1 .. 10 : Digit[d] = c) - 1 IN
            IF tk[1] = "-" THEN -FoldLeft(value, 0, Tail(tk)) ELSE FoldLeft(value, 0, tk)

Lreadtk(tk) == IF Numeric(tk) THEN Number(Atof(tk)) ELSE Symbol(tk)

\* The token that begins at i; a space after it is consumed.
ReadToken(text, i) ==
  LET j == CHOOSE k \in i + 1 .. Len(text) + 1 :
             /\ Get(text, k) \in Blank \union Delimiters \union {EOF}
             /\ \A m \in i + 1 .. k - 1 : text[m] \notin Blank \union Delimiters
  IN IF j - i >= TKBUFFERN THEN Failed
     ELSE Got(Lreadtk(SubSeq(text, i, j - 1)), IF Get(text, j) \in Blank THEN j + 1 ELSE j)

\* lreadstring, after the quote; acc is tkbuffer. (\0 and \N, \d, \s are not printed.)
ReadString(text, i, acc) ==
  LET c == Get(text, i)
      code == Get(text, i + 1)
      meant == CASE code = "n" -> "\n" [] code = "t" -> "\t" [] code = "r" -> "\r" [] OTHER -> code IN
  IF c \in {"\"", EOF} THEN Got(String(acc), i + 1)
  ELSE IF Len(acc) + 1 >= TKBUFFERN \/ (c = "\\" /\ code = EOF) THEN Failed
  ELSE IF c = "\\" THEN ReadString(text, i + 2, Append(acc, meant))
  ELSE ReadString(text, i + 1, Append(acc, c))

\* An object that is read from i on, and made into another one.
Wrapped(r, Make(_)) == IF Ok(r) THEN Got(Make(r.obj), r.at) ELSE Failed

\* lreadr, lreadsharp.
Lreadr(text, from) ==
  LET i == FlushWs(text, from, FALSE)
      c == Get(text, i)  next == Get(text, i + 1)
      marked(name, k) == Wrapped(Lreadr(text, k), LAMBDA x : Pair(Symbol(name), x)) IN
  CASE c \in {EOF, ")"} -> Failed
    [] c = "(" -> Lreadparen(text, i + 1)
    [] c = "'" -> Wrapped(Lreadr(text, i + 1), LAMBDA x : List(<<Symbol(<<"q">>), x>>))
    [] c = Backquote -> marked(<<"+", "b">>, i + 1)
    [] c = "," -> IF next = "@" THEN marked(<<"+", "a">>, i + 2)
                  ELSE IF next = "." THEN marked(<<"+", "d">>, i + 2)
                  ELSE marked(<<"+", "c">>, i + 1)
    [] c = "\"" -> ReadString(text, i + 1, <<>>)
    [] c = "#" -> IF next = "(" THEN Wrapped(Lreadr(text, i + 1), LAMBDA x : Array(Elements(x)))
                  ELSE IF next = "f" THEN Got(Nil, i + 2)
                  ELSE IF next = "t" THEN Got(Number(1), i + 2)
                  ELSE Failed
    [] OTHER -> ReadToken(text, i)

\* lreadparen: the rest of a list.
Lreadparen(text, from) ==
  LET i == FlushWs(text, from, FALSE)
      first == Lreadr(text, i)
      last == Lreadr(text, first.at)
      close == FlushWs(text, last.at, FALSE)
      rest == Lreadparen(text, first.at) IN
  IF Get(text, i) = EOF THEN Failed
  ELSE IF Get(text, i) = ")" THEN Got(Nil, i + 1)
  ELSE IF ~ Ok(first) THEN Failed
  ELSE IF first.obj = Symbol(<<".">>)
       THEN IF Ok(last) /\ Get(text, close) = ")" THEN Got(last.obj, close + 1) ELSE Failed
  ELSE Wrapped(rest, LAMBDA x : Pair(first.obj, x))

-----------------------------------------------------------------------------
\* What lprin1g prints of an object, lreadr reads as an equal one, from a text that
\* has another object after it, whatever spaces or comments lie between, and reads
\* nothing of the other: and an abbreviation before it as what it stands for.
ReadBack(x, y, between) ==
  LET text == Printed(x) \o between \o Printed(y)
      one == Lreadr(text, 1)
      two == Lreadr(text, one.at) IN
  /\ Ok(one) /\ one.obj = x
  /\ two = Got(y, Len(text) + 1)
  /\ Lreadr(<<"'">> \o text, 1) = Got(List(<<Symbol(<<"q">>), x>>), one.at + 1)
  /\ Lreadr(<<",", "@">> \o text, 1) = Got(Pair(Symbol(<<"+", "a">>), x), one.at + 2)
=============================================================================
