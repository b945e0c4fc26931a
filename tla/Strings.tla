------------------------------ MODULE Strings ------------------------------
(***************************************************************************)
(* Arrays, strings and the numbers written in them (sliba.c), as they lie  *)
(* in memory: an object has a dimension beside its buffer, the buffer of a *)
(* string has one byte more than its dimension, and what C calls the       *)
(* string ends at the first NUL, which may come before the dimension does. *)
(* A buffer that was written behind its end has become longer here.        *)
(***************************************************************************)
EXTENDS Integers, Sequences, SequencesExt, FiniteSetsExt

CONSTANTS MaxDim,     \* the largest dimension of an object that is kept
          LongBytes   \* sizeof (long)

VARIABLES str1, str2  \* the objects that two variables of a program hold

strings == <<str1, str2>>

Obj(type, dim, data) == [type |-> type, dim |-> dim, data |-> data]
Failed == Obj("failed", 0, <<>>)   \* the err that ended the operation
Junk   == -1                       \* a byte of malloc's that was not written

Filled(n, byte) == [i \in 1 .. n |-> byte]
Put(data, at, s) == [i \in 1 .. Max({Len(data), at + Len(s)}) |-> IF i \in at + 1 .. at + Len(s) THEN s[i - at] ELSE data[i]]
\* The sum of the first i lengths, and of all.
Sums(lens) == LET sum[i \in 0 .. Len(lens)] == IF i = 0 THEN 0 ELSE sum[i - 1] + lens[i] IN sum
Sum(lens)  == Sums(lens)[Len(lens)]
Signed(byte) == IF byte > 127 THEN byte - 256 ELSE byte

\* strlen, and the characters before that.
Strlen(data) == Min({i \in DOMAIN data : data[i] = 0} \union {Len(data) + 1}) - 1
Text(o) == SubSeq(o.data, 1, Strlen(o.data))

\* get_c_string takes a string or the name of a symbol.
Stringp(o) == o.type \in {"string", "symbol"}
\* get_c_string_dim takes the bytes of an array of longs as well, the lowest first.
Shifted(v) == LET high[b \in 0 .. LongBytes] == IF b = 0 THEN v ELSE high[b - 1] \div 256 IN high
Longs(data) == [i \in 1 .. LongBytes * Len(data) |->
                  Shifted(data[(i - 1) \div LongBytes + 1])[(i - 1) % LongBytes] % 256]
Dimmed(o) == o.type \in {"string", "symbol", "bytes", "longs"}
Data(o) == CASE o.type = "symbol" -> Text(o)
             [] o.type = "longs" -> Longs(o.data)
             [] OTHER -> SubSeq(o.data, 1, o.dim)

-----------------------------------------------------------------------------
(* Making an array, taking an element and storing one.                     *)

\* strcons of a text, or of as many bytes as will be written.
Strcons(s) == Obj("string", Len(s), s \o <<0>>)
Room(n)    == Strcons(Filled(n, Junk))

\* The elements are zero, NIL or a space.
ConsArray(n, kind) ==
  CASE n < 0 -> Failed
    [] kind = "string" -> Strcons(Filled(n, 32))
    [] kind \in {"bytes", "longs", "doubles", "array"} -> Obj(kind, n, Filled(n, 0))
    [] OTHER -> Failed
Arcons(n, initp) == Obj("bytes", n, Filled(n, IF initp THEN 0 ELSE Junk))

Aref1(a, k) == IF a.type = "symbol" \/ k < 0 \/ k >= a.dim THEN "failed"
               ELSE IF a.type = "bytes" THEN Signed(a.data[k + 1]) ELSE a.data[k + 1]
Aset1(a, k, v) == IF a.type = "symbol" \/ k < 0 \/ k >= a.dim THEN Failed
                  ELSE [a EXCEPT !.data[k + 1] = IF a.type \in {"string", "bytes"} THEN v % 256 ELSE v]

-----------------------------------------------------------------------------
(* print_to_string: lprin1g prints piece after piece; pts_puts appends as  *)
(* much of one as there is room for, and ends the printing if that is not  *)
(* all.                                                                    *)

\* Mutant of Fit: as large as the buffer.
FitBuffer(into, from) == Min({Len(from), into.dim + 1 - Strlen(into.data)})

Fit(into, from) == Min({Len(from), into.dim - Strlen(into.data)})

PtsPuts(into, from) ==
  LET n == Fit(into, from) IN
  [into EXCEPT !.data = Put(Put(@, Strlen(@), SubSeq(from, 1, n)), Strlen(@) + n, <<0>>)]

Printed(pieces, start) ==
  LET printed[i \in 0 .. Len(pieces)] ==
        IF i = 0 THEN [into |-> start, failed |-> FALSE]
        ELSE IF printed[i - 1].failed THEN printed[i - 1]
        ELSE [into |-> PtsPuts(printed[i - 1].into, pieces[i]),
              failed |-> Fit(printed[i - 1].into, pieces[i]) < Len(pieces[i])]
  IN printed
PrintToString(pieces, str, nostart) ==
  Printed(pieces, IF nostart THEN str ELSE [str EXCEPT !.data = Put(@, 0, <<0>>)])[Len(pieces)]

-----------------------------------------------------------------------------
(* Strings out of strings.                                                 *)

\* strcat of one after the other.
Strcat(data, args) ==
  LET cat[i \in 0 .. Len(args)] ==
        IF i = 0 THEN data ELSE Put(cat[i - 1], Strlen(cat[i - 1]), Text(args[i]) \o <<0>>)
  IN cat
StringAppend(args) ==
  LET room == Room(Sum([i \in DOMAIN args |-> Strlen(args[i].data)])) IN
  IF \E i \in DOMAIN args : ~Stringp(args[i]) THEN Failed
  ELSE [room EXCEPT !.data = Strcat(Put(@, 0, <<0>>), args)[Len(args)]]

\* memcpy of one after the other, to where the lengths of those before say.
Memcpy(data, parts) ==
  LET copied[i \in 0 .. Len(parts)] ==
        IF i = 0 THEN data ELSE Put(copied[i - 1], Sums([k \in DOMAIN parts |-> Len(parts[k])])[i - 1], parts[i])
  IN copied
BytesAppend(args) ==
  LET parts == [i \in DOMAIN args |-> Data(args[i])]
      room  == Arcons(Sum([i \in DOMAIN args |-> Len(parts[i])]), FALSE) IN
  IF \E i \in DOMAIN args : ~Dimmed(args[i]) THEN Failed
  ELSE [room EXCEPT !.data = Memcpy(@, parts)[Len(args)]]

\* end is -1 where the program gives none.
Substring(str, start, end) ==
  LET n == Len(Data(str))
      e == IF end = -1 THEN n ELSE end IN
  IF ~Dimmed(str) \/ start < 0 \/ start > e \/ e > n THEN Failed
  ELSE Strcons(SubSeq(Data(str), start + 1, e))

\* strstr, from 0 on; -1 where there is none.
StringSearch(token, str) ==
  LET at == {i \in 0 .. Strlen(str.data) - Strlen(token.data) :
               SubSeq(str.data, i + 1, i + Strlen(token.data)) = Text(token)} IN
  IF at = {} THEN -1 ELSE Min(at)

TrimSpace == {32, 9, 13, 10}
TrimStart(s) == Min({i \in DOMAIN s : s[i] \notin TrimSpace} \union {Len(s) + 1})
TrimEnd(s, start) == Max({i \in start .. Len(s) : s[i] \notin TrimSpace} \union {start - 1})
StringTrim(str) == LET s == Text(str) IN Strcons(SubSeq(s, TrimStart(s), TrimEnd(s, TrimStart(s))))
StringTrimLeft(str) == LET s == Text(str) IN Strcons(SubSeq(s, TrimStart(s), Len(s)))
StringTrimRight(str) == LET s == Text(str) IN Strcons(SubSeq(s, 1, TrimEnd(s, 1)))

Toupper(c) == IF c \in 97 .. 122 THEN c - 32 ELSE c
Tolower(c) == IF c \in 65 .. 90 THEN c + 32 ELSE c
StringUpcase(str)   == Strcons([i \in DOMAIN Text(str) |-> Toupper(Text(str)[i])])
StringDowncase(str) == Strcons([i \in DOMAIN Text(str) |-> Tolower(Text(str)[i])])

\* strspn, strcspn: the length of what begins str and is, is not, of the characters of set.
Lstrspn(str, set) == Min({i \in DOMAIN Text(str) : ~Contains(Text(set), Text(str)[i])} \union {Strlen(str.data) + 1}) - 1
Lstrcspn(str, set) == Min({i \in DOMAIN Text(str) : Contains(Text(set), Text(str)[i])} \union {Strlen(str.data) + 1}) - 1

\* What both comparisons need of their bounds.
Matching(a, b, s, e) == 0 <= s /\ s <= e /\ e <= Len(Data(b)) /\ e - s = Len(Data(a))
SubstringEqual(a, b, s, e) == Matching(a, b, s, e) /\ Data(a) = SubSeq(Data(b), s + 1, e)

\* strncasecmp of WIN32, with its two tests that are the same: 0 unless a
\* character of the first is less, or one of them ends.
Strncasecmp(s1, s2) ==
  LET c(s, j) == Toupper(Signed(s[j]))
      ends == {j \in DOMAIN s1 : c(s1, j) = 0 \/ c(s2, j) = 0 \/ c(s1, j) < c(s2, j)}
      j == Min(ends) IN
  IF ends = {} THEN 0 ELSE IF c(s1, j) = 0 /\ c(s2, j) = 0 THEN 0
  ELSE IF c(s1, j) # 0 /\ c(s2, j) = 0 THEN 1 ELSE -1
SubstringEqualcase(a, b, s, e) == Matching(a, b, s, e) /\ Strncasecmp(Data(a), SubSeq(Data(b), s + 1, e)) = 0

-----------------------------------------------------------------------------
(* number_to_string, string_to_number: of whole numbers, which %g writes   *)
(* like %ld up to six digits.                                              *)

Char(d) == IF d < 10 THEN 48 + d ELSE 55 + d
Digit(c) == CASE c \in 48 .. 57 -> c - 48 [] c \in 65 .. 70 -> c - 55 [] c \in 97 .. 102 -> c - 87 [] OTHER -> 99
Digits(n, base) ==
  LET digits[k \in 0 .. n] == IF k < base THEN <<Char(k)>> ELSE Append(digits[k \div base], Char(k % base)) IN digits[n]

\* An octal or hexadecimal number is written as if it were unsigned; a number
\* is filled up to its width with zeros, those behind its sign.
Number2string(n, base, width) ==
  LET sign == IF n < 0 /\ base = 10 THEN <<45>> ELSE <<>>
      mag == IF n >= 0 THEN n ELSE IF base = 10 THEN -n ELSE n + 256^LongBytes
      digits == Digits(mag, base) IN
  Strcons(sign \o Filled(Max({0, width - Len(sign) - Len(digits)}), 48) \o digits)

\* sscanf reads as far as there are digits, into a long; the loop for other
\* bases takes any digit and passes over every other character.
String2number(str, base) ==
  LET s == Text(str)
      neg == s # <<>> /\ s[1] = 45
      from == IF neg THEN 2 ELSE 1
      to == Min({i \in from .. Len(s) : Digit(s[i]) >= base} \union {Len(s) + 1}) - 1
      value(t) == FoldLeft(LAMBDA w, c : w * base + Digit(c), 0, t)
      v == value(SubSeq(s, from, to))
      wrapped == IF v >= 256^LongBytes \div 2 THEN v - 256^LongBytes ELSE v IN
  IF base \in {8, 10, 16} THEN IF neg THEN -v ELSE wrapped
  ELSE value(SelectSeq(s, LAMBDA c : Digit(c) < 16))

-----------------------------------------------------------------------------
(* lfread into a string or an array, or into a new string of up to n       *)
(* bytes; lfwrite of len bytes of an object.                               *)

LfreadInto(o, read) == [o EXCEPT !.data = Put(@, 0, read)]
Lfread(n, read) == IF Len(read) = n THEN Obj("string", n, Put(Append(Filled(n, Junk), 0), 0, read)) ELSE Strcons(read)
Lfwrite(o, len) == IF len > Len(Data(o)) THEN "failed" ELSE SubSeq(Data(o), 1, len)

-----------------------------------------------------------------------------
CONSTANTS Values,     \* the numbers that are stored
          Pieces,     \* what lprin1g prints
          Records     \* what a file has next

ASSUME StringsAssumption ==
  /\ MaxDim \in Nat /\ LongBytes \in Nat \ {0} /\ Values \subseteq Int
  /\ Pieces \subseteq Seq(Seq(1 .. 255)) /\ Records \subseteq Seq(0 .. 255)

Symbol == Obj("symbol", 0, <<97, 0>>)
Kinds  == {"string", "bytes", "longs", "doubles", "array"}

Made == {ConsArray(n, kind) : n \in 0 .. MaxDim, kind \in Kinds} \union UNION {{Lfread(n, r) : r \in {r \in Records : Len(r) <= n}} : n \in 1 .. MaxDim}
Derived ==
  {BytesAppend(<<str1, str2>>), StringAppend(<<str1, str2>>), StringAppend(<<str1, Symbol>>)}
    \union {Substring(str1, s, e) : s \in 0 .. MaxDim, e \in -1 .. MaxDim}
    \union (IF Stringp(str1) THEN {StringTrim(str1), StringTrimLeft(str1), StringTrimRight(str1), StringUpcase(str1), StringDowncase(str1)}
                          ELSE {})
Changed ==
  {Aset1(str1, k, v) : k \in 0 .. MaxDim, v \in Values}
    \union (IF str1.type = "string" THEN {PrintToString(p, str1, nostart).into : p \in Pieces, nostart \in BOOLEAN} ELSE {})
    \union (IF str1.type \in {"string", "bytes"} THEN {LfreadInto(str1, r) : r \in {r \in Records : Len(r) <= str1.dim}} ELSE {})

StringsInit == str1 = ConsArray(0, "string") /\ str2 = ConsArray(1, "bytes")
StringsNext ==
  \/ \E o \in Made \union Derived \union Changed :
       o # Failed /\ o.dim <= MaxDim /\ str1' = o /\ UNCHANGED str2
  \/ str1' = str2 /\ str2' = str1
StringsSpec == StringsInit /\ [][StringsNext]_strings

-----------------------------------------------------------------------------
(* Every string ends inside its buffer, whatever was stored, read and      *)
(* printed into it, and no buffer was written behind its end: what         *)
(* get_c_string gives to C is a string.                                    *)
Sized(o) == /\ Len(o.data) = o.dim + (IF o.type = "string" THEN 1 ELSE 0)
            /\ o.type = "string" => o.data[o.dim + 1] = 0
            /\ \A i \in DOMAIN o.data : o.data[i] # Junk \/ o.type \in {"longs", "doubles", "array"}

\* The pieces behind a text.
Joined(text, pieces) ==
  LET joined[i \in 0 .. Len(pieces)] == IF i = 0 THEN text ELSE joined[i - 1] \o pieces[i] IN joined

\* A print is cut where the string ends, and tells so.
PrintCut(o) == \A pieces \in Pieces, nostart \in BOOLEAN :
  LET p == PrintToString(pieces, o, nostart)
      whole == Joined(IF nostart THEN Text(o) ELSE <<>>, pieces)[Len(pieces)] IN
  Sized(p.into) /\ Text(p.into) = SubSeq(whole, 1, Min({Len(whole), o.dim})) /\ p.failed = (Len(whole) > o.dim)

\* The two passes over the arguments agree, and what is appended is found again.
AppendFound(a, b) ==
  LET both == StringAppend(<<a, b>>)
      at == StringSearch(b, both) IN
  /\ Sized(both) /\ Text(both) = Text(a) \o Text(b) /\ both.dim = Strlen(both.data)
  /\ at \in 0 .. Strlen(a.data) /\ Strlen(Substring(both, at, -1).data) >= Strlen(b.data)
  /\ SubstringEqual(StringAppend(<<b>>), both, at, at + Strlen(b.data))
  /\ Lstrspn(both, a) >= Strlen(a.data)
  /\ Text(Substring(both, 0, Lstrcspn(both, b))) \o Text(Substring(both, Lstrcspn(both, b), -1)) = Text(both)

\* An object cut in two and appended is what it was; a part equals that part.
CutAppended(a) == \A k \in 0 .. Len(Data(a)) :
  LET left == Substring(a, 0, k)
      right == Substring(a, k, -1) IN
  /\ Data(BytesAppend(<<left, right>>)) = Data(a)
  /\ SubstringEqual(right, a, k, Len(Data(a))) /\ SubstringEqualcase(left, a, 0, k)

\* Trimming both ends is trimming one and the other; the cases differ in case only.
TrimAndCase(a) ==
  /\ StringTrim(a) = StringTrimLeft(StringTrimRight(a)) /\ StringTrim(a) = StringTrimRight(StringTrimLeft(a))
  /\ StringUpcase(StringDowncase(a)) = StringUpcase(a)
  /\ SubstringEqualcase(a, StringUpcase(a), 0, Strlen(a.data)) = (Len(Data(a)) = Strlen(a.data))

\* What aset stored aref finds, as a signed character in an array of bytes.
StoredFound(a) == \A k \in 0 .. a.dim, v \in Values :
  Aref1(Aset1(a, k, v), k) = IF k = a.dim THEN "failed" ELSE IF a.type = "string" THEN v % 256
                             ELSE IF a.type = "bytes" THEN Signed(v % 256) ELSE v

\* A number is read back from what was written, in every base.
NumberBack(n, base, width) ==
  base \in {8, 10, 16} \/ (n >= 0 /\ width = 0) => String2number(Number2string(n, base, width), base) = n

(* sliba.c: after any sequence of stores, reads and prints into objects,   *)
(* and of objects made out of others, buffers and texts are as above.      *)
StringsSound ==
  /\ Sized(str1) /\ Sized(str2) /\ StoredFound(str1)
  /\ str1.type = "string" => PrintCut(str1) /\ TrimAndCase(str1) /\ AppendFound(str1, Symbol)
  /\ str1.type = "string" /\ str2.type = "string" => AppendFound(str1, str2)
  /\ Dimmed(str1) => CutAppended(str1) /\ \A len \in 0 .. Len(Data(str1)) : Lfwrite(str1, len) = Data(Substring(str1, 0, len))
=============================================================================
