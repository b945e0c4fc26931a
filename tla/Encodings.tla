----------------------------- MODULE Encodings -----------------------------
(***************************************************************************)
(* Conversions of strings (sliba.c, slibu.c, tar.c): base64, hexadecimal,  *)
(* URL and HTML encoding, breaking a string up, lines of a file, the       *)
(* numbers and the check sum of a tar header.  A character or byte is its  *)
(* code.  What counts first how much it will write and writes then has two *)
(* definitions, ...Size for the former.                                    *)
(***************************************************************************)
EXTENDS Integers, Sequences, SequencesExt, FiniteSetsExt

CONSTANTS LineBuffer   \* the size of the buffer of lgets

Failed == <<-1>>       \* NIL, or an err
Digits == 48 .. 57
Upper  == 65 .. 90
Lower  == 97 .. 122
Alnum  == Digits \union Upper \union Lower
Each(s, F(_)) == FlattenSeq([i \in DOMAIN s |-> F(s[i])])
Sizes(s, F(_)) == FoldLeft(LAMBDA n, c : n + F(c), 0, s)

-----------------------------------------------------------------------------
(* base64encode, base64decode.                                             *)

\* base64_encode_table, from 0 on; 64 is the padding.
Encoding(j) == CASE j \in 0 .. 25 -> 65 + j [] j \in 26 .. 51 -> 71 + j
                 [] j \in 52 .. 61 -> j - 4 [] j = 62 -> 43 [] j = 63 -> 47 [] j = 64 -> 61
\* base64_decode_table.
Decoding == [c \in 0 .. 255 |-> IF \E j \in 0 .. 64 : Encoding(j) = c
                                THEN CHOOSE j \in 0 .. 64 : Encoding(j) = c ELSE -1]
Item2(x, y) == (x % 4) * 16 + ((y \div 16) % 16)
Item3(x, y) == (x % 16) * 4 + ((y \div 64) % 4)

\* The groups of k that s is made of, without what is left over.
Chunks(s, k) == [j \in 1 .. Len(s) \div k |-> SubSeq(s, k * (j - 1) + 1, k * j)]
Base64Size(s) == (Len(s) \div 3 + (IF Len(s) % 3 > 0 THEN 1 ELSE 0)) * 4

Base64Encode(s) ==
  LET t(items) == [i \in DOMAIN items |-> Encoding(items[i])]
      four(p) == t(<<p[1] \div 4, Item2(p[1], p[2]), Item3(p[2], p[3]), p[3] % 64>>)
      n == Len(s) IN
  Each(Chunks(s, 3), four) \o
    CASE n % 3 = 0 -> <<>>
      [] n % 3 = 1 -> t(<<s[n] \div 4, Item2(s[n], 0), 64, 64>>)
      [] n % 3 = 2 -> t(<<s[n - 1] \div 4, Item2(s[n - 1], s[n]), Item3(s[n], 0), 64>>)

\* Mutant of Leftover: one padding character is not told from two.
LeftoverOne(s) == IF s[Len(s)] = 61 THEN 1 ELSE 0

Leftover(s) == IF s[Len(s)] # 61 THEN 0 ELSE IF s[Len(s) - 1] = 61 THEN 1 ELSE 2

Base64Decode(s) ==
  LET items == [i \in DOMAIN s |-> Decoding[s[i]]]
      three(p) == <<(p[1] * 4 + p[2] \div 16) % 256, (p[2] * 16 + p[3] \div 4) % 256, (p[3] * 64 + p[4]) % 256>>
      n == Len(s)  left == Leftover(s)
      read == IF left = 0 THEN n ELSE n - 3 + left      \* characters looked at
      zeros == SubSeq(items, 1, read) \o [i \in 1 .. n - read |-> 0] IN
  IF n = 0 THEN <<>>
  ELSE IF n % 4 # 0 \/ \E i \in 1 .. read : items[i] \notin 0 .. 63 THEN Failed
  ELSE SubSeq(Each(Chunks(zeros, 4), three), 1, 3 * (n \div 4) - (IF left = 0 THEN 0 ELSE 3 - left))

-----------------------------------------------------------------------------
(* hexstr, hexstr2bytes, url_encode, url_decode, html_encode.              *)

HexLower(d) == IF d < 10 THEN 48 + d ELSE 87 + d
HexUpper(d) == IF d < 10 THEN 48 + d ELSE 55 + d
Xdigitp(c)  == c \in Digits \union 65 .. 70 \union 97 .. 102
Xdigit(c)   == CASE c \in Digits -> c - 48 [] c \in 65 .. 70 -> c - 55 [] c \in 97 .. 102 -> c - 87 [] OTHER -> 0

Hexstr(s) == Each(s, LAMBDA c : <<HexLower(c \div 16), HexLower(c % 16)>>)
Hexstr2bytes(s) == [j \in 1 .. Len(s) \div 2 |-> Xdigit(s[2 * j - 1]) * 16 + Xdigit(s[2 * j])]

Regular(c) == c \in Alnum \union {42, 45, 46, 95, 64}
UrlSize(s) == Sizes(s, LAMBDA c : IF c = 32 \/ Regular(c) THEN 1 ELSE 3)
UrlEncode(s) == Each(s, LAMBDA c : IF c = 32 THEN <<43>> ELSE IF Regular(c) THEN <<c>>
                                   ELSE <<37, HexUpper(c \div 16), HexUpper(c % 16)>>)

At(s, i) == IF i \in DOMAIN s THEN s[i] ELSE 0
RECURSIVE UrlDecodeFrom(_, _)
UrlDecodeFrom(s, i) ==
  IF i > Len(s) THEN <<>>
  ELSE IF s[i] = 43 THEN <<32>> \o UrlDecodeFrom(s, i + 1)
  ELSE IF s[i] = 37 THEN <<Xdigit(s[i + 1]) * 16 + Xdigit(s[i + 2])>> \o UrlDecodeFrom(s, i + 3)
  ELSE <<s[i]>> \o UrlDecodeFrom(s, i + 1)
UrlDecode(s) == IF \E i \in DOMAIN s : s[i] = 37 /\ ~ (Xdigitp(At(s, i + 1)) /\ Xdigitp(At(s, i + 2)))
                THEN Failed ELSE UrlDecodeFrom(s, 1)
\* The digits after a % are counted too: the new string is longer than what is written.
UrlDecodeSize(s) == Sizes(s, LAMBDA c : 1)

HtmlSize(s) == Sizes(s, LAMBDA c : CASE c \in {60, 62} -> 4 [] c = 38 -> 5 [] OTHER -> 1)
HtmlEncode(s) == Each(s, LAMBDA c : CASE c = 62 -> <<38, 103, 116, 59>> [] c = 60 -> <<38, 108, 116, 59>>
                                      [] c = 38 -> <<38, 97, 109, 112, 59>> [] OTHER -> <<c>>)

-----------------------------------------------------------------------------
(* lstrbreakup, lstrunbreakup; lgets, readline; safe_atol8,                *)
(* checksum_tar_header.                                                    *)

\* strstr from i on: where the marker is, or behind the end.
Strstr(s, i, marker) ==
  Min({Len(s) + 1} \union {j \in i .. Len(s) - Len(marker) + 1 : SubSeq(s, j, j + Len(marker) - 1) = marker})
RECURSIVE Breakup(_, _, _)
Breakup(s, i, marker) ==
  IF i > Len(s) THEN <<>>
  ELSE LET end == Strstr(s, i, marker) IN
       <<SubSeq(s, i, end - 1)>> \o Breakup(s, IF end <= Len(s) THEN end + Len(marker) ELSE end, marker)
Unbreakup(elems, marker) == FlattenSeq([i \in DOMAIN elems |-> IF i = 1 THEN elems[i] ELSE marker \o elems[i]])

\* fgets, through a new line or until the buffer is full; readline cuts at the new line.
RECURSIVE Readlines(_, _)
Readlines(file, i) ==
  LET newline == Strstr(file, i, <<10>>)
      end == Min({newline, i + LineBuffer - 2, Len(file)}) IN
  IF i > Len(file) THEN <<>>
  ELSE <<SubSeq(file, i, IF end = newline THEN end - 1 ELSE end)>> \o Readlines(file, end + 1)

SafeAtol8(s) ==
  LET end == Min({Len(s) + 1} \union {i \in DOMAIN s : s[i] \notin Digits}) IN
  FoldLeft(LAMBDA x, c : x * 8 + c - 48, 0, SubSeq(s, 1, end - 1))
Sum8(s) == FoldLeft(LAMBDA x, c : x + c, 0, s)
Checksum(header) == Sum8(header.before) + 32 * Len(header.checksum) + Sum8(header.after)

-----------------------------------------------------------------------------
Octal(n) == <<48 + ((n \div 512) % 8), 48 + ((n \div 64) % 8), 48 + ((n \div 8) % 8), 48 + (n % 8)>>

\* What one function encodes the other decodes, and refuses what it cannot have made;
\* what is written is as long as the string that was made for it, in url-decode never
\* longer (and shorter where there was an escape); a string that is broken up and
\* joined is the same, but for a marker at its end; lines that fit the buffer are read
\* one by one, and no character of another is lost; the check sum of a header is the
\* one that was written into it, in any number of digits.
Decoded(s, marker) ==
  LET url == UrlEncode(s)  parts == Breakup(s, 1, marker)
      lines == Readlines(s, 1)
      header(field) == [before |-> s, checksum |-> field, after |-> marker] IN
  /\ Base64Decode(Base64Encode(s)) = s /\ Len(Base64Encode(s)) = Base64Size(s)
  /\ Base64Decode(s) # Failed => Base64Decode(Base64Encode(Base64Decode(s))) = Base64Decode(s)
  /\ Hexstr2bytes(Hexstr(s)) = s
  /\ UrlDecode(url) = s /\ Len(url) = UrlSize(s)
  /\ UrlDecode(s) # Failed => Len(UrlDecode(s)) <= UrlDecodeSize(s)
  /\ Len(HtmlEncode(s)) = HtmlSize(s) /\ {60, 62} \intersect Range(HtmlEncode(s)) = {}
  /\ LET joined == Unbreakup(parts, marker) IN
     s = joined \/ s = joined \o marker
  /\ \A part \in Range(parts) : Strstr(part, 1, marker) = Len(part) + 1
  /\ FlattenSeq(lines) = SelectSeq(s, LAMBDA c : c # 10)
  /\ (\A part \in Range(Breakup(s, 1, <<10>>)) : Len(part) < LineBuffer - 1) => lines = Breakup(s, 1, <<10>>)
  /\ LET sum == Checksum(header(<<0, 0, 0, 0, 0, 0>>)) IN
     \A field \in {Octal(sum) \o <<0, 32>>, <<48, 48>> \o Octal(sum)} :
       SafeAtol8(header(field).checksum) = Checksum(header(field))
=============================================================================
