------------------------------- MODULE FastIO -------------------------------
(***************************************************************************)
(* fast_save and fast_load (sliba.c): forms in a binary file, with a table *)
(* of the symbols that have occurred.  A file is a sequence of units: an   *)
(* opcode, a whole number (of put_long or of a flonum) or a character.     *)
(* Arrays of doubles and longs are left out: they do not come back         *)
(* (README).                                                               *)
(***************************************************************************)
EXTENDS Objects

CONSTANTS TKBUFFERN   \* the size of the buffer for the name of a symbol

-----------------------------------------------------------------------------
(* Saving.  w is what has been written, whether the stream has a table,    *)
(* and the table: the symbols in the order of their indices, which begin   *)
(* at 0.                                                                   *)

Out(w, units) == [w EXCEPT !.text = w.text \o units]

\* Mutant of Store: the index of the stream is advanced before it is written.
StoreNext(w, obj) == Out([w EXCEPT !.ht = Append(w.ht, obj)], <<"store", Len(w.ht) + 1>>)

Store(w, obj) == Out([w EXCEPT !.ht = Append(w.ht, obj)], <<"store", Len(w.ht)>>)

\* fast_print_table and the symbol's name.
FastPrintSymbol(w, obj) ==
  LET name == <<"symbol", Len(obj.pname)>> \o obj.pname IN
  IF ~ w.hash THEN Out(w, name)
  ELSE IF \E i \in DOMAIN w.ht : w.ht[i] = obj
       THEN Out(w, <<"fetch", (CHOOSE i \in DOMAIN w.ht : w.ht[i] = obj) - 1>>)
  ELSE Out(Store(w, obj), name)

\* fast_print and array_fast_print.
RECURSIVE FastPrint(_, _)
FastPrint(w, obj) ==
  LET all(v, objs) == FoldLeft(FastPrint, v, objs) IN
  CASE obj.type = "nil" -> Out(w, <<"nil">>)
    [] obj.type = "flonum" -> Out(w, <<"flonum", obj.value>>)
    [] obj.type = "symbol" -> FastPrintSymbol(w, obj)
    [] obj.type = "string" -> Out(w, <<"string", Len(obj.data)>> \o obj.data)
    [] obj.type = "array" -> all(Out(w, <<"array", Len(obj.elems)>>), obj.elems)
    [] obj.type = "cons" ->
         LET elements == Elements(obj) IN
         IF Len(elements) = 1 THEN all(Out(w, <<"cons">>), <<obj.car, obj.cdr>>)
         ELSE IF Ending(obj) = Nil THEN all(Out(w, <<"list", Len(elements)>>), elements)
         ELSE all(Out(w, <<"listd", Len(elements)>>), Append(elements, Ending(obj)))

\* Comments (the user's and the five about sizes) and the forms.
FastSave(forms, nohash) ==
  FoldLeft(FastPrint, [text |-> <<"#", "c", "\n", "#", "\n">>, hash |-> ~ nohash, ht |-> <<>>], forms).text

-----------------------------------------------------------------------------
(* Loading.  r is the object read last, the position after it (0 for an    *)
(* err) and the stream's table.  At the end of the file the object is the  *)
(* stream itself.                                                          *)

Stream == [type |-> "stream"]
Error(r) == [r EXCEPT !.at = 0]
Read(r, obj, at) == [r EXCEPT !.obj = obj, !.at = at]

RECURSIVE FastRead(_, _), ReadAll(_, _, _, _)

\* n objects one after the other, from those read so far.
ReadAll(text, r, n, objs) ==
  IF n = 0 \/ r.at = 0 THEN [last |-> r, objs |-> objs]
  ELSE LET next == FastRead(text, r) IN ReadAll(text, next, n - 1, Append(objs, next.obj))

EndOfComment(text, i) ==
  IF \E j \in i .. Len(text) : text[j] = "\n"
  THEN CHOOSE j \in i .. Len(text) : text[j] = "\n" /\ \A k \in i .. j - 1 : text[k] # "\n"
  ELSE Len(text)

\* fast_read and array_fast_read.
FastRead(text, r) ==
  LET i == r.at
      long == text[i + 1]     \* get_long
      Made(n, from, Make(_)) ==
        LET all == ReadAll(text, [r EXCEPT !.at = from], n, <<>>) IN
        IF all.last.at = 0 THEN all.last ELSE Read(all.last, Make(all.objs), all.last.at)
      Chars(Make(_)) ==
        IF i + 1 + long > Len(text) THEN Error(r)
        ELSE Read(r, Make(SubSeq(text, i + 2, i + 1 + long)), i + 2 + long) IN
  IF i > Len(text) THEN Read(r, Stream, i)
  ELSE IF text[i] = "#" THEN FastRead(text, [r EXCEPT !.at = EndOfComment(text, i) + 1])
  ELSE IF text[i] = "nil" THEN Read(r, Nil, i + 1)
  ELSE IF text[i] = "cons" THEN Made(2, i + 1, LAMBDA s : Pair(s[1], s[2]))
  ELSE IF i = Len(text) THEN Error(r)
  ELSE CASE text[i] = "flonum" -> Read(r, Number(long), i + 2)
         [] text[i] = "string" -> Chars(String)
         [] text[i] = "symbol" -> IF long >= TKBUFFERN THEN Error(r) ELSE Chars(Symbol)
         [] text[i] = "array" -> Made(long, i + 2, Array)
         [] text[i] = "list" -> Made(long, i + 2, List)
         [] text[i] = "listd" -> Made(long + 1, i + 2, LAMBDA s : ListThen(Front(s), Last(s)))
         [] text[i] = "fetch" -> Read(r, IF long \in DOMAIN r.ht THEN r.ht[long] ELSE Nil, i + 2)
         [] text[i] = "store" ->
              LET s == FastRead(text, [r EXCEPT !.at = i + 2]) IN
              IF s.at = 0 THEN s
              ELSE [s EXCEPT !.ht = [k \in DOMAIN s.ht \union {long} |-> IF k = long THEN s.obj ELSE s.ht[k]]]

\* The forms that fast_load evaluates before the end of the file, or before an err.
RECURSIVE LoadFrom(_, _)
LoadFrom(text, r) ==
  LET form == FastRead(text, r) IN
  IF form.at = 0 \/ form.obj = Stream THEN <<>> ELSE <<form.obj>> \o LoadFrom(text, form)

FastLoad(text) == LoadFrom(text, [obj |-> Nil, at |-> 1, ht |-> [k \in {} |-> Nil]])

-----------------------------------------------------------------------------
\* x is y with the stream in the place of what was missing at the end of the file.
RECURSIVE Lacks(_, _)
Lacks(x, y) == \/ x = Stream \/ x = y
               \/ Consp(x) /\ Consp(y) /\ Lacks(x.car, y.car) /\ Lacks(x.cdr, y.cdr)
               \/ /\ x.type = "array" /\ y.type = "array" /\ Len(x.elems) = Len(y.elems)
                  /\ \A i \in DOMAIN x.elems : Lacks(x.elems[i], y.elems[i])

\* Forms saved in a file, with a table or without, and others appended to it by a
\* second fast_save, whose table begins anew, are loaded as they were.  Of a file that
\* ends anywhere before, as when the program that saved it was killed, every form that
\* was written whole is loaded as it was, and at most one that was not, with the
\* stream itself for what is missing.
SavedBack(first, second, nohash) ==
  LET text == FastSave(first, nohash) \o FastSave(second, ~ nohash)
      all == first \o second
      upto(k) == IF k <= Len(first) THEN FastSave(SubSeq(first, 1, k), nohash)
                 ELSE FastSave(first, nohash) \o FastSave(SubSeq(second, 1, k - Len(first)), ~ nohash) IN
  /\ FastLoad(text) = all
  /\ \A cut \in 0 .. Len(text) - 1 :
       LET loaded == FastLoad(SubSeq(text, 1, cut))  n == Len(loaded) IN
       /\ n <= Len(all)
       /\ \A i \in 1 .. n - 1 : loaded[i] = all[i]
       /\ n > 0 => Lacks(loaded[n], all[n])
       /\ \A k \in 1 .. Len(all) : Len(upto(k)) <= cut => n >= k /\ loaded[k] = all[k]
=============================================================================
