------------------------------- MODULE MCData -------------------------------
(***************************************************************************)
(* The parts that convert, copy and compare data. Three of them take       *)
(* steps: the collector that copies and the loader of Windows images,      *)
(* whose modules this one extends, and arrays and strings. The others are  *)
(* functions, and part and input say which of them is evaluated, on what:  *)
(* their one step chooses the input.                                       *)
(***************************************************************************)
EXTENDS CopyGC, Loader, Strings

CONSTANT TkBuffer

VARIABLES part, input

Upto(n, S) == UNION {[1 .. k -> S] : k \in 0 .. n}

-----------------------------------------------------------------------------
(* Loader: files that differ in the order of their headers, in sections    *)
(* without data, of unknown names, one too many of these, and in what      *)
(* cannot be fixed up or imported.                                         *)

Sect(rva, raw, unknown, data) == [rva |-> rva, raw |-> raw, unknown |-> unknown, data |-> data]
Image(sections, fixups, imports) == [sections |-> sections, fixups |-> fixups, imports |-> imports]
Fixup(rva, type) == [rva |-> rva, type |-> type]
Import(rva, pfn) == [rva |-> rva, pfn |-> pfn]
High(rvas) == [i \in DOMAIN rvas |-> Fixup(rvas[i], "highlow")]

Images == {
  Image(<<Sect(2, 3, FALSE, <<10, 0, 13>>), Sect(6, 2, FALSE, <<0, 14>>), Sect(8, 0, TRUE, <<>>)>>,
        High(<<2, 3, 4>>) \o <<Fixup(4, "absolute"), Fixup(7, "highlow")>>, <<Import(6, 30)>>),
  Image(<<Sect(8, 1, TRUE, <<9>>), Sect(2, 2, FALSE, <<12, 5>>), Sect(6, 0, FALSE, <<>>)>>,
        High(<<2>>), <<Import(3, 29), Import(8, 0)>>),
  Image(<<Sect(0, 2, FALSE, <<8, 9>>), Sect(2, 1, TRUE, <<8>>), Sect(6, 2, TRUE, <<9, 10>>)>>,
        <<Fixup(0, "highlow"), Fixup(1, "other"), Fixup(2, "highlow")>>, <<>>),
  Image(<<Sect(0, 2, FALSE, <<8, 9>>), Sect(2, 1, TRUE, <<8>>)>>, High(<<0, 1, 2>>), <<>>)}

-----------------------------------------------------------------------------
(* Reader and FastIO: every kind of object as a leaf, in a pair and in an  *)
(* array, names that are nearly numbers, and all the characters that are   *)
(* escaped.                                                                *)

Rd == INSTANCE Reader WITH TKBUFFERN <- TkBuffer
Fa == INSTANCE FastIO WITH TKBUFFERN <- TkBuffer

Nil == Rd!Nil
Names == {<<"a">>, <<"-">>, <<"1", "e">>, <<"1", ".", "2", "e", "-">>, <<"-", ".">>, <<".", ".">>}
Texts == Upto(2, {"a", "\\", "\"", "\n", ";", " ", "n"})
Leaves == {Nil} \union {Rd!Symbol(n) : n \in Names} \union {Rd!Number(n) : n \in {0, 7, -12, 305}}
          \union {Rd!String(s) : s \in Texts}
Small  == {Nil, Rd!Symbol(<<"a">>), Rd!Number(-12), Rd!String(<<"\\">>)}
Pairs  == {Rd!Pair(a, d) : a, d \in Small}
Arrays == {Rd!Array(<<>>)} \union {Rd!Array(<<a>>) : a \in Small \union Pairs} \union {Rd!Array(<<a, b>>) : a, b \in Small}
Deep   == {Rd!Pair(a, d) : a \in Leaves, d \in Small} \union {Rd!Pair(a, d) : a \in Small \union Pairs \union Arrays, d \in Pairs}
Printable == Leaves \union Pairs \union Arrays \union Deep
Between == {<<" ">>, <<"\n", " ">>, <<";", "(", "\n">>}

A == Rd!Symbol(<<"a">>)
B == Rd!Symbol(<<"b", "c">>)
Saved == {Nil, A, B, Rd!Number(3), Rd!String(<<"#", "\n">>)}
SavedPairs == {Rd!Pair(p, d) : p, d \in Saved} \union {Rd!Array(<<>>)} \union {Rd!Array(<<p, d>>) : p, d \in Saved}
SavedForms == {Rd!Pair(p, d) : p \in Saved, d \in SavedPairs} \union {Rd!Pair(d, d) : d \in SavedPairs}
FirstSave  == {<<f>> : f \in SavedForms} \union {<<>>, <<A, B>>}
SecondSave == {<<>>, <<B, Rd!List(<<B, A>>)>>, <<Rd!List(<<A, B, A>>), A, Rd!Pair(A, B)>>}

-----------------------------------------------------------------------------
(* Strings: a space, a letter, whose lower case string-downcase makes, a    *)
(* byte that is negative as a char, a NUL.                                 *)

Stored  == {0, 32, 65, 200}
Prints  == {<<>>, <<<<65>>>>, <<<<40>>, <<97, 32>>, <<41>>>>}
InFile  == {<<97>>, <<0, 98>>, <<10, 32, 66>>}
\* Neither is looked at in the other parts.
Unlooked == str1 = ConsArray(0, "doubles") /\ str2 = str1

-----------------------------------------------------------------------------
(* Lists: every memory of four conses whose cdrs point back.               *)

Li == INSTANCE Lists
Items == {-1, -2, -3}
Memories == {[car |-> a, cdr |-> d] : a \in [1 .. 4 -> Items], d \in {f \in [1 .. 4 -> 0 .. 3] : \A i \in 1 .. 4 : f[i] < i}}

(* Equality: zeros of both signs, buffers longer than the string in them,  *)
(* strings and byte arrays of the same bytes.                              *)
Eq == INSTANCE Equality WITH LongBits <- 16
Flonums == {Eq!Flonum(FALSE, 0), Eq!Flonum(TRUE, 0), Eq!Flonum(FALSE, 5), Eq!Flonum(TRUE, 2)}
Buffers == {Eq!Chars(t, 1, <<97, 98>>) : t \in {"string", "bytes"}}
           \union {Eq!Chars("string", 1, <<97, 0>>), Eq!Chars("string", 2, <<97, 98>>)}
Parts == {Nil, Eq!Flonum(FALSE, 0), Eq!Flonum(TRUE, 0), Eq!Symbol(<<97>>),
          Eq!Chars("string", 1, <<97, 98>>), Eq!Chars("string", 1, <<97, 0>>)}
Comparable == Flonums \union Buffers \union {Nil, Eq!Symbol(<<97>>), Eq!Symbol(<<97, 98>>), Eq!Subr(<<97>>), Eq!Other("closure")}
              \union {Eq!Doubles(<<x>>) : x \in Flonums} \union {Eq!Longs(<<1>>), Eq!Longs(<<260>>)}
              \union {Eq!Array(<<x>>) : x \in Parts} \union {Eq!Pair(x, y) : x, y \in Parts}
              \union {Eq!Pair(x, Eq!Pair(y, Nil)) : x, y \in Parts}

(* Encodings: a line feed, a space, % & + 5 < = A a and the last byte.     *)
En == INSTANCE Encodings WITH LineBuffer <- 4
Bytes == Upto(3, {10, 32, 37, 38, 43, 53, 60, 61, 65, 97, 255})
         \union [1 .. 4 -> {61, 65, 255, 37}] \union [1 .. 6 -> {10, 97}]

(* Startup: programs that nearly contain the sequence before it does, at   *)
(* the limit of the search and beyond; arguments with and without keys,    *)
(* options and forms.                                                      *)
St == INSTANCE Startup WITH FlagBuffer <- 7, FileLimit <- 6
Programs == {junk \in Upto(4, {"#", "!", "/", "x"}) :
               St!Find(junk \o <<"#", "!", "/">>, <<"#", "!", "/">>, 1) = Len(junk) + 1}
Flags  == <<"-", "v", "0", ",", "-", "m", "2">>
Bodies == {<<";", "#", "\n", "x">>, <<"#", "!", "/">>}
Users  == {<<"a">>, <<":", "k", "=", "1">>, <<":", "k", "l", "=", "(">>, <<"(", ")">>, <<"r">>}
Options == {<<"-", "m", "1">>, <<"-", "m", "2">>, <<"-", "m", "3", ",", "-", "v", "1">>,
            <<"-", "g", "1", ",", "-", "i", "f", ",", "-", "g", "0">>}

-----------------------------------------------------------------------------
Stepping  == {"loader", "copygc", "strings"}
Evaluated == {"reader", "fast", "lists", "equality", "numbers", "encodings", "script", "arguments"}

\* An input is chosen once.
Choose ==
  /\ input = <<>> /\ UNCHANGED <<loaderVars, vars, strings>>
  /\ \/ part = "reader" /\ input' \in Printable \X (Small \union {Rd!Pair(Nil, Nil)}) \X Between
     \/ part = "fast" /\ input' \in FirstSave \X SecondSave \X BOOLEAN
     \/ part = "lists" /\ input' \in Memories \X {3, 4} \X {0, 3} \X {-2} \X (0 .. 1)
     \/ part = "equality" /\ \E a, b \in Comparable, n \in {7, 100} :
          \E c \in IF Eq!Equal(a, b) THEN Comparable ELSE {Nil} : input' = <<a, b, c, n>>
     \/ part = "numbers" /\ input' \in {-300, -1, 0, 7, 10, 4095} \X (2 .. 16) \X {0, 5}
     \/ part = "encodings" /\ input' \in Bytes \X {<<97>>, <<97, 97>>, <<10, 97>>}
     \/ part = "script" /\ input' \in {<<"p">>, <<"p", "|", "2">>} \X Bodies \X {0, 2}
                              \X (Programs \X Upto(1, Users) \union {<<>>, <<"#">>} \X Upto(2, Users))
     \/ part = "arguments" /\ input' \in Upto(3, Users \union Options) \X Users

MCInit == /\ part \in Stepping \union Evaluated /\ input = <<>>
          /\ LoaderInit /\ Init /\ IF part = "strings" THEN StringsInit ELSE Unlooked

MCNext == /\ UNCHANGED part
          /\ \/ part = "loader" /\ LoaderNext /\ UNCHANGED <<vars, strings, input>>
             \/ part = "copygc" /\ Next /\ UNCHANGED <<loaderVars, strings, input>>
             \/ part = "strings" /\ StringsNext /\ UNCHANGED <<loaderVars, vars, input>>
             \/ part \in Evaluated /\ Choose

Looked(p) == part = p /\ input # <<>>

-----------------------------------------------------------------------------
\* slib.c: what is printed is read back.
ReadBack == Looked("reader") => Rd!ReadBack(input[1], input[2], input[3])
\* sliba.c: what is saved is loaded, also in part.
SavedBack == Looked("fast") => Fa!SavedBack(input[1], input[2], input[3])
\* sliba.c: the operations on lists copy, share and change what they are defined to.
ListsAsDefined == Looked("lists") => Li!ListsAsDefined(input[1], input[2], input[3], input[4], input[5])
\* sliba.c: equal keys have equal hashes.
HashAgrees == Looked("equality") => Eq!HashAgrees(input[1], input[2], input[3], input[4])
\* sliba.c, slibu.c, tar.c: what is encoded is decoded.
Decoded == /\ Looked("encodings") => En!Decoded(input[1], input[2])
           /\ Looked("numbers") => NumberBack(input[1], input[2], input[3])
\* slibu.c: the command line and the script are run as siod_main's options say.
ArgumentsPassed ==
  /\ Looked("script") => St!ScriptRun(input[1], input[4][1], Flags, input[2], input[4][2], input[3])
  /\ Looked("arguments") => St!ArgumentsPassed(<<<<"s">>>> \o input[1], input[2])
=============================================================================
