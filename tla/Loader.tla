------------------------------ MODULE Loader ------------------------------
(***************************************************************************)
(* The PE loader (Pea.cpp): a file is mapped, its sections are copied to   *)
(* memory at another base than they were linked for, the addresses in them *)
(* are fixed up and the imports filled in; the load map and its complement *)
(* say which pages belong to the module. RealLoad.cpp calls all of it.     *)
(*                                                                         *)
(* A byte stands for a word that holds an address or 0. The file is a      *)
(* record: sections in order, [rva, raw, data], fixups in blocks of one    *)
(* page, imports of modules, [rva, pfn] with 0 for one that is not found.  *)
(* As in the code nothing stops the client from applying the fixups twice: *)
(* a client here calls each operation once.                                *)
(***************************************************************************)
EXTENDS Ranges, FiniteSets, FiniteSetsExt

CONSTANTS Files,      \* the files there are
          Linked,     \* the base that all of them were linked for, Delta's other term
          MaxUnknown  \* MAX_UNKNOWN_SECTIONS

VARIABLES
  file,        \* the file that is mapped, or <<>>
  base,        \* m_pbBase, 0 before there is memory
  painted,     \* how many sections FScatterFile has painted
  memory,      \* the words written at or fixed at an address
  loadmap,     \* m_arsActualLoadMap
  complement,  \* m_parsLoadMapComplement: the set of it, or of nothing
  done         \* the operations that came to an end

loaderVars == <<file, base, painted, memory, loadmap, complement, done>>

Nothing == [a \in {} |-> 0]
LoaderInit == /\ file = <<>> /\ base = 0 /\ painted = 0 /\ memory = Nothing
              /\ loadmap = <<>> /\ complement = {} /\ done = {}

Sections == file[1].sections
\* Memory in which words are written.
Written(words, mem) == [a \in DOMAIN words \union DOMAIN mem |-> IF a \in DOMAIN words THEN words[a] ELSE mem[a]]

RoundUp(n) == ((n + PageSize - 1) \div PageSize) * PageSize
DwSpanCount(n) == RoundUp(n) \div PageSize
Total(f) == RoundUp(Max({s.rva + s.raw : s \in Range(f.sections)} \union {0}))

\* A file as a linker writes it, with an import directory, if an empty one (FetchImports
\* does not test that there is one, Pea.cpp:1484): sections begin at a page and share
\* none; a word that is fixed up is 0 or an address of the image, up to its end, and no import's.
WellLinked(f) ==
  /\ f \in [sections : Seq([rva : Nat, raw : Nat, unknown : BOOLEAN, data : Seq(Nat)]),
            fixups : Seq([rva : Nat, type : STRING]), imports : Seq([rva : Nat, pfn : Nat])]
  /\ \A s \in Range(f.sections) : s.rva % PageSize = 0 /\ Len(s.data) = s.raw
  /\ \A i, j \in DOMAIN f.sections : i # j =>
       LET s == f.sections[i]  t == f.sections[j] IN
       s.rva + RoundUp(s.raw) <= t.rva \/ t.rva + RoundUp(t.raw) <= s.rva
  /\ \A fx \in Range(f.fixups) : fx.type = "highlow" =>
       /\ \A im \in Range(f.imports) : im.rva # fx.rva
       /\ \A s \in Range(f.sections) : \A i \in 1 .. s.raw :
            s.rva + i - 1 = fx.rva => s.data[i] \in {0} \union (Linked .. Linked + Total(f))

ASSUME FilesAssumption == Linked \in Nat /\ \A f \in Files : WellLinked(f)

\* OpenModule.
Open(f) ==
  /\ file = <<>> /\ file' = <<f>>
  /\ UNCHANGED <<base, painted, memory, loadmap, complement, done>>

\* FScatterFile: VirtualAlloc somewhere below what is not the user's.
Allocate ==
  /\ file # <<>> /\ base = 0
  /\ base' \in {b \in 1 .. Space - PageSize - Total(file[1]) : b % PageSize = 0}
  /\ UNCHANGED <<file, painted, memory, loadmap, complement, done>>

Unknown(i) == Cardinality({j \in 1 .. i : Sections[j].unknown /\ Sections[j].raw # 0})

\* A section is painted, and added to the load map; AddUnknownSection passes over one
\* that is empty, and fails at one too many.
Paint ==
  LET s == Sections[painted + 1] IN
  /\ base # 0 /\ painted < Len(Sections)
  /\ IF s.unknown /\ s.raw = 0 THEN UNCHANGED <<memory, loadmap>>
     ELSE /\ Unknown(painted + 1) <= MaxUnknown
          /\ loadmap' \in Insert(loadmap, Arg(base + s.rva, DwSpanCount(s.raw)))
          /\ memory' = Written([a \in (base + s.rva) .. (base + s.rva + s.raw - 1) |-> s.data[a - base - s.rva + 1]], memory)
  /\ painted' = painted + 1
  /\ UNCHANGED <<file, base, complement, done>>

Painted == base # 0 /\ painted = Len(Sections)

\* The entries of a list that are handled before the first that raises an exception.
Before(list, failing) == {list[i] : i \in {j \in DOMAIN list : \A k \in 1 .. j : list[k] \notin failing}}

\* DataPostFixup of type HIGHLOW.
PostFixup(x) == IF x = 0 THEN 0 ELSE (x + base - Linked) % Space

\* FApplyAllFixups; type ABSOLUTE pads a block.
ApplyAllFixups ==
  LET handled == Before(file[1].fixups, {fx \in ToSet(file[1].fixups) : fx.type \notin {"highlow", "absolute"}})
      victims == {base + fx.rva : fx \in {g \in handled : g.type = "highlow"}} IN
  /\ Painted /\ "fixups" \notin done
  /\ memory' = [a \in DOMAIN memory |-> IF a \in victims THEN PostFixup(memory[a]) ELSE memory[a]]
  /\ done' = IF handled = ToSet(file[1].fixups) THEN done \union {"fixups"} ELSE done
  /\ UNCHANGED <<file, base, painted, loadmap, complement>>

\* FetchImports.
FetchImports ==
  LET handled == Before(file[1].imports, {im \in ToSet(file[1].imports) : im.pfn = 0}) IN
  /\ Painted /\ "imports" \notin done
  /\ memory' = Written([a \in {base + im.rva : im \in handled} |-> (CHOOSE im \in handled : base + im.rva = a).pfn], memory)
  /\ done' = IF handled = ToSet(file[1].imports) THEN done \union {"imports"} ELSE done
  /\ UNCHANGED <<file, base, painted, loadmap, complement>>

\* ComputeComplement.
ComputeComplement ==
  /\ Painted /\ complement = {}
  /\ complement' \in {{c} : c \in Complement(loadmap)}
  /\ UNCHANGED <<file, base, painted, memory, loadmap, done>>

\* CloseModule, which ends in PEA::Init, at any time.
CloseModule ==
  /\ file # <<>>
  /\ file' = <<>> /\ base' = 0 /\ painted' = 0 /\ memory' = Nothing
  /\ loadmap' = <<>> /\ complement' = {} /\ done' = {}

LoaderNext == \/ \E f \in Files : Open(f)
              \/ Allocate \/ Paint \/ ApplyAllFixups \/ FetchImports \/ ComputeComplement \/ CloseModule

LoaderSpec == LoaderInit /\ [][LoaderNext]_loaderVars

-----------------------------------------------------------------------------
\* A painted module: the load map is in order and has the pages of its sections and
\* no others, whatever the order of the headers and with empty sections among them;
\* the complement has every other page of the space, and no page twice.
LoadMapExact == Painted =>
  LET mine(x) == \E s \in Range(Sections) : x >= base + s.rva /\ x < base + s.rva + RoundUp(s.raw) IN
  /\ Ascending(loadmap)
  /\ \A x \in 0 .. Space - 1 : FContains(loadmap, x) <=> mine(x)
  /\ \A c \in complement :
       /\ Ascending(c) /\ CPages(c) + CPages(loadmap) = Space \div PageSize
       /\ \A x \in 0 .. Space - 1 : FContains(c, x) <=> ~ mine(x)

\* When fixups and imports have come to an end, each word that held an address of the
\* module as it was linked has that of the same word where it was loaded; words that
\* are no fixup's, and null pointers, are as in the file; imports have their functions.
ImageRight == Painted /\ done = {"fixups", "imports"} =>
  \A s \in Range(Sections) : \A i \in 1 .. s.raw :
    LET rva == s.rva + i - 1  old == s.data[i]  new == memory[base + rva]
        fixed == \E fx \in Range(file[1].fixups) : fx.rva = rva /\ fx.type = "highlow"
        imported == {im \in Range(file[1].imports) : im.rva = rva} IN
    IF imported # {} THEN new \in {im.pfn : im \in imported}
    ELSE IF fixed /\ old # 0 THEN new - base = old - Linked
    ELSE new = old

\* What the clients of the loader rely on: the pages it calls the module's are the
\* module's, and what is in them is what the linker would have made for this base.
ModuleLoaded == LoadMapExact /\ ImageRight
=============================================================================
