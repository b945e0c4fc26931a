# SIOD in TLA+

TLA+ models, TLC runs and TLAPS proofs for SIOD, "Scheme In One Defun", as it is in
`src/winsiod`: a Lisp interpreter in C (`slib.c`, `sliba.c`, `slibu.c`, headers `siod.h` and
`siodp.h`), libraries around it (sockets, tracing, data bases, regular expressions), and a
Windows listener that runs it on a thread of its own (`DlgSiod.cpp`).

The interpreter is one thread and one C stack.  What makes it hard is not parallelism but
re-entrance: **any cons may start a collection, and after a collection the interpreter
evaluates the user's expression `*after-gc*`**, in the middle of whatever C function was
consing; **any cons, read or print may fail**, and `err` leaves the function by `longjmp`; and
control-c arrives at any moment.  Heap, Control, Tables and Eval are about those three.  The
listener does have threads.  The libraries hold resources that the collector, an error and the
program each may release.  And a large part of the code converts, copies and compares data,
twice over: one function counts what the other writes, one prints what the other reads.

Contents: [inventory](#inventory), [modules](#modules-and-how-they-correspond-to-the-code),
[runs](#runs-and-bounds), [fairness](#fairness), [proofs](#proofs),
[divergences](#where-code-and-documentation-differ), [what is not modelled](#what-is-not-modelled),
[plan](#plan).

## Inventory

The components in the order of what depends on them.  `PROJECT.json` has the status of each.

| component | state | operations | used by |
|---|---|---|---|
| Storage, mark and sweep (`slib.c`; `siodp.h` NEWCELL) | `heaps[]`, `heap`/`heap_end`, `freelist`, type, `gc_mark` and fields of each cell, the words of the C stack, `gc_protect` list | NEWCELL, `gc_for_newcell`, `gc_mark_and_sweep`, `(gc)`, `(allocate-heap)`, `car`/`cdr`/`setcar`/`setcdr`, the types' `gc_free` | everything |
| Storage, stop and copy (`-g1`) | two spaces, forwarding pointers | `gc_stop_and_copy`, `gc_relocate`, `scan_newspace`, `free_oldspace` | everything |
| Control | C stack, `catch_framep`, `errjmp`, `errjmp_ok`, `nointerrupt`, `interrupt_differed`, `inside_err`, `repl_c_string_*` | `err`, `lerr`, `(quit)`, `*catch`, `*throw`, `no_interrupt`, `handle_sigint`, INTERRUPT_CHECK, `repl_driver`, `repl`, `repl_c_string` | everything |
| Symbols and hash tables | `obarray[]`, `oblistvar`; an array of association lists | `gen_intern` (`intern`, `rintern`, `cintern`), `hset`, `href` | reader, every `init_subr`, programs |
| Evaluator (`slib.c`), tracing (`trace.c`) | environments (lists of frames), value cells, forms (macros rewrite them in place), the type of a closure | `leval`, `lapply`, `extend_env`, `set!`, `define`, the special forms, `let` macros, `trace` | driver, `*after-gc*`, hooks |
| Reader and printer | stream position, `tkbuffer`, user read hooks | `lreadr`, `lreadstring`, `flush_ws`, `lprin1g` | driver, `load` |
| Files and libraries | open `FILE *`s, `*xxx.scm-loaded*` flags | `fopen_c`, `fclose_l`, `file_gc_free`, `vload`, `require`, `save_forms`, `popen`, `opendir` | programs |
| Arrays, strings, lists | dimension and buffer of each array cell, the conses | `cons_array`, `aref1`, `aset1`, `strcons`, `substring`, `print_to_string`, `fread`, `equal`, `sxhash`, `nconc`, `qsort`, `append` | programs |
| Fast binary I/O | a file and a table of symbols on each side | `fast_print`, `fast_read`, `array_fast_*`, `fast_save`, `fast_load` | programs |
| Encodings (`sliba.c`, `slibu.c`, `tar.c`) | none | base64, hexadecimal, URL, HTML, `strbreakup`, lines, tar's numbers | programs |
| Sockets (`ss.c`) | per stream: descriptor, input and output buffers with counts | `s_open`, `s_accept`, `s_getc`, `s_putc`, `s_force`, `s_close` | `http.scm`, `ftp.scm`, ... |
| Data bases (`sql_*.c`, `ndbm.c`) | connections, associations, statements, cursors, commands | connect, prepare, execute, fetch, release, the types' `gc_free` | programs |
| Windows listener (`DlgSiod.cpp`) | `g_quitNow`, `g_NewSiodThreadNeeded`, `g_hSiodReplThread`, indices `g_getHead`/`g_getTail`, the characters put back, an auto-reset event | dialog thread: keys, "fresh SIOD"; SIOD thread: `ListenerGetC`, `ThreadSiodRepl` | - |
| PE loader, address ranges (`Pea.cpp`, `Ars*`, `RealLoad.cpp`) | the file, the image at its base, load map and complement | `OpenModule`, `FScatterFile`, `FApplyAllFixups`, `FetchImports`, `ComputeComplement` | `LoadLibraryXXX` |
| Main programs | arguments, options, the script behind a program | `siod_main`, `siod_shuffle_args`, `position_script`, `process_cla`, `vload` | - |
| Graphics, Pratt parser, OS interface, regex, Windows foreign functions, Scheme libraries | little or none of their own | wrappers, vendored code, programs in Scheme | - |

How they interact: the driver calls reader, evaluator and printer in turn; each of them conses;
`NEWCELL` calls the collector when the free list is empty; the collector scans the C stack, so
every C variable of every component is a root; after it, `gc_for_newcell` calls the evaluator on
`*after-gc*`.  `err` and `lthrow` leave through `catch_framep` or `errjmp`.  Two globals
bracket everything that must not be left in the middle: `nointerrupt` (asynchronous errors are
deferred) and `errjmp_ok` (an error now would be fatal).

What makes each component correct, and is hard to test:

* Storage: nothing reachable is freed, though roots are found conservatively and the program
  may run again (`*after-gc*`) between the collection and the cell NEWCELL was called for; the
  free list stays a list across the bump pointer, `(gc)`, `(allocate-heap)` and malloc'ed cells
  with junk marks; resources are released once; an out-of-storage error is true.
* Control: `catch_framep` never leads to a frame that returned; every exit goes to the
  innermost scope for it; interrupts come back on; no error meets `errjmp_ok = 0`; control-c
  is served; `repl_c_string` reports errors.
* Symbols, hash tables: a symbol stays the one its name is looked up to, a key keeps its last
  value, when buckets are read before a cons and stored after it.
* Evaluator: a form means the same each time it is evaluated, whatever was evaluated, or failed,
  in the middle of it; loops take no stack.
* Reader, fast I/O, encodings: what is printed, saved, encoded is what is read, loaded, decoded.
* Strings: a NUL behind the dimension after any sequence of writes; lists: what is shared, what
  changed; equal keys hash alike.
* Files, sockets, data bases: every handle has one owner and is released exactly once, also
  after errors; bytes arrive once and in order.
* Listener: one SIOD thread at a time; what is typed is read, in order and once; a request for a
  fresh SIOD is served.  Nothing has a lock, so that each has the exceptions its properties name.
* Loader: the pages of the module are exactly those in its map, and the image is what the linker
  would have made for its base.

The hazards behind these, each with the line where it bites and the properties that cover it,
are listed in `PROJECT.json` (`hazards`).

## Modules and how they correspond to the code

`PROJECT.json` (`map`) gives the lines of every definition.

### Heap, AbsHeap, HeapProofs, MCHeap

`Heap` is the default collector (`-g0`).  A cell `<<j, i>>` is `&heaps[j][i]`; `heap` is the bump
pointer in the first heap, `nactive` counts the heaps that are malloc'ed, `freelist` is the free
list as a sequence (and `cdr` threads it as the code does: that both agree is part of
`FreelistSound`).  `words` are the LISP values in C variables and protected locations.  `pc`
says which C function runs: the Lisp program, the marker, the sweeper, the tail of
`gc_for_newcell` ("check"), `*after-gc*` ("hook"), or NEWCELL going on after it ("fill").

* `NewcellPop`, `NewcellBump`, `NewcellCollect` are the three ways through NEWCELL; `Fill` is what
  it and its caller write.  Type "cons" stands for objects with pointers, "user" for those with
  a C resource (strings, files), which `open` says is held.
* `StartGC` frees the rest of the first heap, as `gc_mark_and_sweep` does, and takes as roots
  the protected words, all words, and any `Stale` words that `looks_pointerp` accepts.
  `GcMark` is one call of `gc_mark`; `GcSweep` one cell of `gc_sweep`.
* `CheckHook`, `CheckGrow`, `CheckFull`, `OutOfStorage`, `HeapMallocFails` are the exits of
  `gc_for_newcell` after the collection; `Reserve` is its literal 100.
* `Load`, `Drop`, `SetCar`, `SetCdr` are the program, in "run" and in "hook" alike.

`AbsHeap` has no collector: objects with contents, gone with the last path to them.
`Heap!Implements` is the refinement, by restricting the heap to what is reachable.

`gc_for_newcell` checks for 100 cells, evaluates `*after-gc*` and does not look again, so an
`*after-gc*` that keeps 100 cells or more leaves NEWCELL a null pointer (`pc = "crash"`, where the
model stops).  `hookTaken` counts what the expression took; `HookAllocs`, which bounds it, is as large
as `Reserve` in `heap`, so that the crash is reached.  An `*after-gc*` that empties the list stops consing:
that its next cons would collect again, and that it calls `(gc)` itself, is left out.

### Control, AbsCatch, ControlProofs, MCControl

`Control` is every non-local exit, in the WIN32 port, where `handle_sigint` only sets
`interrupt_differed` and the program polls.  `stack` holds the activations that matter: a
`*catch` (`catch_frame` with its tag and `next`), a `no_interrupt` section with the flag that it
will restore, a collection, an evaluation of `*after-gc*`, and `err` while it conses what the catch
will return.  The address of a frame is its position, so that "a frame that returned" is one
beyond the stack or of another kind.  `phase` is where `repl` is, and `mode` how the host called.

* `Err` is `err`: the walk to the first `errobj`/`all` frame, `inside_err`, the consing (an
  activation of its own, in which everything may happen), `longjmp(errjmp)`, the exit of the
  process if `errjmp_ok` is 0.  `ErrFinish` is its jump.
* `Throw` is `lthrow`, with its error when no frame matches; `Catch`/`CatchReturn` are
  `leval_catch`.
* `Section`/`SectionLeave` are `no_interrupt(1)` and `no_interrupt(flag)`, `GcStart`/`GcEnd` the
  bracket of both collectors and their exits, `Interrupted` an INTERRUPT_CHECK that finds one.
* `Driver`, `Loop`, `Return` are `repl_driver`, `repl` and `repl_c_string`.  Phase "copy" is `strcons` in
  `repl_c_string_read`, which may fail while `repl_c_string_arg` is still set.
* `Signal` is the signal, at any moment.

Of other C code only that matters here is kept: it may fail, enter sections, and allocate.
`raised`, `value`, `failed` and `escaped` are history variables.

`AbsCatch` is dynamic scope: tags at levels, of which some may be left out; each raise goes to the
innermost scope for it.  `Control!Implements` is the refinement: the frames on the stack that are
catches are the scopes, at the levels of their activations.

### Tables, TablesProofs, MCTables

`Tables` is `gen_intern` with the buckets of `obarray` and `oblistvar`, and a hash table of `hset`
and `href`.  Both functions read a list, cons, and store a cons onto *the list they read*.
A list is represented by what a search of it finds, a function from names to symbols or from
keys to entries (0: none); consing in front overrides that function at one name.  `stack` holds
the activations of C functions that wait at a cons and of the Lisp code that called them or
that `*after-gc*` runs in them, each with what it has in its variables; Lisp activations carry,
as history, the symbols that intern returned to them and the keys they have set.

* `InternFound`, `InternNew`, `Symcons`, `BucketCons`, `OblistCons` are `gen_intern` cut at its
  conses: symcons, the bucket's cons, oblist's.  The value of `oblistvar` is read when the
  arguments of the third are evaluated, that is *before* its cons can collect.
  `Hashed` is `obarray_dim > 1`; without it oblist is the only bucket.
* `HsetFound`, `HsetNew`, `EntryCons`, `SlotCons` are `hset`, `Href` is `href`.
* `AfterGc` starts Lisp code on top of any waiting cons; `Unwind` is an error or a `*throw` to any
  Lisp code on the stack, where the C functions above are abandoned half done.

The hash is an arbitrary function, per name; keys are immutable here (a key that is changed in
place may be lost in its old slot, as in any hash table).

### Listener, ListenerProofs

The dialog's thread (`ui`) and the interpreter threads (`at`) on the globals of `DlgSiod.cpp`; a step is
one access of a shared variable or one Windows call, and any two actors interleave at any step.
`OnChar`, `LoadTail`, `EraseTail`, `BumpTail`, `Store` and `UiPulse` are `ListenerOnChar`,
`Fresh`/`FreshQuit`/`FreshNeed`/`UiPulse` `FreshSiodThread`; `Reget` … `Fetch` are `ListenerGetC`,
`Close`/`TestNeeded`/`ClearNeeded`/`Create`/`Assign` the end of `ThreadSiodRepl`.  Three history
variables note where this goes wrong, and the properties say what holds until then:

* `hole`: `FreshSiodThread` found no handle while a thread ended that will make another, or while a
  new one ran whose handle was not assigned yet.  Two interpreters may run from then on.
* `crossed`: a key counted the tail up or down between `ListenerGetC`'s test of the indices and the end
  of its reset, or a character was read before it was stored, or a backspace took back one that had
  been read or was about to be.  What is read may then lie outside what was typed.
* `missed`: a pulse came between that test and the wait, and woke nobody.

### Eval, MCEval

`Eval` is `leval`, `lapply` and tracing.  Cells are conses and closures in a sequence, objects are
values or a cell; `stack` has the C activations that wait for a value or stand between two
conses.  There `Hook` may evaluate `*after-gc*` on top, `Fail` may end everything (a cons that fails,
or control-c at a poll).  `Ready…` are the actions that cons, `Return…` what goes on with a value.
`let`, `let*` and `letrec` rewrite the form in place, `ReadyLetBindings` and `ReadyLetBody` as the
code does it, cdr first.  `MCEval` has six programs, each form with the values it may have, and
lays them out in cells.

### Sockets, Files, Oracle, Rdb, Sybase, Resources, MCResources, and their proofs

Five models of cells that own something outside of the heap.  `Resources` composes them: `part` says
which of them a behaviour is about.  `Drop` is the program letting go of a cell, `GcFree` the collector's `gc_free`; the
calls of the libraries may fail at every point where the code tests for it.

* `Sockets`: the kernel takes or gives any part of what it is asked for and reuses descriptor
  numbers.  A C function that sends or receives is a `call` with what it still has to do.
* `Files`: `stack` has the activations of `vload` and `save_forms`; libraries require each other in a
  circle, one with a parser of its own, one in a `*catch`.
* `Oracle`: who owns which cursor.  When `osql3` or `oclose` fails the statement keeps the address of a
  cursor that was freed (`freed`), and the model goes on: malloc gives the address out again, and the
  collector, or a second release, then frees another statement's cursor (`robbed`) or what is free
  already (`process = "wild"`).  An error in the collector ends the process.
* `Rdb`: the lists of associations and statements, and what the server has.  A release that the library
  refuses takes the object off the list all the same (`lost`).
* `Sybase`: the stages of a connection and its one command.

`SocketsProofs` and `FilesProofs` extend their modules.  `ResourcesProofs` proves the same of the composition:
it carries their theorems over, and has the proofs about the three data bases.

### Objects, Reader, FastIO, Lists, Equality, Strings, Encodings, Startup, Ranges, Loader, CopyGC, DataProofs, MCData

* `Reader` and `FastIO` work on values (`Objects`): the printer and the reader, the saver and the loader,
  as functions on texts.  `Lists` works on a memory of conses, since which cells are shared and
  which are changed is half of what those functions promise.  `Equality` and `Strings` have objects
  as they lie in memory, with a dimension and a buffer that may disagree about the end.
* `Strings` takes steps: two variables hold objects, which are made, stored into, read into from a
  file, printed into, and combined into others, in any order.
* `Ranges` and `Loader` are the sets of pages and the image in a space that wraps; a byte stands
  for a word, and a file that `OpenModule` may get is one that a linker wrote (`WellLinked`, the
  assumption on `Files`).  `Walked` is `Complement` on its way: the set so far, and where it ends.
* `CopyGC` is the collector of `-g1`: `Exhausted` is an allocation that fails back to `repl`, where
  alone there are collections; `Collect` takes the other space, `ScanRegister` relocates one
  registered location, `Scan` the fields of one copied cell, `FreeOldspace` ends it; each cell
  carries the name of the object in it, and `built` what the program last stored into it, which
  are history.
* `Encodings` has each encoder's count beside what it writes.  `Startup` goes from a command line to
  what is loaded, evaluated and returned.

`MCData` extends `CopyGC`, `Loader` and `Strings` and has the others as instances.  `DataProofs` has the
proofs about these three.  The parts that are functions are evaluated on all inputs of `MCData`, one
state per input; the numbers that strings are made of and read as are among them.

## Runs and bounds

| run | module, cfg | asks | distinct states |
|---|---|---|---|
| heap | MCHeap, MCHeap.cfg | invariants and termination of the collector | 352 000 |
| heap_refines | MCHeap, MCHeapRefines.cfg | Heap implements AbsHeap | 40 000 |
| control | MCControl, MCControl.cfg | the catch chain, errors and interrupts; refinement of AbsCatch | 171 000 |
| interrupts | MCControl, MCControlLive.cfg | control-c is served; the result of repl_c_string | 59 000 |
| tables | MCTables, MCTables.cfg | invariants of the tables | 771 000 |
| intern_twice | MCTables, MCTablesSymbol.cfg | the documented `intern`: violated | |
| listener | Listener, MCListener.cfg | characters in order, lines read, requests served | 184 000 |
| listener_race | Listener, MCListenerRace.cfg | "There is no race": violated | |
| program | MCEval, MCEval.cfg | forms keep their meaning, loops need no stack | 309 000 |
| let_twice | MCEval, MCEvalLet.cfg | the documented `let`: violated | |
| resources | MCResources, MCResources.cfg | streams, files and data base clients | 463 000 |
| data | MCData, MCData.cfg | loader, copying collector, strings, and the functions on data | 925 000 |

What the properties say (each is stated in words above its definition):

* `LiveIntact`, `FreelistSound`, `GcExact`, `ResourcesHeld`, `NewcellNullByHookOnly`, `GcTerminates`
  (Heap), and the refinement.  `GcExact` is the strongest: after a collection the free list is
  exactly what the conservative roots do not reach, the cells included that an earlier `(gc)`
  passed over because malloc had left a mark in them.
* `CatchChain`, `NeverFatal`, `NointerruptRestored`, `ReplReturnString`, `InterruptServed`
  (Control), and the refinement.
* `SymbolsKept`, `HrefLatest` (Tables).  They are about code that *still runs*: symbols and keys
  that only an `*after-gc*` got hold of may be cut off when the function below it stores its
  older list.  `OneSymbol` is the claim without that condition, and fails.
* `InputExact`, `OneButForHoles`, `LineRead`, `FreshServed` (Listener), each with the crossings after
  which it no longer holds.  `OneInterpreter` is the claim of the comments, and fails.
* `MeaningKept`, `TailCalls` (Eval).  `MeaningKept` excepts the forms of a `let` that was left torn;
  `LetMeaning` is the claim without that exception, and fails.
* `SentInOrder`, `ReceivedExactly`, `OwnsDescriptor` (Sockets): of a stream whose calls have not
  failed, the peer gets, in order and once, what was written and is no longer buffered, and the
  program what arrived.  `OneCellPerHandle`, `RequiredIsLoaded` (Files), `CursorsOwned` (Oracle),
  `ListsAgree`, `OwnersKept` (Rdb), `ConnectionSound` (Sybase).
* `ModuleLoaded` (Loader and Ranges), `CopyInvisible` (CopyGC): whatever the collector moves, the
  objects that are reached have the contents they were given, and resources are those of
  objects that exist.  `StringsSound` (Strings), `ListsAsDefined`, `HashAgrees` (Equality),
  `ReadBack` (Reader), `SavedBack` (FastIO; also of files that were cut off anywhere), `Decoded`
  (Encodings; also numbers written in strings, in every base), `ArgumentsPassed` (Startup).

Bounds, in the cfg files and the MC modules:

* Heap: two heaps of two cells (three of one cell for the refinement) give a bump pointer in
  the middle of a heap, a second heap with junk marks, a full heap, sharing and cycles; two
  words at a time, one resource, one stale word; `Reserve = 2`, so that each of "enough for the
  hook", "too few" and "none" occurs.  `CarRefs`/`CdrRefs` limit what is stored where, so that a
  list, a shared cell and a cycle exist.
* Control: four activations and the one `err` adds: a catch below a section below a collection's
  hook below a catch; tags `errobj`, `all` and one of the program's.  This run has the driver on
  stdin and on a string; `interrupts`, three activations deep, has all four ways to call it.
* Tables: two names in one bucket and one in another, `obarray_dim` 1 and 2, two keys in one
  slot, three objects made, four activations: a program, a function at a cons, `*after-gc*`, and
  a function in that.
* Listener: two keystrokes and two interpreter threads (`listener_race`: one and three): a line behind a
  line, a line while one is evaluated, a key at each step of a read, a fresh interpreter while one
  ends.  `Uncrossed` is a constraint of `listener`: states with `hole` or `crossed` are checked, their
  successors not looked for.  Nothing is lost by it: neither flag is ever cleared, and each of the
  four properties that it could affect excepts them.  With three keystrokes (1 095 000 states) the
  invariants hold as well; they are proved for any number.
* Eval: one evaluation of `*after-gc*` and one error, anywhere in a program of up to a few calls; the
  programs are small, but among them have every special form and every activation.
* Resources: two streams and two descriptors, three bytes and buffers of two, so that a buffer is
  full, refilled, and left half sent; three cells and three handles of files; two statements, three
  addresses of cursors, two associations and two connections.  Two cells and two addresses are
  symmetric: no part treats one unlike another.
* Data: an address space of 16 pages of two bytes and four files; three cells in each space; objects
  of dimension two with the characters that matter (a space, a letter in both cases, a negative char, NUL); texts of
  up to six characters of those that the encodings tell apart; objects nested three deep.

Deadlock is checked where the system cannot stop: Heap (but in `heap`, where `*after-gc*` may take all
cells and the program end at a null pointer), Control, Tables.  A listener whose user
types no more, a program that is finished, and an evaluated input stop.  Every property of a passing run has a mutant in `PROJECT.json`: a change to one
definition of the model that a slip in the code would make, and that TLC then finds by that
property.

## Fairness

Four properties need any.  `GcTerminates` assumes `WF(Collect)`: the collectors are
straight-line C code with interrupts deferred, and nothing else runs before they end.
`LineRead` and `FreshServed` assume that the dialog's thread finishes what it has begun (`WF(Ui)`)
and that each interpreter thread goes on, however often the dialog takes the processor
(`SF(Siod(t))`): Windows schedules both, and what the program evaluates comes to an end.  Nobody has to type, and no program has to quit.
`InterruptServed` assumes `FairSpec`: the interpreter takes steps (`WF(Interpreter)`); a section,
a read and err's consing, though errors and collections in them may interleave without end,
are finished if they are possible again and again (`SF`); and a program that runs on comes to
an INTERRUPT_CHECK of leval again and again and one time finds the interrupt
(`SF(Interrupted)`; the flag is a plain variable, so the strong form only says that the
check is not always late).  No fairness is assumed of the host, of the signal, or of what the
program does.  A read that waits for input is assumed to end: a control-c at the prompt is
served when the next line is there, which is what the WIN32 port does.

## Proofs

`tlapm` checks all of them; each module's proofs are in a module of their own
(`DataProofs` has those of the copying collector, of the loader and of arrays and strings).  They hold for
every value of the constants that satisfies the named assumptions; nothing is assumed beside.

| theorem | says | for any |
|---|---|---|
| HeapProofs: TypeCorrect, LiveSafe, ListSafe, ResourcesSafe, NewcellSafe, ExactSafe | `[]` TypeOK, LiveIntact, FreelistSound, ResourcesHeld, NewcellNullByHookOnly, GcExact | number and size of heaps, bounds on the program and on `*after-gc*` |
| HeapProofs: CollectorInvisible | Heap implements AbsHeap | the same |
| ControlProofs: TypeCorrect, ChainSound, ErrorsRecover, InterruptsRestored, ReturnTrue | `[]` TypeOK, CatchChain, NeverFatal, NointerruptRestored, ReplReturnString | tags, modes, size of the stack |
| ControlProofs: ScopesAreDynamic | Control implements AbsCatch | the same |
| TablesProofs: TypeCorrect, SymbolsKeptAlways, HrefLatestAlways | `[]` TypeOK, SymbolsKept, HrefLatest | names, keys, hashes, `obarray_dim`, nesting |
| ListenerProofs: OneRunsButForHoles, InputIsExact | `[]` OneButForHoles, InputExact | number of keystrokes and threads |
| ResourcesProofs: StreamsOwn, StreamsSend, StreamsReceive (SocketsProofs: DescriptorsOwned, BytesGoOut, BytesComeIn) | `[]` OwnsDescriptor, SentInOrder, ReceivedExactly | streams, descriptors, sizes of buffers and of what is sent |
| ResourcesProofs: FilesOwn, FilesLoaded (FilesProofs: HandlesOwned, RequiredLoaded) | `[]` OneCellPerHandle, RequiredIsLoaded | cells and handles, libraries and what they contain |
| ResourcesProofs: OracleCursors, RdbListsAgree, RdbOwnersKept, SybaseConnections | `[]` CursorsOwned, ListsAgree, OwnersKept, ConnectionSound | statements, associations, connections, cursors |
| DataProofs: CopyUnseen | `[]` CopyInvisible | size of the spaces, number of registers |
| DataProofs: ModuleLoadedHolds, LoaderInvHolds | `[]` ModuleLoaded, and the invariant it follows from | files a linker wrote, page size, space, base, number of unknown sections |
| DataProofs: StringsSoundHolds, StringsInvHolds | `[]` StringsSound, and the invariant it follows from | dimensions, `sizeof (long)`, what is stored, printed and read |
| DataProofs: ComplementExact | the complement of an ordered list has each other page once | lists, page size, space |

The arguments:

* **Heap.** `LiveIntact` alone is not inductive: during a mark it must be known which objects the
  sweep will leave.  `IInv` adds the tricolour invariant (`ObjectsInv`: a marked object points to
  marked or gray ones; words are marked or gray; after the sweep cursor no mark is left), the
  set `Kept` of objects that survive the sweep under way, closed under pointers and containing
  the words, the areas (`AreasInv`: raw cells are those never handed out; none is left once a
  collection has started), the free list of the sweep (`ListsInv`), and that what the hook took and
  what it left are together what was counted (`HookInv`).  That every object points only to objects, the dead ones too, is
  what makes conservative roots harmless.
* **Control.** `CatchChain` is stated inductively: `Chain(s, c)` says that c is the innermost catch
  of s and each frame's `next` the next one below.  `StackInv` adds that only a collection runs
  with `errjmp_ok = 0`, that the stack is empty outside a driver, and that `err` beyond the bound
  is at its own error.  The set `OnChain` of frames a walk meets, a least set in the model, is
  shown to be the catch frames below c; `Match` then finds the innermost match.
* **Tables.** What a waiting activation *will* store must keep what the activations below it count
  on.  `Good` has three parts: `Found`, what each activation counts on is what a search finds now;
  `Keeps(T, f, g)`, the list that g, above f, is going to store has it too (g searched after f got
  it, for another name); and `Private`/`Apart`, an entry that `hset` has consed is on no list and in
  no other activation yet, so that writes through other entries do not touch it.  `GoodStep`
  reduces a step to the activations it changes, `TableStep` adds the tables.

* **GcExact** needs the converse of the tricolour invariant, that nothing is marked but what the
  words reach.  `ExactInv` says it of a collection that NEWCELL needs: then the free list is empty
  and no free cell has a mark, so that what is marked or gray is always within `Reach(scanned)`
  and, when the marker is done, closed.  Garbage marks in the heap come from malloc, and are seen
  only by `(gc)`, which skips them.
* **The refinement of AbsHeap** maps the heap to the objects in `Live`.  `LiveIntact` makes every
  step of the collector a stutter.  For the others it is shown how `Live` changes: NEWCELL adds
  at most the new cell, `Load` and `Drop` and the setters change only which of the objects are
  still reached, and no field of one but the field they set.
* **Interrupts.** `FlagsInv` extends the property to the flags that wait: the flag that an
  activation on the stack will put back is 0 if only ordinary code is below it.  Every exit cuts
  the stack to a prefix, and `FlagsCut` says that a prefix keeps this.
* **repl_c_string.** `ResultInv` follows the flag that tells whether the driver did its work through
  the phases: it is 0 until a value has been printed (evaluated, with `want_print` 1), an error leaves
  it, and the only way out with 0 is behind it.  Once `strcons` has copied the string it is not read again.
* **The refinement of AbsCatch** maps the stack to the scopes at the levels of its activations.
  Pushing or leaving any other activation leaves the levels of the catches as they are.  `Targets`
  says that an `err` in progress jumps to the innermost catch for errors below it (or out), and
  `WalkFact` that the walk along `catch_framep` meets all catches from the innermost one.
* **Listener.** `ThreadsInv`: without a hole, at most one thread runs or may still make another, and none
  while the dialog makes one.  A thread that makes its successor is done when that begins, so
  that only the dialog can add one; it does so after it found no handle, and where a thread is
  left at that moment `hole` is set.  `DataInv` says what the indices and the characters put back are at
  each place of `ListenerGetC` and of `ListenerOnChar`: `Waiting` is how many characters are in their
  place and unread, also when one is counted and not stored or only the head is reset.  `Layout` cuts
  what was typed into what was got, what was put back and those.
* **Sockets.** `OutInv`: what was sent, is being sent, is in the buffer, and is still to be put into
  it, joined in this order, are the bytes written, in order, each once; all of them if no call
  failed.  `InInv` is the same for what the program has, the call has collected, is in the
  buffer, and is on its way.  `PushOK` is what makes `s_ungetc` sound: the byte put back is the one
  before the place in the buffer.
* **Files.** A handle is in one cell at most and every open handle in one; a cell that is free has
  no handle, as `Open` types a cell after its handle is set.  For libraries, `StackInv` says that the
  flag of a library is set when the activation that loads it has returned from its end.
  Assumptions: an address is not NULL, and what a library requires is a library.
* **Data bases.** `OracleInv`: the statements with a cursor of their own, the cursors malloc'ed, and
  those open on the server are one to one; the others are those whose `osql3` or `oclose` failed, whose address
  may be anyone's, and what they took from others when they were released once more.  `RdbInv`: an association is in the global list or has no statements, and a
  statement in a list is of that association; so what marks a statement keeps its association.  What a failed
  cons or release left on the server (`lost`) is in no list.
  `SybInv`: the fields say what the library has, and a command that is not clean is the one
  being executed.  Assumptions (named in `Resources`): an address is not NULL, and cells of
  the two types differ.
* **CopyGC.** `Halfway(s, e, a, d)` is the state between any two steps of the collector, also between the
  two fields of one cell: an object is in both spaces just if it is marked in the old one, which
  then has its new address (`Separate`); as many have moved as cells were taken (`MarksCounted`),
  so the new space has room; the first `a` fields car and the first `d` fields cdr lead to the
  new space, the others to the old one, and all to objects with the names that the program put there.
  `RelocateFact` is `gc_relocate`; `MovedHalfway`, `CarScanned` and `CdrScanned` lead from one
  such state to the next.  The cells in use then are closed under what the program built, so that they
  have all that is reachable.  Hypothesis: NIL is no cell and no name.
* **Loader.** `LoaderInv` has three parts.  `PlaceInv`: the base is a multiple of the page size, with room for
  the image above it.  `MapInv`: the load map is in order and has a page just if a section that was painted
  has it; the complement, once computed, is that of the load map.  `MemoryInv`: each word of a painted
  section is as the file has it, or fixed, or the function imported, by what has been done so far
  (`WordRight`), whichever of `ApplyAllFixups` and `FetchImports` came first.  `Insert` compares addresses that
  wrap: for ranges that end in the space this is the order of their bases (`RegularCompared`), from which
  an insertion keeps a list `Ordered` and adds just the new range (`InsertKeepsOrder`).  `WalkHolds` is the
  walk of the complement: behind i ranges of the list, the set so far and those i ranges have each page
  below the present base once.  Both it and `CPages` are recursive functions on the naturals;
  `Recursion` (by well-foundedness) is what gives their equations and `Induction` what follows from them.
  Assumption: `FilesAssumption`, that sections share no page and a fixup is of a word with an
  address of the image, which the loader does not test and each of its clients relies on.
* **Strings.** `StringsInv` is `Proper` of both objects: a buffer as long as the dimension says, of bytes
  if the type is that of bytes or strings, and behind the dimension of a string a NUL.  It is kept
  as nothing is put behind the dimension, which for `string-append` is that the text so far ends
  where the sum of the lengths before it says (`StringAppendTwo`), and for `fread` that a record is no longer than
  what was asked for; a text may end before the dimension, and what lies behind it is anything.
  `StringsSound` then is a fact about any such objects, one lemma for each of its parts.  `IsCut` is where
  `print_to_string` is after some pieces: the buffer has what there was room for, of the text
  and the pieces so far, and has failed just if that was not all.  `SpanOfFirst`, `CspanInside`
  and `SearchFinds` are what the scans find, `TrimmedAlike` that the ends are trimmed in any order.
  Assumption: `StringsAssumption`, that what is printed has no NUL and what is read are bytes.

Only model-checked: the liveness properties (`GcTerminates`, `InterruptServed`, `LineRead`,
`FreshServed`), which are beyond the prover; `MeaningKept` and `TailCalls` of Eval, whose
invariant would be a semantics of the forms; and what the recursive operators of Objects,
Reader, FastIO, Equality, Lists, Startup and Encodings compute (`ReadBack`, `SavedBack`, `HashAgrees`,
`ListsAsDefined`, `ArgumentsPassed`, `Decoded`, with it the numbers in strings): induction over data
is beyond the installed provers.

## Where code and documentation differ

Three runs end in a violation; `PROJECT.json` (`findings`) quotes both sides.

* `intern_twice`: when `*after-gc*` interns a name that `gen_intern` is about to enter, or another of
  its bucket, `intern` later returns a second symbol for a name.
* `let_twice`: a `let` that control-c or `*after-gc*` meets in the middle of its own rewriting has
  another meaning from then on.
* `listener_race`: two interpreters run, where a comment says that there is no race.

Met while modelling, and not given a run of their own:

* `*after-gc*` is documented as evaluated after a collection (`siod.html:286`); `(gc)` never does, and
  `gc_for_newcell` only if 100 cells are free.
* `repl_c_string` is documented as returning 0 only if there was no error in read, eval or print
  (`siod.html:1951`).  With `want_print` 1 it returns 0 after an error while printing, and in every mode
  when `strcons` fails in `repl_c_string_read` or delivers a control-c: the string is still
  there, so that `repl` reads it again.
* After `*after-gc*` threw out of `err`, `inside_err` stays 1, and the next error caught by
  `*catch 'errobj` has the value `()` instead of a pair (`siod.html:295`).
* `strunbreakup` is called the reverse of `strbreakup` (`siod.html:1158`) and loses an empty last part; an
  empty marker makes `strbreakup` loop.  The string `url-decode` returns is as long as its argument, so
  that it is not `equal?` to its own text.  WIN32's `strncasecmp` tests `c2 > c1` after `c1 < c2`, so that
  "b" counts as equal to "a".  An array of doubles or longs that `fast-save` wrote has its size in
  bytes, and `fast-load` takes it for elements.  `tc_long_array` is printed with the byte array behind it
  (a missing `break`), and `arcons` of a string falls into the branch of a byte array, which has no room
  for the NUL; nothing calls it for a string.
* The listener loses a key typed between `ListenerGetC`'s test and its reset (`DlgSiod.cpp:251`), reads on
  behind the line after a backspace at the wrong moment, and waits with a line, or with a request for a
  fresh interpreter, when the pulse came before its wait.  A request that comes while a line is evaluated is only
  noticed with the next line.  When `FreshSiodThread` sets its flags after the thread that ends has tested them,
  no interpreter is left and the flags stay for the next one, which ends at its first line and makes
  another: "it's ok if thread is half dead" (`DlgSiod.cpp:144`).
* `s_close` and the collector drop what is still buffered; a cons that fails after `socket` or `accept`
  loses the descriptor, and one that fails in `s_gets` or `s_read` the bytes.
* When `osql3` or `oclose` fails, the statement keeps the address of a cursor that has been freed
  (`sql_oracle.c:353`, `sql_oracle.c:336`), and the collector frees it again; an `oclose` that fails in the
  collector ends the process.  When RDB's library fails to release, the object leaves its list and the
  server keeps it (`sql_rdb.c:256`, `sql_rdb.c:583`); a cons that fails after `sqlsrv_associate` loses the association; the code's own
  "todo" (`sql_sybase.c:351`) is a command that stays pending.  mSQL's list functions return with interrupts
  blocked.  `pclose` forgets the file also when it fails, and the collector closes with `fclose` what
  `popen` opened.  Windows' `readdir` blocks interrupts at the end of the directory.
* After `repl_driver` returned, `errjmp_ok` is 1 and `errjmp` is a frame that is gone (`slib.c:379`).
  `gc_mark` recurses on the car without STACK_CHECK (`slib.c:1854`).  `lreadstring` conses while its text is
  in `tkbuffer`, which a read in `*after-gc*` overwrites (`sliba.c:711`).
* `FetchImports` uses the first import descriptor without a test, so that a module without an import
  directory is a null pointer there (`Pea.cpp:1484`).  A program whose path has a parenthesis is evaluated
  as an expression instead of loaded for its script (`slibu.c:2550`).
* `ARS::Insert` does not see an overlap with a range that begins before the new one.
* The buffer for flags in `position_script` is written one byte behind its end when it is full.

## What is not modelled

* The unix port's `handle_sigint`, which may `longjmp` at any instruction: the state then is
  whatever the compiler had in memory, which no model of the source can say.
* The depth of the C stack (STACK_CHECK is one of the errors that may occur anywhere).
* Numbers with fractions: what `%g` rounds.  Byte arrays in the reader (they do not read back), `\0`
  octal characters, `user_readm` and `user_readt`.
* `datref` and its relatives (C structures in byte arrays), dates, MD5 (RSA's code), the archive loops of
  `tar.c`.
* In the loader: permissions of pages, exports, resources and debug headers, RealLoad's generated
  callbacks.  Union and intersection of address ranges are not implemented in the code.
* `load_so` and `require_so`, the wrappers of stdio, of the operating system and of Windows calls, graphics:
  each is one call of a library outside the repository.
* Regular expressions are vendored; the Scheme libraries are programs that run on the interpreter;
  the Pratt parser is a tokenizer on the reader's hooks, with the parser in Scheme.
* mSQL has one global handle and frees nothing by itself; ndbm's operations on records are one call each.
* CopyGC's refinement of AbsHeap: `CopyInvisible` states the same of every state, at a fraction of the
  cost for TLC, and is proved.

## Plan

The modules are written and nearly all safety properties of the state machines are proved.  What remains:

1. `TailCalls` (Eval): that a loop keeps the stack where it is, by an invariant on the activations a
   program can have.
2. `MeaningKept` (Eval) for forms that are not rewritten.
