------------------------------ MODULE Listener ------------------------------
(***************************************************************************)
(* The Windows listener (DlgSiod.cpp).  The dialog's thread hands typed    *)
(* characters to the thread that runs the driver, and its button asks for  *)
(* a fresh interpreter; both sides share plain globals and one event.      *)
(*                                                                         *)
(* A step is one access of shared data or one Windows call (the dialog     *)
(* never looks at g_getHead, so that its reader counts it and reads the    *)
(* character in one), and any two actors interleave: nothing has a lock.   *)
(* Keystrokes are numbered; kind says what was typed.  The interpreter's   *)
(* work between two reads is one state.                                    *)
(***************************************************************************)
EXTENDS Integers, Sequences, FiniteSets

CONSTANTS MaxKeys,    \* bound: keystrokes
          MaxThreads  \* bound: interpreter threads ever created

ASSUME BoundsAssumption == MaxKeys \in Nat /\ MaxThreads \in Nat

VARIABLES
  g_hSiodReplThread, g_quitNow, g_NewSiodThreadNeeded,
  g_getBuffer, g_getTail, g_getHead, g_ungetBuffer,
  ui, at,            \* where the dialog and each interpreter thread are
  created,           \* the thread CreateThread has just made for an actor
  index,             \* g_getTail as ListenerOnChar has read it, Empty between keys
  reread,            \* the character got last is one that was put back
  kind,              \* history: the keystrokes, in order
  kept, got,         \* history: those accepted and not erased, those read
  hole,              \* history: FreshSiodThread found no handle, but a thread
                     \* that runs, or ends and may make another
  crossed,           \* history: a key and a read have crossed (see InputExact)
  missed             \* history: a pulse came when ListenerGetC had tested the
                     \* indices and did not wait yet

flags   == <<g_hSiodReplThread, g_quitNow, g_NewSiodThreadNeeded>>
typing  == <<index, kind, kept>>
buffers == <<g_getBuffer, g_getTail, g_getHead, g_ungetBuffer, reread, got, typing, crossed>>
vars    == <<flags, buffers, ui, at, created, hole, missed>>

Threads == 1 .. MaxThreads
Dialog  == 0
Empty   == -1          \* 0xffffffff, what g_getTail and g_getHead start from
Front(s) == SubSeq(s, 1, Len(s) - 1)

Init ==
  /\ g_hSiodReplThread = 0 /\ g_quitNow = 0 /\ g_NewSiodThreadNeeded = 0
  /\ g_getBuffer = [i \in 0 .. MaxKeys |-> 0]
  /\ g_getTail = Empty /\ g_getHead = Empty /\ g_ungetBuffer = <<>>
  /\ ui = "create" /\ at = [t \in Threads |-> "none"]  \* DlgOnInitDialog
  /\ created = [a \in Threads \union {Dialog} |-> 0] /\ index = Empty /\ reread = TRUE
  /\ kind = <<>> /\ kept = <<>> /\ got = <<>>
  /\ hole = FALSE /\ crossed = FALSE /\ missed = FALSE

\* A thread that is or may make an interpreter.
Active == {t \in Threads : at[t] \notin {"none", "assign", "ended"}}

Goto(t, l) == at' = [at EXCEPT ![t] = l]

-----------------------------------------------------------------------------
(* CreateSiodThread, for the dialog or a thread that ends.                 *)

\* CreateThread: the new thread may run before its handle is assigned; it may
\* fail, which only shows a message.
Spawn(a) ==
  \/ \E t \in Threads :
       /\ at[t] = "none" /\ \A s \in Threads : s < t => at[s] # "none"
       /\ at' = [b \in Threads |-> IF b = t THEN "eval" ELSE IF b = a THEN "assign" ELSE at[b]]
       /\ created' = [created EXCEPT ![a] = t]
  \/ /\ at' = [b \in Threads |-> IF b = a THEN "assign" ELSE at[b]]
     /\ created' = [created EXCEPT ![a] = 0]

-----------------------------------------------------------------------------
(* The dialog's thread.                                                    *)

Step(from, to) == ui = from /\ ui' = to

UiCreate ==
  /\ Step("create", "assign") /\ Spawn(Dialog)
  /\ UNCHANGED <<flags, buffers, hole, missed>>

UiAssign ==
  /\ Step("assign", "idle")
  /\ g_hSiodReplThread' = created[Dialog] /\ created' = [created EXCEPT ![Dialog] = 0]
  /\ UNCHANGED <<g_quitNow, g_NewSiodThreadNeeded, buffers, at, hole, missed>>

\* Mutant of Fresh: whether an interpreter runs is not tested.
FreshUntested ==
  /\ Step("idle", "create")
  /\ hole' = (hole \/ (g_hSiodReplThread = 0 /\ Active # {}))
  /\ UNCHANGED <<flags, buffers, at, created, missed>>

\* FreshSiodThread: the test, the two flags, and the pulse.
Fresh ==
  /\ Step("idle", IF g_hSiodReplThread # 0 THEN "quit" ELSE "create")
  /\ hole' = (hole \/ (g_hSiodReplThread = 0 /\ Active # {}))
  /\ UNCHANGED <<flags, buffers, at, created, missed>>

FreshQuit ==
  /\ Step("quit", "need") /\ g_quitNow' = 1
  /\ UNCHANGED <<g_hSiodReplThread, g_NewSiodThreadNeeded, buffers, at, created, hole, missed>>

FreshNeed ==
  /\ Step("need", "pulse") /\ g_NewSiodThreadNeeded' = 1
  /\ UNCHANGED <<g_hSiodReplThread, g_quitNow, buffers, at, created, hole, missed>>

\* Mutant of Pulse: nobody is woken.
PulseNobody == UNCHANGED at

\* PulseEvent on an event that resets itself: one waiting thread goes on; if
\* none waits at that moment the pulse is gone.
Pulse == \/ \E t \in Threads : at[t] = "wait" /\ Goto(t, "check")
         \/ (\A t \in Threads : at[t] # "wait") /\ UNCHANGED at

UiPulse ==
  /\ Step("pulse", "idle") /\ Pulse
  /\ missed' = (missed \/ \E t \in Threads : at[t] \in {"head", "tail", "enter"})
  /\ UNCHANGED <<flags, buffers, created, hole>>

\* Between its test of the indices and the end of its reset.
InReset == \E t \in Threads : at[t] \in {"head", "tail"}

\* ListenerOnChar for a character, a return or a backspace.  What is typed while
\* there is no handle is ignored, and so is a line feed.
OnChar(k) ==
  /\ Step("idle", "load") /\ Len(kind) < MaxKeys /\ g_hSiodReplThread # 0
  /\ kind' = Append(kind, k)
  /\ UNCHANGED <<flags, g_getBuffer, g_getTail, g_getHead, g_ungetBuffer, reread, got, index, kept, crossed,
                 at, created, hole, missed>>

Key == kind[Len(kind)]

LoadTail ==
  /\ index' = g_getTail
  /\ Step("load", IF Key # "bs" THEN "bump" ELSE IF g_getTail # Empty THEN "erase" ELSE "idle")
  /\ UNCHANGED <<flags, g_getBuffer, g_getTail, g_getHead, g_ungetBuffer, reread, got, kind, kept, crossed,
                 at, created, hole, missed>>

\* A backspace takes back the last character; if that has been read the tail is
\* now before the head.
EraseTail ==
  /\ Step("erase", "idle")
  /\ g_getTail' = index - 1 /\ kept' = IF kept = <<>> THEN kept ELSE Front(kept)
  /\ crossed' = (crossed \/ InReset \/ g_getHead >= index) /\ index' = Empty
  /\ UNCHANGED <<flags, g_getBuffer, g_getHead, g_ungetBuffer, reread, got, kind,
                 at, created, hole, missed>>

\* g_getBuffer [++ g_getTail] = wParam.
BumpTail ==
  /\ Step("bump", "store")
  /\ g_getTail' = index + 1 /\ kept' = Append(kept, Len(kind))
  /\ crossed' = (crossed \/ InReset)
  /\ UNCHANGED <<flags, g_getBuffer, g_getHead, g_ungetBuffer, reread, got, index, kind,
                 at, created, hole, missed>>

Store ==
  /\ Step("store", IF Key = "cr" THEN "pulse" ELSE "idle")
  /\ g_getBuffer' = [g_getBuffer EXCEPT ![index + 1] = Len(kind)] /\ index' = Empty
  /\ UNCHANGED <<flags, g_getTail, g_getHead, g_ungetBuffer, reread, got, kind, kept, crossed,
                 at, created, hole, missed>>

-----------------------------------------------------------------------------
(* An interpreter thread: SiodMain, which reads by ListenerGetC, and the   *)
(* rest of ThreadSiodRepl.                                                 *)

Thread(t, from, to) == at[t] = from /\ Goto(t, to)

\* ListenerGetC, first what was put back.
Reget(t) ==
  /\ g_ungetBuffer # <<>> /\ Thread(t, "eval", "eval")
  /\ got' = Append(got, g_ungetBuffer[Len(g_ungetBuffer)])
  /\ g_ungetBuffer' = Front(g_ungetBuffer) /\ reread' = TRUE
  /\ UNCHANGED <<flags, g_getBuffer, g_getTail, g_getHead, typing, crossed, ui, created, hole, missed>>

GetC(t) ==
  /\ g_ungetBuffer = <<>>
  /\ Thread(t, "eval", IF g_getTail = g_getHead THEN "head" ELSE "check")
  /\ UNCHANGED <<flags, buffers, ui, created, hole, missed>>

\* g_getTail = g_getHead = 0xffffffff.
ResetHead(t) ==
  /\ Thread(t, "head", "tail") /\ g_getHead' = Empty
  /\ UNCHANGED <<flags, g_getBuffer, g_getTail, g_ungetBuffer, reread, got, typing, crossed,
                 ui, created, hole, missed>>

\* Mutant of ResetTail: the tail is left.
ResetTailNot(t) ==
  /\ Thread(t, "tail", "enter")
  /\ crossed' = (crossed \/ ui \in {"bump", "erase"})
  /\ UNCHANGED <<flags, g_getBuffer, g_getTail, g_getHead, g_ungetBuffer, reread, got, typing,
                 ui, created, hole, missed>>

ResetTail(t) ==
  /\ Thread(t, "tail", "enter") /\ g_getTail' = Empty
  /\ crossed' = (crossed \/ ui \in {"bump", "erase"})
  /\ UNCHANGED <<flags, g_getBuffer, g_getHead, g_ungetBuffer, reread, got, typing,
                 ui, created, hole, missed>>

Wait(t) ==
  /\ Thread(t, "enter", "wait")
  /\ UNCHANGED <<flags, buffers, ui, created, hole, missed>>

\* Mutant of Check: the flag is not looked at.
CheckNothing(t) ==
  /\ Thread(t, "check", "fetch")
  /\ UNCHANGED <<flags, buffers, ui, created, hole, missed>>

\* quit() goes to where SiodMain was called.
Check(t) ==
  /\ Thread(t, "check", IF g_quitNow = 1 THEN "unset" ELSE "fetch")
  /\ UNCHANGED <<flags, buffers, ui, created, hole, missed>>

Unset(t) ==
  /\ Thread(t, "unset", "close") /\ g_quitNow' = 0
  /\ UNCHANGED <<g_hSiodReplThread, g_NewSiodThreadNeeded, buffers, ui, created, hole, missed>>

\* g_getBuffer [++ g_getHead]; ListenerOnChar may have counted the character and
\* not stored it yet, or taken it back since ListenerGetC's test.
Fetch(t) ==
  /\ Thread(t, "fetch", "eval")
  /\ g_getHead < MaxKeys  \* what lies behind is not modelled
  /\ g_getHead' = g_getHead + 1 /\ got' = Append(got, g_getBuffer[g_getHead + 1]) /\ reread' = FALSE
  /\ crossed' = (crossed \/ (ui = "store" /\ g_getHead = index) \/ g_getHead >= g_getTail)
  /\ UNCHANGED <<flags, g_getBuffer, g_getTail, g_ungetBuffer, typing, ui, created, hole, missed>>

\* ListenerUngetC: the reader puts back a character it has just got.
UngetC(t) ==
  /\ ~reread /\ got # <<>> /\ Thread(t, "eval", "eval")
  /\ g_ungetBuffer' = Append(g_ungetBuffer, got[Len(got)])
  /\ got' = Front(got) /\ reread' = TRUE
  /\ UNCHANGED <<flags, g_getBuffer, g_getTail, g_getHead, typing, crossed, ui, created, hole, missed>>

\* The program evaluates (quit): SiodMain returns.
Quit(t) ==
  /\ Thread(t, "eval", "close")
  /\ UNCHANGED <<flags, buffers, ui, created, hole, missed>>

\* CloseHandle, g_hSiodReplThread = 0.
Close(t) ==
  /\ Thread(t, "close", "test") /\ g_hSiodReplThread' = 0
  /\ UNCHANGED <<g_quitNow, g_NewSiodThreadNeeded, buffers, ui, created, hole, missed>>

TestNeeded(t) ==
  /\ Thread(t, "test", IF g_NewSiodThreadNeeded = 1 THEN "clear" ELSE "ended")
  /\ UNCHANGED <<flags, buffers, ui, created, hole, missed>>

ClearNeeded(t) ==
  /\ Thread(t, "clear", "create") /\ g_NewSiodThreadNeeded' = 0
  /\ UNCHANGED <<g_hSiodReplThread, g_quitNow, buffers, ui, created, hole, missed>>

Create(t) ==
  /\ at[t] = "create" /\ Spawn(t)
  /\ UNCHANGED <<flags, buffers, ui, hole, missed>>

Assign(t) ==
  /\ Thread(t, "assign", "ended") /\ g_hSiodReplThread' = created[t]
  /\ created' = [created EXCEPT ![t] = 0]
  /\ UNCHANGED <<g_quitNow, g_NewSiodThreadNeeded, buffers, ui, hole, missed>>

-----------------------------------------------------------------------------
Ui == \/ UiCreate \/ UiAssign \/ FreshQuit \/ FreshNeed \/ UiPulse
      \/ LoadTail \/ EraseTail \/ BumpTail \/ Store

Siod(t) == \/ Reget(t) \/ GetC(t) \/ ResetHead(t) \/ ResetTail(t) \/ Wait(t) \/ Check(t)
           \/ Unset(t) \/ Fetch(t) \/ UngetC(t) \/ Quit(t) \/ Close(t)
           \/ TestNeeded(t) \/ ClearNeeded(t) \/ Create(t) \/ Assign(t)

Next == \/ Ui \/ Fresh
        \/ \E k \in {"char", "cr", "bs"} : OnChar(k)
        \/ \E t \in Threads : Siod(t)

\* Each thread goes on, however often the dialog takes the processor; nobody has
\* to type, and no program has to quit.
Spec == Init /\ [][Next]_vars /\ WF_vars(Ui) /\ \A t \in Threads : SF_vars(Siod(t))

-----------------------------------------------------------------------------
Alive   == {t \in Active : at[t] \notin {"close", "test", "clear", "create"}}
PutBack == [i \in DOMAIN g_ungetBuffer |-> g_ungetBuffer[Len(g_ungetBuffer) + 1 - i]]
Typed   == [i \in 1 .. (IF ui = "store" THEN index ELSE g_getTail) - g_getHead
              |-> g_getBuffer[g_getHead + i]]

\* Neither of the crossings that InputExact names has happened.
Uncrossed == ~ crossed /\ ~ hole

\* What the interpreters have read, then what waits in the two buffers, is what
\* was typed and not erased, in that order: nothing is lost, repeated or made up
\* by the reset of the indices, by characters put back, or by a change of the
\* interpreter (ListenerOnChar, ListenerGetC, ListenerUngetC).  It is lost or made up
\* only when a key and a read cross, which nothing prevents: a key counts a character
\* up or down between ListenerGetC's test and the end of its reset, the interpreter
\* reads a character before it is stored, or a backspace takes back one that was
\* read, or that is about to be; or when two interpreters read.
InputExact ==
  Uncrossed /\ ui # "store" /\ (\A t \in Threads : at[t] # "tail")
    => got \o PutBack \o Typed = kept

\* The comment in ThreadSiodRepl: "Only SIOD thread knows when it's safe to start
\* up a new SIOD [...] There is no race": one interpreter runs at a time.
OneInterpreter == Cardinality(Alive) <= 1

\* Two interpreters run only where the comments of CreateSiodThread and of
\* FreshSiodThread put their holes: after the dialog found no handle while a thread
\* was ending, or ran and its handle was not assigned yet.
OneButForHoles == OneInterpreter \/ hole

\* Keystroke n is a newline that nobody has read yet.
LineWaits(n) == /\ n \in DOMAIN kind /\ kind[n] = "cr"
                /\ \E i \in DOMAIN Typed : Typed[i] = n
                /\ \A t \in Threads : at[t] # "tail"  \* where Typed is out of date

\* A line that was typed is read, or nobody is there to read, or the pulse came when
\* ListenerGetC was between its test and its wait and woke nobody, or a key and a
\* read, or two interpreters, have crossed before.
LineRead == \A n \in 1 .. MaxKeys :
  LineWaits(n) ~> ~ LineWaits(n) \/ Alive = {} \/ missed \/ ~ Uncrossed

\* The interpreter that was asked to make room does so when it has a line to read
\* and has not passed ListenerGetC's test of g_quitNow for it, unless the line is
\* erased before, with the exceptions of LineRead.
FreshServed == \A n \in 1 .. MaxKeys :
  (/\ g_quitNow = 1 /\ g_NewSiodThreadNeeded = 1 /\ LineWaits(n)
   /\ \A t \in Threads : at[t] # "fetch")
    ~> \/ g_NewSiodThreadNeeded = 0 \/ \A i \in DOMAIN kept : kept[i] # n
       \/ Alive = {} \/ missed \/ ~ Uncrossed
=============================================================================
