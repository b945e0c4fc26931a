------------------------------- MODULE Control -------------------------------
(***************************************************************************)
(* How control leaves the Lisp program by other ways than returning: errors *)
(* (err), *catch and *throw, the control-c interrupt, sections that are not *)
(* to be interrupted (no_interrupt), collections (errjmp_ok), *after-gc*,   *)
(* and the driver repl_driver with repl and repl_c_string that all of it    *)
(* falls back to.  The port is WIN32's: SIGINT only sets interrupt_differed *)
(* and the program polls it.                                                *)
(*                                                                         *)
(* `stack' is the part of the C stack that matters, innermost activation    *)
(* last; the address of a catch_frame is its position.  longjmp cuts the    *)
(* stack back; what catch_framep then points to is for the code to say.     *)
(***************************************************************************)
EXTENDS Integers, Sequences

CONSTANTS Tags,       \* what the program uses as tags of *catch and *throw
          errobj,     \* sym_errobj, the symbol errobj
          all,        \* sym_catchall, the symbol all
          Modes,      \* ways the host calls: "stdin" is repl_driver, the rest
                      \* repl_c_string with want_print 0, 1 or a buffer size
          StackSize   \* bound: activations on the stack

ASSUME TagsAssumption == {errobj, all} \subseteq Tags
ASSUME ModesAssumption == Modes \subseteq {"stdin", "ignore", "print", "buffer"}
ASSUME StackAssumption == StackSize \in Nat

VARIABLES
  stack, phase,        \* what the one thread is doing
  mode, arg, flag, rv, \* how the driver was called, repl_c_string_arg (still
                       \* to be read), repl_c_string_flag, what was returned
  catch_framep,        \* 0 is NULL
  errjmp_ok, nointerrupt, interrupt_differed, inside_err,
  raised, value,       \* history: what the last step raised and handed to a catch
  failed,              \* history: where the last error in repl_c_string ended
                       \* what it was called for
  escaped              \* history: a *throw left a section for good

repl == <<mode, arg, flag, rv>>
vars == <<stack, phase, repl, catch_framep, errjmp_ok, nointerrupt,
          interrupt_differed, inside_err, raised, value, failed, escaped>>

\* A call of leval_catch or ccall_catch, a region between no_interrupt(1) and
\* no_interrupt(flag), a collection, which is such a region too, an evaluation
\* of *after-gc*, and err while it conses what the catch at `catch' will return.
CatchFrame(t, l)  == [kind |-> "catch", tag |-> t, next |-> l]
SectionFrame(k,f) == [kind |-> k, flag |-> f]
HookFrame         == [kind |-> "hook"]
ErrFrame(l)       == [kind |-> "err", catch |-> l]

\* What the driver is at: vload of init_file, the top of repl's loop, strcons in
\* repl_c_string_read, the rest of a read, leval's first poll, leval, printing.
Phases == {"host", "init", "prompt", "copy", "read", "start", "eval", "print", "exited"}

Depth == StackSize + 1  \* err adds an activation; an error of its own does not
Frame == [kind : {"catch"}, tag : Tags, next : 0 .. Depth]
           \union [kind : {"section", "gc"}, flag : 0 .. 1]
           \union [kind : {"hook"}]
           \union [kind : {"err"}, catch : 1 .. Depth]

Top   == IF stack = <<>> THEN "none" ELSE stack[Len(stack)].kind
Pop   == SubSeq(stack, 1, Len(stack) - 1)
Room  == Len(stack) < StackSize

\* No interrupt may be blocked by what is on this stack.
Quiet(s) == \A a \in DOMAIN s : s[a].kind \in {"catch", "hook"}

Init ==
  /\ stack = <<>> /\ phase = "host"
  /\ mode \in Modes /\ arg = FALSE /\ flag = 0 /\ rv = 0
  /\ catch_framep = 0 /\ errjmp_ok = 0 /\ nointerrupt = 1
  /\ interrupt_differed = 0 /\ inside_err = 0
  /\ raised = "none" /\ value = "none" /\ failed = "none" /\ escaped = FALSE

-----------------------------------------------------------------------------
(* The chain of catch frames and err. *)

\* The frames a walk from catch_framep meets.
OnChain(s) == {a \in DOMAIN s :
                 \A S \in SUBSET (DOMAIN s) :
                   (/\ catch_framep \in S \union {0}
                    /\ \A b \in S : s[b].kind = "catch" => s[b].next \in S \union {0})
                   => a \in S}

\* Mutant of Match: the walk goes on to the outermost match.
MatchLast(s, tags) ==
  LET found == {a \in OnChain(s) : s[a].tag \in tags}
  IN  IF found = {} THEN 0 ELSE CHOOSE a \in found : \A b \in found : a <= b

\* The loop of err and of lthrow: the first frame with one of these tags.
Match(s, tags) ==
  LET found == {a \in OnChain(s) : s[a].tag \in tags}
  IN  IF found = {} THEN 0 ELSE CHOOSE a \in found : \A b \in found : b <= a

\* longjmp to the catch frame at l, and the second return of its setjmp.
Land(s, l, v) ==
  /\ stack' = SubSeq(s, 1, l - 1)
  /\ catch_framep' = s[l].next
  /\ value' = v

\* Where an error lands interrupts are on, unless inside of a section.
Settled(s) == IF Quiet(s) THEN FALSE ELSE escaped

\* longjmp(errjmp): to repl_driver, which goes back to repl, and after a
\* (quit) returns to the host with catch_framep, nointerrupt as they are.
Abort(m, d) ==
  /\ stack' = <<>> /\ inside_err' = 0 /\ value' = "none" /\ raised' = "error"
  /\ failed' = IF mode = "stdin" \/ phase = "init" THEN failed ELSE phase
  /\ IF m = "quit"
     THEN /\ phase' = "host" /\ rv' = 2
          /\ nointerrupt' = 1 /\ interrupt_differed' = d
          /\ UNCHANGED <<catch_framep, escaped>>
     ELSE /\ phase' = "prompt" /\ catch_framep' = 0
          /\ nointerrupt' = 0 /\ interrupt_differed' = 0
          /\ escaped' = FALSE
          /\ UNCHANGED rv

\* was_inside of err.
WasInside == inside_err = 1

\* err, called with s on the stack, ok in errjmp_ok, d in interrupt_differed
\* and a message, an object that is the message and more, or neither: (quit).
Err(s, m, ok, d) ==
  LET l == Match(s, {errobj, all})
  IN  /\ errjmp_ok' = ok
      /\ UNCHANGED <<mode, arg, flag>>
      /\ \/ /\ ok = 0
            /\ phase' = "exited" /\ nointerrupt' = 1 /\ interrupt_differed' = d
            /\ stack' = s /\ raised' = "error" /\ value' = "none"
            /\ UNCHANGED <<catch_framep, inside_err, failed, escaped, rv>>
         \/ ok = 1 /\ l = 0 /\ Abort(m, d)
         \/ /\ ok = 1 /\ l # 0 /\ (m = "own" \/ WasInside)
            /\ Land(s, l, IF m = "own" THEN "pair" ELSE "nil")
            /\ nointerrupt' = 0 /\ inside_err' = 0 /\ interrupt_differed' = d
            /\ raised' = "error" /\ escaped' = Settled(stack')
            /\ UNCHANGED <<phase, failed, rv>>
         \/ /\ ok = 1 /\ l # 0 /\ m # "own" /\ ~ WasInside
            /\ stack' = Append(s, ErrFrame(l))
            /\ nointerrupt' = 1 /\ inside_err' = 1 /\ interrupt_differed' = d
            /\ raised' = "none" /\ value' = "none"
            /\ UNCHANGED <<phase, failed, rv, catch_framep, escaped>>

\* A step that raises nothing.
Calm == raised' = "none" /\ value' = "none"

-----------------------------------------------------------------------------
(* The interpreter at work.  Evaluating: leval runs, of the toplevel form, of *)
(* the body of a *catch, of *after-gc*.  In the other states C code does.    *)

Evaluating == \/ Top \in {"catch", "hook"}
              \/ Top = "none" /\ phase \in {"init", "eval"}
Reading    == Top = "none" /\ phase \in {"copy", "read"}
Printing   == Top = "none" /\ phase = "print"
Working    == Evaluating \/ Reading \/ Printing \/ Top \in {"section", "err"}

\* Mutant of Polls: leval has no INTERRUPT_CHECK.
PollsPrinting == Printing

\* The program comes to the INTERRUPT_CHECK of leval or of lprin1g.
Polls == Evaluating \/ Printing \/ (Top = "none" /\ phase = "start")

\* INTERRUPT_CHECK, if the program is at one, does not divert it.
Polled == Polls => interrupt_differed = 0

\* handle_interrupt_differed.
Interrupted ==
  /\ Polls /\ interrupt_differed = 1
  /\ Err(stack, "message", errjmp_ok, 0)

\* leval_catch, up to the evaluation of its body.
Catch(t) ==
  /\ Evaluating /\ Polled /\ Room
  /\ stack' = Append(stack, CatchFrame(t, catch_framep))
  /\ catch_framep' = Len(stack) + 1
  /\ Calm
  /\ UNCHANGED <<phase, repl, errjmp_ok, nointerrupt, interrupt_differed,
                 inside_err, failed, escaped>>

\* leval_catch_1: the body returned.
CatchReturn ==
  /\ Top = "catch"
  /\ stack' = Pop
  /\ catch_framep' = stack[catch_framep].next
  /\ Calm
  /\ UNCHANGED <<phase, repl, errjmp_ok, nointerrupt, interrupt_differed,
                 inside_err, failed, escaped>>

\* lthrow: to the first frame that has the tag or catches all, else an error.
Throw(t) ==
  LET l == Match(stack, {t, all})
  IN  /\ Evaluating /\ Polled
      /\ \/ /\ l # 0
            /\ Land(stack, l, "thrown")
            /\ raised' = t
            /\ escaped' = (escaped \/ (Quiet(stack') /\ ~ Quiet(stack)))
            /\ UNCHANGED <<phase, repl, errjmp_ok, nointerrupt,
                           interrupt_differed, inside_err, failed>>
         \/ l = 0 /\ Err(stack, "message", errjmp_ok, interrupt_differed)

\* err with a message from any C code, malloc'ing in err included; lerr and
\* (quit), which Lisp code calls.
Error(m) ==
  /\ Working
  /\ m # "message" => Evaluating /\ Polled
  /\ Err(stack, m, errjmp_ok, interrupt_differed)

\* no_interrupt(1).
Section ==
  /\ Working /\ Room
  /\ stack' = Append(stack, SectionFrame("section", nointerrupt))
  /\ nointerrupt' = 1
  /\ Calm
  /\ UNCHANGED <<phase, repl, catch_framep, errjmp_ok, interrupt_differed,
                 inside_err, failed, escaped>>

\* no_interrupt(flag), the end of the section: a deferred interrupt is an error.
SectionLeave ==
  LET saved == stack[Len(stack)].flag
  IN  /\ Top = "section"
      /\ \/ /\ saved = 0 /\ interrupt_differed = 1
            /\ Err(Pop, "message", errjmp_ok, 0)
         \/ /\ saved = 1 \/ interrupt_differed = 0
            /\ stack' = Pop /\ nointerrupt' = saved /\ Calm
            /\ UNCHANGED <<phase, repl, catch_framep, errjmp_ok,
                           interrupt_differed, inside_err, failed, escaped>>

\* An allocation or (gc) starts a collection.
GcStart ==
  /\ Working /\ Room
  /\ \/ errjmp_ok = 0 /\ Err(stack, "message", 0, interrupt_differed)
     \/ /\ errjmp_ok = 1
        /\ stack' = Append(stack, SectionFrame("gc", nointerrupt))
        /\ nointerrupt' = 1 /\ errjmp_ok' = 0
        /\ Calm
        /\ UNCHANGED <<phase, repl, catch_framep, interrupt_differed,
                       inside_err, failed, escaped>>

\* After the collection the program goes on, *after-gc* is evaluated, or there
\* is no storage.  leval polls before it evaluates.
GcResult(pending) ==
  \/ /\ stack' = Pop
     /\ errjmp_ok' = 1 /\ Calm
     /\ UNCHANGED <<phase, repl, catch_framep, interrupt_differed,
                    inside_err, failed, escaped>>
  \/ /\ ~ pending
     /\ stack' = Append(Pop, HookFrame)
     /\ errjmp_ok' = 1 /\ Calm
     /\ UNCHANGED <<phase, repl, catch_framep, interrupt_differed,
                    inside_err, failed, escaped>>

\* The end of gc_for_newcell's and of user_gc's collection: errjmp_ok is 1 for
\* what no_interrupt(flag) delivers.  Then leval of *after-gc* may find an
\* interrupt, and gc_fatal_error is an error as any other.
GcEndWith(ok) ==
  LET saved   == stack[Len(stack)].flag
      pending == interrupt_differed = 1
  IN  /\ Top = "gc"
      /\ \/ saved = 0 /\ pending /\ Err(Pop, "message", ok, 0)
         \/ ~ (saved = 0 /\ pending) /\ nointerrupt' = saved /\ GcResult(pending)
         \/ saved = 1 /\ pending /\ Err(Pop, "message", 1, 0)
         \/ ~ (saved = 0 /\ pending) /\ Err(Pop, "message", 1, interrupt_differed)

\* Mutant of GcEnd: errjmp_ok is set after no_interrupt.
GcEndLate == GcEndWith(errjmp_ok)

GcEnd == GcEndWith(1)

\* *after-gc* is evaluated; NEWCELL goes on.
HookReturn ==
  /\ Top = "hook"
  /\ stack' = Pop
  /\ Calm
  /\ UNCHANGED <<phase, repl, catch_framep, errjmp_ok, nointerrupt,
                 interrupt_differed, inside_err, failed, escaped>>

\* Mutant of ErrFinish: interrupts stay off.
ErrFinishBlocked ==
  /\ Top = "err"
  /\ Land(stack, stack[Len(stack)].catch, "pair")
  /\ nointerrupt' = 1 /\ inside_err' = 0
  /\ raised' = "error" /\ escaped' = Settled(stack')
  /\ UNCHANGED <<phase, repl, errjmp_ok, interrupt_differed, failed>>

\* err has consed (message . object) and jumps to the catch it had found.
ErrFinish ==
  /\ Top = "err"
  /\ Land(stack, stack[Len(stack)].catch, "pair")
  /\ nointerrupt' = 0 /\ inside_err' = 0
  /\ raised' = "error" /\ escaped' = Settled(stack')
  /\ UNCHANGED <<phase, repl, errjmp_ok, interrupt_differed, failed>>

-----------------------------------------------------------------------------
(* repl_driver, repl, and repl_c_string around them. *)

\* Mutant of Driver: the chain of the last call is left in place.
DriverStale(m, first) ==
  /\ phase = "host"
  /\ mode' = m /\ arg' = (m # "stdin") /\ flag' = 0
  /\ phase' = first
  /\ errjmp_ok' = 1 /\ nointerrupt' = 0
  /\ interrupt_differed' = 0
  /\ failed' = "none" /\ escaped' = FALSE /\ Calm
  /\ UNCHANGED <<stack, rv, inside_err, catch_framep>>

\* The host calls, with or without want_init.
Driver(m, first) ==
  /\ phase = "host"
  /\ mode' = m /\ arg' = (m # "stdin") /\ flag' = 0
  /\ phase' = first
  /\ catch_framep' = 0 /\ errjmp_ok' = 1 /\ nointerrupt' = 0
  /\ interrupt_differed' = 0
  /\ failed' = "none" /\ escaped' = FALSE /\ Calm
  /\ UNCHANGED <<stack, rv, inside_err>>

\* Mutant of Return: repl_c_string hands on what repl_driver returned.
ReturnPlain ==
  /\ phase' = "host"
  /\ rv' = 0
  /\ UNCHANGED <<arg, flag>>

\* repl returns 0, repl_driver too; repl_c_string looks at its flag.
Return ==
  /\ phase' = "host"
  /\ rv' = IF mode = "stdin" \/ flag = 1 THEN 0 ELSE 2
  /\ UNCHANGED <<arg, flag>>

Go(p) == phase' = p /\ UNCHANGED <<arg, flag, rv>>

\* The step of the toplevel loop: each of read, eval and print done.
\* repl_c_string_arg is NULL when strcons has copied the string, not before.
Loop ==
  /\ Top = "none"
  /\ \/ phase = "init" /\ Go("prompt")
     \/ phase = "prompt" /\ mode = "stdin" /\ Go("read")
     \/ phase = "prompt" /\ mode # "stdin" /\ arg /\ Go("copy")
     \/ phase = "copy" /\ phase' = "read" /\ arg' = FALSE /\ UNCHANGED <<flag, rv>>
     \/ phase = "prompt" /\ mode # "stdin" /\ ~ arg /\ Return
     \/ phase = "read" /\ (Go("start") \/ Return)
     \/ phase = "start" /\ Polled /\ Go("eval")
     \/ phase = "eval" /\ mode = "ignore"
          /\ phase' = "prompt" /\ flag' = 1 /\ UNCHANGED <<arg, rv>>
     \/ phase = "eval" /\ mode = "print"
          /\ phase' = "print" /\ flag' = 1 /\ UNCHANGED <<arg, rv>>
     \/ phase = "eval" /\ mode \in {"stdin", "buffer"} /\ Go("print")
     \/ phase = "print"
          /\ phase' = "prompt" /\ UNCHANGED <<arg, rv>>
          /\ flag' = IF mode = "buffer" THEN 1 ELSE flag
  /\ Calm
  /\ UNCHANGED <<stack, mode, catch_framep, errjmp_ok, nointerrupt,
                 interrupt_differed, inside_err, failed, escaped>>

\* handle_sigint, on a thread of its own.
Signal ==
  /\ phase \notin {"host", "exited"} /\ interrupt_differed = 0
  /\ interrupt_differed' = 1 /\ Calm
  /\ UNCHANGED <<stack, phase, repl, catch_framep, errjmp_ok, nointerrupt,
                 inside_err, failed, escaped>>

Interpreter ==
  \/ Loop \/ Interrupted \/ CatchReturn \/ Section \/ SectionLeave
  \/ GcStart \/ GcEnd \/ HookReturn \/ ErrFinish
  \/ \E t \in Tags : Catch(t) \/ Throw(t)
  \/ \E m \in {"message", "own", "quit"} : Error(m)

Next ==
  \/ Interpreter
  \/ Signal
  \/ \E m \in Modes, first \in {"init", "prompt"} : Driver(m, first)

\* C code between no_interrupt's ends, reads or conses a bounded time, if only to
\* fail, and a program that runs on comes to leval again and again: in spite of
\* what else it does, each of these is done in the end.
Fairness == /\ WF_vars(Interpreter)
            /\ \A d \in 1 .. StackSize : SF_vars(Len(stack) = d /\ SectionLeave)
            /\ SF_vars(ErrFinish)
            /\ SF_vars(Interrupted) /\ SF_vars(Reading /\ (Loop \/ Error("message")))

Spec     == Init /\ [][Next]_vars
FairSpec == Spec /\ Fairness

-----------------------------------------------------------------------------
\* The variables hold what their C declarations and the bounds allow.
TypeOK ==
  /\ stack \in Seq(Frame) /\ Len(stack) <= Depth
  /\ phase \in Phases
  /\ mode \in Modes /\ arg \in BOOLEAN /\ flag \in 0 .. 1 /\ rv \in {0, 2}
  /\ catch_framep \in 0 .. Depth
  /\ {errjmp_ok, nointerrupt, interrupt_differed, inside_err} \subseteq 0 .. 1
  /\ raised \in Tags \union {"none", "error"}
  /\ value \in {"none", "thrown", "pair", "nil"}
  /\ failed \in Phases \union {"none"} /\ escaped \in BOOLEAN

\* a is the innermost catch frame among the first n activations, 0 if none is.
Innermost(s, n, a) ==
  /\ a = 0 \/ (a \in 1 .. n /\ s[a].kind = "catch")
  /\ \A b \in a + 1 .. n : s[b].kind # "catch"

\* From c the next pointers link exactly the catch frames of s, innermost
\* first, and the frame that err is going to jump to is one below it.
Chain(s, c) ==
  /\ Innermost(s, Len(s), c)
  /\ \A a \in DOMAIN s :
       /\ s[a].kind = "catch" => Innermost(s, a - 1, s[a].next)
       /\ s[a].kind = "err" => /\ s[a].catch \in 1 .. a - 1
                              /\ s[s[a].catch].kind = "catch"

Running == phase \notin {"host", "exited"}

\* While the driver runs, catch_framep leads to the catch frames on the stack
\* and to no other: no longjmp goes to a dead frame, whatever errors, throws
\* and hooks came before (leval_catch, lthrow, err, repl_driver).
CatchChain == Running => Chain(stack, catch_framep)

\* An error never meets errjmp_ok = 0 and ends the process, as interrupts that
\* come during a collection are only delivered when it is over.
NeverFatal == phase # "exited"

\* Ordinary code, outside every section, can be interrupted, unless a *throw
\* from *after-gc* left a section, which nothing makes good until the next error.
NointerruptRestored ==
  Running /\ Quiet(stack) /\ ~ escaped => nointerrupt = 0

\* The errors after which repl_c_string returns 0 all the same, where siod.html:1951
\* has "zero unless an error took place in either the read, eval, or print": in strcons, where
\* the string is still to be read, so that repl reads it again, and with want_print
\* = 1 in printing, as the flag is set first.
Unnoticed == {"none", "copy"} \union (IF mode = "print" THEN {"print"} ELSE {})

\* When repl_c_string returns 0 no other error, (quit) or control-c ended the
\* reading, evaluating or printing of the string (repl_c_string_read and the three
\* print hooks, repl_driver).
ReplReturnString ==
  phase = "host" /\ rv = 0 /\ mode # "stdin" => failed \in Unnoticed

\* An interrupt aborts what runs, or the host gets its answer first.
InterruptServed == interrupt_differed = 1 ~> interrupt_differed = 0 \/ phase = "host"

\* The open *catch forms, each at the level of its activation.
Scopes(s) == [a \in {a \in DOMAIN s : s[a].kind = "catch"} |-> s[a].tag]
AbsCatch == INSTANCE AbsCatch WITH scopes <- Scopes(stack), Levels <- 1 .. Depth

\* To the Lisp program *catch, *throw and errors are dynamic scopes: each goes
\* to the innermost scope for it, and no other scope is entered or left.
Implements == AbsCatch!Spec
=============================================================================
