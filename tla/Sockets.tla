------------------------------ MODULE Sockets ------------------------------
(***************************************************************************)
(* Buffered streams on TCP sockets (ss.c).  A stream is a cell whose data  *)
(* is a sock_stream: a descriptor, an input buffer that recv fills and an  *)
(* output buffer that send empties.  The kernel may take or deliver any    *)
(* part of what it is asked for, may fail, and hands out the numbers of    *)
(* closed descriptors again; the collector frees streams nobody holds.     *)
(*                                                                         *)
(* One C function runs at a time (call); a step of it is what lies between *)
(* two calls of the kernel.  The bytes of a connection are numbered.       *)
(***************************************************************************)
EXTENDS Integers, Sequences, SequencesExt, FiniteSets

CONSTANTS Streams,   \* cells that may hold a stream
          Fds,       \* descriptors
          Bufsiz,    \* ss->bufsiz
          MaxBytes,  \* bound: bytes written and received on the streams there are
          Newlines   \* the bytes of the peer that end a line

VARIABLES
  object,    \* each cell: "free", "open" (dim 1), "closed" (dim 0)
  held,      \* the cells the program can reach
  sd, ibuf, ipos, obuf,   \* of each stream; the bytes before ipos were read
  socket,    \* each descriptor: "closed", "listening", or the directions left open
  arriving,  \* what the peer of a descriptor has sent and recv has not delivered
  call,      \* the C function that runs
  written, sent, faulty,  \* history: bytes written, sent, whether some were dropped
  arrived, taken          \* history: bytes the peer sent, bytes calls took out

vars == <<object, held, sd, ibuf, ipos, obuf, socket, arriving, call,
          written, sent, faulty, arrived, taken>>
output == <<obuf, written, sent, faulty>>
input  == <<ibuf, ipos, arriving, arrived, taken>>
cells  == <<object, held, sd>>

Bytes(n, k) == [i \in 1 .. k |-> n + i]          \* the k bytes after the n-th
Idle == [op |-> "idle", s |-> 0, rest |-> <<>>, todo |-> <<>>, want |-> 0]
Call(op, s, rest, todo, want) == [op |-> op, s |-> s, rest |-> rest, todo |-> todo, want |-> want]

Init ==
  /\ object = [s \in Streams |-> "free"] /\ held = {} /\ sd = [s \in Streams |-> 0]
  /\ ibuf = [s \in Streams |-> <<>>] /\ ipos = [s \in Streams |-> 0] /\ obuf = [s \in Streams |-> <<>>]
  /\ socket = [f \in Fds |-> "closed"] /\ arriving = [f \in Fds |-> <<>>]
  /\ call = Idle
  /\ written = [s \in Streams |-> 0] /\ sent = [s \in Streams |-> <<>>]
  /\ faulty = [s \in Streams |-> FALSE]
  /\ arrived = [s \in Streams |-> 0] /\ taken = [s \in Streams |-> <<>>]

\* What the bound counts.
Traffic == FoldFunction(+, 0, [s \in Streams |-> written[s] + arrived[s]])

\* get_ss(s, 1): the functions below take a stream that is open.
Usable(s) == call = Idle /\ s \in held /\ object[s] = "open"

-----------------------------------------------------------------------------
(* The object.                                                             *)

\* Buffers without content, for a new stream and one that is freed.
Forget(s) ==
  /\ ibuf' = [ibuf EXCEPT ![s] = <<>>] /\ ipos' = [ipos EXCEPT ![s] = 0]
  /\ obuf' = [obuf EXCEPT ![s] = <<>>]
  /\ written' = [written EXCEPT ![s] = 0] /\ sent' = [sent EXCEPT ![s] = <<>>]
  /\ faulty' = [faulty EXCEPT ![s] = FALSE]
  /\ arrived' = [arrived EXCEPT ![s] = 0] /\ taken' = [taken EXCEPT ![s] = <<>>]

\* A cell becomes a stream on descriptor f.
NewStream(s, f) ==
  /\ object' = [object EXCEPT ![s] = "open"] /\ held' = held \union {s}
  /\ sd' = [sd EXCEPT ![s] = f]
  /\ Forget(s)

\* A cons that fails after the descriptor was made leaves it to nobody; every
\* other failure closes it.
Made(f, kind) ==
  /\ socket' = [socket EXCEPT ![f] = kind]
  /\ arriving' = [arriving EXCEPT ![f] = <<>>]
  /\ \/ \E s \in Streams : object[s] = "free" /\ NewStream(s, f)
     \/ UNCHANGED <<cells, output, ibuf, ipos, arrived, taken>>

\* s_open: connected, or with aflag listening.
Open ==
  /\ call = Idle
  /\ \E f \in Fds, kind \in {"both", "listening"} : socket[f] = "closed" /\ Made(f, kind)
  /\ UNCHANGED call

\* s_accept, without a timeout or when something is there.
Accept ==
  /\ \E s \in Streams : Usable(s) /\ socket[sd[s]] = "listening"
  /\ \E f \in Fds : socket[f] = "closed" /\ Made(f, "both")
  /\ UNCHANGED call

\* Mutant of Close: the object is left as it was.
CloseKeepsDim(s) ==
  /\ Usable(s)
  /\ socket' = [socket EXCEPT ![sd[s]] = "closed"]
  /\ UNCHANGED <<object, held, sd, output, input, call>>

\* s_close: what is buffered is dropped, the object is marked before the close.
Close(s) ==
  /\ Usable(s)
  /\ object' = [object EXCEPT ![s] = "closed"]
  /\ socket' = [socket EXCEPT ![sd[s]] = "closed"]
  /\ arriving' = [arriving EXCEPT ![sd[s]] = <<>>]
  /\ Forget(s)
  /\ UNCHANGED <<held, sd, call>>

\* s_shutdown of one direction or of both.
Shutdown(s, left) ==
  /\ Usable(s) /\ socket[sd[s]] \in {"both", "reading", "writing"}
  /\ socket' = [socket EXCEPT ![sd[s]] = IF @ \in {"both", left} THEN left ELSE "shut"]
  /\ UNCHANGED <<cells, output, input, call>>

Drop(s) ==
  /\ call = Idle /\ s \in held /\ held' = held \ {s}
  /\ UNCHANGED <<object, sd, socket, output, input, call>>

\* ss_gc_free, when the sweep comes to the cell.
GcFree(s) ==
  /\ call = Idle /\ s \notin held /\ object[s] # "free"
  /\ object' = [object EXCEPT ![s] = "free"]
  /\ IF object[s] = "open"
     THEN socket' = [socket EXCEPT ![sd[s]] = "closed"] /\ arriving' = [arriving EXCEPT ![sd[s]] = <<>>]
     ELSE UNCHANGED <<socket, arriving>>
  /\ Forget(s)
  /\ UNCHANGED <<held, sd, call>>

-----------------------------------------------------------------------------
(* Output.                                                                 *)

\* s_putc, s_puts and s_write of less than a buffer: n bytes to SS_PUTC.
Put(s, n) ==
  /\ Usable(s) /\ n < Bufsiz + 2 /\ Traffic + n <= MaxBytes
  /\ call' = Call("put", s, <<>>, Bytes(written[s], n), 0)
  /\ written' = [written EXCEPT ![s] = @ + n]
  /\ UNCHANGED <<cells, socket, input, obuf, sent, faulty>>

\* Mutant of SsForce: the buffer is reset when it has been sent.
ForceKeeping(s, op, todo) ==
  /\ call' = Call(op, s, obuf[s], todo, 0)
  /\ UNCHANGED obuf

\* ss_force up to its first send: the buffer counts as empty from here on.
SsForce(s, op, todo) ==
  /\ call' = Call(op, s, obuf[s], todo, 0)
  /\ obuf' = [obuf EXCEPT ![s] = <<>>]

\* s_force_output.
ForceOutput(s) ==
  /\ Usable(s) /\ SsForce(s, "put", <<>>)
  /\ UNCHANGED <<cells, socket, input, written, sent, faulty>>

\* s_write of a buffer or more, which goes to send directly after a ss_force.
Write(s, n) ==
  /\ Usable(s) /\ n >= Bufsiz /\ Traffic + n <= MaxBytes
  /\ SsForce(s, "direct", Bytes(written[s], n))
  /\ written' = [written EXCEPT ![s] = @ + n]
  /\ UNCHANGED <<cells, socket, input, sent, faulty>>

\* SS_PUTC: into the buffer, or ss_flsbuf when that is full.
PutByte ==
  LET s == call.s IN
  /\ call.op = "put" /\ call.rest = <<>> /\ call.todo # <<>>
  /\ IF Len(obuf[s]) < Bufsiz
     THEN /\ obuf' = [obuf EXCEPT ![s] = Append(@, Head(call.todo))]
          /\ call' = [call EXCEPT !.todo = Tail(@)]
     ELSE SsForce(s, "put", call.todo)
  /\ UNCHANGED <<cells, socket, input, written, sent, faulty>>

Sending == call.op \in {"put", "direct"} /\ (call.rest # <<>> \/ (call.op = "direct" /\ call.todo # <<>>))

\* The loops around send of ss_force and s_write: any number of bytes is taken,
\* none too, which waits and tries again.
Send(k) ==
  LET s == call.s
      data == IF call.rest # <<>> THEN call.rest ELSE call.todo IN
  /\ Sending
  /\ socket[sd[s]] \in {"both", "writing"} /\ k <= Len(data)
  /\ sent' = [sent EXCEPT ![s] = @ \o SubSeq(data, 1, k)]
  /\ call' = IF call.rest # <<>> THEN [call EXCEPT !.rest = SubSeq(@, k + 1, Len(@))]
                                 ELSE [call EXCEPT !.todo = SubSeq(@, k + 1, Len(@))]
  /\ UNCHANGED <<cells, socket, input, obuf, written, faulty>>

\* send fails: the error leaves the function and what was to be sent is gone.
SendFails ==
  /\ Sending
  /\ faulty' = [faulty EXCEPT ![call.s] = TRUE] /\ call' = Idle
  /\ UNCHANGED <<cells, socket, input, obuf, written, sent>>

PutReturn ==
  /\ call.op \in {"put", "direct"} /\ call.rest = <<>> /\ call.todo = <<>>
  /\ call' = Idle
  /\ UNCHANGED <<cells, socket, output, input>>

-----------------------------------------------------------------------------
(* Input.  todo is what the call has collected.                            *)

\* s_getc and s_read of n bytes, s_gets, s_drain, and s_read_sexp, which reads as
\* many as it likes and may put the last one back.
Get(op, s, n) ==
  /\ Usable(s)
  /\ call' = Call(op, s, <<>>, <<>>, n)
  /\ UNCHANGED <<cells, socket, output, input>>

Reading   == call.op \in {"read", "gets", "drain", "sexp"}
Buffered  == ipos[call.s] < Len(ibuf[call.s])
Satisfied == /\ call.todo # <<>>
             /\ \/ call.op = "read" /\ Len(call.todo) = call.want
                \/ call.op = "gets" /\ Last(call.todo) \in Newlines
Wants     == Reading /\ ~ Satisfied

\* SS_GETC with icnt positive.
GetByte ==
  LET s == call.s IN
  /\ Wants /\ Buffered
  /\ ipos' = [ipos EXCEPT ![s] = @ + 1]
  /\ call' = [call EXCEPT !.todo = Append(@, ibuf[s][ipos[s] + 1])]
  /\ UNCHANGED <<cells, socket, output, ibuf, arriving, arrived, taken>>

\* Mutant of FirstByte: the count is not taken down for the byte that is returned.
FirstByteCounted == 0

\* How much of a new buffer ss_filbuf itself returns.
FirstByte == 1

\* ss_filbuf: recv replaces the buffer, and its first byte is returned.
Filbuf(k) ==
  LET s == call.s  f == sd[s] IN
  /\ Wants /\ ~ Buffered
  /\ socket[f] \in {"both", "reading"} /\ k <= Len(arriving[f])
  /\ ibuf' = [ibuf EXCEPT ![s] = SubSeq(arriving[f], 1, k)]
  /\ ipos' = [ipos EXCEPT ![s] = FirstByte]
  /\ call' = [call EXCEPT !.todo = Append(@, arriving[f][1])]
  /\ arriving' = [arriving EXCEPT ![f] = SubSeq(@, k + 1, Len(@))]
  /\ UNCHANGED <<cells, socket, output, arrived, taken>>

\* The call ends: it has enough, or recv finds the end of the input or fails.  If
\* recv or the cons of the result fails the bytes are taken all the same.
GetReturn ==
  /\ Reading /\ (Satisfied \/ ~ Buffered \/ (call.op = "sexp" /\ call.todo # <<>>))
  /\ taken' = [taken EXCEPT ![call.s] = @ \o call.todo] /\ call' = Idle
  /\ UNCHANGED <<cells, socket, output, ibuf, ipos, arriving, arrived>>

\* ss_ungetc_fcn, by the reader at the end of a token; its check is Consistent.
Unget ==
  LET s == call.s IN
  /\ call.op = "sexp" /\ call.todo # <<>>
  /\ ipos' = [ipos EXCEPT ![s] = @ - 1]
  /\ taken' = [taken EXCEPT ![s] = @ \o Front(call.todo)] /\ call' = Idle
  /\ UNCHANGED <<cells, socket, output, ibuf, arriving, arrived>>

\* The peer sends a byte.
PeerSends(s) ==
  /\ object[s] = "open" /\ socket[sd[s]] # "listening"
  /\ Traffic < MaxBytes /\ arrived' = [arrived EXCEPT ![s] = @ + 1]
  /\ arriving' = [arriving EXCEPT ![sd[s]] = Append(@, arrived[s] + 1)]
  /\ UNCHANGED <<cells, socket, output, ibuf, ipos, call, taken>>

-----------------------------------------------------------------------------
Next ==
  \/ Open \/ Accept
  \/ \E s \in Streams : Close(s) \/ Drop(s) \/ GcFree(s) \/ ForceOutput(s) \/ PeerSends(s)
  \/ \E s \in Streams, left \in {"reading", "writing", "shut"} : Shutdown(s, left)
  \/ \E s \in Streams, n \in 1 .. MaxBytes : Put(s, n) \/ Write(s, n)
  \/ PutByte \/ SendFails \/ PutReturn
  \/ \E k \in 0 .. MaxBytes : Send(k)
  \/ \E s \in Streams, op \in {"read", "gets", "drain", "sexp"} :
       \E n \in (IF op = "read" THEN 1 .. 2 ELSE {0}) : Get(op, s, n)
  \/ GetByte \/ GetReturn \/ Unget
  \/ \E k \in 1 .. Bufsiz : Filbuf(k)

-----------------------------------------------------------------------------
Increasing(q) == \A i \in 1 .. Len(q) - 1 : q[i] < q[i + 1]

\* What a stream has written and not yet given to send.
Pending(s) == IF call.s # s \/ Reading THEN obuf[s]
              ELSE IF call.op = "direct" THEN call.rest \o call.todo
              ELSE call.rest \o obuf[s] \o call.todo

\* Bytes go out in the order they were written and never twice, whatever send
\* takes of them and also after it failed; until it has, none is missing.
SentInOrder == \A s \in Streams : object[s] = "open" =>
  /\ Increasing(sent[s] \o Pending(s))
  /\ ~ faulty[s] => sent[s] \o Pending(s) = Bytes(0, written[s])

\* Every byte of the peer is read once and in order by whatever mix of calls, the
\* ones the reader puts back included, and ss_ungetc_fcn never finds another byte.
ReceivedExactly == \A s \in Streams : object[s] = "open" =>
  LET now == IF call.s = s /\ Reading THEN call.todo ELSE <<>> IN
  /\ taken[s] \o now \o SubSeq(ibuf[s], ipos[s] + 1, Len(ibuf[s])) \o arriving[sd[s]]
       = Bytes(0, arrived[s])
  /\ (call.s = s /\ call.op = "sexp" /\ now # <<>>) => ipos[s] > 0 /\ ibuf[s][ipos[s]] = Last(now)

\* No stream uses or will close a descriptor that the kernel has closed, which may
\* be another stream's by then: s_close, errors and the collector together.
OwnsDescriptor ==
  \A s \in Streams : object[s] = "open" =>
    /\ socket[sd[s]] # "closed"
    /\ \A r \in Streams \ {s} : object[r] = "open" => sd[r] # sd[s]
=============================================================================
