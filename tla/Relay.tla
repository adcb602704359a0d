-------------------------------- MODULE Relay --------------------------------
(***************************************************************************)
(* One TCP session through a server: the client's connection, the inbound *)
(* proxy that decodes it, the link of two pipes (or the connection        *)
(* itself) the dispatcher hands on, the outbound proxy and the connection *)
(* it dials.                                                               *)
(*                                                                         *)
(* Every proxy is the same machine run on another program: steps before    *)
(* the relay, then one list of steps for the goroutine that carries the    *)
(* request and one for the response, both started by task.Run.  The        *)
(* definitions VLessOut, VMessIn, ... are those programs, in the order of  *)
(* the statements of each Process; the actions below give the steps their  *)
(* meaning, error returns and deferred closes included.  A chunk of the    *)
(* payload is its number, 0 a protocol header, Chunks + 1 the one that     *)
(* terminates a VMess stream.  UDP sessions are in UdpSessions and XUDP,   *)
(* multiplexed ones in MuxClient.                                          *)
(***************************************************************************)
EXTENDS Naturals, Sequences

CONSTANTS Chunks,     \* chunks each side may send
          Cap,        \* chunks a pipe holds before a write waits
          Attempts,   \* dials before Process gives up (5 in the code)
          MaxRounds,  \* bound: requests of a plain HTTP connection that is kept alive
          Sessions    \* the pairs of programs of this instance

VARIABLES inb, outb,  \* the two programs of the session
          c, r,       \* the client's connection and the dialled one
          up, down,   \* the pipes of the link (unused by a direct link)
          i, o,       \* the goroutines that run the two Process
          task,       \* the four goroutines of the two task.Run
          wbuf        \* what the buffered writers of "oq" and "ip" hold
vars == <<inb, outb, c, r, up, down, i, o, task, wbuf>>

Tasks == {"iq", "ip", "oq", "op"}

(***************************************************************************)
(* The programs of the outbound proxies.  lazy: the header goes in front   *)
(* of whatever is written first (ConnWriter of trojan).                    *)
(***************************************************************************)
Plain(setup, timed) ==
  [setup |-> setup, timed |-> timed, lazy |-> FALSE,
   request |-> <<"copy">>, response |-> <<"copy", "close">>]

Framing(setup, request) ==
  [setup |-> setup, timed |-> TRUE, lazy |-> FALSE,
   request |-> request, response |-> <<"header", "copy", "close">>]

FreedomOut == Plain(<<"dial">>, TRUE)

SocksOut == Plain(<<"dial", "shake">>, TRUE)

HttpOut == Plain(<<"take", "tunnel">>, TRUE)

LoopbackOut == Plain(<<"dial">>, FALSE)

VLessOut == Framing(<<"dial", "crypt", "flow">>,
                    <<"header", "first", "flush", "version", "copy">>)

VMessOut == Framing(<<"dial">>, <<"header", "first", "flush", "copy", "end">>)

ShadowsocksOut == Framing(<<"dial">>, <<"header", "first", "flush", "copy">>)

TrojanOut == [setup |-> <<"dial">>, timed |-> TRUE, lazy |-> TRUE,
              request |-> <<"first", "flush", "ensure", "copy">>,
              response |-> <<"copy", "close">>]

BlackholeOut == [setup |-> <<"answer", "interrupt">>, timed |-> FALSE,
                 lazy |-> FALSE, request |-> <<>>, response |-> <<>>]

(***************************************************************************)
(* The programs of the inbound proxies.  One that calls DispatchLink gives *)
(* the outbound its own connection and waits for it; VLESS keeps its       *)
(* response header back until the first write.  flushes: the buffered     *)
(* writer of the response is flushed however its goroutine ends.           *)
(***************************************************************************)
Direct(setup, lazy) ==
  [setup |-> setup, piped |-> FALSE, timed |-> FALSE, lazy |-> lazy,
   flushes |-> FALSE, request |-> <<>>, response |-> <<>>]

Piped(timed, request, response) ==
  [setup |-> <<"decode">>, piped |-> TRUE, timed |-> timed, lazy |-> FALSE,
   flushes |-> FALSE, request |-> request, response |-> response]

VLessIn == Direct(<<"decode", "flow">>, TRUE)

SocksIn == Direct(<<"decode", "reply">>, FALSE)

HttpConnectIn == Direct(<<"decode", "reply">>, FALSE)

DokodemoIn == Direct(<<>>, FALSE)

VMessIn == [Piped(TRUE, <<"copy", "close">>,
                  <<"header", "first", "flush", "copy", "end">>) EXCEPT !.flushes = TRUE]

ShadowsocksIn == Piped(TRUE, <<"copy", "close">>,
                       <<"header", "first", "flush", "copy">>)

TrojanIn == Piped(TRUE, <<"copy", "close">>, <<"copy">>)

HttpPlainIn == Piped(FALSE, <<"whole">>, <<"respond">>)

(***************************************************************************)
(* Connections and pipes.  A read finds data, the end, an error, or waits; *)
(* a pipe that is interrupted drops what it holds, one that is closed      *)
(* still delivers it.  Only the pipes can be closed or interrupted: the    *)
(* readers and writers around a connection do not own it.                  *)
(***************************************************************************)
Header == 0
End == Chunks + 1

NewConn == [in |-> <<>>, sent |-> 0, fin |-> FALSE, broken |-> FALSE,
            open |-> FALSE, got |-> <<>>]

NewPipe == [in |-> <<>>, st |-> "open"]

ConnState(k) == IF ~k.open THEN "error"
                ELSE IF k.in # <<>> THEN "data"
                ELSE IF k.broken THEN "error"
                ELSE IF k.fin THEN "eof" ELSE "wait"

PipeState(p) == IF p.st = "err" THEN "closed"
                ELSE IF p.in # <<>> THEN "data"
                ELSE IF p.st = "closed" THEN "eof" ELSE "wait"

Interrupt(p) == [in |-> <<>>, st |-> "err"]

Close(p) == [p EXCEPT !.st = IF @ = "open" THEN "closed" ELSE @]

(* The end a goroutine reads from, and the one it writes to.               *)
Source(t) == CASE t = "iq" -> "c"
               [] t = "oq" -> IF inb.piped THEN "up" ELSE "c"
               [] t = "ip" -> "down"
               [] t = "op" -> "r"

Sink(t) == CASE t = "iq" -> "up"
             [] t = "oq" -> "r"
             [] t = "ip" -> "c"
             [] t = "op" -> IF inb.piped THEN "down" ELSE "c"

ReadState(e) == CASE e = "c" -> ConnState(c) [] e = "r" -> ConnState(r)
                  [] e = "up" -> PipeState(up) [] e = "down" -> PipeState(down)

Front(e) == Head(CASE e = "c" -> c.in [] e = "r" -> r.in
                   [] e = "up" -> up.in [] e = "down" -> down.in)

WriteState(e) ==
  LET pipe(p) == IF p.st # "open" THEN "closed"
                 ELSE IF Len(p.in) < Cap THEN "ready" ELSE "wait"
      conn(k) == IF k.open /\ ~k.broken THEN "ready" ELSE "error"
  IN  CASE e = "c" -> conn(c) [] e = "r" -> conn(r)
        [] e = "up" -> pipe(up) [] e = "down" -> pipe(down)

(* Take the first item of src ("" for none) and write items to dst.        *)
Move(src, dst, items) ==
  LET conn(k, e, lazy) ==
        [k EXCEPT !.in = IF src = e THEN Tail(@) ELSE @,
                  !.got = IF dst # e THEN @
                          ELSE IF lazy /\ @ = <<>> THEN <<Header>> \o items
                          ELSE @ \o items]
      pipe(p, e) == [p EXCEPT !.in = IF src = e THEN Tail(@)
                                     ELSE IF dst = e THEN @ \o items ELSE @]
  IN  /\ c' = conn(c, "c", inb.lazy) /\ r' = conn(r, "r", outb.lazy)
      /\ up' = pipe(up, "up") /\ down' = pipe(down, "down")

ends == <<c, r, up, down>>

(* lost: chunks that the reader of the CONNECT response has taken along.   *)
NewOutbound(st) ==
  [st |-> st, pc |-> 1, fired |-> FALSE, tries |-> 0, why |-> "nil", lost |-> 0]

Off == [st |-> "off", pc |-> 1, why |-> "nil"]

Failed == [Off EXCEPT !.st = "err"]

Init ==
  /\ \E s \in Sessions : inb = s[1] /\ outb = s[2]
  /\ c = [NewConn EXCEPT !.open = TRUE] /\ r = NewConn
  /\ up = NewPipe /\ down = NewPipe
  /\ i = [st |-> "setup", pc |-> 1, fired |-> FALSE, round |-> 1]
  /\ o = NewOutbound("idle")
  /\ task = [t \in Tasks |-> Off]
  /\ wbuf = [t \in {"oq", "ip"} |-> <<>>]

(***************************************************************************)
(* The two peers.  Each sends its header, when the program reads one, and  *)
(* its chunks, the next one when the last has been read, may end its       *)
(* stream and may reset the connection (one of the two at most does).      *)
(***************************************************************************)
Sends(k, first) ==
  /\ k.open /\ ~k.fin /\ ~k.broken /\ k.in = <<>> /\ first + k.sent <= Chunks
  /\ k' = [k EXCEPT !.sent = @ + 1, !.in = Append(@, first + k.sent)]

Fins(k) == k.open /\ ~k.fin /\ ~k.broken /\ k' = [k EXCEPT !.fin = TRUE]

Resets(k) == /\ k.open /\ ~c.broken /\ ~r.broken
             /\ k' = [k EXCEPT !.broken = TRUE, !.in = <<>>]

Client ==
  /\ \/ Sends(c, IF inb.setup # <<>> THEN Header ELSE 1)
     \/ Fins(c) \/ Resets(c)
  /\ UNCHANGED <<inb, outb, r, up, down, i, o, task, wbuf>>

FirstOfRemote ==
  IF outb.response # <<>> /\ outb.response[1] = "header" THEN Header ELSE 1

Remote ==
  /\ Sends(r, FirstOfRemote) \/ Fins(r) \/ Resets(r)
  /\ UNCHANGED <<inb, outb, c, up, down, i, o, task, wbuf>>

(***************************************************************************)
(* The goroutine that runs the inbound's Process, from the callback of the *)
(* worker.  A failed step returns, cancels the context and closes the      *)
(* connection, on which the goroutine of the request then fails.  The      *)
(* handshake has a read deadline, so decoding ends; it may also refuse     *)
(* what it has read.                                                       *)
(***************************************************************************)
IStep == inb.setup[i.pc]

IInSetup(step) == i.st = "setup" /\ i.pc <= Len(inb.setup) /\ IStep = step

IReturns == /\ i' = [i EXCEPT !.st = "ended", !.pc = 1]
            /\ c' = [c EXCEPT !.open = FALSE, !.in = <<>>, !.fin = FALSE, !.sent = 0]
            /\ task' = [task EXCEPT !["iq"] = IF @.st = "run" THEN Failed ELSE @]

IAdvances == i' = [i EXCEPT !.pc = @ + 1]

Decode ==
  /\ IInSetup("decode")
  /\ \/ /\ ReadState("c") = "data" /\ Front("c") = Header
        /\ IAdvances /\ Move("c", "", <<>>) /\ UNCHANGED task
     \/ IReturns /\ UNCHANGED <<r, up, down>>
  /\ UNCHANGED <<inb, outb, o, wbuf>>

Reply ==
  /\ IInSetup("reply")
  /\ \/ /\ WriteState("c") = "ready" /\ IAdvances
        /\ Move("", "c", <<Header>>) /\ UNCHANGED task
     \/ WriteState("c") = "error" /\ IReturns /\ UNCHANGED <<r, up, down>>
  /\ UNCHANGED <<inb, outb, o, wbuf>>

InboundFlow ==
  /\ IInSetup("flow")
  /\ \/ IAdvances /\ UNCHANGED <<c, task>>
     \/ IReturns
  /\ UNCHANGED <<inb, outb, r, up, down, o, wbuf>>

(* Dispatch starts the outbound in a goroutine of its own and returns the  *)
(* pipes; DispatchLink runs it here.  An outbound that a request kept      *)
(* alive has left behind is followed no further.                           *)
Start == [Off EXCEPT !.st = "run"]

Dispatches ==
  /\ i.st = "setup" /\ i.pc = Len(inb.setup) + 1
  /\ i' = [i EXCEPT !.st = IF inb.piped THEN "relay" ELSE "linked"]
  /\ o' = NewOutbound("setup") /\ r' = NewConn /\ up' = NewPipe /\ down' = NewPipe
  /\ task' = [t \in Tasks |-> IF inb.piped /\ t \in {"iq", "ip"} THEN Start ELSE Off]
  /\ wbuf' = [t \in {"oq", "ip"} |-> <<>>]
  /\ UNCHANGED <<inb, outb, c>>

(* CancelAfterInactivity: when it fires is the matter of ActivityTimer.    *)
ITimeout ==
  /\ i.st = "relay" /\ inb.timed /\ ~i.fired
  /\ i' = [i EXCEPT !.fired = TRUE]
  /\ UNCHANGED <<inb, outb, ends, o, task, wbuf>>

(* task.Run of a piped inbound returns: both goroutines are done, or one   *)
(* failed or the context is cancelled and the link is interrupted.  Plain  *)
(* HTTP closes its request only now.                                       *)
IRunReturns ==
  /\ i.st = "relay" /\ IReturns
  /\ \/ /\ task["iq"].st = "ok" /\ task["ip"].st = "ok"
        /\ up' = Close(up) /\ UNCHANGED down
     \/ /\ task["iq"].st = "err" \/ task["ip"].st = "err" \/ i.fired
        /\ up' = Interrupt(up) /\ down' = Interrupt(down)
  /\ UNCHANGED <<inb, outb, r, o, wbuf>>

(* Plain HTTP: a response of known length, and the 503 too, leaves the     *)
(* connection to another request when the client has asked for that; the   *)
(* outbound of this one goes on by itself, with its request closed.        *)
KeepAlive ==
  /\ i.st = "relay" /\ inb = HttpPlainIn /\ i.round < MaxRounds
  /\ task["iq"].st = "ok" /\ task["ip"].st = "ok" /\ task["ip"].why # "stream"
  /\ i' = [i EXCEPT !.st = "setup", !.pc = 1, !.round = @ + 1]
  /\ c' = [c EXCEPT !.sent = 0, !.got = <<>>]
  /\ task' = [task EXCEPT !["iq"] = Off, !["ip"] = Off]
  /\ up' = Close(up)
  /\ UNCHANGED <<inb, outb, r, down, o, wbuf>>

(* DispatchLink returns when the outbound handler has.                     *)
ILinkReturns ==
  /\ i.st = "linked" /\ o.st = "ended" /\ IReturns
  /\ UNCHANGED <<inb, outb, r, up, down, o, wbuf>>

(***************************************************************************)
(* The goroutine that runs the outbound: Handler.Dispatch around Process.  *)
(* What Process returns decides how the link is left: closed after a       *)
(* success, an end of file or a cancelled context, interrupted after any   *)
(* other error.  The deferred Close of the dialled connection comes first, *)
(* and the goroutine of the response fails on it.                          *)
(***************************************************************************)
OStep == outb.setup[o.pc]

OInSetup(step) == o.st = "setup" /\ o.pc <= Len(outb.setup) /\ OStep = step

OAdvances == o' = [o EXCEPT !.pc = @ + 1, !.tries = 0]

HandlerDispatch(why) ==
  /\ o' = [o EXCEPT !.st = "ended", !.why = why, !.pc = 1, !.tries = 0]
  /\ r' = [r EXCEPT !.open = FALSE, !.in = <<>>]
  /\ task' = [task EXCEPT !["op"] = IF @.st = "run" THEN Failed ELSE @]
  /\ down' = IF ~inb.piped THEN down
             ELSE IF why \in {"error", "closed"} THEN Interrupt(down)
             ELSE Close(down)
  /\ up' = IF inb.piped THEN Interrupt(up) ELSE up
  /\ UNCHANGED c

(* The inbound's context is the parent of the outbound's.                  *)
Cancelled == i.fired \/ i.st = "ended" \/ o.fired

(* retry.On: the next attempt, or the error of all of them.                *)
Retry ==
  IF o.tries + 1 < Attempts
  THEN o' = [o EXCEPT !.tries = @ + 1] /\ UNCHANGED <<ends, task>>
  ELSE HandlerDispatch("error")

Dial ==
  /\ OInSetup("dial")
  /\ \/ /\ OAdvances /\ r' = [r EXCEPT !.open = TRUE]
        /\ UNCHANGED <<c, up, down, task>>
     \/ Retry
  /\ UNCHANGED <<inb, outb, i, wbuf>>

(* A handshake waits for the remote.  The one of SOCKS has a deadline, the *)
(* one of VLESS encryption and the CONNECT of HTTP have none.              *)
Handshake ==
  /\ OInSetup("crypt") \/ OInSetup("shake")
  /\ OAdvances /\ UNCHANGED <<inb, outb, ends, i, task, wbuf>>

HandshakeFails ==
  /\ \/ OInSetup("shake")
     \/ OInSetup("crypt") /\ (r.fin \/ r.broken)
  /\ \E why \in {"eof", "error"} : HandlerDispatch(why)
  /\ UNCHANGED <<inb, outb, i, wbuf>>

OutboundFlow ==
  /\ OInSetup("flow")
  /\ \/ OAdvances /\ UNCHANGED <<ends, task>>
     \/ HandlerDispatch("error")
  /\ UNCHANGED <<inb, outb, i, wbuf>>

(* HTTP reads the first payload before it dials, and ignores the error of  *)
(* that read; the payload is written once the tunnel stands.               *)
Take ==
  /\ OInSetup("take") /\ OAdvances
  /\ \/ /\ ReadState(Source("oq")) = "data"
        /\ wbuf' = [wbuf EXCEPT !["oq"] = <<Front(Source("oq"))>>]
        /\ Move(Source("oq"), "", <<>>)
     \/ /\ ReadState(Source("oq")) \in {"eof", "closed", "error"}
        /\ UNCHANGED <<ends, wbuf>>
  /\ UNCHANGED <<inb, outb, i, task>>

(* The response to CONNECT is read through a bufio.Reader that is dropped  *)
(* afterwards, with what the remote has sent right behind it.              *)
Tunnel ==
  /\ OInSetup("tunnel")
  /\ \E n \in 0..Chunks :
       /\ o' = [o EXCEPT !.pc = @ + 1, !.tries = 0, !.lost = n]
       /\ r' = [r EXCEPT !.open = TRUE, !.got = <<Header>> \o wbuf["oq"], !.sent = n]
  /\ wbuf' = [wbuf EXCEPT !["oq"] = <<>>]
  /\ UNCHANGED <<inb, outb, c, up, down, i, task>>

TunnelFails ==
  /\ OInSetup("tunnel") /\ Retry
  /\ UNCHANGED <<inb, outb, i, wbuf>>

(* Blackhole answers (or not), and interrupts the link after a second.     *)
Answer ==
  /\ OInSetup("answer") /\ OAdvances
  /\ \/ UNCHANGED ends
     \/ WriteState(Sink("op")) = "ready" /\ Move("", Sink("op"), <<1>>)
  /\ UNCHANGED <<inb, outb, i, task, wbuf>>

BlackholeEnds ==
  /\ OInSetup("interrupt")
  /\ o' = [o EXCEPT !.st = "ended"]
  /\ down' = IF inb.piped THEN Interrupt(down) ELSE down
  /\ up' = IF inb.piped THEN Interrupt(up) ELSE up
  /\ UNCHANGED <<inb, outb, c, r, i, task, wbuf>>

ORuns ==
  /\ o.st = "setup" /\ o.pc = Len(outb.setup) + 1
  /\ o' = [o EXCEPT !.st = "relay"]
  /\ task' = [task EXCEPT !["oq"] = Start, !["op"] = Start]
  /\ UNCHANGED <<inb, outb, ends, i, wbuf>>

\* Mutant: the timer runs while the request does, the response has none.
OTimeoutOfRequest ==
  /\ o.st = "relay" /\ outb.timed /\ ~Cancelled /\ task["oq"].st = "run"
  /\ o' = [o EXCEPT !.fired = TRUE]
  /\ UNCHANGED <<inb, outb, ends, i, task, wbuf>>

OTimeout ==
  /\ o.st = "relay" /\ outb.timed /\ ~Cancelled
  /\ o' = [o EXCEPT !.fired = TRUE]
  /\ UNCHANGED <<inb, outb, ends, i, task, wbuf>>

ORunReturns ==
  /\ o.st = "relay"
  /\ \/ task["oq"].st = "ok" /\ task["op"].st = "ok" /\ HandlerDispatch("nil")
     \/ Cancelled /\ HandlerDispatch("nil")
     \/ \E t \in {"oq", "op"} : task[t].st = "err" /\ HandlerDispatch(task[t].why)
  /\ UNCHANGED <<inb, outb, i, wbuf>>

(***************************************************************************)
(* The four goroutines of task.Run, one step at a time.                    *)
(***************************************************************************)
Prog(t) == CASE t = "iq" -> inb.request [] t = "ip" -> inb.response
             [] t = "oq" -> outb.request [] t = "op" -> outb.response

At(t, step) == task[t].st = "run" /\ Prog(t)[task[t].pc] = step

Advance(t) ==
  task' = [task EXCEPT ![t] = IF @.pc = Len(Prog(t)) THEN [@ EXCEPT !.st = "ok", !.pc = 1]
                              ELSE [@ EXCEPT !.pc = @ + 1]]

(* Why is told only of an outbound.                                        *)
Fail(t, why) ==
  task' = [task EXCEPT ![t] = IF t \in {"oq", "op"} THEN [Failed EXCEPT !.why = why] ELSE Failed]

(* buf.Copy: it returns nil at the end of its source.                      *)
Copy(t) ==
  LET src == ReadState(Source(t))
      dst == WriteState(Sink(t))
  IN  /\ At(t, "copy")
      /\ \/ /\ src = "data" /\ dst = "ready"
            /\ Move(Source(t), Sink(t), <<Front(Source(t))>>) /\ UNCHANGED task
         \/ /\ src = "data" /\ dst \in {"closed", "error"}
            /\ Move(Source(t), "", <<>>) /\ Fail(t, dst)
         \/ src = "eof" /\ Advance(t) /\ UNCHANGED ends
         \/ src \in {"closed", "error"} /\ Fail(t, src) /\ UNCHANGED ends
      /\ UNCHANGED <<inb, outb, i, o, wbuf>>

(* A header written goes to the buffered writer, one to be read is waited  *)
(* for.                                                                    *)
WriteHeader(t) ==
  /\ t # "op" /\ At(t, "header") /\ Advance(t)
  /\ wbuf' = [wbuf EXCEPT ![t] = Append(@, Header)]
  /\ UNCHANGED <<inb, outb, ends, i, o>>

ReadHeader ==
  /\ At("op", "header")
  /\ \/ ReadState("r") = "data" /\ Move("r", "", <<>>) /\ Advance("op")
     \/ ReadState("r") \in {"eof", "error"} /\ Fail("op", ReadState("r")) /\ UNCHANGED ends
  /\ UNCHANGED <<inb, outb, i, o, wbuf>>

(* The first payload is sent together with the header.  An outbound waits  *)
(* for it only so long, an inbound until there is a response; an end of    *)
(* file is an error here, after which VMess still flushes its header.      *)
FlushesInstead(t) ==
  IF t = "ip" /\ inb.flushes /\ WriteState("c") = "ready"
    THEN Move("", "c", wbuf[t]) /\ wbuf' = [wbuf EXCEPT ![t] = <<>>]
    ELSE UNCHANGED <<ends, wbuf>>

FirstAhead(t) ==
  LET src == ReadState(Source(t))
  IN  /\ At(t, "first")
      /\ \/ /\ src = "data" /\ Advance(t) /\ Move(Source(t), "", <<>>)
            /\ wbuf' = [wbuf EXCEPT ![t] = <<Front(Source(t))>> \o @]
         \/ /\ src \in {"eof", "closed", "error"} /\ Fail(t, src)
            /\ UNCHANGED <<ends, wbuf>>
         \/ t = "oq" /\ src = "wait" /\ Advance(t) /\ UNCHANGED <<ends, wbuf>>
      /\ UNCHANGED <<inb, outb, i, o>>

First(t) ==
  LET src == ReadState(Source(t))
  IN  /\ At(t, "first")
      /\ \/ /\ src = "data" /\ Advance(t) /\ Move(Source(t), "", <<>>)
            /\ wbuf' = [wbuf EXCEPT ![t] = Append(@, Front(Source(t)))]
         \/ src \in {"eof", "closed", "error"} /\ Fail(t, src) /\ FlushesInstead(t)
         \/ t = "oq" /\ src = "wait" /\ Advance(t) /\ UNCHANGED <<ends, wbuf>>
      /\ UNCHANGED <<inb, outb, i, o>>

(* SetBuffered(FALSE).                                                     *)
Flush(t) ==
  /\ At(t, "flush") /\ wbuf' = [wbuf EXCEPT ![t] = <<>>]
  /\ \/ wbuf[t] = <<>> /\ Advance(t) /\ UNCHANGED ends
     \/ wbuf[t] # <<>> /\ WriteState(Sink(t)) = "ready" /\ Advance(t) /\ Move("", Sink(t), wbuf[t])
     \/ wbuf[t] # <<>> /\ WriteState(Sink(t)) = "error" /\ Fail(t, "error") /\ UNCHANGED ends
  /\ UNCHANGED <<inb, outb, i, o>>

(* The header of trojan, if no payload took it along.                      *)
Ensure ==
  /\ At("oq", "ensure")
  /\ \/ WriteState("r") = "ready" /\ Advance("oq") /\ Move("", "r", <<>>)
     \/ WriteState("r") = "error" /\ Fail("oq", "error") /\ UNCHANGED ends
  /\ UNCHANGED <<inb, outb, i, o, wbuf>>

(* XTLS needs TLS 1.3 on the outside.                                      *)
CheckVersion ==
  /\ At("oq", "version")
  /\ Advance("oq") \/ Fail("oq", "error")
  /\ UNCHANGED <<inb, outb, ends, i, o, wbuf>>

Terminate(t) ==
  /\ At(t, "end")
  /\ \/ WriteState(Sink(t)) = "ready" /\ Advance(t) /\ Move("", Sink(t), <<End>>)
     \/ WriteState(Sink(t)) = "error" /\ Fail(t, "error") /\ UNCHANGED ends
  /\ UNCHANGED <<inb, outb, i, o, wbuf>>

\* Mutant: the pipe to the outbound is interrupted.
CloseWriterInterrupts(t) ==
  /\ At(t, "close") /\ Advance(t)
  /\ up' = IF Sink(t) = "up" THEN Interrupt(up) ELSE up
  /\ down' = IF Sink(t) = "down" THEN [in |-> <<>>, st |-> "closed"] ELSE down
  /\ UNCHANGED <<inb, outb, c, r, i, o, wbuf>>

(* task.OnSuccess(..., task.Close(writer)).                                *)
CloseWriter(t) ==
  /\ At(t, "close") /\ Advance(t)
  /\ up' = IF Sink(t) = "up" THEN Close(up) ELSE up
  /\ down' = IF Sink(t) = "down" THEN Close(down) ELSE down
  /\ UNCHANGED <<inb, outb, c, r, i, o, wbuf>>

(* request.Write of plain HTTP ends with the body, not with the stream.    *)
Whole ==
  LET src == ReadState("c")
      dst == WriteState("up")
  IN  /\ At("iq", "whole")
      /\ \/ /\ src = "data" /\ dst = "ready" /\ Move("c", "up", <<Front("c")>>)
            /\ IF Front("c") = Chunks THEN Advance("iq") ELSE UNCHANGED task
         \/ src = "data" /\ dst = "closed" /\ Fail("iq", "closed") /\ Move("c", "", <<>>)
         \/ src \in {"eof", "error"} /\ Fail("iq", src) /\ UNCHANGED ends
      /\ UNCHANGED <<inb, outb, i, o, wbuf>>

(* ReadResponse and response.Write: a response of known length ends with   *)
(* its last chunk, one without a length with the stream; none at all is    *)
(* answered with "503 Service Unavailable".                                *)
Respond ==
  LET src == ReadState("down")
  IN  /\ At("ip", "respond")
      /\ \/ /\ WriteState("c") = "error" /\ src # "wait"
            /\ Fail("ip", "error") /\ UNCHANGED ends
         \/ /\ WriteState("c") = "ready" /\ src = "data"
            /\ Move("down", "c", <<Front("down")>>)
            /\ UNCHANGED task \/ (Front("down") = Chunks /\ Advance("ip"))
         \/ /\ WriteState("c") = "ready" /\ src \in {"eof", "closed"} /\ c.got = <<>>
            /\ Advance("ip") /\ Move("", "c", <<Header>>)
         \/ /\ WriteState("c") = "ready" /\ src = "eof" /\ c.got # <<>>
            /\ \/ task' = [task EXCEPT !["ip"].st = "ok", !["ip"].why = "stream"]
               \/ Fail("ip", "error")
            /\ UNCHANGED ends
         \/ /\ WriteState("c") = "ready" /\ src = "closed" /\ c.got # <<>>
            /\ Fail("ip", "closed") /\ UNCHANGED ends
      /\ UNCHANGED <<inb, outb, i, o, wbuf>>

Inbound == \/ Decode \/ Reply \/ InboundFlow \/ Dispatches
           \/ IRunReturns \/ KeepAlive \/ ILinkReturns

Outbound == \/ Dial \/ HandshakeFails \/ OutboundFlow \/ Take
            \/ Answer \/ BlackholeEnds \/ ORuns \/ ORunReturns

Transfer(t) ==
  \/ Copy(t) \/ First(t) \/ Terminate(t) \/ CloseWriter(t)
  \/ t \in {"oq", "ip"} /\ (WriteHeader(t) \/ Flush(t))
  \/ t = "op" /\ ReadHeader
  \/ t = "oq" /\ (Ensure \/ CheckVersion)
  \/ t = "iq" /\ Whole
  \/ t = "ip" /\ Respond

Timeouts == ITimeout \/ OTimeout

Next == \/ Client \/ Remote \/ Inbound \/ Outbound \/ Timeouts
        \/ Handshake \/ Tunnel \/ TunnelFails
        \/ \E t \in Tasks : Transfer(t)

Over == /\ i.st = "ended" /\ o.st \in {"idle", "ended"}
        /\ \A t \in Tasks : task[t].st # "run"

Spec == Init /\ [][Next]_vars

(* Goroutines run and timers fire; the peers promise nothing, but the other *)
(* end of a loopback is a session of its own, which ends.                   *)
Progress ==
  \/ Inbound \/ Outbound \/ Timeouts
  \/ \E t \in Tasks : Transfer(t)
  \/ outb = LoopbackOut /\ Remote /\ r'.fin

FairSpec == Spec /\ WF_vars(Progress)

(***************************************************************************)
(* Properties.                                                             *)
(***************************************************************************)
(* What the remote has been sent is the header followed by the client's    *)
(* chunks from the first one on, none lost, doubled or overtaken, whichever *)
(* of the timed first read, the buffered writer and the copy loop carried  *)
(* them; and likewise what the client has been sent.  The exception is     *)
(* what a proxy sends right behind its answer to CONNECT: it is lost.      *)
InOrder(s, lost) ==
  LET chunks == SelectSeq(s, LAMBDA x : x \in 1..Chunks)
  IN  /\ \A j \in DOMAIN chunks : chunks[j] = lost + j
      /\ \A j \in DOMAIN s : (s[j] = Header => j = 1) /\ (s[j] = End => j = Len(s))

StreamIntact ==
  /\ InOrder(r.got, 0) /\ InOrder(c.got, o.lost)
  /\ r.got # <<>> /\ (outb.lazy \/ outb \in {HttpOut, VLessOut, VMessOut, ShadowsocksOut})
       => r.got[1] = Header

(* A session whose ends both report success has carried the whole          *)
(* response: Close leaves in a pipe what Interrupt would drop, and the     *)
(* writer of the response is closed only after the last chunk.  (An        *)
(* outbound that fails with an end of file also closes the link, so the    *)
(* client cannot tell that apart.  Plain HTTP knows the length and does    *)
(* not wait for the end.)                                                  *)
CleanEnd == IF inb.piped THEN task["iq"].st = "ok" /\ task["ip"].st = "ok"
            ELSE o.st = "ended" /\ task["oq"].st = "ok" /\ task["op"].st = "ok"
CleanEndIsWhole ==
  CleanEnd /\ ~i.fired /\ ~o.fired /\ o.why = "nil" /\ outb # BlackholeOut =>
    /\ r.fin \/ inb = HttpPlainIn
    /\ \A j \in (o.lost + 1)..(FirstOfRemote + r.sent - 1) : \E n \in 1..Len(c.got) : c.got[n] = j

(* Every goroutine of a session ends, unless Process waits, with no timer  *)
(* yet set and no deadline, for a remote that never answers its handshake  *)
(* or (HTTP) for a client that never sends its payload.                    *)
Stuck == \/ OInSetup("crypt") \/ OInSetup("tunnel") \/ OInSetup("take")
         \/ At("iq", "whole") /\ ReadState("c") = "wait"
=============================================================================
