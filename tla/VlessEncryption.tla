-------------------------- MODULE VlessEncryption ---------------------------
(****************************************************************************)
(* proxy/vless/encryption: the handshake with its tickets, and the frames   *)
(* of a connection after it.                                                *)
(****************************************************************************)
EXTENDS Naturals, Sequences, SequencesExt, FiniteSets

(***************************************************************************)
(* The framing of VLESS encryption after its handshake (proxy/vless/       *)
(* encryption, common.go and xor.go): CommonConn seals at most Frame bytes *)
(* behind a TLS-like header and, when its 96-bit nonce is used up, derives *)
(* the next key from the frame it has just sent; XorConn below it masks    *)
(* the headers, and only them, with a key stream.  The reading XorConn     *)
(* gets the bytes in pieces of any size and has to find the headers in     *)
(* them by itself.  One direction is modelled; it may begin with bytes     *)
(* that are no frame: the random bytes or the ticket of a 0-RTT connection *)
(* or the padding of a full handshake.                                     *)
(*                                                                         *)
(* The unit is a cell: a header takes Header of them, a tag one and each   *)
(* byte of data one.                                                       *)
(***************************************************************************)

CONSTANTS Setups,    \* records pre, seen, xor: how the direction begins
          Frame,     \* bytes of data in a frame at most
          Header,    \* cells of a header
          MaxNonce,  \* the largest nonce
          MaxData,   \* bound on the bytes written
          WriteSizes, ReadSizes

VARIABLES setup,
          out,    \* the writing CommonConn and its XorConn
          wire,   \* cells on the way
          incoming,     \* the reading XorConn
          frameConn,   \* the reading CommonConn
          count,      \* bytes written
          got     \* bytes read
frameVars == <<setup, out, wire, incoming, frameConn, count, got>>

\* "pre" cells come before the first frame; the reader reads them unless its
\* handshake already has.
FrameInit ==
  /\ setup \in Setups
  /\ out = [pre |-> setup.pre, key |-> 0, nonce |-> 0, frames |-> 0,
            skip |-> setup.pre, header |-> <<>>, ctr |-> 0]
  /\ wire = <<>>
  /\ incoming = [skip |-> IF setup.seen THEN 0 ELSE setup.pre, header |-> <<>>, ctr |-> 0]
  /\ frameConn = [need |-> IF setup.seen THEN 0 ELSE setup.pre, cells |-> <<>>,
                  input |-> <<>>, key |-> 0, nonce |-> 0, bad |-> FALSE]
  /\ count = 0 /\ got = <<>>

Cell(kind, v, key, mask) == [kind |-> kind, v |-> v, key |-> key, mask |-> mask]

Increase(nonce) == IF nonce = MaxNonce THEN 0 ELSE nonce + 1

(***************************************************************************)
(* CommonConn.Write: one frame per Frame bytes.  A frame sealed when the   *)
(* nonce was at its end gives the key of the following ones.               *)
(***************************************************************************)
EncodeFrame(o, data) ==
  LET nonce == Increase(o.nonce)
  IN [i \in 1 .. Header |-> Cell("header", IF i = Header THEN Len(data) + 1 ELSE 0, <<>>, 0)]
     \o [i \in DOMAIN data |-> Cell("data", data[i], <<o.key, nonce>>, 0)]
     \o <<Cell("tag", o.frames + 1, <<o.key, nonce>>, 0)>>

AfterFrame(o) ==
  LET last == o.nonce = MaxNonce
  IN [o EXCEPT !.frames = @ + 1, !.pre = 0,
               !.key = IF last THEN o.frames + 1 ELSE @,
               !.nonce = IF last THEN 0 ELSE Increase(@)]

\* DecodeHeader on the cells of a whole header.
DecodeHeader(h) == IF \A i \in DOMAIN h : h[i].kind = "header" /\ h[i].mask = 0
                   THEN h[Header].v ELSE 0

\* XorConn.Write on one cell: it is skipped, or masked as part of a header.
XorOut(o, cell) ==
  IF o.skip > 0 THEN [o |-> [o EXCEPT !.skip = @ - 1], cell |-> cell]
  ELSE LET h == Append(o.header, cell)
           whole == Len(h) = Header
       IN [o |-> [o EXCEPT !.ctr = @ + 1,
                           !.header = IF whole THEN <<>> ELSE h,
                           !.skip = IF whole THEN DecodeHeader(h) ELSE 0],
           cell |-> [cell EXCEPT !.mask = o.ctr + 1]]

XorWrite(o, cells) ==
  FoldLeft(LAMBDA acc, c : LET x == XorOut(acc.o, c)
                           IN [o |-> x.o, cells |-> Append(acc.cells, x.cell)],
           [o |-> o, cells |-> <<>>], cells)

Write ==
  \E k \in WriteSizes :
    LET len == IF count + k > MaxData THEN MaxData - count ELSE k
        data == [i \in 1 .. len |-> count + i]
        frames == [f \in 1 .. (len + Frame - 1) \div Frame |->
                     SubSeq(data, (f - 1) * Frame + 1,
                            IF f * Frame < len THEN f * Frame ELSE len)]
        result == FoldLeft(
          LAMBDA acc, f :
            LET plain == [i \in 1 .. acc.o.pre |-> Cell("pre", 0, <<>>, 0)]
                         \o EncodeFrame(acc.o, f)
                x == IF setup.xor THEN XorWrite(AfterFrame(acc.o), plain)
                     ELSE [o |-> AfterFrame(acc.o), cells |-> plain]
            IN [o |-> x.o, cells |-> acc.cells \o x.cells],
          [o |-> out, cells |-> <<>>], frames)
    IN /\ len > 0
       /\ count' = count + len
       /\ out' = result.o
       /\ wire' = wire \o (IF setup.seen THEN SelectSeq(result.cells, LAMBDA c : c.kind # "pre")
                           ELSE result.cells)
       /\ UNCHANGED <<setup, incoming, frameConn, got>>

(***************************************************************************)
(* XorConn.Read on one cell; the skip of a header that cannot be read is   *)
(* whatever its bytes say.                                                 *)
(***************************************************************************)
XorIn(x, cell) ==
  IF x.skip > 0 THEN [x |-> [x EXCEPT !.skip = @ - 1], cell |-> cell]
  ELSE LET clear == [cell EXCEPT !.mask = IF @ = x.ctr + 1 THEN 0 ELSE x.ctr + 1]
           h == Append(x.header, clear)
           whole == Len(h) = Header
       IN [x |-> [skip |-> IF whole THEN DecodeHeader(h) ELSE 0,
                  header |-> IF whole THEN <<>> ELSE h, ctr |-> x.ctr + 1],
           cell |-> clear]

XorRead(x, cells) ==
  FoldLeft(LAMBDA acc, c : LET y == XorIn(acc.x, c)
                           IN [x |-> y.x, cells |-> Append(acc.cells, y.cell)],
           [x |-> x, cells |-> <<>>], cells)

(***************************************************************************)
(* CommonConn.Read: what is still needed of the bytes before the frames, a *)
(* header and then its frame are each read in full, from reads of the      *)
(* connection below that return less.                                      *)
(***************************************************************************)
Wanted == IF frameConn.need > 0 THEN frameConn.need
          ELSE IF Len(frameConn.cells) < Header THEN Header - Len(frameConn.cells)
          ELSE DecodeHeader(SubSeq(frameConn.cells, 1, Header)) + Header - Len(frameConn.cells)

ReadConn ==
  /\ frameConn.input = <<>> /\ ~frameConn.bad
  /\ Wanted > 0 /\ wire # <<>>
  /\ \E k \in 1 .. IF Wanted < Len(wire) THEN Wanted ELSE Len(wire) :
       LET raw == SubSeq(wire, 1, k)
           x == IF setup.xor THEN XorRead(incoming, raw) ELSE [x |-> incoming, cells |-> raw]
       IN /\ wire' = SubSeq(wire, k + 1, Len(wire))
          /\ incoming' = x.x
          /\ frameConn' = IF frameConn.need > 0
                          THEN [frameConn EXCEPT !.need = @ - k,
                                                 !.bad = \E i \in 1 .. k : x.cells[i].kind # "pre"]
                          ELSE [frameConn EXCEPT !.cells = @ \o x.cells,
                                       !.bad = /\ Len(frameConn.cells) < Header
                                               /\ Len(frameConn.cells) + k = Header
                                               /\ DecodeHeader(frameConn.cells \o x.cells) = 0]
  /\ UNCHANGED <<setup, out, count, got>>

\* The key of the next frames is taken when the nonce has reached its end.
RotatesLate(nonce) == Increase(nonce) = MaxNonce

Rotates(nonce) == nonce = MaxNonce

\* A whole frame is opened: what the caller's buffer does not hold is kept.
OpenFrame ==
  LET frame == SubSeq(frameConn.cells, Header + 1, Len(frameConn.cells))
      nonce == Increase(frameConn.nonce)
      opens == \A i \in DOMAIN frame :
                 frame[i].kind \in {"data", "tag"} /\ frame[i].key = <<frameConn.key, nonce>>
                 /\ frame[i].mask = 0
      data == [i \in 1 .. Len(frame) - 1 |-> frame[i].v]
      new == Rotates(frameConn.nonce)
  IN /\ ~frameConn.bad /\ Len(frameConn.cells) > Header /\ Wanted = 0
     /\ frameConn' = [frameConn EXCEPT !.cells = <<>>,
                                       !.bad = ~opens,
                                       !.input = IF opens THEN data ELSE <<>>,
                                       !.key = IF new THEN Last(frame).v ELSE @,
                                       !.nonce = IF new THEN 0 ELSE nonce]
     /\ UNCHANGED <<setup, out, wire, incoming, count, got>>

\* The caller's buffer gets the data of the frame, or of what was kept of it.
Read ==
  /\ frameConn.input # <<>>
  /\ \E k \in ReadSizes :
       LET len == IF k < Len(frameConn.input) THEN k ELSE Len(frameConn.input)
       IN /\ got' = got \o SubSeq(frameConn.input, 1, len)
          /\ frameConn' = [frameConn EXCEPT !.input = SubSeq(@, len + 1, Len(@))]
  /\ UNCHANGED <<setup, out, wire, incoming, count>>

FrameNext == Write \/ ReadConn \/ OpenFrame \/ Read

FrameSpec == FrameInit /\ [][FrameNext]_frameVars

-----------------------------------------------------------------------------
\* However writes are cut into frames, headers into reads and frames into the
\* caller's buffers, and across any number of changes of the key, the reader
\* gets the bytes written, in order, and never takes one for a bad header.
FramesInStep == ~frameConn.bad /\ got = [i \in 1 .. Len(got) |-> i] /\ Len(got) <= count

-----------------------------------------------------------------------------
(***************************************************************************)
(* The handshake of VLESS encryption (proxy/vless/encryption): a full one  *)
(* costs a round trip and leaves the client a ticket; while the ticket     *)
(* lasts, later connections send it with their first frame (0-RTT).  One   *)
(* ClientInstance serves all connections of an outbound, and one           *)
(* ServerInstance those of an inbound, which keeps the key of every ticket *)
(* it gave away until a goroutine that wakes up every minute removes it.   *)
(* A restarted server knows no ticket; it answers one with noise, and the  *)
(* client finds out when it fails to parse a frame header.                 *)
(*                                                                         *)
(* A connection is its number, which also names the keys and the ticket    *)
(* made for it; encryption under a key is a record that only the holder of *)
(* the key reads.  Time is in units of which Minute make a minute.         *)
(***************************************************************************)

CONSTANTS Conns,         \* the connections, numbers from 1
          ClientSeconds, \* the client's "0rtt" setting: 0 turns tickets off
          SecondsFrom, SecondsTo,  \* the server's range of ticket lifetimes
          Minute,        \* units of time between two rounds of the cleaner
          MaxDelay,      \* how long a message may be on the way
          MaxTime, MaxRestarts

VARIABLES now,
          client,   \* the ClientInstance: expiry, PfsKey and Ticket
          conn,     \* the client's end of each connection
          up, down, \* what is on the way of each connection
          srv,      \* the server's end of each connection
          server,   \* the ServerInstance
          refused   \* history: <<ticket, restarts>> of refused 0-RTT connections
ticketVars == <<now, client, conn, up, down, srv, server, refused>>

NoKey == 0

Larger(a, b) == IF a > b THEN a ELSE b

NewServer(restarts, at) ==
  [lasts |-> [m \in 0 .. (MaxTime + Larger(SecondsFrom, SecondsTo)) \div Minute + 2 |-> 0],
   tickets |-> <<>>, sessions |-> {}, cleaned |-> at, restarts |-> restarts]

TicketInit ==
  /\ now = 0
  /\ client = [expire |-> 0, pfs |-> NoKey, ticket |-> 0]
  /\ conn = [c \in Conns |-> [pc |-> "idle", pfs |-> NoKey]]
  /\ up = [c \in Conns |-> <<>>]
  /\ down = [c \in Conns |-> <<>>]
  /\ srv = [c \in Conns |-> [pc |-> "hello", born |-> 0]]
  /\ server = NewServer(0, 0)
  /\ refused = {}

Message(kind, pfs, ticket, seconds) ==
  [kind |-> kind, pfs |-> pfs, ticket |-> ticket, seconds |-> seconds, at |-> now]

Sent(q, c, m) == [q EXCEPT ![c] = Append(@, m)]

(***************************************************************************)
(* ClientInstance.Handshake: with a ticket the connection is ready at once *)
(* and its first Write carries it; without, the hello goes out, then the   *)
(* padding in fragments, and the answer is awaited.  Connections are       *)
(* numbered in the order they start.                                       *)
(***************************************************************************)
Starts(c) == conn[c].pc = "idle" /\ \A b \in Conns : b < c => conn[b].pc # "idle"

HandshakeZero(c) ==
  /\ Starts(c)
  /\ ClientSeconds > 0 /\ now < client.expire
  /\ conn' = [conn EXCEPT ![c] = [pc |-> "ready", pfs |-> client.pfs]]
  /\ UNCHANGED <<now, client, up, down, srv, server, refused>>

HandshakeHello(c) ==
  /\ Starts(c)
  /\ ~(ClientSeconds > 0 /\ now < client.expire)
  /\ conn' = [conn EXCEPT ![c].pc = "padding"]
  /\ up' = Sent(up, c, Message("hello", NoKey, 0, 0))
  /\ UNCHANGED <<now, client, down, srv, server, refused>>

HandshakePadding(c) ==
  /\ conn[c].pc = "padding"
  /\ conn' = [conn EXCEPT ![c].pc = "wait"]
  /\ up' = Sent(up, c, Message("padding", NoKey, 0, 0))
  /\ UNCHANGED <<now, client, down, srv, server, refused>>

HandshakeEnds(c) ==
  LET m == Head(down[c])
  IN /\ conn[c].pc = "wait"
     /\ down[c] # <<>> /\ m.kind = "hello"
     /\ down' = [down EXCEPT ![c] = Tail(@)]
     /\ conn' = [conn EXCEPT ![c].pc = "open"]
     /\ client' = IF ClientSeconds > 0 /\ m.seconds > 0
                  THEN [expire |-> now + m.seconds, pfs |-> m.pfs, ticket |-> m.ticket]
                  ELSE client
     /\ UNCHANGED <<now, up, srv, server, refused>>

\* CommonConn.Write of a 0-RTT connection: PreWrite, then the first frame.
WriteFirst(c) ==
  /\ conn[c].pc = "ready"
  /\ conn' = [conn EXCEPT ![c].pc = "sent"]
  /\ up' = Sent(up, c, Message("ticket", NoKey, conn[c].pfs, 0))
  /\ UNCHANGED <<now, client, down, srv, server, refused>>

(***************************************************************************)
(* CommonConn.Read of a 0-RTT connection: the server's random bytes, then  *)
(* a frame header.  A header that cannot be one means the ticket was not   *)
(* known: the client stops using it, unless another connection has got a   *)
(* new one in the meantime.                                                *)
(***************************************************************************)
ExpiresAny(c) == TRUE  \* any failed connection makes the client start over

Expires(c) == client.pfs = conn[c].pfs

ReadFirst(c) ==
  LET m == Head(down[c])
  IN /\ conn[c].pc = "sent"
     /\ down[c] # <<>>
     /\ down' = [down EXCEPT ![c] = Tail(@)]
     /\ IF m.kind = "noise"
        THEN /\ conn' = [conn EXCEPT ![c].pc = "failed", ![c].pfs = NoKey]
             /\ client' = IF Expires(c) THEN [client EXCEPT !.expire = now]
                          ELSE client
        ELSE /\ conn' = [conn EXCEPT ![c].pc = "open", ![c].pfs = NoKey]
             /\ UNCHANGED client
     /\ UNCHANGED <<now, up, srv, server, refused>>

(***************************************************************************)
(* ServerInstance.Handshake.  A full one draws the ticket's lifetime,      *)
(* files the session under the minute it may go, and answers before it     *)
(* reads the client's padding.                                             *)
(***************************************************************************)
Lifetimes == IF SecondsTo = 0 THEN (SecondsFrom + 1) \div 2 .. SecondsFrom
             ELSE {s \in Nat \cap (0 .. Larger(SecondsFrom, SecondsTo)) :
                     \/ SecondsFrom <= s /\ s <= SecondsTo
                     \/ SecondsTo <= s /\ s <= SecondsFrom}

\* A ticket filed under the minute it ends, without the margin of two.
FileUnderSoon(t) == (t + Larger(SecondsFrom, SecondsTo)) \div Minute + 1

FileUnder(t) == (t + Larger(SecondsFrom, SecondsTo)) \div Minute + 2

ServerHello(c) ==
  /\ srv[c].pc = "hello"
  /\ up[c] # <<>> /\ Head(up[c]).kind = "hello"
  /\ up' = [up EXCEPT ![c] = Tail(@)]
  /\ \E seconds \in Lifetimes :
       /\ server' = IF seconds = 0 THEN server
                    ELSE [server EXCEPT !.lasts[FileUnder(now)] = c,
                                        !.tickets = Append(@, c),
                                        !.sessions = @ \cup {c}]
       /\ down' = Sent(down, c, Message("hello", c, c, seconds))
  /\ srv' = [srv EXCEPT ![c] = [pc |-> "padding", born |-> server.restarts]]
  /\ UNCHANGED <<now, client, conn, refused>>

ServerPadding(c) ==
  /\ srv[c].pc = "padding"
  /\ up[c] # <<>> /\ Head(up[c]).kind = "padding"
  /\ up' = [up EXCEPT ![c] = Tail(@)]
  /\ srv' = [srv EXCEPT ![c].pc = "open"]
  /\ UNCHANGED <<now, client, conn, down, server, refused>>

ServerTicket(c) ==
  LET ticket == Head(up[c]).ticket
  IN /\ srv[c].pc = "hello"
     /\ up[c] # <<>> /\ Head(up[c]).kind = "ticket"
     /\ up' = [up EXCEPT ![c] = Tail(@)]
     /\ IF ticket \in server.sessions
        THEN /\ srv' = [srv EXCEPT ![c].pc = "open"]
             /\ down' = Sent(down, c, Message("frame", NoKey, 0, 0))
             /\ UNCHANGED refused
        ELSE /\ srv' = [srv EXCEPT ![c].pc = "failed"]
             /\ down' = Sent(down, c, Message("noise", NoKey, 0, 0))
             /\ refused' = refused \cup {<<ticket, server.restarts>>}
     /\ UNCHANGED <<now, client, conn, server>>

(***************************************************************************)
(* The cleaner: time.Sleep lasts a minute or more, so it may miss one; it  *)
(* then forgets which ticket was the last of that minute, and the ones up  *)
(* to it go with those of a later minute.                                  *)
(***************************************************************************)
Clean ==
  LET minute == now \div Minute
      last == server.lasts[minute]
      upto == {j \in DOMAIN server.tickets : server.tickets[j] = last}
      n == IF upto = {} THEN 0 ELSE CHOOSE j \in upto : TRUE
      gone == IF last = 0 THEN {}
              ELSE {server.tickets[j] : j \in 1 .. IF n = 0 THEN Len(server.tickets) ELSE n}
  IN /\ now >= server.cleaned + Minute
     /\ server' = [server EXCEPT
          !.cleaned = now,
          !.lasts = [m \in DOMAIN @ |-> IF m = minute \/ m + 1 = minute THEN 0 ELSE @[m]],
          !.sessions = @ \ gone,
          !.tickets = IF last = 0 THEN @ ELSE SubSeq(@, n + 1, Len(@))]
     /\ UNCHANGED <<now, client, conn, up, down, srv, refused>>

\* Close and a new ServerInstance.Init: every connection to the old one ends.
Restart ==
  /\ server.restarts < MaxRestarts
  /\ server' = NewServer(server.restarts + 1, now)
  /\ LET cut == {c \in Conns : conn[c].pc \in {"padding", "wait", "sent", "open"}}
     IN /\ conn' = [c \in Conns |->
                      IF c \in cut THEN [pc |-> "failed", pfs |-> NoKey]
                      ELSE conn[c]]
        /\ srv' = [c \in Conns |-> IF c \in cut THEN [srv[c] EXCEPT !.pc = "failed"]
                                   ELSE srv[c]]
        /\ up' = [c \in Conns |-> IF c \in cut THEN <<>> ELSE up[c]]
        /\ down' = [c \in Conns |-> IF c \in cut THEN <<>> ELSE down[c]]
  /\ UNCHANGED <<now, client, refused>>

\* Time passes, but no message is on the way for longer than MaxDelay and no
\* caller holds a connection back.
Tick ==
  /\ now < MaxTime
  /\ \A c \in Conns :
       /\ \A q \in {up[c], down[c]} : q # <<>> => now < Head(q).at + MaxDelay
       /\ conn[c].pc \notin {"ready", "padding"}
  /\ now' = now + 1
  /\ UNCHANGED <<client, conn, up, down, srv, server, refused>>

TicketNext ==
  \/ Clean \/ Restart \/ Tick
  \/ \E c \in Conns :
       \/ HandshakeZero(c) \/ HandshakeHello(c) \/ HandshakePadding(c) \/ HandshakeEnds(c)
       \/ WriteFirst(c) \/ ReadFirst(c)
       \/ ServerHello(c) \/ ServerPadding(c) \/ ServerTicket(c)

TicketSpec == TicketInit /\ [][TicketNext]_ticketVars

-----------------------------------------------------------------------------
\* The lifetime a server puts in a ticket is one it honours: as long as no
\* message takes more than half a minute, a 0-RTT connection is refused
\* only if the server was restarted after it gave the ticket away.
RefusedOnlyAfterRestart ==
  \A r \in refused : srv[r[1]].born < r[2]

\* A failed connection makes the client drop the ticket it used, never the one
\* another connection has obtained since.
DropsItsOwnTicket ==
  now < client.expire /\ client'.ticket = client.ticket /\ now >= client'.expire
    => client.ticket \notin server.sessions \/ now' > now
=============================================================================
