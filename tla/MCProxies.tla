----------------------------- MODULE MCProxies ------------------------------
(***************************************************************************)
(* The proxies on small instances: a behaviour is that of one component.   *)
(*   fallback  a connection that is not the protocol's, and where it goes  *)
(*   users     the users of an inbound, changed while they log in          *)
(*   vision    XTLS Vision: when the inner TLS goes out as it is           *)
(*   tickets   VLESS encryption: 0-RTT tickets                             *)
(*   frames    VLESS encryption: the frames of a connection                *)
(*   body      the chunks of a VMess or Shadowsocks body                   *)
(*   headers   the request headers of every protocol                       *)
(*   packets   the UDP packets of every protocol                           *)
(***************************************************************************)
EXTENDS Admission, TLC

VARIABLES component, script, ts, rd, wr, tls, wire, got, loop, canSplice,
          early, now, client, conn, up, down, srv, server, refused, setup, out,
          incoming, frameConn, count, layers, bw, br, bodyWire, buffered,
          bodySent, bodyGot, givenUp, phase, msg, cut, left, answer, firstLen,
          seen, repeated, format, fresh, skipped, gotPackets, writer, reader

-----------------------------------------------------------------------------
(* Connections and their users *)

\* Two fallbacks at most, of names that are one another's ending or not.
Entry == [name : {<<>>, <<1>>, <<1, 2>>}, alpn : {"", "h2"}, path : {"", "/a"}, xver : {1}]

\* A request that is too short, one of no user and one of a user.
FirstBytes(len, id) ==
  [len |-> len, id |-> id, slash |-> 4, path |-> "/a", stop |-> 9, line |-> 12]

MCFallbacks == UNION {[1 .. k -> Entry] : k \in 0 .. 2}
MCNames == {<<>>, <<1>>, <<3, 1, 2>>}
MCRequests == {FirstBytes(17, FALSE), FirstBytes(18, FALSE), FirstBytes(18, TRUE)}

\* Two users of one id, two of one email, differently spelled, one whose cipher is no
\* AEAD one and whose key is none, and one of no email.
Person(email, caps, id, fine) ==
  [email |-> email, caps |-> caps, id |-> id, aead |-> fine, good |-> fine]
MCPeople == {Person(1, FALSE, 1, TRUE), Person(2, FALSE, 1, TRUE), Person(1, TRUE, 2, TRUE),
             Person(2, FALSE, 3, FALSE), Person(0, FALSE, 2, TRUE)}

\* Payloads: TLS 1.3, TLS 1.3 whose records are cut, TLS 1.2, no TLS at all.
Body == INSTANCE ProxyBody WITH
  Scripts <- {
    [up |-> <<<<"CH", 0>>, <<"app", 2>>, <<"mid", 2>>, <<"mid", 2>>>>,
     down |-> <<<<"S1", 1>>, <<"S2", 1>>, <<"app", 2>>>>],
    [up |-> <<<<"CH", 0>>, <<"app", 2>>>>,
     down |-> <<<<"S1", 1>>, <<"S2", 1>>, <<"app", 2>>, <<"mid", 2>>, <<"mid", 2>>>>],
    [up |-> <<<<"CH", 0>>, <<"app", 0>>>>, down |-> <<<<"S1", 1>>, <<"S2", 1>>>>],
    [up |-> <<<<"CH", 0>>, <<"app", 2>>>>,
     down |-> <<<<"S1", 1>>, <<"S3", 1>>, <<"app", 2>>>>],
    [up |-> <<<<"x", 0>>, <<"x", 0>>, <<"app", 1>>>>, down |-> <<<<"x", 1>>>>]},
  Filtered <- 4, BufferSize <- 3,
  Securities <- {"aes", "none", "zero"},
  Foreign <- [sec : {"none"}, cmd : {"tcp", "udp"}, opts : {{"stream"}}],
  Writes <- {<<1>>, <<2, 1>>, <<3>>, <<4, 2>>},
  MaxData <- 6, BufSize <- 5, ReadSize <- 3, NonceSpace <- 2

Enc == INSTANCE VlessEncryption WITH
  Conns <- 1 .. 3, ClientSeconds <- 1, SecondsFrom <- 1, SecondsTo <- 0,
  Minute <- 2, MaxDelay <- 1, MaxTime <- 5, MaxRestarts <- 1,
  Setups <- [pre : {0, 2}, seen : BOOLEAN, xor : BOOLEAN],
  Frame <- 3, Header <- 2, MaxNonce <- 2, MaxData <- 7,
  WriteSizes <- {1, 3, 5}, ReadSizes <- {1, 3}

-----------------------------------------------------------------------------
(* Requests: addresses of every family, names that look like another one   *)

Address(family, b) == [family |-> family, b |-> b]
Addresses ==
  {Address("v4", <<1, 200>>), Address("v6", <<1, 2, 3, 4>>)}
  \cup {Address("domain", b) : b \in
          {<<>>, <<11, 1>>, <<1, 2>>, <<11, 99>>, <<11, 12, 13, 14>>, <<11, 12, 13, 14, 15>>}}

Asks(user, name, cmd, flow, padding, security) ==
  [user : user, name : name, cmd : cmd, addr : Addresses, port : {<<1, 2>>}, flow : flow,
   response : {66}, option : {1}, padding : padding, security : security]

Server(auth, udp, names, cipher, ivCheck, skew, here) ==
  [auth : auth, udp : udp, names : names, cipher : cipher, ivCheck : ivCheck, skew : skew, here : here]

Here4 == Address("v4", <<8, 8>>)
Here6 == Address("v6", <<8, 8, 8, 8>>)
Known(cipher, skew) == Server({FALSE}, {FALSE}, {{}}, cipher, {FALSE}, skew, {Here4})
Anyone == {1, 7}
NoName == {<<>>}

MCSetups ==
  [proto : {"vless"}, cfg : Known({"aead"}, {0}),
   req : Asks(Anyone, NoName, {"tcp", "udp", "mux", "rvs"}, {0, 6}, {0}, {3})]
  \cup [proto : {"trojan"}, cfg : Known({"aead"}, {0}),
        req : Asks(Anyone, NoName, {"tcp", "udp"}, {0}, {0}, {3})]
  \cup [proto : {"ss"}, cfg : Server({FALSE}, {FALSE}, {{}}, {"aead", "none"}, BOOLEAN, {0}, {Here4}),
        req : Asks(Anyone, NoName, {"tcp", "udp"}, {0}, {0}, {3})]
  \cup [proto : {"vmess"}, cfg : Known({"aead"}, {0, 3}),
        req : Asks(Anyone, NoName, {"tcp", "udp", "mux"}, {0}, {0, 2}, {3})]
  \cup [proto : {"vmess"}, cfg : Known({"aead"}, {0}),
        req : Asks(Anyone, NoName, {"tcp", "udp", "mux"}, {0}, {0}, {2})]
  \cup [proto : {"socks"},
        cfg : Server(BOOLEAN, BOOLEAN, {{<<11>>, <<1, 2, 3, 4>>}}, {"aead"}, {FALSE}, {0}, {Here4, Here6}),
        req : Asks({0}, {<<11>>}, {"tcp", "udp", "bind", "resolve"}, {0}, {0}, {3})
              \cup Asks({1}, {<<11>>, <<12>>, <<1, 2, 3, 4>>}, {"tcp", "udp"}, {0}, {0}, {3})]
  \cup [proto : {"socks4"}, cfg : Server(BOOLEAN, {FALSE}, {{}}, {"aead"}, {FALSE}, {0}, {Here4}),
        req : {q \in Asks({0}, {<<>>, <<12>>}, {"tcp", "udp"}, {0}, {0}, {3}) : q.addr.family # "v6"}]

Dest(address, port) == [addr |-> address, port |-> port]
MCTarget == Dest(Address("v4", <<8, 200>>), <<1, 2>>)

Wire == INSTANCE ProxyHeaders WITH
  Setups <- MCSetups, Payload <- <<1, 3>>, Accounts <- {1, 2}, LenSpace <- 4,
  FirstRead <- 8, MaxSkew <- 2,
  Formats <- {"socks", "ss", "ssnone", "trojan", "vless", "xudp", "mux", "answer"},
  Target <- MCTarget,
  Targets <- {<<>>, <<MCTarget>>, <<Dest(Address("domain", <<11, 12>>), <<3, 4>>)>>,
              <<Dest(Address("domain", <<1, 2>>), <<3, 4>>)>>},
  Sizes <- {0, 1, 10, 20}, MaxPackets <- 2, BufSize <- 20, Room <- 14

-----------------------------------------------------------------------------
allVars == <<component, conf, fb, fbConn, fbState, chosen, first, sent, proto,
             emails, ids, userList, call, login, overlap, displaced, script,
             ts, rd, wr, tls, wire, got, loop, canSplice, early, now, client,
             conn, up, down, srv, server, refused, setup, out, incoming,
             frameConn, count, layers, bw, br, bodyWire, buffered, bodySent,
             bodyGot, givenUp, phase, msg, cut, left, answer, firstLen, seen,
             repeated, format, fresh, skipped, gotPackets, writer, reader>>

AtFallback ==
  /\ component = "fallback"
  /\ UNCHANGED <<component, proto, emails, ids, userList, call, login, overlap,
                 displaced, script, ts, rd, wr, tls, wire, got, loop,
                 canSplice, early, now, client, conn, up, down, srv, server,
                 refused, setup, out, incoming, frameConn, count, layers, bw,
                 br, bodyWire, buffered, bodySent, bodyGot, givenUp, phase,
                 msg, cut, left, answer, firstLen, seen, repeated, format,
                 fresh, skipped, gotPackets, writer, reader>>

AtUsers ==
  /\ component = "users"
  /\ UNCHANGED <<component, conf, fb, fbConn, fbState, chosen, first, sent,
                 script, ts, rd, wr, tls, wire, got, loop, canSplice, early,
                 now, client, conn, up, down, srv, server, refused, setup, out,
                 incoming, frameConn, count, layers, bw, br, bodyWire,
                 buffered, bodySent, bodyGot, givenUp, phase, msg, cut, left,
                 answer, firstLen, seen, repeated, format, fresh, skipped,
                 gotPackets, writer, reader>>

AtVision ==
  /\ component = "vision"
  /\ UNCHANGED <<component, conf, fb, fbConn, fbState, chosen, first, sent,
                 proto, emails, ids, userList, call, login, overlap, displaced,
                 now, client, conn, up, down, srv, server, refused, setup, out,
                 incoming, frameConn, count, layers, bw, br, bodyWire,
                 buffered, bodySent, bodyGot, givenUp, phase, msg, cut, left,
                 answer, firstLen, seen, repeated, format, fresh, skipped,
                 gotPackets, writer, reader>>

AtTickets ==
  /\ component = "tickets"
  /\ UNCHANGED <<component, conf, fb, fbConn, fbState, chosen, first, sent,
                 proto, emails, ids, userList, call, login, overlap, displaced,
                 script, ts, rd, wr, tls, wire, got, loop, canSplice, early,
                 setup, out, incoming, frameConn, count, layers, bw, br,
                 bodyWire, buffered, bodySent, bodyGot, givenUp, phase, msg,
                 cut, left, answer, firstLen, seen, repeated, format, fresh,
                 skipped, gotPackets, writer, reader>>

AtFrames ==
  /\ component = "frames"
  /\ UNCHANGED <<component, conf, fb, fbConn, fbState, chosen, first, sent,
                 proto, emails, ids, userList, call, login, overlap, displaced,
                 script, ts, rd, wr, tls, loop, canSplice, early, now, client,
                 conn, up, down, srv, server, refused, layers, bw, br,
                 bodyWire, buffered, bodySent, bodyGot, givenUp, phase, msg,
                 cut, left, answer, firstLen, seen, repeated, format, fresh,
                 skipped, gotPackets, writer, reader>>

AtBody ==
  /\ component = "body"
  /\ UNCHANGED <<component, conf, fb, fbConn, fbState, chosen, first, sent,
                 proto, emails, ids, userList, call, login, overlap, displaced,
                 script, ts, rd, wr, tls, wire, got, loop, canSplice, early,
                 now, client, conn, up, down, srv, server, refused, setup, out,
                 incoming, frameConn, phase, msg, cut, left, answer, firstLen,
                 seen, repeated, format, fresh, skipped, gotPackets, writer,
                 reader>>

AtHeaders ==
  /\ component = "headers"
  /\ UNCHANGED <<component, conf, fb, fbConn, fbState, chosen, first, sent,
                 proto, emails, ids, userList, call, login, overlap, displaced,
                 script, ts, rd, wr, tls, wire, loop, canSplice, early, now,
                 client, conn, up, down, srv, server, refused, out, incoming,
                 frameConn, count, layers, bw, br, bodyWire, buffered,
                 bodySent, bodyGot, givenUp, format, fresh, skipped,
                 gotPackets, writer, reader>>

AtPackets ==
  /\ component = "packets"
  /\ UNCHANGED <<component, conf, fb, fbConn, fbState, chosen, first, proto,
                 emails, ids, userList, call, login, overlap, displaced,
                 script, ts, rd, wr, tls, got, loop, canSplice, early, now,
                 client, conn, up, down, srv, server, refused, setup, out,
                 incoming, frameConn, count, layers, bw, br, bodyWire,
                 buffered, bodySent, bodyGot, givenUp, phase, msg, cut, left,
                 answer, firstLen, seen, repeated>>

AllInit ==
  \/ /\ component = "fallback"
     /\ FallbackInit
     /\ UsersInit /\ proto = "vless"
     /\ script = 0 /\ ts = 0 /\ rd = 0 /\ wr = 0 /\ tls = 0 /\ wire = 0
     /\ got = 0 /\ loop = 0 /\ canSplice = 0 /\ early = 0 /\ now = 0
     /\ client = 0 /\ conn = 0 /\ up = 0 /\ down = 0 /\ srv = 0 /\ server = 0
     /\ refused = 0 /\ setup = 0 /\ out = 0 /\ incoming = 0 /\ frameConn = 0
     /\ count = 0 /\ layers = 0 /\ bw = 0 /\ br = 0 /\ bodyWire = 0
     /\ buffered = 0 /\ bodySent = 0 /\ bodyGot = 0 /\ givenUp = 0
     /\ phase = 0 /\ msg = 0 /\ cut = 0 /\ left = 0 /\ answer = 0
     /\ firstLen = 0 /\ seen = 0 /\ repeated = 0 /\ format = 0 /\ fresh = 0
     /\ skipped = 0 /\ gotPackets = 0 /\ writer = 0 /\ reader = 0
  \/ /\ component = "users"
     /\ UsersInit
     /\ conf = 0 /\ fb = 0 /\ fbConn = 0 /\ fbState = 0 /\ chosen = 0
     /\ first = 0 /\ sent = 0 /\ script = 0 /\ ts = 0 /\ rd = 0 /\ wr = 0
     /\ tls = 0 /\ wire = 0 /\ got = 0 /\ loop = 0 /\ canSplice = 0
     /\ early = 0 /\ now = 0 /\ client = 0 /\ conn = 0 /\ up = 0 /\ down = 0
     /\ srv = 0 /\ server = 0 /\ refused = 0 /\ setup = 0 /\ out = 0
     /\ incoming = 0 /\ frameConn = 0 /\ count = 0 /\ layers = 0 /\ bw = 0
     /\ br = 0 /\ bodyWire = 0 /\ buffered = 0 /\ bodySent = 0 /\ bodyGot = 0
     /\ givenUp = 0 /\ phase = 0 /\ msg = 0 /\ cut = 0 /\ left = 0
     /\ answer = 0 /\ firstLen = 0 /\ seen = 0 /\ repeated = 0 /\ format = 0
     /\ fresh = 0 /\ skipped = 0 /\ gotPackets = 0 /\ writer = 0 /\ reader = 0
  \/ /\ component = "vision"
     /\ Body!VisionInit
     /\ UsersInit /\ proto = "vless"
     /\ conf = 0 /\ fb = 0 /\ fbConn = 0 /\ fbState = 0 /\ chosen = 0
     /\ first = 0 /\ sent = 0 /\ now = 0 /\ client = 0 /\ conn = 0 /\ up = 0
     /\ down = 0 /\ srv = 0 /\ server = 0 /\ refused = 0 /\ setup = 0
     /\ out = 0 /\ incoming = 0 /\ frameConn = 0 /\ count = 0 /\ layers = 0
     /\ bw = 0 /\ br = 0 /\ bodyWire = 0 /\ buffered = 0 /\ bodySent = 0
     /\ bodyGot = 0 /\ givenUp = 0 /\ phase = 0 /\ msg = 0 /\ cut = 0
     /\ left = 0 /\ answer = 0 /\ firstLen = 0 /\ seen = 0 /\ repeated = 0
     /\ format = 0 /\ fresh = 0 /\ skipped = 0 /\ gotPackets = 0 /\ writer = 0
     /\ reader = 0
  \/ /\ component = "tickets"
     /\ Enc!TicketInit
     /\ UsersInit /\ proto = "vless"
     /\ conf = 0 /\ fb = 0 /\ fbConn = 0 /\ fbState = 0 /\ chosen = 0
     /\ first = 0 /\ sent = 0 /\ script = 0 /\ ts = 0 /\ rd = 0 /\ wr = 0
     /\ tls = 0 /\ wire = 0 /\ got = 0 /\ loop = 0 /\ canSplice = 0
     /\ early = 0 /\ setup = 0 /\ out = 0 /\ incoming = 0 /\ frameConn = 0
     /\ count = 0 /\ layers = 0 /\ bw = 0 /\ br = 0 /\ bodyWire = 0
     /\ buffered = 0 /\ bodySent = 0 /\ bodyGot = 0 /\ givenUp = 0
     /\ phase = 0 /\ msg = 0 /\ cut = 0 /\ left = 0 /\ answer = 0
     /\ firstLen = 0 /\ seen = 0 /\ repeated = 0 /\ format = 0 /\ fresh = 0
     /\ skipped = 0 /\ gotPackets = 0 /\ writer = 0 /\ reader = 0
  \/ /\ component = "frames"
     /\ Enc!FrameInit
     /\ UsersInit /\ proto = "vless"
     /\ conf = 0 /\ fb = 0 /\ fbConn = 0 /\ fbState = 0 /\ chosen = 0
     /\ first = 0 /\ sent = 0 /\ script = 0 /\ ts = 0 /\ rd = 0 /\ wr = 0
     /\ tls = 0 /\ loop = 0 /\ canSplice = 0 /\ early = 0 /\ now = 0
     /\ client = 0 /\ conn = 0 /\ up = 0 /\ down = 0 /\ srv = 0 /\ server = 0
     /\ refused = 0 /\ layers = 0 /\ bw = 0 /\ br = 0 /\ bodyWire = 0
     /\ buffered = 0 /\ bodySent = 0 /\ bodyGot = 0 /\ givenUp = 0
     /\ phase = 0 /\ msg = 0 /\ cut = 0 /\ left = 0 /\ answer = 0
     /\ firstLen = 0 /\ seen = 0 /\ repeated = 0 /\ format = 0 /\ fresh = 0
     /\ skipped = 0 /\ gotPackets = 0 /\ writer = 0 /\ reader = 0
  \/ /\ component = "body"
     /\ Body!BodyInit
     /\ UsersInit /\ proto = "vless"
     /\ conf = 0 /\ fb = 0 /\ fbConn = 0 /\ fbState = 0 /\ chosen = 0
     /\ first = 0 /\ sent = 0 /\ script = 0 /\ ts = 0 /\ rd = 0 /\ wr = 0
     /\ tls = 0 /\ wire = 0 /\ got = 0 /\ loop = 0 /\ canSplice = 0
     /\ early = 0 /\ now = 0 /\ client = 0 /\ conn = 0 /\ up = 0 /\ down = 0
     /\ srv = 0 /\ server = 0 /\ refused = 0 /\ setup = 0 /\ out = 0
     /\ incoming = 0 /\ frameConn = 0 /\ phase = 0 /\ msg = 0 /\ cut = 0
     /\ left = 0 /\ answer = 0 /\ firstLen = 0 /\ seen = 0 /\ repeated = 0
     /\ format = 0 /\ fresh = 0 /\ skipped = 0 /\ gotPackets = 0 /\ writer = 0
     /\ reader = 0
  \/ /\ component = "headers"
     /\ Wire!HeaderInit
     /\ UsersInit /\ proto = "vless"
     /\ conf = 0 /\ fb = 0 /\ fbConn = 0 /\ fbState = 0 /\ chosen = 0
     /\ first = 0 /\ sent = 0 /\ script = 0 /\ ts = 0 /\ rd = 0 /\ wr = 0
     /\ tls = 0 /\ wire = 0 /\ loop = 0 /\ canSplice = 0 /\ early = 0
     /\ now = 0 /\ client = 0 /\ conn = 0 /\ up = 0 /\ down = 0 /\ srv = 0
     /\ server = 0 /\ refused = 0 /\ out = 0 /\ incoming = 0 /\ frameConn = 0
     /\ count = 0 /\ layers = 0 /\ bw = 0 /\ br = 0 /\ bodyWire = 0
     /\ buffered = 0 /\ bodySent = 0 /\ bodyGot = 0 /\ givenUp = 0
     /\ format = 0 /\ fresh = 0 /\ skipped = 0 /\ gotPackets = 0 /\ writer = 0
     /\ reader = 0
  \/ /\ component = "packets"
     /\ Wire!PacketInit
     /\ UsersInit /\ proto = "vless"
     /\ conf = 0 /\ fb = 0 /\ fbConn = 0 /\ fbState = 0 /\ chosen = 0
     /\ first = 0 /\ script = 0 /\ ts = 0 /\ rd = 0 /\ wr = 0 /\ tls = 0
     /\ got = 0 /\ loop = 0 /\ canSplice = 0 /\ early = 0 /\ now = 0
     /\ client = 0 /\ conn = 0 /\ up = 0 /\ down = 0 /\ srv = 0 /\ server = 0
     /\ refused = 0 /\ setup = 0 /\ out = 0 /\ incoming = 0 /\ frameConn = 0
     /\ count = 0 /\ layers = 0 /\ bw = 0 /\ br = 0 /\ bodyWire = 0
     /\ buffered = 0 /\ bodySent = 0 /\ bodyGot = 0 /\ givenUp = 0
     /\ phase = 0 /\ msg = 0 /\ cut = 0 /\ left = 0 /\ answer = 0
     /\ firstLen = 0 /\ seen = 0 /\ repeated = 0

AllNext ==
  \/ AtFallback /\ FallbackNext
  \/ AtUsers /\ UsersNext
  \/ AtVision /\ Body!VisionNext
  \/ AtTickets /\ Enc!TicketNext
  \/ AtFrames /\ Enc!FrameNext
  \/ AtBody /\ Body!BodyNext
  \/ AtHeaders /\ Wire!HeaderNext
  \/ AtPackets /\ Wire!PacketNext

ProxiesSpec == AllInit /\ [][AllNext]_allVars

-----------------------------------------------------------------------------
(* Properties *)

\* Data passes the proxies whole and in order: the chunks of a body, the frames of
\* an encrypted connection, and an inner TLS stream although both ends stop padding
\* and encrypting in the middle of it (proxy/proxy.go VisionReader, VisionWriter).
StreamsIntact ==
  /\ component = "body" => Body!BodyIntact
  /\ component = "frames" => Enc!FramesInStep
  /\ component = "vision" => Body!Transparent

\* What a client asks for, and where each of its packets goes, is what the
\* server understands.
RequestsUnderstood ==
  /\ component = "headers" => Wire!RequestUnderstood
  /\ component = "packets" => Wire!PacketsKept

\* Who is let in: the users that the lists agree on, the fallback that says most about
\* a connection that is let in by none of them, and every 0-RTT connection but those
\* after a restart of the server.
RightDoor ==
  /\ component = "users" => ListsAgree /\ PutDownRight
  /\ component = "fallback" => MostSpecific /\ BehindHearsAll
  /\ component = "tickets" => Enc!RefusedOnlyAfterRestart

\* A failed connection makes the client drop the ticket it used, never the one
\* another connection has obtained since.
TicketsKept == [][component = "tickets" => Enc!DropsItsOwnTicket]_allVars
=============================================================================
