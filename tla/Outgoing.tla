------------------------------ MODULE Outgoing ------------------------------
(****************************************************************************)
(* Leaving the core: the freedom outbound, and the system dialer with its   *)
(* happy eyeballs.                                                          *)
(****************************************************************************)
EXTENDS Sequences, FiniteSets, SequencesExt, Integers

(***************************************************************************)
(* proxy/freedom: what the direct outbound does to the data it sends.      *)
(* FragmentWriter cuts a stream, or the TLS hello at its beginning, into   *)
(* pieces; PacketWriter resolves the names that packets are for and keeps  *)
(* the result, PacketReader turns the dialled address back into its name,  *)
(* and NoisePacketWriter sends packets of noise before the first one.      *)
(***************************************************************************)

CONSTANTS Streams,    \* [frag, writes]: the settings of a stream and what is written to it
          Sessions,   \* [target, port, over, overPort, strategy, noises]
          Packets,    \* what the packets of a session are for: names and addresses
          MaxPackets, \* bound
          Resolved,   \* the addresses that the core's DNS client may return for a name
          System,     \* ... and those of the system resolver
          V6,         \* the IPv6 addresses among them
          None

VARIABLES
  part,      \* "stream" or "packets"
  stream,    \* the stream: [frag, writes]
  fragCount,     \* FragmentWriter.count
  piece,     \* the Write that is being cut: [at, data, rest, from, split, max, hello]
  wire,      \* what the connection got
  given,     \* what FragmentWriter was given
  session,
  remote,    \* the address that was dialled
  resolved,  \* PacketWriter.ResolvedUDPAddr
  sent,      \* history: [for, to] of the packets
  noisy,     \* history: noise was sent
  firstPacket,     \* NoisePacketWriter.firstWrite
  packets, replies

streamVars == <<stream, fragCount, piece, wire, given>>
packetVars == <<session, remote, resolved, sent, noisy, firstPacket, packets, replies>>
freedomVars == <<part, streamVars, packetVars>>

-----------------------------------------------------------------------------
\* A TLS record: type, version, and a length of two bytes.
Header == 5
RecordLen(b) == Header + b[4] * 256 + b[5]
IsHello(b) == Len(b) > Header /\ b[1] = 22 /\ Len(b) >= RecordLen(b)
Record(b, data) == SubSeq(b, 1, 3) \o <<Len(data) \div 256, Len(data) % 256>> \o data

Idle == [at |-> "idle", b |-> <<>>, data |-> <<>>, from |-> 0, split |-> 0, max |-> 0,
         hello |-> <<>>]

\* FragmentWriter.Write: which writes are cut, and how.
OnlyHello(f) == f.packetsFrom = 0 /\ f.packetsTo = 1
Cut(f, n, b) ==
  IF OnlyHello(f) THEN n = 1 /\ IsHello(b)
  ELSE f.packetsFrom = 0 \/ (n >= f.packetsFrom /\ n <= f.packetsTo)

Write ==
  LET f == stream.frag
      b == stream.writes[fragCount + 1]
      data == IF OnlyHello(f) THEN SubSeq(b, Header + 1, RecordLen(b)) ELSE b
  IN /\ part = "stream" /\ piece.at = "idle" /\ fragCount < Len(stream.writes)
     /\ fragCount' = fragCount + 1
     /\ given' = given \o b
     /\ IF Cut(f, fragCount + 1, b)
          THEN /\ \E max \in f.maxSplit :
                    piece' = [Idle EXCEPT !.at = "cut", !.b = b, !.data = data, !.max = max]
               /\ UNCHANGED wire
          ELSE wire' = wire \o b /\ UNCHANGED piece
     /\ UNCHANGED <<part, stream, packetVars>>

\* The end of the next piece.
To(length) ==
  LET to == piece.from + length
  IN IF to > Len(piece.data) \/ (piece.max > 0 /\ piece.split + 1 >= piece.max)
       THEN Len(piece.data) ELSE to

\* A piece as it is written: in a record of its own when the hello is cut.  A header
\* with the end of the piece for its length would be off from the second one on.
PieceWithEnd(from, to) ==
  LET data == SubSeq(piece.data, from + 1, to)
  IN IF OnlyHello(stream.frag)
       THEN SubSeq(piece.b, 1, 3) \o <<to \div 256, to % 256>> \o data ELSE data

Piece(from, to) ==
  LET data == SubSeq(piece.data, from + 1, to)
  IN IF OnlyHello(stream.frag) THEN Record(piece.b, data) ELSE data

\* One round of the loop; without an interval the records of a hello go out together.
Fragment ==
  LET f == stream.frag
      together == OnlyHello(f) /\ ~f.interval
      rest == IF OnlyHello(f) THEN SubSeq(piece.b, RecordLen(piece.b) + 1, Len(piece.b))
              ELSE <<>>
  IN /\ part = "stream" /\ piece.at = "cut"
     /\ \E length \in f.length :
          LET to == To(length)
              out == Piece(piece.from, to)
              hello == IF together THEN piece.hello \o out ELSE <<>>
              last == to = Len(piece.data)
          IN /\ wire' = wire \o (IF together THEN <<>> ELSE out)
                             \o (IF last THEN hello \o rest ELSE <<>>)
             /\ piece' = IF last THEN Idle
                         ELSE [piece EXCEPT !.from = to, !.split = @ + 1, !.hello = hello]
     /\ UNCHANGED <<part, stream, fragCount, given, packetVars>>

-----------------------------------------------------------------------------
IsName(a) == a \in DOMAIN Resolved
\* LookupForIP and the system resolver.
Found(name) ==
  IF session.strategy = "asis" THEN System[name]
  ELSE IF Resolved[name] # {} THEN Resolved[name]
  ELSE IF session.strategy = "force" THEN {} ELSE System[name]

\* The target, after DestinationOverride.
Target == IF session.over # None THEN session.over ELSE session.target

\* NewPacketWriter: the dialled name has been resolved already.
NewPacketWriterEmpty(ip) == [n \in DOMAIN Resolved |-> None]

NewPacketWriter(ip) ==
  [n \in DOMAIN Resolved |-> IF n = Target THEN ip ELSE None]

Dial ==
  /\ part = "packets" /\ remote = None
  /\ \E ip \in IF IsName(Target) THEN Found(Target) ELSE {Target} :
       remote' = ip /\ resolved' = NewPacketWriter(ip)
  /\ UNCHANGED <<part, streamVars, session, sent, noisy, firstPacket, packets, replies>>

\* NoisePacketWriter: before the first packet, and not when the port is overridden with 53.
Noise ==
  {n \in session.noises : n = "ip" \/ n = IF remote \in V6 THEN "ipv6" ELSE "ipv4"}

Noises == firstPacket /\ session.overPort # 53 /\ Noise # {}

\* PacketWriter.WriteMultiBuffer for one packet; None: it has no address of its own.
WritePacket(a) ==
  LET for == IF a = None THEN None ELSE IF session.over # None THEN session.over ELSE a
      known == IsName(for) /\ resolved[for] # None
      ips == IF for = None THEN {remote} ELSE IF ~IsName(for) THEN {for}
             ELSE IF known THEN {resolved[for]} ELSE Found(for)
  IN /\ part = "packets" /\ remote # None /\ packets < MaxPackets
     /\ packets' = packets + 1 /\ firstPacket' = FALSE
     /\ noisy' = (noisy \/ Noises)
     /\ IF ips = {} THEN UNCHANGED <<sent, resolved>>
        ELSE \E ip \in ips :
               /\ sent' = sent \cup {[for |-> for, to |-> ip]}
               /\ resolved' = IF IsName(for) THEN [resolved EXCEPT ![for] = ip] ELSE resolved
     /\ UNCHANGED <<part, streamVars, session, remote, replies>>

\* PacketReader: the address a reply seems to come from.
ReadPacket(ip) ==
  LET overridden == session.over # None \/ session.overPort # 0
  IN /\ part = "packets" /\ \E s \in sent : s.to = ip
     /\ replies' = replies \cup
          {[from |-> ip,
            as |-> IF overridden THEN None ELSE IF ip = remote THEN session.target ELSE ip]}
     /\ UNCHANGED <<part, streamVars, session, remote, resolved, sent, noisy, firstPacket, packets>>

-----------------------------------------------------------------------------
FreedomInit ==
  /\ part \in {"stream", "packets"}
  /\ IF part = "stream" THEN stream \in Streams
     ELSE stream = [frag |-> None, writes |-> <<>>]
  /\ fragCount = 0 /\ piece = Idle /\ wire = <<>> /\ given = <<>>
  /\ IF part = "packets" THEN session \in Sessions ELSE session = None
  /\ remote = None /\ resolved = [n \in DOMAIN Resolved |-> None] /\ sent = {}
  /\ noisy = FALSE /\ firstPacket = TRUE /\ packets = 0 /\ replies = {}

FreedomNext ==
  \/ Write \/ Fragment \/ Dial
  \/ \E a \in Packets \cup {None} : WritePacket(a)
  \/ \E s \in sent : ReadPacket(s.to)

FreedomSpec == FreedomInit /\ [][FreedomNext]_freedomVars

-----------------------------------------------------------------------------
\* The handshake data and what follows it, as the other end of a TLS connection sees them.
RECURSIVE Received(_)
Received(w) ==
  IF Len(w) >= Header /\ w[1] = 22 /\ Len(w) >= RecordLen(w)
    THEN SubSeq(w, Header + 1, RecordLen(w)) \o Received(SubSeq(w, RecordLen(w) + 1, Len(w)))
    ELSE w

\* However a stream is cut, the other end gets the bytes that were written, in order; a
\* hello that is cut is the same handshake message in several records.
FragmentsAddUp ==
  part = "stream" =>
    LET seen(w) == IF OnlyHello(stream.frag) THEN Received(w) ELSE w
    IN /\ IsPrefix(seen(wire), seen(given))
       /\ piece.at = "idle" => seen(wire) = seen(given)

\* All packets of a session for one name go to one address, also the ones for the name
\* that was dialled (comment at PacketWriter.ResolvedUDPAddr), and a reply from there
\* comes back under that name.
NameKeepsAddress ==
  part = "packets" =>
    /\ \A s, t \in sent : IsName(s.for) /\ s.for = t.for => s.to = t.to
    /\ \A s \in sent : s.for = Target => s.to = remote
    /\ \A s \in sent, r \in replies :
         s.for = session.target /\ s.to = r.from /\ r.as # None => r.as = session.target

-----------------------------------------------------------------------------
(***************************************************************************)
(* How the core opens a socket: DialSystem decides what a destination      *)
(* becomes (an SRV or TXT record, an address of the domain, the outbound   *)
(* that dialerProxy names), DefaultSystemDialer opens one socket, and      *)
(* TcpRaceDial races the addresses of a domain against each other ("happy  *)
(* eyeballs"): it starts a try when its timer fires, hands the next try on *)
(* when one fails, keeps the first connection, and closes the others.      *)
(*                                                                         *)
(* The tries run beside the race and report over a channel that holds all  *)
(* of them; the caller's context may end at any moment.  The timer is one  *)
(* of Go 1.23 and later: Stop and Reset leave no stale tick behind.        *)
(*                                                                         *)
(* An address is <<family, number>> with family 4 or 6.                    *)
(***************************************************************************)

CONSTANTS Setups,      \* what a caller asks for, and what the world answers
          Word         \* 2^31 of the int32 that multiplies two keep-alive times

VARIABLES setup,       \* the request
          phase,       \* "start", "race", "done", "failed", "panic"
          addrs,         \* the addresses of the race, in the order they are tried
          nextTryIndex, activeNum, timer,
          resultCh,    \* the results the race has not looked at
          try,         \* what the goroutine of each try does
          open,        \* the sockets that are open
          winConn,     \* the try whose connection was kept, 0 if none
          cancelled,   \* the caller's context has ended
          stopped      \* the race has called cancel

dialVars == <<setup, phase, addrs, nextTryIndex, activeNum, timer, resultCh, try, open,
              winConn, cancelled, stopped>>

\* The rows of strategy: none, use or force; the preferred and the fallback family
\* (0: both, or none).
strategy == << <<0,0,0>>, <<1,0,0>>, <<1,4,0>>, <<1,6,0>>, <<1,4,6>>, <<1,6,4>>,
               <<2,0,0>>, <<2,4,0>>, <<2,6,0>>, <<2,4,6>>, <<2,6,4>> >>

HasStrategy(s) == strategy[s][1] # 0
ForceIP(s) == strategy[s][1] = 2
Prefers(s, family) == strategy[s][2] \in {0, family}
FallsBack(s, family) == strategy[s][3] = family

\* The family of the original target decides what UseIP and ForceIP try first.
GetDynamicStrategy(s, family) ==
  IF family \in {4, 6} /\ strategy[s] \in {<<1,0,0>>, <<2,0,0>>}
    THEN CHOOSE t \in DOMAIN strategy :
           strategy[t] = <<strategy[s][1], family, 10 - family>>
    ELSE s

\* The answer of the DNS client for the families that are asked for.
Answer(known, families) == SelectSeq(known, LAMBDA ip : ip[1] \in families)

\* LookupForIP: the addresses found, <<>> for an error or an empty answer.  With a
\* local address only its family is asked for, and nothing falls back.
LookupForIP(known, s, src) ==
  LET wanted == {f \in {4, 6} : IF src = 0 THEN Prefers(s, f)
                                ELSE src = f /\ (Prefers(s, f) \/ FallsBack(s, f))}
      first == Answer(known, wanted)
  IN IF first = <<>> /\ strategy[s][3] # 0 /\ src = 0
       THEN Answer(known, {f \in {4, 6} : FallsBack(s, f)})
       ELSE first

\* checkAddressPortStrategy: a record replaces the address, the port, or both; an
\* address is left alone, and a record that cannot be found or parsed changes nothing.
checkAddressPortStrategy(q) ==
  IF q.by = "none" \/ q.dest.addr # "domain" \/ q.record = <<>> THEN q.dest
  ELSE [addr |-> IF q.by \in {"address", "both"} THEN q.record[1].addr ELSE q.dest.addr,
        port |-> IF q.by \in {"port", "both"} THEN q.record[1].port ELSE q.dest.port]

\* sortIPs: the two families take turns of interleave addresses each (all of one
\* family first when it is 0); what is left of the other family follows.
sortIPs(list, prioritizeIPv6, interleave) ==
  LET ip4 == Answer(list, {4})  ip6 == Answer(list, {6})
      First == IF prioritizeIPv6 THEN ip6 ELSE ip4
      Second == IF prioritizeIPv6 THEN ip4 ELSE ip6
      turns[k \in 0..Len(list), f \in BOOLEAN, i \in 0..Len(First), j \in 0..Len(Second)] ==
        IF i = Len(First) THEN SubSeq(Second, j + 1, Len(Second))
        ELSE IF j = Len(Second) THEN SubSeq(First, i + 1, Len(First))
        ELSE LET next == IF k + 1 = interleave THEN <<0, ~f>> ELSE <<k + 1, f>>
             IN IF f THEN <<First[i + 1]>> \o turns[next[1], next[2], i + 1, j]
                     ELSE <<Second[j + 1]>> \o turns[next[1], next[2], i, j + 1]
  IN IF ip4 = <<>> \/ ip6 = <<>> THEN list ELSE turns[0, TRUE, 0, 0]

Int32(n) == ((n + Word) % (2 * Word)) - Word

\* The keep-alive of DefaultSystemDialer: the two times may not have opposite signs,
\* and a negative one turns it off.
KeepAlive(q) ==
  IF Int32(q.idle * q.interval) < 0 THEN "invalid"
  ELSE IF q.idle < 0 \/ q.interval < 0 THEN "off" ELSE "on"

\* The socket options in the order they are set; the first that fails ends it, and
\* the failure is only logged.
OutboundOptions(q) ==
  LET tcp == IF q.net = "tcp" THEN SelectSeq(<<"tfo", "congestion", "clamp", "timeout",
                                    "maxseg">>, LAMBDA o : o \in q.options) ELSE <<>>
      all == SelectSeq(<<"mark", "interface">>, LAMBDA o : o \in q.options)
             \o tcp \o SelectSeq(<<"custom", "tproxy">>, LAMBDA o : o \in q.options)
      bad == {i \in DOMAIN all : all[i] \in q.refused}
  IN IF bad = {} THEN all
     ELSE SubSeq(all, 1, (CHOOSE i \in bad : \A j \in bad : i <= j) - 1)

\* DefaultSystemDialer.Dial: what it asks the system for.  A UDP socket that has no
\* bind address is a listening one that sends to the destination.
SystemDial(q, dest, src) ==
  IF q.net = "udp" /\ ~q.bind
    THEN [kind |-> "packet", dest |-> dest, local |-> src, applied |-> OutboundOptions(q)]
  ELSE IF KeepAlive(q) = "invalid" THEN [kind |-> "error"]
  ELSE [kind |-> "conn", dest |-> dest, local |-> src,
        applied |-> OutboundOptions(q) \o (IF q.net = "udp" THEN <<"bind">> ELSE <<>>)]

\* Whether the addresses are raced, or one of them is picked.
Races(q, found) ==
  q.happy # <<>> /\ q.happy[1].delay > 0 /\ q.happy[1].max > 0 /\ Len(found) >= 2
    /\ q.proxy = "" /\ q.net = "tcp"

\* The end of DialSystem: the outbound that dialerProxy names, or the system dialer.
Outcome(q, dest, src) ==
  IF q.proxy # "" THEN IF q.proxy = "known" THEN {"done"} ELSE {"failed"}
  ELSE IF SystemDial(q, dest, src).kind = "error" THEN {"failed"} ELSE {"done", "failed"}

\* DialSystem without socket settings goes straight to the system dialer.
DialSystem ==
  LET q == setup
      src == IF q.proxy = "" THEN q.gateway ELSE 0
      dest == checkAddressPortStrategy(q)
      s == IF q.freedom /\ q.net = "udp" /\ src = 0
             THEN GetDynamicStrategy(q.strategy, q.target) ELSE q.strategy
      found == LookupForIP(q.known, s, src)
      resolves == HasStrategy(q.strategy) /\ dest.addr = "domain"
  IN /\ phase = "start"
     /\ IF resolves /\ found # <<>> /\ Races(q, found)
          THEN /\ phase' = "race"
               /\ addrs' = sortIPs(found, q.happy[1].v6, q.happy[1].interleave)
               /\ try' = [i \in DOMAIN addrs' |-> "idle"]
               /\ timer' = TRUE
               /\ UNCHANGED <<winConn, open>>
          ELSE /\ \/ /\ resolves /\ found = <<>> /\ ForceIP(q.strategy)
                     /\ phase' = "failed"
                  \/ /\ ~(resolves /\ found = <<>> /\ ForceIP(q.strategy))
                     /\ \E a \in IF resolves /\ found # <<>> THEN ToSet(found)
                                 ELSE {dest.addr} :
                          phase' \in Outcome(q, [dest EXCEPT !.addr = a], src)
               /\ open' = IF phase' = "done" THEN {1} ELSE {}
               /\ winConn' = IF phase' = "done" THEN 1 ELSE 0
               /\ UNCHANGED <<addrs, try, timer>>
     /\ UNCHANGED <<setup, nextTryIndex, activeNum, resultCh, cancelled, stopped>>

\* The timer of the race fires: the next address is tried.
TimerFires ==
  /\ phase = "race" /\ timer
  /\ LET max == setup.happy[1].max
     IN IF nextTryIndex = Len(addrs) \/ activeNum = max
          THEN phase' = "panic" /\ UNCHANGED <<try, activeNum, nextTryIndex, timer>>
          ELSE /\ try' = [try EXCEPT ![nextTryIndex + 1] = "dialing"]
               /\ activeNum' = activeNum + 1
               /\ nextTryIndex' = nextTryIndex + 1
               /\ timer' = ~(nextTryIndex' = Len(addrs) \/ activeNum' = max)
               /\ UNCHANGED phase
  /\ UNCHANGED <<setup, addrs, resultCh, open, winConn, cancelled, stopped>>

\* tcpTryDial, the dial of one address: the system answers with a connection or an
\* error, also when the context has just ended.
tcpTryDial(i) ==
  /\ phase = "race" /\ i \in DOMAIN try /\ try[i] = "dialing"
  /\ \/ try' = [try EXCEPT ![i] = "conn"] /\ open' = open \cup {i}
     \/ try' = [try EXCEPT ![i] = "err"] /\ UNCHANGED open
  /\ UNCHANGED <<setup, phase, addrs, nextTryIndex, activeNum, timer, resultCh, winConn,
                 cancelled, stopped>>

\* tcpTryDial, its end: a connection that comes after the race is closed here.
TryReports(i) ==
  /\ phase = "race" /\ i \in DOMAIN try /\ try[i] \in {"conn", "err"}
  /\ try' = [try EXCEPT ![i] = "reported"]
  /\ LET late == cancelled \/ stopped
     IN /\ open' = IF late THEN open \ {i} ELSE open
        /\ resultCh' = Append(resultCh, <<i, ~late /\ try[i] = "conn">>)
  /\ UNCHANGED <<setup, phase, addrs, nextTryIndex, activeNum, timer, winConn, cancelled,
                 stopped>>

\* A race that closes only the winner when the caller has gone.
TcpRaceDialKeeps ==
  LET r == Head(resultCh)
  IN /\ phase = "race" /\ resultCh # <<>>
     /\ resultCh' = Tail(resultCh) /\ activeNum' = activeNum - 1
     /\ IF cancelled
          THEN /\ stopped' = TRUE /\ timer' = FALSE /\ open' = open \ {winConn}
               /\ phase' = IF activeNum' = 0 THEN "failed" ELSE "race"
               /\ UNCHANGED winConn
          ELSE /\ stopped' = (stopped \/ r[2])
               /\ winConn' = IF r[2] /\ winConn = 0 THEN r[1] ELSE winConn
               /\ open' = IF r[2] /\ winConn # 0 THEN open \ {r[1]} ELSE open
               /\ phase' = IF activeNum' # 0 THEN "race"
                           ELSE IF winConn' # 0 THEN "done"
                           ELSE IF nextTryIndex < Len(addrs) THEN "race" ELSE "failed"
               /\ timer' = (winConn' = 0 /\ nextTryIndex < Len(addrs))
     /\ UNCHANGED <<setup, addrs, nextTryIndex, try, cancelled>>

\* The race takes a result.  It returns only when no try is left, so that every
\* connection is either kept or closed; a failure starts the next try at once.
TcpRaceDial ==
  LET r == Head(resultCh)
  IN /\ phase = "race" /\ resultCh # <<>>
     /\ resultCh' = Tail(resultCh) /\ activeNum' = activeNum - 1
     /\ IF cancelled
          THEN /\ stopped' = TRUE /\ timer' = FALSE
               /\ open' = open \ ({winConn} \cup (IF r[2] THEN {r[1]} ELSE {}))
               /\ phase' = IF activeNum' = 0 THEN "failed" ELSE "race"
               /\ UNCHANGED winConn
          ELSE /\ stopped' = (stopped \/ r[2])
               /\ winConn' = IF r[2] /\ winConn = 0 THEN r[1] ELSE winConn
               /\ open' = IF r[2] /\ winConn # 0 THEN open \ {r[1]} ELSE open
               /\ phase' = IF activeNum' # 0 THEN "race"
                           ELSE IF winConn' # 0 THEN "done"
                           ELSE IF nextTryIndex < Len(addrs) THEN "race" ELSE "failed"
               /\ timer' = (winConn' = 0 /\ nextTryIndex < Len(addrs))
     /\ UNCHANGED <<setup, addrs, nextTryIndex, try, cancelled>>

\* The caller gives up.
Cancel ==
  /\ phase = "race" /\ ~cancelled
  /\ cancelled' = TRUE
  /\ UNCHANGED <<setup, phase, addrs, nextTryIndex, activeNum, timer, resultCh, try, open,
                 winConn, stopped>>

DialInit ==
  /\ setup \in Setups /\ phase = "start" /\ addrs = <<>>
  /\ nextTryIndex = 0 /\ activeNum = 0 /\ timer = FALSE /\ resultCh = <<>>
  /\ try = <<>> /\ open = {} /\ winConn = 0 /\ cancelled = FALSE /\ stopped = FALSE

DialNext ==
  \/ DialSystem \/ TimerFires \/ TcpRaceDial \/ Cancel
  \/ \E i \in DOMAIN try : tcpTryDial(i) \/ TryReports(i)

DialSpec == DialInit /\ [][DialNext]_dialVars

\* The runtime runs the race, its timer and its tries; a dial ends by its timeout.
Runs == DialSystem \/ TimerFires \/ TcpRaceDial
          \/ \E i \in DOMAIN try : tcpTryDial(i) \/ TryReports(i)

DialFairSpec == DialSpec /\ WF_dialVars(Runs)

-----------------------------------------------------------------------------
\* A dial that returns a connection leaves just that socket open, one that fails
\* leaves none, and a race whose caller waited fails only after it has tried every
\* address.  (The channel and the counters of TcpRaceDial never meet the situation
\* it calls impossible.)
OneConnection ==
  /\ phase # "panic"
  /\ phase = "done" => open = {winConn}
  /\ phase = "failed" =>
       /\ open = {}
       /\ ~cancelled => \A i \in DOMAIN try : try[i] = "reported"

=============================================================================
