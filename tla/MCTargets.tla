----------------------------- MODULE MCTargets ------------------------------
(***************************************************************************)
(* How a connection finds where to go, on small instances: a behaviour is  *)
(* that of one component.                                                  *)
(*   sniffers     the sniffers, on first bytes that come in pieces         *)
(*   dispatch     the dispatcher, from the inbound to the handler          *)
(*   observatory  the pings of outbounds that balancers ask about          *)
(*   dns          the queries to a name server, and its cache              *)
(***************************************************************************)
EXTENDS Integers, Sequences, TLC

VARIABLES component, message, arrived, sniffersLeft, sniffed, attributes,
          early, sent, queue, closed, wrapper, mb, err, cache, delivered, lost,
          kind, request, fake, phase, left, attempts, sniffers, result, target,
          routed, handlers, changes, checked, stopped, round, status, results,
          recent, disableCache, ips, requests, reqID, net, pc, ask, want,
          unsent, subs, got, failed, orphan, starting, cleaning, answered,
          expired, missed, old

-----------------------------------------------------------------------------
(* First bytes: HTTP, TLS hellos that lack something, BitTorrent, up to     *)
(* three QUIC packets that hold parts of a hello                            *)

Piece(type, size) == [t |-> type, n |-> size]
NoHello == [size |-> 0, record |-> 0, sid |-> 0, suites |-> 0, comp |-> 0, extsLength |-> 0, exts |-> <<>>]
Extension(sni, fits, dot) == [sni |-> sni, fits |-> fits, gap |-> FALSE, dot |-> dot, name |-> <<"n">>]
Hello(sid, suites, room, exts) ==
  [size |-> 45 + sid + suites + room, record |-> 45 + sid + suites + room, sid |-> sid,
   suites |-> suites, comp |-> 1, extsLength |-> 20, exts |-> exts]
Hellos == {Hello(sid, suites, room, exts) : sid \in {0, 32, 33}, suites \in {1, 2}, room \in {19, 20},
             exts \in {<<>>, <<Extension(FALSE, TRUE, FALSE), Extension(TRUE, TRUE, FALSE)>>,
                       <<Extension(TRUE, FALSE, FALSE)>>, <<Extension(TRUE, TRUE, TRUE)>>}}

Quic(type, whole, opens, frames) ==
  [t |-> type, n |-> 100, whole |-> whole, opens |-> opens, frames |-> frames]
Frame(type, parts) == [t |-> type, part |-> parts]
Frames == {<<Frame("crypto", {1, 2, 3, 4})>>, <<Frame("ping", {}), Frame("crypto", {1, 3})>>,
           <<Frame("crypto", {2})>>, <<Frame("crypto", {4}), Frame("padding", {})>>,
           <<Frame("crypto", {3, 4}), Frame("other", {})>>}
QuicPackets == {Quic("initial", TRUE, opens, frames) : opens \in BOOLEAN, frames \in Frames}
               \cup {Quic("long", TRUE, TRUE, <<>>), Quic("short", TRUE, TRUE, <<>>),
                     Quic("initial", FALSE, TRUE, <<>>)}

\* A request with a name, an address, a port or no port in its host line, with and
\* without CRLF, and with a body that may look like a host line.
Another == {<<>>, <<Piece("key:", 5), Piece("v3", 3), Piece("nl", 1)>>}
HostValues == {<<Piece("v1", 4), Piece("v2", 4)>>, <<Piece("[", 4), Piece("v2", 4), Piece("]", 1)>>,
               <<Piece("v1", 4), Piece(":80", 3)>>, <<Piece("v1", 4), Piece(":bad", 3)>>}
Http(before, value, empty, body) ==
  <<Piece("met", 2), Piece("hod", 2), Piece("path", 5), Piece("version", 8), Piece("nl", 1)>>
  \o before \o <<Piece("host:", 5)>> \o value \o <<Piece("nl", 1)>> \o empty \o <<Piece("nl", 1)>> \o body

Says(network, pieces, hello) == [network |-> network, pieces |-> pieces, hello |-> hello]
MCMessages ==
  {Says("tcp", Http(before, value, empty, body), NoHello) :
     before \in Another, value \in HostValues, empty \in {<<>>, <<Piece("cr", 1)>>},
     body \in {<<Piece("body", 3)>>, <<Piece("host:", 5), Piece("v3", 3)>>}}
  \cup {Says("tcp", <<Piece("rec", 2), Piece("ord", 3), Piece("b", 40), Piece("b", h.record - 40)>>, h) :
          h \in Hellos}
  \cup {Says("tcp", <<Piece(start, 12), Piece("y", 8), Piece("z", 4)>>, NoHello) :
          start \in {"torrent", "else"}}
  \cup {Says("udp", qs, Hello(0, 2, 20, <<Extension(TRUE, TRUE, FALSE)>>)) :
          qs \in UNION {[1 .. m -> QuicPackets] : m \in 1 .. 3}}
  \cup {Says("udp", <<Quic("utp-part", TRUE, TRUE, <<>>), Quic("x", TRUE, TRUE, <<>>)>>, NoHello)}

\* Settings that make a difference: what comes after a setting that is off is off.
MCRequests ==
  {q \in [enabled : BOOLEAN, override : SUBSET {"http", "fakedns"}, excluded : BOOLEAN,
          metadataOnly : BOOLEAN, routeOnly : BOOLEAN] :
     /\ ~q.enabled => q.override = {} /\ ~q.metadataOnly
     /\ q.override = {} => ~q.excluded /\ ~q.routeOnly
     /\ q.excluded \/ q.metadataOnly => ~q.routeOnly}

Disp == INSTANCE Dispatch WITH
  Messages <- MCMessages, Requests <- MCRequests, MaxChunks <- 2, Deadline <- 2

Obs == INSTANCE Observatory WITH Tags <- {"a"}, Samples <- 2, Rounds <- {1, 2}, MaxChanges <- 3

Dns == INSTANCE DNSQuery WITH Queries <- {1, 2}, Domains <- {"a"}, MaxRequests <- 3, IdSpace <- 2

-----------------------------------------------------------------------------
allVars == <<component, message, arrived, sniffersLeft, sniffed, attributes,
             early, sent, queue, closed, wrapper, mb, err, cache, delivered,
             lost, kind, request, fake, phase, left, attempts, sniffers,
             result, target, routed, handlers, changes, checked, stopped,
             round, status, results, recent, disableCache, ips, requests,
             reqID, net, pc, ask, want, unsent, subs, got, failed, orphan,
             starting, cleaning, answered, expired, missed, old>>

AtSniffers ==
  /\ component = "sniffers"
  /\ UNCHANGED <<component, sent, queue, closed, wrapper, mb, err, cache,
                 delivered, lost, kind, request, fake, phase, left, attempts,
                 sniffers, result, target, routed, handlers, changes, checked,
                 stopped, round, status, results, recent, disableCache, ips,
                 requests, reqID, net, pc, ask, want, unsent, subs, got,
                 failed, orphan, starting, cleaning, answered, expired, missed,
                 old>>

AtDispatch ==
  /\ component = "dispatch"
  /\ UNCHANGED <<component, message, arrived, sniffersLeft, sniffed,
                 attributes, early, handlers, changes, checked, stopped, round,
                 status, results, recent, disableCache, ips, requests, reqID,
                 net, pc, ask, want, unsent, subs, got, failed, orphan,
                 starting, cleaning, answered, expired, missed, old>>

AtObservatory ==
  /\ component = "observatory"
  /\ UNCHANGED <<component, message, arrived, sniffersLeft, sniffed,
                 attributes, early, sent, queue, closed, wrapper, mb, err,
                 cache, delivered, lost, request, fake, phase, left, attempts,
                 sniffers, result, target, routed, disableCache, ips, requests,
                 reqID, net, pc, ask, want, unsent, subs, got, failed, orphan,
                 starting, cleaning, answered, expired, missed, old>>

AtDns ==
  /\ component = "dns"
  /\ UNCHANGED <<component, message, arrived, sniffersLeft, sniffed,
                 attributes, early, sent, queue, closed, wrapper, mb, err,
                 cache, delivered, request, fake, phase, left, attempts,
                 sniffers, result, target, routed, handlers, changes, checked,
                 stopped, round, status, results, recent>>

AllInit ==
  \/ /\ component = "sniffers"
     /\ Disp!SniffersInit
     /\ sent = 0 /\ queue = 0 /\ closed = 0 /\ wrapper = 0 /\ mb = 0
     /\ err = 0 /\ cache = 0 /\ delivered = 0 /\ lost = 0 /\ kind = 0
     /\ request = 0 /\ fake = 0 /\ phase = 0 /\ left = 0 /\ attempts = 0
     /\ sniffers = 0 /\ result = 0 /\ target = 0 /\ routed = 0 /\ handlers = 0
     /\ changes = 0 /\ checked = 0 /\ stopped = 0 /\ round = 0 /\ status = 0
     /\ results = 0 /\ recent = 0 /\ disableCache = 0 /\ ips = 0
     /\ requests = 0 /\ reqID = 0 /\ net = 0 /\ pc = 0 /\ ask = 0 /\ want = 0
     /\ unsent = 0 /\ subs = 0 /\ got = 0 /\ failed = 0 /\ orphan = 0
     /\ starting = 0 /\ cleaning = 0 /\ answered = 0 /\ expired = 0
     /\ missed = 0 /\ old = 0
  \/ /\ component = "dispatch"
     /\ Disp!Init
     /\ message = 0 /\ arrived = 0 /\ sniffersLeft = 0 /\ sniffed = 0
     /\ attributes = 0 /\ early = 0 /\ handlers = 0 /\ changes = 0
     /\ checked = 0 /\ stopped = 0 /\ round = 0 /\ status = 0 /\ results = 0
     /\ recent = 0 /\ disableCache = 0 /\ ips = 0 /\ requests = 0 /\ reqID = 0
     /\ net = 0 /\ pc = 0 /\ ask = 0 /\ want = 0 /\ unsent = 0 /\ subs = 0
     /\ got = 0 /\ failed = 0 /\ orphan = 0 /\ starting = 0 /\ cleaning = 0
     /\ answered = 0 /\ expired = 0 /\ missed = 0 /\ old = 0
  \/ /\ component = "observatory"
     /\ Obs!Init
     /\ message = 0 /\ arrived = 0 /\ sniffersLeft = 0 /\ sniffed = 0
     /\ attributes = 0 /\ early = 0 /\ sent = 0 /\ queue = 0 /\ closed = 0
     /\ wrapper = 0 /\ mb = 0 /\ err = 0 /\ cache = 0 /\ delivered = 0
     /\ lost = 0 /\ request = 0 /\ fake = 0 /\ phase = 0 /\ left = 0
     /\ attempts = 0 /\ sniffers = 0 /\ result = 0 /\ target = 0 /\ routed = 0
     /\ disableCache = 0 /\ ips = 0 /\ requests = 0 /\ reqID = 0 /\ net = 0
     /\ pc = 0 /\ ask = 0 /\ want = 0 /\ unsent = 0 /\ subs = 0 /\ got = 0
     /\ failed = 0 /\ orphan = 0 /\ starting = 0 /\ cleaning = 0
     /\ answered = 0 /\ expired = 0 /\ missed = 0 /\ old = 0
  \/ /\ component = "dns"
     /\ Dns!Init
     /\ message = 0 /\ arrived = 0 /\ sniffersLeft = 0 /\ sniffed = 0
     /\ attributes = 0 /\ early = 0 /\ sent = 0 /\ queue = 0 /\ closed = 0
     /\ wrapper = 0 /\ mb = 0 /\ err = 0 /\ cache = 0 /\ delivered = 0
     /\ request = 0 /\ fake = 0 /\ phase = 0 /\ left = 0 /\ attempts = 0
     /\ sniffers = 0 /\ result = 0 /\ target = 0 /\ routed = 0 /\ handlers = 0
     /\ changes = 0 /\ checked = 0 /\ stopped = 0 /\ round = 0 /\ status = 0
     /\ results = 0 /\ recent = 0

AllNext ==
  \/ AtSniffers /\ Disp!SniffersNext
  \/ AtDispatch /\ Disp!Next
  \/ AtObservatory /\ Obs!Next
  \/ AtDns /\ Dns!Next

\* The fairness of each component, while it is the one that runs: the sniffing goes on,
\* rounds of pings begin and both go on, time passes, and the cleanup and its timer run.
TargetsSpec ==
  /\ AllInit /\ [][AllNext]_allVars
  /\ WF_allVars(\/ AtDispatch /\ Disp!SnifferNext
                \/ AtObservatory /\ (Obs!EmptyRound \/ \E k \in {1, 2} : Obs!StartRound(k, FALSE))
                \/ AtDns /\ cleaning # "panic" /\ Dns!Expires)
  /\ WF_allVars(\/ AtObservatory /\ Obs!Steps(1)
                \/ AtDns /\ Dns!Cleans)
  /\ WF_allVars(AtObservatory /\ Obs!Steps(2))

-----------------------------------------------------------------------------
(* Properties *)

\* Sniffing finds in pieces what it would find in the whole (the sniffers), it takes
\* nothing away (cachedReader), and a connection to a fake address leaves for its domain
\* (DefaultDispatcher).  Excepted is an HTTP request of which a round sees a Host line
\* before all of them have come (SniffHTTP).
SniffedRight ==
  /\ component = "sniffers" => Disp!PiecesDoNotMatter /\ Disp!AttributesOfOneLook
  /\ component = "dispatch" => Disp!SniffingKeepsData /\ Disp!NoFakeTarget

\* A query gets the answer to its own question, a new one when nothing is cached, and
\* waits until it is there (QueryIP, updateIP).  What is known of an outbound comes from
\* its last pings (HealthPingRTTS).
AnswersAreRight ==
  /\ component = "dns" => Dns!RightAnswer /\ Dns!UncachedIsNew /\ Dns!NotFoundMeansExpired
  /\ component = "observatory" => Obs!ReportIsRecent

\* Sniffing ends (DefaultDispatcher); results of outbounds that were removed are
\* forgotten (HealthPing.Cleanup), and no record of a name stays in the cache for ever
\* (CacheCleanup), unless the last answer's Start met a cleanup that was about to stop (the
\* next answer makes up for it), or the Start of an answer found nothing to clean and took
\* the process down (updateIP).
OldIsForgotten ==
  <>[](/\ component = "dispatch" => phase \in {"dispatched", "refused"}
       /\ component = "observatory" =>
            stopped \/ \A t \in {"a"} : results[t] # Obs!NoRing => t \in handlers
       /\ component = "dns" => Dns!Forgotten)
=============================================================================
