----------------------------- MODULE MCTraffic ------------------------------
(***************************************************************************)
(* What a connection meets on its way through the core, on small           *)
(* instances: a behaviour is that of one component.                        *)
(*   inbounds, outbounds   the handlers, added and removed at run time     *)
(*   router     the rules and balancers                                    *)
(*   lookup     the DNS app: which servers are asked, which answers kept   *)
(*   fake       the fake addresses of FakeDNS                              *)
(*   dnsout     the DNS outbound                                           *)
(*   freedom    fragments, noise and addresses of the freedom outbound     *)
(*   dial       the system dialer, with happy eyeballs                     *)
(*   muxclient  the workers that carry multiplexed sessions                *)
(*   stream     connections inside HTTP requests, WebSocket and gRPC       *)
(*   buffers    readers and writers of buffers                             *)
(***************************************************************************)
EXTENDS Handlers, MuxClient, Integers, TLC

VARIABLES component, domainStrategy, rules, balancers, objects, geoips, picked,
          conf, late, family, fake, asking, asked, name, errs, result, lruSize,
          lru, fakeAsking, unknown, setting, questions, next, dnsClient,
          request, response, failed, ipLookup, lock, conn, closed, ready,
          finished, checker, upstream, answers, returned, panicked, part,
          stream, fragCount, piece, wire, given, session, remote, resolved,
          sent, noisy, firstPacket, packets, replies, setup, phase, addrs,
          nextTryIndex, activeNum, timer, resultCh, try, open, winConn,
          cancelled, stopped, t, state, mode, fresh, bf, head, got, put, ended,
          errReason, lost, reader, writer, unread, alloc, over, inside, hand,
          buffer, buffered, flushNext, sink, dropped

-----------------------------------------------------------------------------
(* Handlers: port lists, and the networks that proxies accept *)

MCPortLists == {{}, {1, 2}}
MCNetworks == {{"TCP"}, {"TCP", "UNIX"}, {"UDP"}}
MCSelectors == {{"a"}, {"a", "b"}}

-----------------------------------------------------------------------------
(* Rules and balancers *)

Criteria == {"domain", "user", "vlessRoute", "inboundTag", "port", "sourcePort", "localPort",
             "network", "geoip", "sourceGeoip", "localGeoip", "protocol", "attributes"}
MCHandlers == {1, 2, 3}

Only(key, values) == [f \in Criteria |-> IF f = key THEN values ELSE {}]
Both(a, b) == [f \in Criteria |-> a[f] \cup b[f]]
Rule(tag, ruleTag, balancingTag, fields) ==
  [tag |-> tag, ruleTag |-> ruleTag, balancingTag |-> balancingTag, fields |-> fields]
Balancer(tag, strategy, fallbackTag, maxRTT, expected, baselines) ==
  [tag |-> tag, strategy |-> strategy, fallbackTag |-> fallbackTag, maxRTT |-> maxRTT,
   expected |-> expected, baselines |-> baselines, selectors |-> MCHandlers]

Cn(cidr, reverse) == [code |-> 1, cidr |-> cidr, reverse |-> reverse]

\* Rules without balancers; one balancer of each strategy; two balancers with
\* the same tag; a rule whose balancer is not there.
MCConfigs ==
  {[balancers |-> <<>>,
    rules |-> <<Rule(1, 0, 0, Both(Only("domain", {"a"}), Only("network", {"tcp"}))),
                Rule(2, 1, 0, Only("geoip", {Cn({10}, FALSE)})),
                Rule(3, 2, 0, Both(Only("user", {"u"}),
                                  Only("attributes", {[key |-> "k", values |-> {"v"}]})))>>],
   [balancers |-> <<Balancer(5, "roundrobin", 2, 0, 0, <<>>)>>,
    rules |-> <<Rule(0, 3, 5, Only("network", {"tcp", "udp"}))>>],
   [balancers |-> <<Balancer(6, "leastload", 1, 0, 2, <<>>)>>,
    rules |-> <<Rule(0, 1, 6, Only("geoip", {Cn({11}, FALSE)}))>>],
   [balancers |-> <<Balancer(5, "random", 0, 0, 0, <<>>)>>,
    rules |-> <<Rule(0, 4, 5, Only("sourceGeoip", {Cn({10}, TRUE)}))>>],
   [balancers |-> <<Balancer(6, "leastping", 0, 0, 0, <<>>)>>,
    rules |-> <<Rule(0, 5, 6, Only("port", {443})), Rule(0, 0, 9, Only("port", {80}))>>],
   [balancers |-> <<Balancer(7, "leastload", 0, 100, 0, <<20, 50>>)>>,
    rules |-> <<Rule(0, 6, 7, Only("port", {443}))>>]}

Context(domain, addresses, skip) ==
  [f \in Criteria \cup {"skipDNSResolve"} |->
     CASE f = "domain" -> domain
       [] f = "geoip" -> addresses
       [] f = "sourceGeoip" -> {12}
       [] f = "skipDNSResolve" -> skip
       [] f = "network" -> {"tcp"}
       [] f = "port" -> {443}
       [] f = "user" -> {"u"}
       [] f = "attributes" -> {[key |-> "k", value |-> "v"]}
       [] OTHER -> {}]

MCContexts == {Context({"b"}, {}, FALSE), Context({"b"}, {}, TRUE), Context({}, {11}, FALSE)}

MCResolve == [d \in {"a", "b"} |-> IF d = "b" THEN {10} ELSE {}]

Report(alive, delay, cost) ==
  [reported |-> TRUE, alive |-> alive, delay |-> delay, cost |-> cost, fail |-> 1, all |-> 1]
MCObservations ==
  {[h \in MCHandlers |-> Report(h # 2, 30 * h, 15 * h)],
   [h \in MCHandlers |-> [Report(TRUE, 70, 30) EXCEPT !.reported = (h # 3)]]}

Rout == INSTANCE Router WITH
  Configs <- MCConfigs, Contexts <- MCContexts, Observations <- MCObservations,
  Handlers <- MCHandlers, Resolve <- MCResolve, MaxRules <- 2, MaxBalancers <- 2

-----------------------------------------------------------------------------
(* Names *)

MCNames == {"a", "b", "lan"}
V4 == [fam |-> 4, lists |-> {"cn"}]
V6 == [fam |-> 6, lists |-> {}]
MCAddresses == {V4, V6}

Client(server, names, strategy) ==
  [server |-> server, rules |-> names, strategy |-> strategy, skipFallback |-> FALSE,
   finalQuery |-> FALSE, expected |-> {}, unexpected |-> {}, actPrior |-> FALSE, actUnprior |-> FALSE]

NoHosts == [n \in MCNames |-> [kind |-> "none"]]
Hosts(f) == [n \in MCNames |-> IF n \in DOMAIN f THEN f[n] ELSE [kind |-> "none"]]

Setting(clients, hosts, strategy, disable, disableIfMatch) ==
  [clients |-> clients, hosts |-> hosts, strategy |-> strategy,
   disableFallback |-> disable, disableFallbackIfMatch |-> disableIfMatch]

MCSettings ==
  {Setting(<<Client("udp", <<{"a"}, {"b"}>>, "UseIP"),
             [Client("udp", <<{"a"}>>, "UseIP4") EXCEPT !.skipFallback = TRUE, !.expected = {"cn"}],
             Client("fakedns", <<>>, "UseIP")>>, NoHosts, "UseIP", FALSE, dm) : dm \in BOOLEAN}
  \cup
  {Setting(<<[Client("udp", <<>>, "UseIP") EXCEPT !.skipFallback = TRUE, !.unexpected = {"cn"}, !.actUnprior = u],
             [Client("localhost", <<{"b"}>>, "UseIP6") EXCEPT !.finalQuery = TRUE]>>,
           Hosts("a" :> [kind |-> "domain", name |-> "b"]), "UseIP", df, FALSE) : u, df \in BOOLEAN}
  \cup
  {Setting(<<[Client("localhost", <<{"a"}>>, "UseIP") EXCEPT !.expected = {"cn"}, !.actPrior = TRUE],
             [Client("udp", <<{"b"}>>, "UseIP") EXCEPT !.unexpected = {"cn"}]>>,
           Hosts(("a" :> [kind |-> "ips", ips |-> {V4}]) @@ ("b" :> [kind |-> "domain", name |-> "b"])
                 @@ ("lan" :> [kind |-> "rcode", code |-> rc])), st, FALSE, FALSE) :
       rc \in {0, 3}, st \in {"UseIP", "UseIP6"}}
  \cup {Setting(<<Client("udp", <<>>, "UseIP4")>>, NoHosts, "UseIP6", FALSE, FALSE)}

Names == INSTANCE DNS WITH
  Settings <- MCSettings, Names <- MCNames, Addresses <- MCAddresses,
  Domains <- {"a", "b", "c", "d"}, Rooms <- <<2>>, LruSizes <- 0 .. 4, Callers <- {1, 2},
  Questions <- {<<"A", "TXT">>, <<"TXT", "MX", "AAAA">>},
  OutboundSettings <- [nonIP : {"reject", "drop", "skip"}, block : {{}, {"MX"}}, own : BOOLEAN]

-----------------------------------------------------------------------------
(* Connections *)

\* Streams that begin with a whole TLS hello, with a part of one, with none.
Fragmenting(from, to) ==
  [packetsFrom : {from}, packetsTo : {to}, length : {{1}, {2, 3}}, maxSplit : {{0}, {1, 2}},
   interval : BOOLEAN]

\* A name with addresses of both families or with none, an SRV record that
\* replaces host and port or one of them, proxies that are there or not.
Out == INSTANCE Outgoing WITH
  Setups <- [net : {"tcp", "udp"}, dest : {[addr |-> "domain", port |-> 1]}, by : {"none", "port", "both"},
             record : {<<[addr |-> "ip", port |-> 2]>>}, strategy : {1, 2, 5, 8}, freedom : {TRUE},
             target : {4}, known : {<<>>, <<<<4, 1>>, <<4, 2>>, <<6, 1>>>>},
             happy : {<<>>, <<[delay |-> 1, max |-> 2, v6 |-> TRUE, interleave |-> 1]>>},
             proxy : {"", "known", "none"}, gateway : {0, 6}, idle : {-1, 0, 1, 3}, interval : {3},
             bind : {FALSE}, options : {{"mark", "tfo"}}, refused : {{"tfo"}}],
  Word <- 8,
  Streams <- [frag : Fragmenting(0, 1) \cup Fragmenting(0, 0) \cup Fragmenting(2, 3),
              writes : {<<<<22, 3, 1, 0, 5, 1, 2, 3, 4, 5, 23, 7>>, <<8, 9, 10>>, <<11>>>>,
                        <<<<22, 3, 1, 0, 9, 1, 2, 3, 4, 5>>, <<8, 9, 10>>, <<11>>>>,
                        <<<<23, 1>>, <<2, 3, 4>>>>}],
  Sessions <- [target : {"a", "v4"}, port : {53, 443}, over : {"none", "b"}, overPort : {0, 53},
               strategy : {"asis", "use", "force"}, noises : {{}, {"ip"}, {"ipv6"}}],
  Packets <- {"a", "b", "v4"}, MaxPackets <- 3,
  Resolved <- ("a" :> {"v4", "v6"} @@ "b" :> {}),
  System <- ("a" :> {"v4", "w4"} @@ "b" :> {"w4", "v6"}),
  V6 <- {"v6"}, None <- "none"

Bytes == INSTANCE Streams WITH
  Transports <- [kind : {"header", "upgrade"}, ed : {0}, match : BOOLEAN]
                \cup [kind : {"ws"}, ed : {0, 1}, match : {TRUE}]
                \cup [kind : {"upgrade"}, ed : {1}, match : {TRUE}]
                \cup [kind : {"grpc", "multi"}, ed : {0}, match : {TRUE}],
  WriteSizes <- {1, 2}, ReadSizes <- {1, 3}, MaxData <- 2, MaxHeader <- 20, MinBufio <- 2,
  BufData <- 5, Size <- 2, MaxAlloc <- 4, Sizes <- {1, 3}, MaxHand <- 3

-----------------------------------------------------------------------------
allVars == <<component, inTag, inbounds, inWorkers, listening, inRunning,
             inMade, outTag, outbounds, defaultHandler, outMade, tagsCache,
             select, workers, created, sessions, count, smClosed, done, mpc,
             check, dpc, worker, tries, bound, sclosed, released, fetch,
             domainStrategy, rules, balancers, objects, geoips, picked, conf,
             late, family, fake, asking, asked, name, errs, result, lruSize,
             lru, fakeAsking, unknown, setting, questions, next, dnsClient,
             request, response, failed, ipLookup, lock, conn, closed, ready,
             finished, checker, upstream, answers, returned, panicked, part,
             stream, fragCount, piece, wire, given, session, remote, resolved,
             sent, noisy, firstPacket, packets, replies, setup, phase, addrs,
             nextTryIndex, activeNum, timer, resultCh, try, open, winConn,
             cancelled, stopped, t, state, mode, fresh, bf, head, got, put,
             ended, errReason, lost, reader, writer, unread, alloc, over,
             inside, hand, buffer, buffered, flushNext, sink, dropped>>

AtInbounds ==
  /\ component = "inbounds"
  /\ UNCHANGED <<component, outTag, outbounds, defaultHandler, outMade,
                 tagsCache, select, workers, created, sessions, count,
                 smClosed, done, mpc, check, dpc, worker, tries, bound,
                 sclosed, released, fetch, domainStrategy, rules, balancers,
                 objects, geoips, picked, conf, late, family, fake, asking,
                 asked, name, errs, result, lruSize, lru, fakeAsking, unknown,
                 setting, questions, next, dnsClient, request, response,
                 failed, ipLookup, lock, conn, closed, ready, finished,
                 checker, upstream, answers, returned, panicked, part, stream,
                 fragCount, piece, wire, given, session, remote, resolved,
                 sent, noisy, firstPacket, packets, replies, setup, phase,
                 addrs, nextTryIndex, activeNum, timer, resultCh, try, open,
                 winConn, cancelled, stopped, t, state, mode, fresh, bf, head,
                 got, put, ended, errReason, lost, reader, writer, unread,
                 alloc, over, inside, hand, buffer, buffered, flushNext, sink,
                 dropped>>

AtOutbounds ==
  /\ component = "outbounds"
  /\ UNCHANGED <<component, inTag, inbounds, inWorkers, listening, inRunning,
                 inMade, workers, created, sessions, count, smClosed, done,
                 mpc, check, dpc, worker, tries, bound, sclosed, released,
                 fetch, domainStrategy, rules, balancers, objects, geoips,
                 picked, conf, late, family, fake, asking, asked, name, errs,
                 result, lruSize, lru, fakeAsking, unknown, setting, questions,
                 next, dnsClient, request, response, failed, ipLookup, lock,
                 conn, closed, ready, finished, checker, upstream, answers,
                 returned, panicked, part, stream, fragCount, piece, wire,
                 given, session, remote, resolved, sent, noisy, firstPacket,
                 packets, replies, setup, phase, addrs, nextTryIndex,
                 activeNum, timer, resultCh, try, open, winConn, cancelled,
                 stopped, t, state, mode, fresh, bf, head, got, put, ended,
                 errReason, lost, reader, writer, unread, alloc, over, inside,
                 hand, buffer, buffered, flushNext, sink, dropped>>

AtMuxclient ==
  /\ component = "muxclient"
  /\ UNCHANGED <<component, inTag, inbounds, inWorkers, listening, inRunning,
                 inMade, outTag, outbounds, defaultHandler, outMade, tagsCache,
                 select, domainStrategy, rules, balancers, objects, geoips,
                 picked, conf, late, family, fake, asking, asked, name, errs,
                 result, lruSize, lru, fakeAsking, unknown, setting, questions,
                 next, dnsClient, request, response, failed, ipLookup, lock,
                 conn, closed, ready, finished, checker, upstream, answers,
                 returned, panicked, part, stream, fragCount, piece, wire,
                 given, session, remote, resolved, sent, noisy, firstPacket,
                 packets, replies, setup, phase, addrs, nextTryIndex,
                 activeNum, timer, resultCh, try, open, winConn, cancelled,
                 stopped, t, state, mode, fresh, bf, head, got, put, ended,
                 errReason, lost, reader, writer, unread, alloc, over, inside,
                 hand, buffer, buffered, flushNext, sink, dropped>>

AtRouter ==
  /\ component = "router"
  /\ UNCHANGED <<component, inTag, inbounds, inWorkers, listening, inRunning,
                 inMade, outTag, outbounds, defaultHandler, outMade, tagsCache,
                 select, workers, created, sessions, count, smClosed, done,
                 mpc, check, dpc, worker, tries, bound, sclosed, released,
                 fetch, conf, late, family, fake, asking, asked, name, errs,
                 result, lruSize, lru, fakeAsking, unknown, setting, questions,
                 next, dnsClient, request, response, failed, ipLookup, lock,
                 conn, closed, ready, finished, checker, upstream, answers,
                 returned, panicked, part, stream, fragCount, piece, wire,
                 given, session, remote, resolved, sent, noisy, firstPacket,
                 packets, replies, setup, phase, addrs, nextTryIndex,
                 activeNum, timer, resultCh, try, open, winConn, cancelled,
                 stopped, t, state, mode, fresh, bf, head, got, put, ended,
                 errReason, lost, reader, writer, unread, alloc, over, inside,
                 hand, buffer, buffered, flushNext, sink, dropped>>

AtLookup ==
  /\ component = "lookup"
  /\ UNCHANGED <<component, inTag, inbounds, inWorkers, listening, inRunning,
                 inMade, outTag, outbounds, defaultHandler, outMade, tagsCache,
                 select, workers, created, sessions, count, smClosed, done,
                 mpc, check, dpc, worker, tries, bound, sclosed, released,
                 fetch, domainStrategy, rules, balancers, objects, geoips,
                 picked, lruSize, lru, fakeAsking, unknown, setting, questions,
                 next, dnsClient, request, response, failed, ipLookup, lock,
                 conn, closed, ready, finished, checker, upstream, answers,
                 returned, panicked, part, stream, fragCount, piece, wire,
                 given, session, remote, resolved, sent, noisy, firstPacket,
                 packets, replies, setup, phase, addrs, nextTryIndex,
                 activeNum, timer, resultCh, try, open, winConn, cancelled,
                 stopped, t, state, mode, fresh, bf, head, got, put, ended,
                 errReason, lost, reader, writer, unread, alloc, over, inside,
                 hand, buffer, buffered, flushNext, sink, dropped>>

AtFake ==
  /\ component = "fake"
  /\ UNCHANGED <<component, inTag, inbounds, inWorkers, listening, inRunning,
                 inMade, outTag, outbounds, defaultHandler, outMade, tagsCache,
                 select, workers, created, sessions, count, smClosed, done,
                 mpc, check, dpc, worker, tries, bound, sclosed, released,
                 fetch, domainStrategy, rules, balancers, objects, geoips,
                 picked, conf, late, family, fake, asking, asked, name, errs,
                 result, setting, questions, next, dnsClient, request,
                 response, failed, ipLookup, lock, conn, closed, ready,
                 finished, checker, upstream, answers, returned, panicked,
                 part, stream, fragCount, piece, wire, given, session, remote,
                 resolved, sent, noisy, firstPacket, packets, replies, setup,
                 phase, addrs, nextTryIndex, activeNum, timer, resultCh, try,
                 open, winConn, cancelled, stopped, t, state, mode, fresh, bf,
                 head, got, put, ended, errReason, lost, reader, writer,
                 unread, alloc, over, inside, hand, buffer, buffered,
                 flushNext, sink, dropped>>

AtDnsout ==
  /\ component = "dnsout"
  /\ UNCHANGED <<component, inTag, inbounds, inWorkers, listening, inRunning,
                 inMade, outTag, outbounds, defaultHandler, outMade, tagsCache,
                 select, workers, created, sessions, count, smClosed, done,
                 mpc, check, dpc, worker, tries, bound, sclosed, released,
                 fetch, domainStrategy, rules, balancers, objects, geoips,
                 picked, conf, late, family, fake, asking, asked, name, errs,
                 result, lruSize, lru, fakeAsking, unknown, part, stream,
                 fragCount, piece, wire, given, session, remote, resolved,
                 sent, noisy, firstPacket, packets, replies, setup, phase,
                 addrs, nextTryIndex, activeNum, timer, resultCh, try, open,
                 winConn, cancelled, stopped, t, state, mode, fresh, bf, head,
                 got, put, ended, errReason, lost, reader, writer, unread,
                 alloc, over, inside, hand, buffer, buffered, flushNext, sink,
                 dropped>>

AtFreedom ==
  /\ component = "freedom"
  /\ UNCHANGED <<component, inTag, inbounds, inWorkers, listening, inRunning,
                 inMade, outTag, outbounds, defaultHandler, outMade, tagsCache,
                 select, workers, created, sessions, count, smClosed, done,
                 mpc, check, dpc, worker, tries, bound, sclosed, released,
                 fetch, domainStrategy, rules, balancers, objects, geoips,
                 picked, conf, late, family, fake, asking, asked, name, errs,
                 result, lruSize, lru, fakeAsking, unknown, setting, questions,
                 next, dnsClient, request, response, failed, ipLookup, lock,
                 conn, closed, ready, finished, checker, upstream, answers,
                 returned, panicked, setup, phase, addrs, nextTryIndex,
                 activeNum, timer, resultCh, try, open, winConn, cancelled,
                 stopped, t, state, mode, fresh, bf, head, got, put, ended,
                 errReason, lost, reader, writer, unread, alloc, over, inside,
                 hand, buffer, buffered, flushNext, sink, dropped>>

AtDial ==
  /\ component = "dial"
  /\ UNCHANGED <<component, inTag, inbounds, inWorkers, listening, inRunning,
                 inMade, outTag, outbounds, defaultHandler, outMade, tagsCache,
                 select, workers, created, sessions, count, smClosed, done,
                 mpc, check, dpc, worker, tries, bound, sclosed, released,
                 fetch, domainStrategy, rules, balancers, objects, geoips,
                 picked, conf, late, family, fake, asking, asked, name, errs,
                 result, lruSize, lru, fakeAsking, unknown, setting, questions,
                 next, dnsClient, request, response, failed, ipLookup, lock,
                 conn, closed, ready, finished, checker, upstream, answers,
                 returned, panicked, part, stream, fragCount, piece, wire,
                 given, session, remote, resolved, sent, noisy, firstPacket,
                 packets, replies, t, state, mode, fresh, bf, head, got, put,
                 ended, errReason, lost, reader, writer, unread, alloc, over,
                 inside, hand, buffer, buffered, flushNext, sink, dropped>>

AtStream ==
  /\ component = "stream"
  /\ UNCHANGED <<component, inTag, inbounds, inWorkers, listening, inRunning,
                 inMade, outTag, outbounds, defaultHandler, outMade, tagsCache,
                 select, workers, created, sessions, count, smClosed, done,
                 mpc, check, dpc, worker, tries, bound, sclosed, released,
                 fetch, domainStrategy, rules, balancers, objects, geoips,
                 picked, conf, late, family, fake, asking, asked, name, errs,
                 result, lruSize, lru, fakeAsking, unknown, setting, questions,
                 next, dnsClient, request, response, failed, ipLookup, lock,
                 conn, closed, ready, finished, checker, upstream, answers,
                 returned, panicked, part, stream, fragCount, piece, given,
                 session, remote, resolved, sent, noisy, firstPacket, packets,
                 replies, setup, phase, addrs, nextTryIndex, activeNum, timer,
                 resultCh, try, open, winConn, cancelled, stopped, reader,
                 writer, unread, alloc, over, inside, hand, buffer, buffered,
                 flushNext, sink, dropped>>

AtBuffers ==
  /\ component = "buffers"
  /\ UNCHANGED <<component, inTag, inbounds, inWorkers, listening, inRunning,
                 inMade, outTag, outbounds, defaultHandler, outMade, tagsCache,
                 select, workers, created, sessions, count, smClosed, done,
                 mpc, check, dpc, worker, tries, bound, sclosed, released,
                 fetch, domainStrategy, rules, balancers, objects, geoips,
                 picked, conf, late, family, fake, asking, asked, name, errs,
                 result, lruSize, lru, fakeAsking, unknown, setting, questions,
                 next, dnsClient, request, response, ipLookup, lock, conn,
                 closed, ready, finished, checker, upstream, answers, returned,
                 part, stream, fragCount, piece, wire, given, session, remote,
                 resolved, sent, noisy, firstPacket, packets, replies, setup,
                 phase, addrs, nextTryIndex, activeNum, timer, resultCh, try,
                 open, winConn, cancelled, stopped, t, state, mode, fresh, bf,
                 head, got, put, ended, errReason, lost>>

AllInit ==
  \/ /\ component = "inbounds"
     /\ InboundInit
     /\ OutboundInit
     /\ Init
     /\ domainStrategy = 0 /\ rules = 0 /\ balancers = 0 /\ objects = 0
     /\ geoips = 0 /\ picked = 0 /\ conf = 0 /\ late = 0 /\ family = 0
     /\ fake = 0 /\ asking = 0 /\ asked = 0 /\ name = 0 /\ errs = 0
     /\ result = 0 /\ lruSize = 0 /\ lru = 0 /\ fakeAsking = 0 /\ unknown = 0
     /\ setting = 0 /\ questions = 0 /\ next = 0 /\ dnsClient = 0
     /\ request = 0 /\ response = 0 /\ failed = 0 /\ ipLookup = 0 /\ lock = 0
     /\ conn = 0 /\ closed = 0 /\ ready = 0 /\ finished = 0 /\ checker = 0
     /\ upstream = 0 /\ answers = 0 /\ returned = 0 /\ panicked = 0
     /\ part = 0 /\ stream = 0 /\ fragCount = 0 /\ piece = 0 /\ wire = 0
     /\ given = 0 /\ session = 0 /\ remote = 0 /\ resolved = 0 /\ sent = 0
     /\ noisy = 0 /\ firstPacket = 0 /\ packets = 0 /\ replies = 0
     /\ setup = 0 /\ phase = 0 /\ addrs = 0 /\ nextTryIndex = 0
     /\ activeNum = 0 /\ timer = 0 /\ resultCh = 0 /\ try = 0 /\ open = 0
     /\ winConn = 0 /\ cancelled = 0 /\ stopped = 0 /\ t = 0 /\ state = 0
     /\ mode = 0 /\ fresh = 0 /\ bf = 0 /\ head = 0 /\ got = 0 /\ put = 0
     /\ ended = 0 /\ errReason = 0 /\ lost = 0 /\ reader = 0 /\ writer = 0
     /\ unread = 0 /\ alloc = 0 /\ over = 0 /\ inside = 0 /\ hand = 0
     /\ buffer = 0 /\ buffered = 0 /\ flushNext = 0 /\ sink = 0 /\ dropped = 0
  \/ /\ component = "outbounds"
     /\ OutboundInit
     /\ InboundInit
     /\ Init
     /\ domainStrategy = 0 /\ rules = 0 /\ balancers = 0 /\ objects = 0
     /\ geoips = 0 /\ picked = 0 /\ conf = 0 /\ late = 0 /\ family = 0
     /\ fake = 0 /\ asking = 0 /\ asked = 0 /\ name = 0 /\ errs = 0
     /\ result = 0 /\ lruSize = 0 /\ lru = 0 /\ fakeAsking = 0 /\ unknown = 0
     /\ setting = 0 /\ questions = 0 /\ next = 0 /\ dnsClient = 0
     /\ request = 0 /\ response = 0 /\ failed = 0 /\ ipLookup = 0 /\ lock = 0
     /\ conn = 0 /\ closed = 0 /\ ready = 0 /\ finished = 0 /\ checker = 0
     /\ upstream = 0 /\ answers = 0 /\ returned = 0 /\ panicked = 0
     /\ part = 0 /\ stream = 0 /\ fragCount = 0 /\ piece = 0 /\ wire = 0
     /\ given = 0 /\ session = 0 /\ remote = 0 /\ resolved = 0 /\ sent = 0
     /\ noisy = 0 /\ firstPacket = 0 /\ packets = 0 /\ replies = 0
     /\ setup = 0 /\ phase = 0 /\ addrs = 0 /\ nextTryIndex = 0
     /\ activeNum = 0 /\ timer = 0 /\ resultCh = 0 /\ try = 0 /\ open = 0
     /\ winConn = 0 /\ cancelled = 0 /\ stopped = 0 /\ t = 0 /\ state = 0
     /\ mode = 0 /\ fresh = 0 /\ bf = 0 /\ head = 0 /\ got = 0 /\ put = 0
     /\ ended = 0 /\ errReason = 0 /\ lost = 0 /\ reader = 0 /\ writer = 0
     /\ unread = 0 /\ alloc = 0 /\ over = 0 /\ inside = 0 /\ hand = 0
     /\ buffer = 0 /\ buffered = 0 /\ flushNext = 0 /\ sink = 0 /\ dropped = 0
  \/ /\ component = "muxclient"
     /\ Init
     /\ InboundInit
     /\ OutboundInit
     /\ domainStrategy = 0 /\ rules = 0 /\ balancers = 0 /\ objects = 0
     /\ geoips = 0 /\ picked = 0 /\ conf = 0 /\ late = 0 /\ family = 0
     /\ fake = 0 /\ asking = 0 /\ asked = 0 /\ name = 0 /\ errs = 0
     /\ result = 0 /\ lruSize = 0 /\ lru = 0 /\ fakeAsking = 0 /\ unknown = 0
     /\ setting = 0 /\ questions = 0 /\ next = 0 /\ dnsClient = 0
     /\ request = 0 /\ response = 0 /\ failed = 0 /\ ipLookup = 0 /\ lock = 0
     /\ conn = 0 /\ closed = 0 /\ ready = 0 /\ finished = 0 /\ checker = 0
     /\ upstream = 0 /\ answers = 0 /\ returned = 0 /\ panicked = 0
     /\ part = 0 /\ stream = 0 /\ fragCount = 0 /\ piece = 0 /\ wire = 0
     /\ given = 0 /\ session = 0 /\ remote = 0 /\ resolved = 0 /\ sent = 0
     /\ noisy = 0 /\ firstPacket = 0 /\ packets = 0 /\ replies = 0
     /\ setup = 0 /\ phase = 0 /\ addrs = 0 /\ nextTryIndex = 0
     /\ activeNum = 0 /\ timer = 0 /\ resultCh = 0 /\ try = 0 /\ open = 0
     /\ winConn = 0 /\ cancelled = 0 /\ stopped = 0 /\ t = 0 /\ state = 0
     /\ mode = 0 /\ fresh = 0 /\ bf = 0 /\ head = 0 /\ got = 0 /\ put = 0
     /\ ended = 0 /\ errReason = 0 /\ lost = 0 /\ reader = 0 /\ writer = 0
     /\ unread = 0 /\ alloc = 0 /\ over = 0 /\ inside = 0 /\ hand = 0
     /\ buffer = 0 /\ buffered = 0 /\ flushNext = 0 /\ sink = 0 /\ dropped = 0
  \/ /\ component = "router"
     /\ Rout!Init
     /\ InboundInit
     /\ OutboundInit
     /\ Init
     /\ conf = 0 /\ late = 0 /\ family = 0 /\ fake = 0 /\ asking = 0
     /\ asked = 0 /\ name = 0 /\ errs = 0 /\ result = 0 /\ lruSize = 0
     /\ lru = 0 /\ fakeAsking = 0 /\ unknown = 0 /\ setting = 0
     /\ questions = 0 /\ next = 0 /\ dnsClient = 0 /\ request = 0
     /\ response = 0 /\ failed = 0 /\ ipLookup = 0 /\ lock = 0 /\ conn = 0
     /\ closed = 0 /\ ready = 0 /\ finished = 0 /\ checker = 0 /\ upstream = 0
     /\ answers = 0 /\ returned = 0 /\ panicked = 0 /\ part = 0 /\ stream = 0
     /\ fragCount = 0 /\ piece = 0 /\ wire = 0 /\ given = 0 /\ session = 0
     /\ remote = 0 /\ resolved = 0 /\ sent = 0 /\ noisy = 0 /\ firstPacket = 0
     /\ packets = 0 /\ replies = 0 /\ setup = 0 /\ phase = 0 /\ addrs = 0
     /\ nextTryIndex = 0 /\ activeNum = 0 /\ timer = 0 /\ resultCh = 0
     /\ try = 0 /\ open = 0 /\ winConn = 0 /\ cancelled = 0 /\ stopped = 0
     /\ t = 0 /\ state = 0 /\ mode = 0 /\ fresh = 0 /\ bf = 0 /\ head = 0
     /\ got = 0 /\ put = 0 /\ ended = 0 /\ errReason = 0 /\ lost = 0
     /\ reader = 0 /\ writer = 0 /\ unread = 0 /\ alloc = 0 /\ over = 0
     /\ inside = 0 /\ hand = 0 /\ buffer = 0 /\ buffered = 0 /\ flushNext = 0
     /\ sink = 0 /\ dropped = 0
  \/ /\ component = "lookup"
     /\ Names!LookupInit
     /\ InboundInit
     /\ OutboundInit
     /\ Init
     /\ domainStrategy = 0 /\ rules = 0 /\ balancers = 0 /\ objects = 0
     /\ geoips = 0 /\ picked = 0 /\ lruSize = 0 /\ lru = 0 /\ fakeAsking = 0
     /\ unknown = 0 /\ setting = 0 /\ questions = 0 /\ next = 0
     /\ dnsClient = 0 /\ request = 0 /\ response = 0 /\ failed = 0
     /\ ipLookup = 0 /\ lock = 0 /\ conn = 0 /\ closed = 0 /\ ready = 0
     /\ finished = 0 /\ checker = 0 /\ upstream = 0 /\ answers = 0
     /\ returned = 0 /\ panicked = 0 /\ part = 0 /\ stream = 0
     /\ fragCount = 0 /\ piece = 0 /\ wire = 0 /\ given = 0 /\ session = 0
     /\ remote = 0 /\ resolved = 0 /\ sent = 0 /\ noisy = 0 /\ firstPacket = 0
     /\ packets = 0 /\ replies = 0 /\ setup = 0 /\ phase = 0 /\ addrs = 0
     /\ nextTryIndex = 0 /\ activeNum = 0 /\ timer = 0 /\ resultCh = 0
     /\ try = 0 /\ open = 0 /\ winConn = 0 /\ cancelled = 0 /\ stopped = 0
     /\ t = 0 /\ state = 0 /\ mode = 0 /\ fresh = 0 /\ bf = 0 /\ head = 0
     /\ got = 0 /\ put = 0 /\ ended = 0 /\ errReason = 0 /\ lost = 0
     /\ reader = 0 /\ writer = 0 /\ unread = 0 /\ alloc = 0 /\ over = 0
     /\ inside = 0 /\ hand = 0 /\ buffer = 0 /\ buffered = 0 /\ flushNext = 0
     /\ sink = 0 /\ dropped = 0
  \/ /\ component = "fake"
     /\ Names!FakeInit
     /\ InboundInit
     /\ OutboundInit
     /\ Init
     /\ domainStrategy = 0 /\ rules = 0 /\ balancers = 0 /\ objects = 0
     /\ geoips = 0 /\ picked = 0 /\ conf = 0 /\ late = 0 /\ family = 0
     /\ fake = 0 /\ asking = 0 /\ asked = 0 /\ name = 0 /\ errs = 0
     /\ result = 0 /\ setting = 0 /\ questions = 0 /\ next = 0
     /\ dnsClient = 0 /\ request = 0 /\ response = 0 /\ failed = 0
     /\ ipLookup = 0 /\ lock = 0 /\ conn = 0 /\ closed = 0 /\ ready = 0
     /\ finished = 0 /\ checker = 0 /\ upstream = 0 /\ answers = 0
     /\ returned = 0 /\ panicked = 0 /\ part = 0 /\ stream = 0
     /\ fragCount = 0 /\ piece = 0 /\ wire = 0 /\ given = 0 /\ session = 0
     /\ remote = 0 /\ resolved = 0 /\ sent = 0 /\ noisy = 0 /\ firstPacket = 0
     /\ packets = 0 /\ replies = 0 /\ setup = 0 /\ phase = 0 /\ addrs = 0
     /\ nextTryIndex = 0 /\ activeNum = 0 /\ timer = 0 /\ resultCh = 0
     /\ try = 0 /\ open = 0 /\ winConn = 0 /\ cancelled = 0 /\ stopped = 0
     /\ t = 0 /\ state = 0 /\ mode = 0 /\ fresh = 0 /\ bf = 0 /\ head = 0
     /\ got = 0 /\ put = 0 /\ ended = 0 /\ errReason = 0 /\ lost = 0
     /\ reader = 0 /\ writer = 0 /\ unread = 0 /\ alloc = 0 /\ over = 0
     /\ inside = 0 /\ hand = 0 /\ buffer = 0 /\ buffered = 0 /\ flushNext = 0
     /\ sink = 0 /\ dropped = 0
  \/ /\ component = "dnsout"
     /\ Names!OutboundInit
     /\ InboundInit
     /\ OutboundInit
     /\ Init
     /\ domainStrategy = 0 /\ rules = 0 /\ balancers = 0 /\ objects = 0
     /\ geoips = 0 /\ picked = 0 /\ conf = 0 /\ late = 0 /\ family = 0
     /\ fake = 0 /\ asking = 0 /\ asked = 0 /\ name = 0 /\ errs = 0
     /\ result = 0 /\ lruSize = 0 /\ lru = 0 /\ fakeAsking = 0 /\ unknown = 0
     /\ part = 0 /\ stream = 0 /\ fragCount = 0 /\ piece = 0 /\ wire = 0
     /\ given = 0 /\ session = 0 /\ remote = 0 /\ resolved = 0 /\ sent = 0
     /\ noisy = 0 /\ firstPacket = 0 /\ packets = 0 /\ replies = 0
     /\ setup = 0 /\ phase = 0 /\ addrs = 0 /\ nextTryIndex = 0
     /\ activeNum = 0 /\ timer = 0 /\ resultCh = 0 /\ try = 0 /\ open = 0
     /\ winConn = 0 /\ cancelled = 0 /\ stopped = 0 /\ t = 0 /\ state = 0
     /\ mode = 0 /\ fresh = 0 /\ bf = 0 /\ head = 0 /\ got = 0 /\ put = 0
     /\ ended = 0 /\ errReason = 0 /\ lost = 0 /\ reader = 0 /\ writer = 0
     /\ unread = 0 /\ alloc = 0 /\ over = 0 /\ inside = 0 /\ hand = 0
     /\ buffer = 0 /\ buffered = 0 /\ flushNext = 0 /\ sink = 0 /\ dropped = 0
  \/ /\ component = "freedom"
     /\ Out!FreedomInit
     /\ InboundInit
     /\ OutboundInit
     /\ Init
     /\ domainStrategy = 0 /\ rules = 0 /\ balancers = 0 /\ objects = 0
     /\ geoips = 0 /\ picked = 0 /\ conf = 0 /\ late = 0 /\ family = 0
     /\ fake = 0 /\ asking = 0 /\ asked = 0 /\ name = 0 /\ errs = 0
     /\ result = 0 /\ lruSize = 0 /\ lru = 0 /\ fakeAsking = 0 /\ unknown = 0
     /\ setting = 0 /\ questions = 0 /\ next = 0 /\ dnsClient = 0
     /\ request = 0 /\ response = 0 /\ failed = 0 /\ ipLookup = 0 /\ lock = 0
     /\ conn = 0 /\ closed = 0 /\ ready = 0 /\ finished = 0 /\ checker = 0
     /\ upstream = 0 /\ answers = 0 /\ returned = 0 /\ panicked = 0
     /\ setup = 0 /\ phase = 0 /\ addrs = 0 /\ nextTryIndex = 0
     /\ activeNum = 0 /\ timer = 0 /\ resultCh = 0 /\ try = 0 /\ open = 0
     /\ winConn = 0 /\ cancelled = 0 /\ stopped = 0 /\ t = 0 /\ state = 0
     /\ mode = 0 /\ fresh = 0 /\ bf = 0 /\ head = 0 /\ got = 0 /\ put = 0
     /\ ended = 0 /\ errReason = 0 /\ lost = 0 /\ reader = 0 /\ writer = 0
     /\ unread = 0 /\ alloc = 0 /\ over = 0 /\ inside = 0 /\ hand = 0
     /\ buffer = 0 /\ buffered = 0 /\ flushNext = 0 /\ sink = 0 /\ dropped = 0
  \/ /\ component = "dial"
     /\ Out!DialInit
     /\ InboundInit
     /\ OutboundInit
     /\ Init
     /\ domainStrategy = 0 /\ rules = 0 /\ balancers = 0 /\ objects = 0
     /\ geoips = 0 /\ picked = 0 /\ conf = 0 /\ late = 0 /\ family = 0
     /\ fake = 0 /\ asking = 0 /\ asked = 0 /\ name = 0 /\ errs = 0
     /\ result = 0 /\ lruSize = 0 /\ lru = 0 /\ fakeAsking = 0 /\ unknown = 0
     /\ setting = 0 /\ questions = 0 /\ next = 0 /\ dnsClient = 0
     /\ request = 0 /\ response = 0 /\ failed = 0 /\ ipLookup = 0 /\ lock = 0
     /\ conn = 0 /\ closed = 0 /\ ready = 0 /\ finished = 0 /\ checker = 0
     /\ upstream = 0 /\ answers = 0 /\ returned = 0 /\ panicked = 0
     /\ part = 0 /\ stream = 0 /\ fragCount = 0 /\ piece = 0 /\ wire = 0
     /\ given = 0 /\ session = 0 /\ remote = 0 /\ resolved = 0 /\ sent = 0
     /\ noisy = 0 /\ firstPacket = 0 /\ packets = 0 /\ replies = 0 /\ t = 0
     /\ state = 0 /\ mode = 0 /\ fresh = 0 /\ bf = 0 /\ head = 0 /\ got = 0
     /\ put = 0 /\ ended = 0 /\ errReason = 0 /\ lost = 0 /\ reader = 0
     /\ writer = 0 /\ unread = 0 /\ alloc = 0 /\ over = 0 /\ inside = 0
     /\ hand = 0 /\ buffer = 0 /\ buffered = 0 /\ flushNext = 0 /\ sink = 0
     /\ dropped = 0
  \/ /\ component = "stream"
     /\ Bytes!ConnInit
     /\ InboundInit
     /\ OutboundInit
     /\ Init
     /\ domainStrategy = 0 /\ rules = 0 /\ balancers = 0 /\ objects = 0
     /\ geoips = 0 /\ picked = 0 /\ conf = 0 /\ late = 0 /\ family = 0
     /\ fake = 0 /\ asking = 0 /\ asked = 0 /\ name = 0 /\ errs = 0
     /\ result = 0 /\ lruSize = 0 /\ lru = 0 /\ fakeAsking = 0 /\ unknown = 0
     /\ setting = 0 /\ questions = 0 /\ next = 0 /\ dnsClient = 0
     /\ request = 0 /\ response = 0 /\ failed = 0 /\ ipLookup = 0 /\ lock = 0
     /\ conn = 0 /\ closed = 0 /\ ready = 0 /\ finished = 0 /\ checker = 0
     /\ upstream = 0 /\ answers = 0 /\ returned = 0 /\ panicked = 0
     /\ part = 0 /\ stream = 0 /\ fragCount = 0 /\ piece = 0 /\ given = 0
     /\ session = 0 /\ remote = 0 /\ resolved = 0 /\ sent = 0 /\ noisy = 0
     /\ firstPacket = 0 /\ packets = 0 /\ replies = 0 /\ setup = 0
     /\ phase = 0 /\ addrs = 0 /\ nextTryIndex = 0 /\ activeNum = 0
     /\ timer = 0 /\ resultCh = 0 /\ try = 0 /\ open = 0 /\ winConn = 0
     /\ cancelled = 0 /\ stopped = 0 /\ reader = 0 /\ writer = 0 /\ unread = 0
     /\ alloc = 0 /\ over = 0 /\ inside = 0 /\ hand = 0 /\ buffer = 0
     /\ buffered = 0 /\ flushNext = 0 /\ sink = 0 /\ dropped = 0
  \/ /\ component = "buffers"
     /\ Bytes!BufInit
     /\ InboundInit
     /\ OutboundInit
     /\ Init
     /\ domainStrategy = 0 /\ rules = 0 /\ balancers = 0 /\ objects = 0
     /\ geoips = 0 /\ picked = 0 /\ conf = 0 /\ late = 0 /\ family = 0
     /\ fake = 0 /\ asking = 0 /\ asked = 0 /\ name = 0 /\ errs = 0
     /\ result = 0 /\ lruSize = 0 /\ lru = 0 /\ fakeAsking = 0 /\ unknown = 0
     /\ setting = 0 /\ questions = 0 /\ next = 0 /\ dnsClient = 0
     /\ request = 0 /\ response = 0 /\ ipLookup = 0 /\ lock = 0 /\ conn = 0
     /\ closed = 0 /\ ready = 0 /\ finished = 0 /\ checker = 0 /\ upstream = 0
     /\ answers = 0 /\ returned = 0 /\ part = 0 /\ stream = 0 /\ fragCount = 0
     /\ piece = 0 /\ wire = 0 /\ given = 0 /\ session = 0 /\ remote = 0
     /\ resolved = 0 /\ sent = 0 /\ noisy = 0 /\ firstPacket = 0
     /\ packets = 0 /\ replies = 0 /\ setup = 0 /\ phase = 0 /\ addrs = 0
     /\ nextTryIndex = 0 /\ activeNum = 0 /\ timer = 0 /\ resultCh = 0
     /\ try = 0 /\ open = 0 /\ winConn = 0 /\ cancelled = 0 /\ stopped = 0
     /\ t = 0 /\ state = 0 /\ mode = 0 /\ fresh = 0 /\ bf = 0 /\ head = 0
     /\ got = 0 /\ put = 0 /\ ended = 0 /\ errReason = 0 /\ lost = 0

AllNext ==
  \/ AtInbounds /\ InboundNext
  \/ AtOutbounds /\ OutboundNext
  \/ AtMuxclient /\ Next
  \/ AtRouter /\ Rout!Next
  \/ AtLookup /\ Names!LookupNext
  \/ AtFake /\ Names!FakeNext
  \/ AtDnsout /\ Names!OutboundNext
  \/ AtFreedom /\ Out!FreedomNext
  \/ AtDial /\ Out!DialNext
  \/ AtStream /\ Bytes!ConnNext
  \/ AtBuffers /\ Bytes!BufNext

TrafficSpec == AllInit /\ [][AllNext]_allVars

\* Dispatchers are interchangeable, and so are workers.
Symmetry == Permutations(Dispatchers) \cup Permutations(Workers)

-----------------------------------------------------------------------------
(* Properties *)

\* Dispatching does not run out of tries although a worker it is given may be full;
\* the picker knows every open worker, once; a session that its manager lists is open:
\* common/mux ClientManager, IncrementalWorkerPicker, SessionManager.
WorkersAreFound == DispatchFindsWorker /\ PickerKnowsOpenWorkers /\ ListedIsOpen

\* A balancer that was overridden, an address that must not be resolved, and the load
\* that a strategy asks for reach the outbound (app/router).  Name servers are asked in
\* the order of the settings, and only wanted answers are returned (app/dns).  A fake
\* address stands for one domain as long as a connection may use it (app/dns/fakedns),
\* and a name keeps the address it was first sent to (proxy/freedom).
RoutedAsAsked ==
  /\ component = "router" =>
       Rout!OverrideReachesRules /\ Rout!NoResolvingLoop /\ Rout!LeastLoadModes
  /\ component = "lookup" => Names!AskedInOrder /\ Names!AnswerIsWanted
  /\ component = "fake" => Names!AddressKeepsDomain /\ Names!OneDomainPerAddress
  /\ component = "freedom" => Out!NameKeepsAddress

\* Bytes come out in the order they went in, and none is lost but those that the code
\* says it drops: transport/internet (header, httpupgrade, websocket, grpc), common/buf,
\* the fragments of proxy/freedom.  What is taken is given back, once: dialled
\* connections (transport/internet), the buffers of a question (proxy/dns).
NothingLostOrDoubled ==
  /\ component = "stream" => Bytes!StreamKept
  /\ component = "buffers" => Bytes!BytesKept
  /\ component = "freedom" => Out!FragmentsAddUp
  /\ component = "dial" => Out!OneConnection
  /\ component = "dnsout" => Names!ReleasedOnce
=============================================================================
