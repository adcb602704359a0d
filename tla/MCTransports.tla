---------------------------- MODULE MCTransports ----------------------------
(***************************************************************************)
(* The transports and the sockets below them, on small instances: a        *)
(* behaviour is that of one component.                                     *)
(*   kcpconn     a mKCP connection, its states at both ends                *)
(*   xhttp       a session of XHTTP: the upload queue and the map          *)
(*   xmux        the HTTP clients that connections share                   *)
(*   worker      the UDP worker of an inbound                              *)
(*   dispatcher  the links of the packets of a UDP source                  *)
(*   unix        a Unix socket and its lock file                           *)
(*   accept      the listeners of the stream transports                    *)
(*   certs       the certificates of a TLS listener                        *)
(*   ech         the ECH configurations of a TLS client                    *)
(***************************************************************************)
EXTENDS KCPConn, TLC

VARIABLES component, posted, inflight, failed, pushing, current, created,
          reaper, closing, get, mine, chan, heap, nextSeq, closed, mutex,
          reading, delivered, limits, list, clientsMade, leftUsage,
          leftRequests, openUsage, dead, used, conn, mode, apart, client,
          first, replaces, posts, moves, selfEnding, activeConn, source, made,
          done, inactive, proc, calling, running, checking, open, missed,
          panicked, entries, terminated, writing, input, pending, replies,
          cache, readerDone, reader, phase, fd, holder, lockPath, sockPath,
          files, req, result, socket, loop, handling, config, file, operator,
          renewals, entry, certs, task, issued, named, hello, now, record,
          locked, update, dial, calls, keys, echNow

Http == INSTANCE XHTTP WITH
  Packets <- 3, MaxPackets <- 1, MaxSessions <- 2,
  Limits <- [connections : {0, 2}, concurrency : 0..1, reuse : 0..2, requests : {0, 2}],
  Dials <- {"d1", "d2"}, MaxClients <- 3, MaxPosts <- 1

Udp == INSTANCE UdpSessions WITH
  Sources <- {1, 2}, MaxConns <- 3,
  Writers <- {1, 2}, MaxEntries <- 2, CacheSize <- 1, MaxReplies <- 2

\* Every transport, with good and bad addresses, settings and options.
Asked ==
  {q \in [protocol : {"", "tcp", "httpupgrade", "websocket", "grpc", "other"}, port : {0, 1},
          address : {"ip", "localhost", "path"}, security : {"", "unknown"},
          header : {"ok", "bad"}, keepAlive : {"same", "mixed"}] :
     /\ q.port = 0 => q.address = "path"
     /\ q.header = "bad" => q.protocol = "tcp"
     /\ q.security = "unknown" => q.port = 0}

Socket == INSTANCE Listeners WITH
  Instances <- {1, 2, 3}, MaxFiles <- 3, Requests <- Asked, Clients <- {1, 2}

Cert(name, usage, valid, staples, once) ==
  [names |-> {name} \ {<<>>}, usage |-> usage, valid |-> valid, staples |-> staples, once |-> once]

\* An entry that is dropped, one that is loaded once, one with a wildcard; an authority.
CertConfigs ==
  {<<Cert(<<"z">>, "encipherment", FALSE, FALSE, FALSE),
     Cert(<<"a", "x">>, "encipherment", TRUE, FALSE, TRUE),
     Cert(<<"*", "x">>, "encipherment", TRUE, TRUE, FALSE)>>,
   <<Cert(<<>>, "issue", TRUE, FALSE, FALSE)>>}

Keys == INSTANCE TLSKeys WITH
  Configs <- CertConfigs, Listeners <- {1, 2}, Hellos <- {1, 2}, Names <- {<<"a", "x">>},
  MaxRenewals <- 1, MaxIssued <- 2, MaxTime <- 2, Life <- 2, Margin <- 1, CALife <- 3,
  Dials <- 1 .. 2, Force <- <<"none", "full">>, MaxCalls <- 4, MaxKeys <- 2,
  EchMaxTime <- 4, TTLs <- {0, 2}, DefaultTTL <- 1, TooOld <- 1

-----------------------------------------------------------------------------
allVars == <<component, state, decided, pinging, doomed, hasClosed, wire,
             conns, posted, inflight, failed, pushing, current, created,
             reaper, closing, get, mine, chan, heap, nextSeq, closed, mutex,
             reading, delivered, limits, list, clientsMade, leftUsage,
             leftRequests, openUsage, dead, used, conn, mode, apart, client,
             first, replaces, posts, moves, selfEnding, activeConn, source,
             made, done, inactive, proc, calling, running, checking, open,
             missed, panicked, entries, terminated, writing, input, pending,
             replies, cache, readerDone, reader, phase, fd, holder, lockPath,
             sockPath, files, req, result, socket, loop, handling, config,
             file, operator, renewals, entry, certs, task, issued, named,
             hello, now, record, locked, update, dial, calls, keys, echNow>>

AtKcpconn ==
  /\ component = "kcpconn"
  /\ UNCHANGED <<component, posted, inflight, failed, pushing, current,
                 created, reaper, closing, get, mine, chan, heap, nextSeq,
                 closed, mutex, reading, delivered, limits, list, clientsMade,
                 leftUsage, leftRequests, openUsage, dead, used, conn, mode,
                 apart, client, first, replaces, posts, moves, selfEnding,
                 activeConn, source, made, done, inactive, proc, calling,
                 running, checking, open, missed, panicked, entries,
                 terminated, writing, input, pending, replies, cache,
                 readerDone, reader, phase, fd, holder, lockPath, sockPath,
                 files, req, result, socket, loop, handling, config, file,
                 operator, renewals, entry, certs, task, issued, named, hello,
                 now, record, locked, update, dial, calls, keys, echNow>>

AtXhttp ==
  /\ component = "xhttp"
  /\ UNCHANGED <<component, state, decided, pinging, doomed, hasClosed, wire,
                 conns, limits, list, clientsMade, leftUsage, leftRequests,
                 openUsage, dead, used, conn, mode, apart, client, first,
                 replaces, posts, moves, selfEnding, activeConn, source, made,
                 done, inactive, proc, calling, running, checking, open,
                 missed, panicked, entries, terminated, writing, input,
                 pending, replies, cache, readerDone, reader, phase, fd,
                 holder, lockPath, sockPath, files, req, result, socket, loop,
                 handling, config, file, operator, renewals, entry, certs,
                 task, issued, named, hello, now, record, locked, update, dial,
                 calls, keys, echNow>>

AtXmux ==
  /\ component = "xmux"
  /\ UNCHANGED <<component, state, decided, pinging, doomed, hasClosed, wire,
                 conns, posted, inflight, failed, pushing, current, created,
                 reaper, closing, get, mine, chan, heap, nextSeq, closed,
                 mutex, reading, delivered, selfEnding, activeConn, source,
                 made, done, inactive, proc, calling, running, checking, open,
                 missed, panicked, entries, terminated, writing, input,
                 pending, replies, cache, readerDone, reader, phase, fd,
                 holder, lockPath, sockPath, files, req, result, socket, loop,
                 handling, config, file, operator, renewals, entry, certs,
                 task, issued, named, hello, now, record, locked, update, dial,
                 calls, keys, echNow>>

AtWorker ==
  /\ component = "worker"
  /\ UNCHANGED <<component, state, decided, pinging, doomed, hasClosed, wire,
                 conns, posted, inflight, failed, pushing, current, created,
                 reaper, closing, get, mine, chan, heap, nextSeq, closed,
                 mutex, reading, delivered, limits, list, clientsMade,
                 leftUsage, leftRequests, openUsage, dead, used, conn, mode,
                 apart, client, first, replaces, posts, moves, entries,
                 terminated, writing, input, pending, replies, cache,
                 readerDone, reader, phase, fd, holder, lockPath, sockPath,
                 files, req, result, socket, loop, handling, config, file,
                 operator, renewals, entry, certs, task, issued, named, hello,
                 now, record, locked, update, dial, calls, keys, echNow>>

AtDispatcher ==
  /\ component = "dispatcher"
  /\ UNCHANGED <<component, state, decided, pinging, doomed, hasClosed, wire,
                 conns, posted, inflight, failed, pushing, current, created,
                 reaper, closing, get, mine, chan, heap, nextSeq, mutex,
                 reading, delivered, limits, list, clientsMade, leftUsage,
                 leftRequests, openUsage, dead, used, mode, apart, client,
                 first, replaces, posts, moves, selfEnding, activeConn, source,
                 made, done, inactive, proc, calling, running, checking, open,
                 missed, panicked, phase, fd, holder, lockPath, sockPath,
                 files, req, result, socket, loop, handling, config, file,
                 operator, renewals, entry, certs, task, issued, named, hello,
                 now, record, locked, update, dial, calls, keys, echNow>>

AtUnix ==
  /\ component = "unix"
  /\ UNCHANGED <<component, state, decided, pinging, doomed, hasClosed, wire,
                 conns, posted, inflight, failed, pushing, current, created,
                 reaper, closing, get, mine, chan, heap, nextSeq, closed,
                 mutex, reading, delivered, limits, list, clientsMade,
                 leftUsage, leftRequests, openUsage, dead, used, conn, mode,
                 apart, client, first, replaces, posts, moves, selfEnding,
                 activeConn, source, made, done, inactive, proc, calling,
                 running, checking, open, missed, panicked, entries,
                 terminated, writing, input, pending, replies, cache,
                 readerDone, reader, req, result, socket, loop, handling,
                 config, file, operator, renewals, entry, certs, task, issued,
                 named, hello, now, record, locked, update, dial, calls, keys,
                 echNow>>

AtAccept ==
  /\ component = "accept"
  /\ UNCHANGED <<component, state, decided, pinging, doomed, hasClosed, wire,
                 conns, posted, inflight, failed, pushing, current, created,
                 reaper, closing, get, mine, chan, heap, nextSeq, closed,
                 mutex, reading, delivered, limits, list, clientsMade,
                 leftUsage, leftRequests, openUsage, dead, used, conn, mode,
                 apart, first, replaces, posts, moves, selfEnding, activeConn,
                 source, made, done, inactive, proc, calling, running,
                 checking, open, missed, panicked, entries, terminated,
                 writing, input, pending, replies, cache, readerDone, reader,
                 phase, fd, holder, lockPath, sockPath, files, config, file,
                 operator, renewals, entry, certs, task, issued, named, hello,
                 now, record, locked, update, dial, calls, keys, echNow>>

AtCerts ==
  /\ component = "certs"
  /\ UNCHANGED <<component, state, decided, pinging, doomed, hasClosed, wire,
                 conns, posted, inflight, failed, pushing, current, created,
                 reaper, closing, get, mine, chan, heap, nextSeq, closed,
                 mutex, reading, delivered, limits, list, clientsMade,
                 leftUsage, leftRequests, openUsage, dead, used, conn, mode,
                 apart, client, first, replaces, posts, moves, selfEnding,
                 activeConn, source, made, done, inactive, proc, calling,
                 running, checking, open, missed, panicked, entries,
                 terminated, writing, input, pending, replies, cache,
                 readerDone, reader, phase, fd, holder, lockPath, sockPath,
                 files, req, result, socket, loop, handling, record, locked,
                 update, dial, calls, keys, echNow>>

AtEch ==
  /\ component = "ech"
  /\ UNCHANGED <<component, state, decided, pinging, doomed, hasClosed, wire,
                 conns, posted, inflight, failed, pushing, current, created,
                 reaper, closing, get, mine, chan, heap, nextSeq, closed,
                 mutex, reading, delivered, limits, list, clientsMade,
                 leftUsage, leftRequests, openUsage, dead, used, conn, mode,
                 apart, client, first, replaces, posts, moves, selfEnding,
                 activeConn, source, made, done, inactive, proc, calling,
                 running, checking, open, missed, panicked, entries,
                 terminated, writing, input, pending, replies, cache,
                 readerDone, reader, phase, fd, holder, lockPath, sockPath,
                 files, req, result, socket, loop, handling, config, file,
                 operator, renewals, entry, certs, task, issued, named, hello,
                 now>>

AllInit ==
  \/ /\ component = "kcpconn"
     /\ ConnInit
     /\ posted = 0 /\ inflight = 0 /\ failed = 0 /\ pushing = 0 /\ current = 0
     /\ created = 0 /\ reaper = 0 /\ closing = 0 /\ get = 0 /\ mine = 0
     /\ chan = 0 /\ heap = 0 /\ nextSeq = 0 /\ closed = 0 /\ mutex = 0
     /\ reading = 0 /\ delivered = 0 /\ limits = 0 /\ list = 0
     /\ clientsMade = 0 /\ leftUsage = 0 /\ leftRequests = 0 /\ openUsage = 0
     /\ dead = 0 /\ used = 0 /\ conn = 0 /\ mode = 0 /\ apart = 0
     /\ client = 0 /\ first = 0 /\ replaces = 0 /\ posts = 0 /\ moves = 0
     /\ selfEnding = 0 /\ activeConn = 0 /\ source = 0 /\ made = 0 /\ done = 0
     /\ inactive = 0 /\ proc = 0 /\ calling = 0 /\ running = 0 /\ checking = 0
     /\ open = 0 /\ missed = 0 /\ panicked = 0 /\ entries = 0
     /\ terminated = 0 /\ writing = 0 /\ input = 0 /\ pending = 0
     /\ replies = 0 /\ cache = 0 /\ readerDone = 0 /\ reader = 0 /\ phase = 0
     /\ fd = 0 /\ holder = 0 /\ lockPath = 0 /\ sockPath = 0 /\ files = 0
     /\ req = 0 /\ result = 0 /\ socket = 0 /\ loop = 0 /\ handling = 0
     /\ config = 0 /\ file = 0 /\ operator = 0 /\ renewals = 0 /\ entry = 0
     /\ certs = 0 /\ task = 0 /\ issued = 0 /\ named = 0 /\ hello = 0
     /\ now = 0 /\ record = 0 /\ locked = 0 /\ update = 0 /\ dial = 0
     /\ calls = 0 /\ keys = 0 /\ echNow = 0
  \/ /\ component = "xhttp"
     /\ Http!Init
     /\ ConnInit
     /\ limits = 0 /\ list = 0 /\ clientsMade = 0 /\ leftUsage = 0
     /\ leftRequests = 0 /\ openUsage = 0 /\ dead = 0 /\ used = 0 /\ conn = 0
     /\ mode = 0 /\ apart = 0 /\ client = 0 /\ first = 0 /\ replaces = 0
     /\ posts = 0 /\ moves = 0 /\ selfEnding = 0 /\ activeConn = 0
     /\ source = 0 /\ made = 0 /\ done = 0 /\ inactive = 0 /\ proc = 0
     /\ calling = 0 /\ running = 0 /\ checking = 0 /\ open = 0 /\ missed = 0
     /\ panicked = 0 /\ entries = 0 /\ terminated = 0 /\ writing = 0
     /\ input = 0 /\ pending = 0 /\ replies = 0 /\ cache = 0 /\ readerDone = 0
     /\ reader = 0 /\ phase = 0 /\ fd = 0 /\ holder = 0 /\ lockPath = 0
     /\ sockPath = 0 /\ files = 0 /\ req = 0 /\ result = 0 /\ socket = 0
     /\ loop = 0 /\ handling = 0 /\ config = 0 /\ file = 0 /\ operator = 0
     /\ renewals = 0 /\ entry = 0 /\ certs = 0 /\ task = 0 /\ issued = 0
     /\ named = 0 /\ hello = 0 /\ now = 0 /\ record = 0 /\ locked = 0
     /\ update = 0 /\ dial = 0 /\ calls = 0 /\ keys = 0 /\ echNow = 0
  \/ /\ component = "xmux"
     /\ Http!XmuxInit
     /\ ConnInit
     /\ posted = 0 /\ inflight = 0 /\ failed = 0 /\ pushing = 0 /\ current = 0
     /\ created = 0 /\ reaper = 0 /\ closing = 0 /\ get = 0 /\ mine = 0
     /\ chan = 0 /\ heap = 0 /\ nextSeq = 0 /\ closed = 0 /\ mutex = 0
     /\ reading = 0 /\ delivered = 0 /\ selfEnding = 0 /\ activeConn = 0
     /\ source = 0 /\ made = 0 /\ done = 0 /\ inactive = 0 /\ proc = 0
     /\ calling = 0 /\ running = 0 /\ checking = 0 /\ open = 0 /\ missed = 0
     /\ panicked = 0 /\ entries = 0 /\ terminated = 0 /\ writing = 0
     /\ input = 0 /\ pending = 0 /\ replies = 0 /\ cache = 0 /\ readerDone = 0
     /\ reader = 0 /\ phase = 0 /\ fd = 0 /\ holder = 0 /\ lockPath = 0
     /\ sockPath = 0 /\ files = 0 /\ req = 0 /\ result = 0 /\ socket = 0
     /\ loop = 0 /\ handling = 0 /\ config = 0 /\ file = 0 /\ operator = 0
     /\ renewals = 0 /\ entry = 0 /\ certs = 0 /\ task = 0 /\ issued = 0
     /\ named = 0 /\ hello = 0 /\ now = 0 /\ record = 0 /\ locked = 0
     /\ update = 0 /\ dial = 0 /\ calls = 0 /\ keys = 0 /\ echNow = 0
  \/ /\ component = "worker"
     /\ Udp!WorkerInit
     /\ ConnInit
     /\ posted = 0 /\ inflight = 0 /\ failed = 0 /\ pushing = 0 /\ current = 0
     /\ created = 0 /\ reaper = 0 /\ closing = 0 /\ get = 0 /\ mine = 0
     /\ chan = 0 /\ heap = 0 /\ nextSeq = 0 /\ closed = 0 /\ mutex = 0
     /\ reading = 0 /\ delivered = 0 /\ limits = 0 /\ list = 0
     /\ clientsMade = 0 /\ leftUsage = 0 /\ leftRequests = 0 /\ openUsage = 0
     /\ dead = 0 /\ used = 0 /\ conn = 0 /\ mode = 0 /\ apart = 0
     /\ client = 0 /\ first = 0 /\ replaces = 0 /\ posts = 0 /\ moves = 0
     /\ entries = 0 /\ terminated = 0 /\ writing = 0 /\ input = 0
     /\ pending = 0 /\ replies = 0 /\ cache = 0 /\ readerDone = 0
     /\ reader = 0 /\ phase = 0 /\ fd = 0 /\ holder = 0 /\ lockPath = 0
     /\ sockPath = 0 /\ files = 0 /\ req = 0 /\ result = 0 /\ socket = 0
     /\ loop = 0 /\ handling = 0 /\ config = 0 /\ file = 0 /\ operator = 0
     /\ renewals = 0 /\ entry = 0 /\ certs = 0 /\ task = 0 /\ issued = 0
     /\ named = 0 /\ hello = 0 /\ now = 0 /\ record = 0 /\ locked = 0
     /\ update = 0 /\ dial = 0 /\ calls = 0 /\ keys = 0 /\ echNow = 0
  \/ /\ component = "dispatcher"
     /\ Udp!DispatcherInit
     /\ ConnInit
     /\ posted = 0 /\ inflight = 0 /\ failed = 0 /\ pushing = 0 /\ current = 0
     /\ created = 0 /\ reaper = 0 /\ closing = 0 /\ get = 0 /\ mine = 0
     /\ chan = 0 /\ heap = 0 /\ nextSeq = 0 /\ mutex = 0 /\ reading = 0
     /\ delivered = 0 /\ limits = 0 /\ list = 0 /\ clientsMade = 0
     /\ leftUsage = 0 /\ leftRequests = 0 /\ openUsage = 0 /\ dead = 0
     /\ used = 0 /\ mode = 0 /\ apart = 0 /\ client = 0 /\ first = 0
     /\ replaces = 0 /\ posts = 0 /\ moves = 0 /\ selfEnding = 0
     /\ activeConn = 0 /\ source = 0 /\ made = 0 /\ done = 0 /\ inactive = 0
     /\ proc = 0 /\ calling = 0 /\ running = 0 /\ checking = 0 /\ open = 0
     /\ missed = 0 /\ panicked = 0 /\ phase = 0 /\ fd = 0 /\ holder = 0
     /\ lockPath = 0 /\ sockPath = 0 /\ files = 0 /\ req = 0 /\ result = 0
     /\ socket = 0 /\ loop = 0 /\ handling = 0 /\ config = 0 /\ file = 0
     /\ operator = 0 /\ renewals = 0 /\ entry = 0 /\ certs = 0 /\ task = 0
     /\ issued = 0 /\ named = 0 /\ hello = 0 /\ now = 0 /\ record = 0
     /\ locked = 0 /\ update = 0 /\ dial = 0 /\ calls = 0 /\ keys = 0
     /\ echNow = 0
  \/ /\ component = "unix"
     /\ Socket!UnixInit
     /\ ConnInit
     /\ posted = 0 /\ inflight = 0 /\ failed = 0 /\ pushing = 0 /\ current = 0
     /\ created = 0 /\ reaper = 0 /\ closing = 0 /\ get = 0 /\ mine = 0
     /\ chan = 0 /\ heap = 0 /\ nextSeq = 0 /\ closed = 0 /\ mutex = 0
     /\ reading = 0 /\ delivered = 0 /\ limits = 0 /\ list = 0
     /\ clientsMade = 0 /\ leftUsage = 0 /\ leftRequests = 0 /\ openUsage = 0
     /\ dead = 0 /\ used = 0 /\ conn = 0 /\ mode = 0 /\ apart = 0
     /\ client = 0 /\ first = 0 /\ replaces = 0 /\ posts = 0 /\ moves = 0
     /\ selfEnding = 0 /\ activeConn = 0 /\ source = 0 /\ made = 0 /\ done = 0
     /\ inactive = 0 /\ proc = 0 /\ calling = 0 /\ running = 0 /\ checking = 0
     /\ open = 0 /\ missed = 0 /\ panicked = 0 /\ entries = 0
     /\ terminated = 0 /\ writing = 0 /\ input = 0 /\ pending = 0
     /\ replies = 0 /\ cache = 0 /\ readerDone = 0 /\ reader = 0 /\ req = 0
     /\ result = 0 /\ socket = 0 /\ loop = 0 /\ handling = 0 /\ config = 0
     /\ file = 0 /\ operator = 0 /\ renewals = 0 /\ entry = 0 /\ certs = 0
     /\ task = 0 /\ issued = 0 /\ named = 0 /\ hello = 0 /\ now = 0
     /\ record = 0 /\ locked = 0 /\ update = 0 /\ dial = 0 /\ calls = 0
     /\ keys = 0 /\ echNow = 0
  \/ /\ component = "accept"
     /\ Socket!AcceptInit
     /\ ConnInit
     /\ posted = 0 /\ inflight = 0 /\ failed = 0 /\ pushing = 0 /\ current = 0
     /\ created = 0 /\ reaper = 0 /\ closing = 0 /\ get = 0 /\ mine = 0
     /\ chan = 0 /\ heap = 0 /\ nextSeq = 0 /\ closed = 0 /\ mutex = 0
     /\ reading = 0 /\ delivered = 0 /\ limits = 0 /\ list = 0
     /\ clientsMade = 0 /\ leftUsage = 0 /\ leftRequests = 0 /\ openUsage = 0
     /\ dead = 0 /\ used = 0 /\ conn = 0 /\ mode = 0 /\ apart = 0 /\ first = 0
     /\ replaces = 0 /\ posts = 0 /\ moves = 0 /\ selfEnding = 0
     /\ activeConn = 0 /\ source = 0 /\ made = 0 /\ done = 0 /\ inactive = 0
     /\ proc = 0 /\ calling = 0 /\ running = 0 /\ checking = 0 /\ open = 0
     /\ missed = 0 /\ panicked = 0 /\ entries = 0 /\ terminated = 0
     /\ writing = 0 /\ input = 0 /\ pending = 0 /\ replies = 0 /\ cache = 0
     /\ readerDone = 0 /\ reader = 0 /\ phase = 0 /\ fd = 0 /\ holder = 0
     /\ lockPath = 0 /\ sockPath = 0 /\ files = 0 /\ config = 0 /\ file = 0
     /\ operator = 0 /\ renewals = 0 /\ entry = 0 /\ certs = 0 /\ task = 0
     /\ issued = 0 /\ named = 0 /\ hello = 0 /\ now = 0 /\ record = 0
     /\ locked = 0 /\ update = 0 /\ dial = 0 /\ calls = 0 /\ keys = 0
     /\ echNow = 0
  \/ /\ component = "certs"
     /\ Keys!CertInit
     /\ ConnInit
     /\ posted = 0 /\ inflight = 0 /\ failed = 0 /\ pushing = 0 /\ current = 0
     /\ created = 0 /\ reaper = 0 /\ closing = 0 /\ get = 0 /\ mine = 0
     /\ chan = 0 /\ heap = 0 /\ nextSeq = 0 /\ closed = 0 /\ mutex = 0
     /\ reading = 0 /\ delivered = 0 /\ limits = 0 /\ list = 0
     /\ clientsMade = 0 /\ leftUsage = 0 /\ leftRequests = 0 /\ openUsage = 0
     /\ dead = 0 /\ used = 0 /\ conn = 0 /\ mode = 0 /\ apart = 0
     /\ client = 0 /\ first = 0 /\ replaces = 0 /\ posts = 0 /\ moves = 0
     /\ selfEnding = 0 /\ activeConn = 0 /\ source = 0 /\ made = 0 /\ done = 0
     /\ inactive = 0 /\ proc = 0 /\ calling = 0 /\ running = 0 /\ checking = 0
     /\ open = 0 /\ missed = 0 /\ panicked = 0 /\ entries = 0
     /\ terminated = 0 /\ writing = 0 /\ input = 0 /\ pending = 0
     /\ replies = 0 /\ cache = 0 /\ readerDone = 0 /\ reader = 0 /\ phase = 0
     /\ fd = 0 /\ holder = 0 /\ lockPath = 0 /\ sockPath = 0 /\ files = 0
     /\ req = 0 /\ result = 0 /\ socket = 0 /\ loop = 0 /\ handling = 0
     /\ record = 0 /\ locked = 0 /\ update = 0 /\ dial = 0 /\ calls = 0
     /\ keys = 0 /\ echNow = 0
  \/ /\ component = "ech"
     /\ Keys!EchInit
     /\ ConnInit
     /\ posted = 0 /\ inflight = 0 /\ failed = 0 /\ pushing = 0 /\ current = 0
     /\ created = 0 /\ reaper = 0 /\ closing = 0 /\ get = 0 /\ mine = 0
     /\ chan = 0 /\ heap = 0 /\ nextSeq = 0 /\ closed = 0 /\ mutex = 0
     /\ reading = 0 /\ delivered = 0 /\ limits = 0 /\ list = 0
     /\ clientsMade = 0 /\ leftUsage = 0 /\ leftRequests = 0 /\ openUsage = 0
     /\ dead = 0 /\ used = 0 /\ conn = 0 /\ mode = 0 /\ apart = 0
     /\ client = 0 /\ first = 0 /\ replaces = 0 /\ posts = 0 /\ moves = 0
     /\ selfEnding = 0 /\ activeConn = 0 /\ source = 0 /\ made = 0 /\ done = 0
     /\ inactive = 0 /\ proc = 0 /\ calling = 0 /\ running = 0 /\ checking = 0
     /\ open = 0 /\ missed = 0 /\ panicked = 0 /\ entries = 0
     /\ terminated = 0 /\ writing = 0 /\ input = 0 /\ pending = 0
     /\ replies = 0 /\ cache = 0 /\ readerDone = 0 /\ reader = 0 /\ phase = 0
     /\ fd = 0 /\ holder = 0 /\ lockPath = 0 /\ sockPath = 0 /\ files = 0
     /\ req = 0 /\ result = 0 /\ socket = 0 /\ loop = 0 /\ handling = 0
     /\ config = 0 /\ file = 0 /\ operator = 0 /\ renewals = 0 /\ entry = 0
     /\ certs = 0 /\ task = 0 /\ issued = 0 /\ named = 0 /\ hello = 0
     /\ now = 0

AllNext ==
  \/ AtKcpconn /\ ConnNext
  \/ AtXhttp /\ Http!Next
  \/ AtXmux /\ Http!XmuxNext
  \/ AtWorker /\ Udp!WorkerNext
  \/ AtDispatcher /\ Udp!DispatcherNext
  \/ AtUnix /\ Socket!UnixNext
  \/ AtAccept /\ Socket!AcceptNext
  \/ AtCerts /\ Keys!CertNext
  \/ AtEch /\ Keys!EchNext

\* The fairness of each component, while it is the one that runs.
TransportsSpec ==
  /\ AllInit /\ [][AllNext]_allVars
  /\ WF_connVars(component = "kcpconn" /\ \E e \in Ends, t \in Threads : SetState(e, t))
  /\ WF_connVars(component = "kcpconn" /\ \E e \in Ends : FlushDecides(e, "ping"))
  /\ WF_connVars(component = "kcpconn" /\ \E e \in Ends : Terminate(e))
  /\ WF_(Http!vars)(component = "xhttp" /\ (Http!Connect \/ Http!GetEnds \/ Http!GetReturns))
  /\ WF_(Http!vars)(component = "xhttp" /\ \E p \in Http!Seqs : Http!PushFails(p) \/ Http!PushLocks(p) \/ Http!Push(p))
  /\ WF_(Http!vars)(component = "xhttp" /\ \E s \in Http!Sessions : Http!Reap(s))
  /\ WF_(Http!vars)(component = "xhttp" /\ \E s \in Http!Sessions : Http!QueueNext(s))
  /\ WF_(Udp!workerVars)(component = "worker" /\ (Udp!StartChecker \/ Udp!CheckFails \/ Udp!CheckStops))
  /\ WF_(Udp!workerVars)(/\ component = "worker"
                         /\ \E idle \in SUBSET (Udp!Listed \ {calling}) : idle # {} /\ Udp!Check(idle))
  /\ WF_(Udp!workerVars)(/\ component = "worker"
                         /\ \E c \in Udp!Conns : Udp!ProcessReturns(c) \/ Udp!GoroutineCloses(c) \/ Udp!RemoveConn(c))
  /\ WF_(Socket!acceptVars)(component = "accept" /\ Socket!Serve)
  /\ WF_(Socket!acceptVars)(component = "accept" /\ loop = "accept" /\ socket = "closed" /\ Socket!AcceptFails)
  /\ \A i \in {1, 2} : /\ WF_(Socket!acceptVars)(component = "accept" /\ Socket!AddConn(i))
                       /\ WF_(Socket!acceptVars)(component = "accept" /\ Socket!keepAccepting(i))
  /\ \A i \in 1 .. 3 : /\ WF_(Socket!unixVars)(component = "unix" /\ Socket!Step(i))
                       /\ WF_(Socket!unixVars)(component = "unix" /\ Socket!UnixClose(i))
  /\ WF_(Keys!certVars)(component = "certs" /\ Keys!Renew)
  /\ \A l \in {1, 2}, i \in 1 .. 3 :
       WF_(Keys!certVars)(component = "certs" /\ i \in Keys!Entries /\ Keys!TaskStep(l, i))
  /\ WF_(Keys!echVars)(component = "ech" /\ \E d \in 1 .. 2 : Keys!TryLock(d))
  /\ WF_(Keys!echVars)(/\ component = "ech"
                       /\ \E u \in Keys!Updates : Keys!Lock(u) \/ Keys!Update(u) \/ Keys!DnsQuery(u))

-----------------------------------------------------------------------------
(* Properties *)

\* What is uploaded over XHTTP is read in order (uploadQueue.Read); the HTTP clients
\* are used as often as the limits say and by the connections that are open
\* (XmuxManager); a link that a UDP source no longer uses is ended (udp.Dispatcher).
SharedAsLimited ==
  /\ component = "xhttp" => Http!UploadInOrder
  /\ component = "xmux" => Http!WithinReuse /\ Http!UsageBalanced
  /\ component = "dispatcher" => Udp!OpenLinkIsKnown

\* What handshakes and dials that overlap share stays in order: a certificate that was
\* issued is not lost while it lasts (getGetCertificateFunc), and no dial goes back to an
\* older ECH configuration or asks for one that is cached (ECHConfigCache.Update).
KeysInOrder ==
  /\ component = "certs" => Keys!IssuedIsKept
  /\ component = "ech" => Keys!EchInOrder

\* Nothing is left behind: ends of mKCP that close (flush), sessions of XHTTP
\* (upsertSession), UDP connections (clean), locks of Unix sockets (FileLocker), clients
\* that have asked (keepAccepting), certificates that were replaced (setupOcspTicker) and
\* dials that wait for a query (UpdateLock).  Not promised: an end of mKCP that is
\* PeerClosed waits for its user (NoneCloses); a session of XHTTP stays when a handler
\* waits for room that no reader makes (Stuck); UDP connections stay after Close, or after
\* a Start that was missed until the next one (AllEnded).
NothingIsLeft ==
  <>[](/\ component = "kcpconn" => NoneCloses
       /\ component = "xhttp" => current = 0 \/ Http!Stuck(current)
       /\ component = "worker" => Udp!AllEnded
       /\ component = "unix" => Socket!LockIsBack
       /\ component = "accept" => Socket!NobodyWaits
       /\ component = "certs" => Keys!RenewedIsShown
       /\ component = "ech" => Keys!EchAtRest)

\* A certificate that was replaced is shown by every listener that reads it:
\* "If true, one-Time Loading" (config.proto) lets one expect that of all the others.
RenewalIsShownByAll == <>[](component = "certs" => Keys!ShownByAll)
=============================================================================
