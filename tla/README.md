# A TLA+ verification of V2Root-Core

V2Root-Core is a fork of Xray-core with a shared library on top (`src/v2root`)
that lets an application start, stop and observe one proxy server. The modules
here model it from the share link a user pastes down to the segments of mKCP.
TLC checks them on small instances. TLAPS proves the invariants that matter most
of the life cycle, the pipes, the timers, the handlers, the mux connections and
mKCP for every value of their constants.

Every definition is translated from the Go source. Paths below are relative to
`src/`; `PROJECT.json` maps each definition to its lines, lists the parts of the
system with what is left out of each, and names the hazards at the lines where
they bite.

## 1. The system and its parts

The library parses a share link, writes a configuration and starts a core from
it. The core builds the configuration, puts its features together and starts the
inbounds. A connection that arrives is decoded by an inbound proxy, sniffed and
routed by the dispatcher, and handed over two pipes to an outbound, which dials
or passes it to a mux worker, to a tunnel of a reverse proxy or to freedom.
Proxies write headers, bodies and packets over a stream transport, and TLS, UDP
and mKCP lie below.

| Part | Source | Module |
|---|---|---|
| Library calls, server goroutine, traffic and speed | `v2root/xray_dll.go`, `core/xray.go` | `V2RootLifecycle` |
| Share links, both ways | `v2root/parser.go` | `ShareLink` (over `ConfBuild`) |
| What `Build` makes of a JSON configuration | `infra/conf` | `ConfBuild` |
| Merging of files; features of an instance | `infra/conf/serial`, `infra/conf/xray.go`, `core/xray.go` | `ConfLoad` |
| Domain and keyword matchers, ports, ranges | `common/strmatcher`, `infra/conf/common.go` | `Matchers` |
| Inbound and outbound managers | `app/proxyman` | `Handlers` |
| Dispatcher and sniffers | `app/dispatcher`, `common/protocol/{http,tls,quic,bittorrent}` | `Dispatch` |
| Rules and balancers | `app/router` | `Router` |
| Pings that balancers read | `app/observatory` | `Observatory` |
| DNS app, FakeDNS, DNS outbound | `app/dns`, `proxy/dns`, `common/cache` | `DNS` |
| One name server: queries, cache, subscribers | `app/dns` | `DNSQuery` |
| One TCP session through any inbound and outbound | `proxy/*`, `app/proxyman` | `Relay` |
| Users and fallbacks | `proxy/{vless,trojan,vmess,shadowsocks*}` | `Admission` |
| Request headers, addresses, UDP packets | `proxy/*`, `common/protocol`, `common/xudp` | `ProxyHeaders` |
| Chunked bodies, XTLS Vision | `common/crypto`, `proxy/vmess`, `proxy/proxy.go` | `ProxyBody` |
| VLESS encryption: tickets, frames | `proxy/vless/encryption` | `VlessEncryption` |
| Reverse proxy | `app/reverse`, `proxy/vless` | `Reverse` |
| Freedom, system dialer, happy eyeballs | `proxy/freedom`, `transport/internet` | `Outgoing` |
| Mux client: picker, workers, sessions | `common/mux/{client,session}.go` | `MuxClient` |
| Mux connection: frames at both ends | `common/mux/{client,server,writer,reader}.go` | `MuxLink` |
| UDP flows that outlive a mux connection | `common/mux/{server,session}.go` | `XUDP` |
| Pipes | `transport/pipe` | `Pipe`, `FifoChannel` |
| Periodic tasks, activity timer | `common/task`, `common/signal` | `Periodic`, `ActivityTimer` |
| Log, statistics channels | `common/log`, `app/log`, `app/stats` | `LogAndStats` |
| Buffers; RAW, HTTPUpgrade, WebSocket, gRPC | `common/buf`, `transport/internet/*` | `Streams` |
| XHTTP: sessions, shared clients | `transport/internet/splithttp` | `XHTTP` |
| UDP worker and dispatcher | `app/proxyman/inbound`, `transport/internet/udp` | `UdpSessions` |
| Unix sockets, accept loops | `transport/internet/*` | `Listeners` |
| Certificates, ECH | `transport/internet/tls` | `TLSKeys` |
| mKCP: windows and acks; closing | `transport/internet/kcp` | `KCPData`; `KCPConn` |

What is hard to test in it, in short: calls that return before the work they
started is done; one-token notifiers with several waiters; tasks closed and
started again while an execution is in flight; callbacks in an order the
configuration decides; limits tested under one lock and used under another;
counters that two ends must draw from in the same order; frames of a session
that the other end has closed; flows taken over while they are being closed;
answers that come late, twice or to the wrong question; lost, duplicated and
reordered segments.

## 2. How the modules are written

A module has the state of its component as variables and an action for each
operation. A region under a lock is one step; everything a goroutine does
between two such regions, and every wait, is a step of its own, so that other
goroutines can come in between. Pure algorithms (`Matchers`, `ConfBuild`, the
codecs of `ProxyHeaders`) are operators, and their specification picks an input
and computes. A module that stands for several components of one area has a
specification for each of them, over variables of their own.

Composition and refinement:

- `ActivityTimer` extends `Periodic` and uses its actions as the code does, with
  `check` as `Execute`.
- `ShareLink` hands what it writes to the `Build` functions of `ConfBuild`.
- `Pipe` implements `FifoChannel` under the mapping `in <- accepted`,
  `out <- received`, `open <- state = "open"`, `broken <- state = "errord"`.

What the data is reduced to: a `MultiBuffer` in a pipe is a message of size 1; a
payload is its number, or the pair of its session and its place in it; a feature
is its type; a name is a member of a small set, or a sequence of characters
where matching looks into it. In `ProxyHeaders`, `ProxyBody`, `Streams` and
`VlessEncryption` bytes are cells, since what is checked there is that two ends
agree on where each thing begins. Sealing is a record that only the holder of
the key and the right counter reads. Timeouts have no length: whether a timer
has run out is left open, except that `ActivityTimer` remembers whether an
interval has passed since the last activity, and `Dispatch`, `DNSQuery` and
`VlessEncryption` count units of time.

Definitions marked "Mutant" are wrong versions of the definition that follows
them; no specification uses them. They are there to show that each property
notices such an error.

The `MC...` modules put components together for TLC. Each has a variable
`component` which says whose behaviour this is: the variables of that component
move, those of the others do not. So one run checks several components, one
after the other and never mixed, and a property that names a component holds
trivially in the behaviours of the others. The `.cfg` files only give values to
constants.

## 3. What is model-checked

| Run | Components | Instance | States |
|---|---|---|---|
| `lifecycle` | `V2RootLifecycle` | two callers, one port besides the user's, two instances, one feature | 288,446 |
| `configuration` | `ShareLink`, `ConfBuild`, `ConfLoad`, `Matchers` | links of five formats with every option in turn, two trips through the parser; up to three files; every list of up to two apps and a handler; small alphabets | 197,724 |
| `proxies` | `Admission`, `ProxyHeaders`, `ProxyBody`, `VlessEncryption` | lists of up to two fallbacks; users that share ids and emails, two callers; every protocol's headers, with lengths at their limits, in one read or two, cut or sent twice; bodies with every option an outbound sets, and some it does not; frames with counters that wrap | 816,206 |
| `traffic` | `Handlers`, `Router`, `DNS`, `Outgoing`, `MuxClient`, `Streams` | three inbounds, two outbounds and two callers of Select; two dispatchers and two workers of one session at a time and two in all; two rules and two balancers; four domains for two fake addresses | 752,959 |
| `plumbing` | `Pipe`, `Periodic`, `LogAndStats` | one reader, two writers of two messages, limit 1, both overflow options; one task, two callers, two timers; three published and four logged messages | 166,523 |
| `delivery` | `KCPData`, `ActivityTimer`, `MuxClient` (liveness) | three segments, windows of two, two in the network; two callers, two tasks, two timers | 71,947 |
| `transports` | `KCPConn`, `XHTTP`, `UdpSessions`, `Listeners`, `TLSKeys` | both ends of a connection; three uploads, two sessions of an id, two dials over three clients; two sources; three instances at one socket path; two listeners of a certificate, two dials with ECH that are repeated | 465,409 |
| `sessions` | `Relay`, `Reverse`, `MuxLink`, `XUDP` | eleven pairs of an inbound and an outbound program, each program in one at least, with two chunks each way and, for plain HTTP, two requests; three tunnels, one fault; two sessions with a chunk each way; two connections and two New frames | 614,335 |
| `targets` | `Dispatch`, `DNSQuery`, `Observatory` | messages cut into pieces at every place the sniffers look; two queries of two families, ids that are used again; two overlapping rounds of pings | 401,271 |
| `two_servers`, `keywords`, `certificates` | | violations, see section 5 | |

What the properties say (the comments above them name the code and the cases
that they except):

- `lifecycle`. `StatusTracksServer`: the status reported when no call is in
  progress is RUNNING exactly if a server is set. `ServerIsOpen`: a server that is
  set has not been closed, so `done` is not closed twice.
  `BaselineOfCurrentServer`: stored totals never come from an earlier server.
  `CallReturns`: the two locks of the library and the instance's lock are not
  waited for in a circle.
- `configuration`. `LinksReachTheCore`: a link survives parsing and writing, and
  the server, the user, the security, the transport and the settings of the
  transport that it names are those the core is configured with. Stated with it is
  what is not so: the core refuses mKCP without a `headerType` (the parser writes a
  header of no type), and the parser has no case for the settings of HTTPUpgrade and
  XHTTP, whose path and host do not get there. `FilesMerge`: of entries with
  one tag the last file wins, and FakeDNS is there when a rule or a sniffer needs
  it. `FeaturesResolve`: callbacks are called once, nothing ready stays pending,
  and all are called when `New` succeeds. `RulesKeepMeaning`: matcher groups and
  the hash table find what the rules find one by one, and ranges survive being
  written.
- `proxies`. `StreamsIntact`: a reader gets the bytes of its writer for every
  combination of masks, padding and ciphers that the VMess outbound can ask for and
  some that only other clients do, over rotations of keys, and through Vision's
  change from padded to direct in the middle of either direction. After a packet
  that was too large for a chunk, for which the writer has drawn a padding and
  nothing else, the reader may fail but returns nothing that was not written.
  `RequestsUnderstood`: the server understands the request the client meant, and
  the packets, or has a reason to refuse it; `Refusable` lists the reasons, among
  them a Trojan request whose first read ends before the line of the hash, SOCKS
  BIND, and what VMess and Shadowsocks have seen before. `RightDoor`: the tables
  of users agree (the exceptions are named above `ListsAgree`: users who share an
  id or an email, a Shadowsocks user of no AEAD cipher, a key that Shadowsocks 2022
  does not take, an addition that overlaps a removal), the most specific fallback is
  chosen, a ticket is refused only after a restart. `TicketsKept`: a client drops a ticket only if it is the
  one that was refused.
- `traffic`. `ListenerIsListed`: what listens belongs to a listed inbound.
  `OutboundsAreKnown`: the default outbound is listed, and `Select` answers with
  handlers that were there when it looked. `WithinStrategy`, `WorkersAreFound`:
  a worker's limits hold, a dispatch finds a worker, the picker knows the open
  ones, and a session in use is listed. `RoutedAsAsked`: rules, overrides and
  balancers choose as configured, a lookup asks servers in order and keeps wanted
  answers, a fake address stands for one domain. `NothingLostOrDoubled`: bytes
  through buffers, headers, fragments and early data; one connection of a race is
  kept and the others closed.
- `plumbing`. `NoLostWakeup`: no reader or writer sleeps beside data or room with
  no token and nobody about to signal. `IsFifo`, `DeliversFifo`: a pipe implements
  `FifoChannel`, safety and liveness. `RunningIsAlive`: `Start` takes a dead
  task for a running one only between an error of `Execute` and the region that
  clears `running` (the missed starts of `UdpSessions` and `DNSQuery` come from
  it). `MessagesInOrder`: subscribers and the log file get messages in order. `TasksGoOn`: a task is executed again until it is stopped, a
  closed one comes to rest, a published message is delivered.
- `delivery`. `DeliveredInOrder` for mKCP: what readers were given is the beginning
  of what was written, whatever a short read leaves over; `AckIsKept`. `OneTaskTillTheEnd`,
  `IdleFirst` for the activity timer: one checking task until it ends, and no
  connection ends before a whole interval without activity. `EndsWell`: all data
  arrives and windows empty, an idle connection is cancelled, sessions of the mux
  client end with their worker.
- `transports`. `PeerHasClosed`: a connection believes its peer is closing only
  after it has closed. `SharedAsLimited`: uploads in order, clients handed out
  within their limits, and none that may still be handed out looks fuller than it
  is. `KeysInOrder`: a certificate that was issued and has not expired stays in the
  list and is found by its name; no dial gets an older ECH configuration than one
  that a finished dial had, and nothing is asked while a good one is cached.
  `NothingIsLeft`: connections, sessions, UDP entries and lock files go in the end,
  renewed certificates are shown and dials return. It excepts an mKCP connection in
  PeerClosed, which waits for its peer's Terminate; the UDP entries of a worker that
  was closed, that panicked, or whose last Start met a checker about to stop (the
  next packet of a new source makes up for it); and uploads that are stuck in a full
  queue.
- `sessions`. `RelayedWhole`: a session's bytes in their order, and all of them
  after a clean end, but for what an HTTP proxy sends right behind its answer to
  CONNECT: the reader of the answer has buffered it and is dropped. `NoCrossTalk`: a mux session gets its own chunks, in order.
  `FlowsHaveOneOwner`: one New at a time takes over a flow. `SessionsEnd`: what is
  closed ends at both ends.
- `targets`. `SniffedRight`: cutting a message into pieces does not change the
  verdict (but for an HTTP request that is cut before its last Host line is
  complete), attributes come from the inbound or from one look, and the outbound
  reads from the first byte. `AnswersAreRight`: an
  answer is that of the question, and a report is of recent pings.
  `OldIsForgotten`: results and cache entries go. Records stay if the last answer's
  Start met a cleanup about to stop, until the next answer; and a Start that is so
  late that the cleanup has taken the record and stopped panics.

Why the bounds are enough. Two callers are needed for every race between two
calls, and two instances for a server and its successor. The limit of 1 with four
messages lets a write merge, overshoot and block. Two timers allow the two chains
that a Close and a Start during an execution leave. Two workers of one session
each make a dispatcher find a full worker, a closing one and none; sixteen tries
are those of the code. Three segments exceed both windows, and two in the network
can overtake each other. Counters that wrap at 2^16 or 2^96 wrap here after a few
steps, and lengths have a small space, so that the values at the limit occur. All
numbers of callers, sessions, segments and sizes of the modules with proofs are
covered by the proofs.

Deadlock is checked in `lifecycle`, where somebody can always make a call. The
instances of the other runs come to an end.

### Fairness

- A goroutine that can run does run (the Go scheduler): weak fairness of the
  steps of a goroutine inside a call. Nobody has to make a call, and peers,
  links and connections may live for ever. Where all the goroutines of a
  component only make progress and cannot keep each other from it, one weak
  fairness condition of their disjunction (`Progress`) is enough, and is the
  weaker assumption.
- A goroutine that waits for a `sync.Mutex` or a `sync.Once` gets it in the end
  (a mutex is handed over in order once a waiter has starved for 1 ms): strong
  fairness of the steps that lock (`V2RootLifecycle`, `ActivityTimer`, the
  monitor of `MuxClient`). In `Pipe`, the `select` of a writer that is woken
  again and again, only to find the pipe filled by another, is treated likewise.
- A timer that is armed fires; a ticker ticks; expiry loops come round.
- Readers of a pipe keep reading, as the copy loops do until they get an error.
- In `KCPData` both ends flush again and again (the ping updater runs until the
  connection is terminated), and what is sent infinitely often arrives
  infinitely often. This is asked only of the first unacknowledged segment, of
  acks that acknowledge something, and of pings that bring news.
- In an `MC...` module a condition holds while its component is the one that
  runs. The strong ones of several components are one condition on the disjunction
  of their steps: in any behaviour only one of them can move.

## 4. What is proved

Theorems hold for all values of the constants that the named assumption of a
module allows. The assumptions are types, non-empty windows, and that `NONE`
differs from everything else; `StrategyAssumption` says that the limits of a mux
worker are numbers and that of all sessions fits the 16 bits it is compared in,
`HandlersAssumption` that the empty tag is no tag. TLC evaluates all of them. The
theorems of `XHTTP` state what they assume themselves (that its bounds and limits
are numbers). In the bounds that are constants (`MaxSessions`,
`MaxNews`, `MaxSets`, ...) the theorems are unbounded too: no proof uses more
than that they are numbers. Each inductive invariant was checked with TLC before
it was proved.

| Module | Theorems |
|---|---|
| `V2RootLifecycleProofs` | `TypeCorrect`, `StatusCorrect`, `ClosedOnce`, `BaselineCorrect` |
| `PipeProofs` | `SizeBounded`, `NoWakeupIsLost`, `PipeIsFifo` |
| `ActivityTimer` | `RunningTasksAreAlive`, `OneTask`, `ChecksAfterInterval` |
| `OutboundProofs` | `ListenersListed`, `OutboundsKnown`, `StrategyIsKept`, `OpenIsListed` |
| `MuxLinkProofs` | `StreamsAreKeptApart` |
| `XUDP` | `OneOwner` |
| `KCPProofs` | `InOrder`, `SenderForgetsNothing`, `AcksAreKept`, `ReceiverBounded`, `PeerClosedFirst` |
| `XHTTP` | `UploadsAreRead`, `ReuseIsLimited` |

The arguments:

- Life cycle. `StatusTracksServer` speaks only of states in which nobody holds
  `serverLock`, and is not inductive. The invariant adds who holds which lock at
  which point of a call (`LockInv`), that ids are fresh (`IdInv`), what the holder
  of `serverLock` has already done (`StageInv`), that the current server is not
  closed and belongs to `done` and `statsApiPort` (`ServerInv`), and that after
  the reset in `Start` only queries to the new server are under way
  (`BaselineInv`): `GetRealtimeSpeed` keeps `statsMutex` during its query and
  `Start` must take it, so an old answer cannot be stored after the reset.
- Pipe. `PipeIsFifo` is the refinement of `FifoChannel`. The invariant adds that
  what readers took followed by the buffer is what was accepted, until the pipe
  is interrupted (`FifoInv`), and that a writer in a call has begun a write.
- Periodic task. `RunningIsAlive` needs that the timer a task refers to works for
  that task (`TimerInv`): otherwise the Stop in a Close of one task could stop
  the timer that keeps another alive.
- Activity timer. That no task is started after the end rests on `mu`: a
  `SetTimeout` that is about to start a task has seen `consumed` unset with `mu`
  held, and `finish` needs `mu` to close the task (`MuInv`). That a check ends a
  connection only after a whole interval (`IdleFirst`) rests on there being
  one chain of checks as long as the timeout is set once (`ChainInv`), so that the
  token an Update left is taken by the check that comes an interval after the
  timer was armed (`QuietInv`).
- Handlers. `ListenerIsListed` is inductive as it stands. For `Select` the
  invariant says that every entry of the cache in use is the answer of this
  moment (`CacheInv`), and that both this answer and the one in the cache a call
  has loaded, in use or not, are among those that were right during the call
  (`CallInv`). A cache is replaced, never emptied, when handlers change; a call
  that holds the old one may fill it, and nobody reads it afterwards.
- Mux client. `WithinStrategy` is inductive once the sets of sessions are known
  to be finite: `Allocate` tests the limits again under the lock, and everything
  else only takes sessions out. `ListedIsOpen` needs that a session is listed by
  its own worker from Allocate until it is closed (`ListInv`); an idle worker is
  closed only when its manager lists nothing, and `Allocate` on a closed manager
  fails.
- Mux connection. An ID is never used again on a connection (`TablesInv`: the
  session that is dispatched as number n has ID n; IDs have 16 bits, and
  `LinkAssumption` says that a connection carries fewer sessions: the outbounds
  stop at 128, a portal drains its tunnels after 256). So what matters is the
  order in the two queues. `Opening` says that the New frame of a session is in front of
  all its other frames and on its way to a server that does not know the session;
  `Stream` that the chunks of a session in a queue are in order, above what the
  reader has and up to what the writer has sent, with none missing while the
  reader is open. Both are predicates of a sequence, with lemmas for appending and
  for taking the head.
- XUDP. That only one New works on a flow at a time follows from its status being
  Initializing (`TakeoverInv`). That a flow about to expire is out of use needs
  that the session of a flow is its last one (`FlowInv`), and that who closes a
  session holds the lock of that session's own worker (`OwnerInv`, `Held`). The
  last is false once a New has been overtaken between `x.Status = Active` and the
  reads of `x.Mux` after it (`Overtaken`): it then puts another worker's session
  into its own manager. The theorem excepts exactly that, as the property does.
- mKCP data. `DeliveredInOrder` compares payloads, not numbers: the invariant says
  that the window, a segment on the way and the cache hold under a number the
  payload that was written under it, and that what was read and what a reader has
  left over is what was written up to `nextNumber` of the receiver (`PayloadInv`,
  `ReadInv`). It also says what the segments on the way may claim (`NetInv`): no
  `sendingNext` is ahead of `firstUnacknowledged`, and no `receivingNext` or ack
  number is of a segment that has not arrived. The argument
  for `AckIsKept` is the one the code leaves unsaid: the receiver ignores segments
  below its window, so the only thing that can free the sender is the ack list,
  and it is cleared only below a number that the sender itself has announced as
  acknowledged.
- mKCP closing. `state` is stored without a lock, so that a decision may be stored
  when the state it was made in is long past. The invariant (`CloseInv`) says that
  whatever speaks of the close of an end (its own state, a segment on the way, a
  decision of its peer that is not stored yet) is there only after that end began
  to close.
- XHTTP. `UploadInOrder` needs where a packet can be: the request of a packet is
  on its way, or its handler is about to push it, only while no queue has had it
  (`OnceInv`); a queue holds a packet once, in its channel or its heap, and none it
  has read (`HeapInv`). So the least packet of the heap is the next one or a later
  one, and what has been read is two parts of every packet before the next and
  perhaps one of the next (`ReadInv`). `WithinReuse` needs that the uses a client
  has had and those it has left add up to the limit (`ReuseInv`).

Only model-checked, and why:

- every liveness property (`CallReturns`, `DeliversFifo`, `TasksGoOn`, `EndsWell`,
  `NothingIsLeft`, `SessionsEnd`, `OldIsForgotten`): fairness and ENABLED are
  outside what these proofs can express;
- what a recursive definition computes or needs induction over its data: matchers,
  merging, codecs and buffers (`configuration`, `proxies`, `Streams`, `Outgoing`);
- of `WorkersAreFound`, that the picker knows the open workers (it depends on what
  `cleanup` keeps of a sequence, which is such an induction) and that a dispatch
  finds a worker (true of sixteen tries and few dispatchers, not of any number);
- of `SharedAsLimited`, the open usages of clients (`UsageBalanced`): it counts
  the members of sets of dials;
- the components of the other modules (`Router`, `DNS`, `DNSQuery`, `Dispatch`,
  `Observatory`, `Relay`, `Reverse`, `UdpSessions`, `Listeners`,
  `TLSKeys`, `Admission`, `VlessEncryption`, `LogAndStats`): no proof has been
  attempted yet.

## 5. Where code and comments disagree

- `two_servers`: `core/xray.go` says that at most one server runs at any time.
  `Start` returns before `srv.Start()` has been called. If `srv.Start()` fails,
  `server` is cleared but nothing closes the instance, and the features it has
  started stay; and a `Stop` may close an instance that its goroutine starts
  afterwards. In both cases the next `Start` runs a second instance beside it.
- `keywords`: a keyword matcher is to find every input that contains its keyword
  (`common/strmatcher/strmatcher.go`). The automaton of a group does not carry
  what a fail node recognises over to the node, so that the keyword 2 is missed in
  the input 21 when 121 is a keyword as well.
- `certificates`: each listener is to load a renewed certificate again unless
  one-time loading is set (`transport/internet/tls/config.proto`). The listeners
  compare the files with one shared entry, which the first of them replaces; the
  others then see no change.

Seen while modelling, and written into the properties as the case they exclude:

- `ActivityTimer.SetTimeout` runs the first check of its new task with `mu`
  held. If the check of the old task has taken the token, `finish` is called
  under `mu` and waits for it (`FinishesUnderMu`). An old check may also end the
  timer early, so `ChecksElapsed` speaks of a timeout that is set once.
- `handleStatusNew` reads `x.Mux` after `x.Status = Active` has let the next New
  in (`Overtaken`): it may then add the other's session to its own manager.
- A session of a mux client that is closed between `Allocate` and the assignment
  of its input and output leaves its link open; `AddFeature` on a running instance
  does not register the feature; a pipe may exceed its limit by one write.
- An addition of a user that overlaps a removal of the same email leaves a user
  who logs in and can no longer be listed (`Admission`); a fallback for any name
  and alpn does not count for a name with entries for an alpn of its own.
- A port list of port 0 alone is written as a number that reads as no port
  (`Matchers`).
- `SniffHTTP` takes a Host line that was cut for a complete one, reports a part of
  the name or gives the request up, and looks for Host lines in the body when lines
  end in CRLF. Attributes are taken for those of the HTTP inbound once there are
  any, as a comment there says; in the second round they are those of the first, and
  stay as incomplete as they were (`Dispatch`).
- The upload goroutine of XHTTP replaces `xmuxClient` when its requests are used up,
  and `onClose` then takes the usage from the new client, which was never given it:
  from then on it may carry one connection more than its concurrency (`XHTTP`).
- `updateIP` starts the cleanup of the cache after it has unlocked. A Start that
  meets the cleanup about to stop does nothing, and one that finds the record already
  cleaned and the cleanup stopped, a minute later, panics (`DNSQuery`).
- An mKCP header, a path of XHTTP and other settings that a share link names do not
  reach the core (`ShareLink`, `SettingsLost`); users of one id take each other's
  login (`Admission`).
- A session whose handshake waits for a silent remote without a deadline does not
  end (`Relay`, `Stuck`); nor does an upload that waits in a full queue of a
  session nobody reads (`XHTTP`, `Stuck`).

## 6. What is not modelled

`PROJECT.json` lists every part with its status. Not meant to be modelled: the C
string interface, cryptography (a cipher is lossless for the right key and noise
for any other), JSON and URLs as text, regular expressions, REALITY and uTLS,
WireGuard, the sessions of Shadowsocks 2022, socket options of other platforms,
gRPC and HTTP libraries, the command line.

Left out of parts that are modelled: segment numbers of mKCP are assumed not to
wrap, and its congestion control only decides how much a flush sends, which is
left open; the connection under a mux worker is unbounded, so that a writer never
waits for the network; several pools of FakeDNS; counters and online maps of the
statistics.

Next to prove: the stream of `Relay` (`StreamIntact`) along the lines of the mux
connection.
