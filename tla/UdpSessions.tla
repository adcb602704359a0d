---------------------------- MODULE UdpSessions -----------------------------
(****************************************************************************)
(* UDP sessions: the connections an inbound worker makes of the packets     *)
(* that arrive (app/proxyman/inbound), and the links a dispatcher opens     *)
(* for them (transport/internet/udp).                                       *)
(****************************************************************************)
EXTENDS Naturals, FiniteSets

(***************************************************************************)
(* app/proxyman/inbound, udpWorker: the packets of a UDP listener become   *)
(* connections, one per source, which a proxy processes and which a        *)
(* periodic task closes when they have been idle.                          *)
(*                                                                         *)
(* One goroutine reads the hub and runs callback.  Every connection has a  *)
(* goroutine of its own, and the timers of checker run clean.  That a      *)
(* connection has been idle for two minutes is left open, and so is what   *)
(* the proxy does with the packets.                                        *)
(***************************************************************************)

CONSTANTS
  Sources,   \* bound: values of connID
  MaxConns   \* bound: connections

Conns == 1..MaxConns
None == 0

VARIABLES
  selfEnding, \* does the proxy end a connection by itself, or only when it is closed?
  activeConn, \* [Sources -> Conns \cup {None}]
  source,     \* [Conns -> Sources], for the connections made so far
  made,       \* how many these are
  done,       \* connections that are closed
  inactive,   \* connections with the flag inactive
  proc,       \* [Conns -> the goroutine: none, process, returned, remove, ended]
  calling,    \* the connection whose callback has still to call checker.Start
  running,    \* checker.running
  checking,   \* checker: none, armed (a timer), failing (clean has returned an error)
  open,       \* is the hub open?
  missed,     \* history: the last Start has met a checker that was about to stop
  panicked    \* common.Must(checker.Start()) has failed

workerVars == <<selfEnding, activeConn, source, made, done, inactive, proc, calling,
                running, checking, open, missed, panicked>>

WorkerInit ==
  /\ selfEnding \in BOOLEAN
  /\ activeConn = [s \in Sources |-> None]
  /\ source = [c \in Conns |-> CHOOSE s \in Sources : TRUE]
  /\ made = 0 /\ done = {} /\ inactive = {}
  /\ proc = [c \in Conns |-> "none"]
  /\ calling = None
  /\ running = FALSE /\ checking = "none"
  /\ open = TRUE /\ missed = FALSE /\ panicked = FALSE

Listed == {activeConn[s] : s \in Sources} \ {None}

-----------------------------------------------------------------------------
(* callback *)

\* getConnection, and the write to the connection's pipe, which never waits.
GetConnection(s) ==
  /\ open /\ calling = None /\ ~panicked
  /\ activeConn[s] = None \/ activeConn[s] \in done
  /\ made < MaxConns
  /\ made' = made + 1
  /\ source' = [source EXCEPT ![made + 1] = s]
  /\ activeConn' = [activeConn EXCEPT ![s] = made + 1]
  /\ calling' = made + 1
  /\ UNCHANGED <<selfEnding, done, inactive, proc, running, checking, open, missed, panicked>>

\* What clean does to the map, given the listed connections that are idle.
Clean(idle) ==
  /\ activeConn' = [s \in Sources |->
       IF activeConn[s] \in idle \ inactive THEN None ELSE activeConn[s]]
  /\ inactive' = inactive \cup idle
  /\ done' = done \cup idle

\* The rest of callback for a new connection: checker.Start, which runs clean at
\* once when the checker is not running, and the goroutine of the connection.
StartChecker ==
  /\ calling # None
  /\ calling' = None
  /\ proc' = [proc EXCEPT ![calling] = IF ~running /\ Listed = {} THEN @ ELSE "process"]
  /\ \/ /\ running
        /\ missed' = (checking = "failing")
        /\ UNCHANGED <<activeConn, inactive, done, running, checking, panicked>>
     \/ /\ ~running /\ Listed # {}
        /\ \E idle \in SUBSET (Listed \ {calling}) : Clean(idle)
        /\ running' = TRUE /\ checking' = "armed"
        /\ missed' = FALSE
        /\ UNCHANGED panicked
     \/ /\ ~running /\ Listed = {}
        /\ panicked' = TRUE
        /\ UNCHANGED <<activeConn, inactive, done, missed, running, checking>>
  /\ UNCHANGED <<selfEnding, source, made, open>>

\* The proxy returns: by itself, or because its connection is closed.
ProcessReturns(c) ==
  /\ proc[c] = "process" /\ (selfEnding \/ c \in done)
  /\ proc' = [proc EXCEPT ![c] = "returned"]
  /\ UNCHANGED <<selfEnding, activeConn, source, made, done, inactive, calling, running, checking, open, missed, panicked>>

\* conn.Close, and the look at conn.inactive without a lock.
GoroutineCloses(c) ==
  /\ proc[c] = "returned"
  /\ done' = done \cup {c}
  /\ proc' = [proc EXCEPT ![c] = IF c \in inactive THEN "ended" ELSE "remove"]
  /\ inactive' = inactive \cup {c}
  /\ UNCHANGED <<selfEnding, activeConn, source, made, calling, running, checking, open, missed, panicked>>

\* removeConn(id)
RemoveConn(c) ==
  /\ proc[c] = "remove"
  /\ activeConn' = [activeConn EXCEPT ![source[c]] = None]
  /\ proc' = [proc EXCEPT ![c] = "ended"]
  /\ UNCHANGED <<selfEnding, source, made, done, inactive, calling, running, checking, open, missed, panicked>>

-----------------------------------------------------------------------------
(* checker *)

\* Mutant: an idle connection is only taken from the map.
CheckForgets(idle) ==
  /\ checking = "armed" /\ running /\ Listed # {}
  /\ activeConn' = [s \in Sources |-> IF activeConn[s] \in idle THEN None ELSE activeConn[s]]
  /\ inactive' = inactive \cup idle
  /\ UNCHANGED <<selfEnding, source, made, done, proc, calling, running, checking, open, missed, panicked>>

\* A timer fires and clean finds connections; the timer is armed again.
Check(idle) ==
  /\ checking = "armed" /\ running /\ Listed # {}
  /\ Clean(idle)
  /\ UNCHANGED <<selfEnding, source, made, proc, calling, running, checking, open, missed, panicked>>

\* clean finds none and returns an error ...
CheckFails ==
  /\ checking = "armed" /\ running /\ Listed = {}
  /\ checking' = "failing"
  /\ UNCHANGED <<selfEnding, activeConn, source, made, done, inactive, proc, calling, running, open, missed, panicked>>

\* ... and checkedExecute clears running.
CheckStops ==
  /\ checking = "failing"
  /\ checking' = "none" /\ running' = FALSE
  /\ UNCHANGED <<selfEnding, activeConn, source, made, done, inactive, proc, calling, open, missed, panicked>>

\* Close: the hub and the checker.  The connections stay as they are.
Close ==
  /\ open
  /\ open' = FALSE /\ running' = FALSE
  /\ checking' = IF checking = "failing" THEN "failing" ELSE "none"
  /\ UNCHANGED <<selfEnding, activeConn, source, made, done, inactive, proc, calling, missed, panicked>>

WorkerNext ==
  \/ \E s \in Sources : GetConnection(s)
  \/ StartChecker \/ CheckFails \/ CheckStops \/ Close
  \/ \E idle \in SUBSET (Listed \ {calling}) : Check(idle)
  \/ \E c \in Conns : ProcessReturns(c) \/ GoroutineCloses(c) \/ RemoveConn(c)

WorkerSpec == WorkerInit /\ [][WorkerNext]_workerVars

\* Goroutines and timers run; a connection is idle some day; a proxy that ends
\* its connections by itself does so.
WorkerFairSpec ==
  /\ WorkerSpec
  /\ WF_workerVars(StartChecker \/ CheckFails \/ CheckStops)
  /\ WF_workerVars(\E idle \in SUBSET (Listed \ {calling}) : idle # {} /\ Check(idle))
  /\ WF_workerVars(\E c \in Conns : ProcessReturns(c) \/ GoroutineCloses(c) \/ RemoveConn(c))

-----------------------------------------------------------------------------
(* Properties *)

\* Every connection ends: a proxy that reads its connection until it is closed is
\* not left with one that nobody closes, whatever order clean, the goroutines
\* and new packets of the same source come in.  Three things are excepted.
\* After Close nobody checks.  A Start that takes a checker for running whose clean
\* has just found the map empty (Periodic.Start against checkedExecute) leaves the
\* connections unchecked until the next new one starts the checker again.  And a Start
\* whose clean finds the map empty fails, which callback turns into a panic
\* (common.Must): the program has ended.
AllEnded ==
  ~open \/ missed \/ panicked \/ \A c \in 1..made : c \in done /\ proc[c] = "ended"

-----------------------------------------------------------------------------
(***************************************************************************)
(* transport/internet/udp, Dispatcher: the packets of one UDP source go to *)
(* one link of the routing dispatcher, which is opened on demand and ends  *)
(* with its ActivityTimer, with its reader, or with RemoveRay; and         *)
(* dispatcherConn, a net.PacketConn on top of it.                          *)
(*                                                                         *)
(* The timer of an entry calls terminate once (module ActivityTimer).      *)
(* Packets are not told apart.                                             *)
(***************************************************************************)

CONSTANTS
  Writers,    \* goroutines that call Dispatch
  MaxEntries, \* bound: links
  CacheSize,  \* packets in dispatcherConn.cache, 16 in the code
  MaxReplies  \* bound: packets that come back on a link

Entries == 1..MaxEntries
NoEntry == 0

VARIABLES
  conn,      \* Dispatcher.conn, or None
  closed,    \* Dispatcher.closed
  entries,      \* links so far
  terminated,\* entries with the flag closed: the link is interrupted
  writing,   \* [Writers -> the entry whose link Dispatch is about to write to]
  input,     \* [Entries -> handleInput: none, read, callback, leaving, ended]
  pending,   \* [Entries -> packets in the link, to be read]
  replies,   \* [Entries -> packets that have come back so far]
  cache,     \* packets in dispatcherConn.cache
  readerDone,      \* dispatcherConn.done
  reader     \* ReadFrom: reading, eof

entryVars == <<conn, closed, entries, terminated, writing, input, pending, replies>>
connVars == <<cache, readerDone, reader>>
dispatcherVars == <<entryVars, connVars>>

DispatcherInit ==
  /\ conn = NoEntry /\ closed = FALSE /\ entries = 0 /\ terminated = {}
  /\ writing = [w \in Writers |-> NoEntry]
  /\ input = [e \in Entries |-> "none"]
  /\ pending = [e \in Entries |-> 0] /\ replies = [e \in Entries |-> 0]
  /\ cache = 0 /\ readerDone = FALSE /\ reader = "reading"

-----------------------------------------------------------------------------
(* Dispatcher *)

\* Mutant: a dispatcher that is closed opens links.
GetInboundRayClosed(w) ==
  /\ writing[w] = NoEntry
  /\ \/ /\ conn # NoEntry /\ conn \notin terminated
        /\ writing' = [writing EXCEPT ![w] = conn]
        /\ UNCHANGED <<conn, entries, input>>
     \/ /\ conn = NoEntry \/ conn \in terminated
        /\ entries < MaxEntries
        /\ entries' = entries + 1 /\ conn' = entries + 1
        /\ input' = [input EXCEPT ![entries + 1] = "read"]
        /\ writing' = [writing EXCEPT ![w] = entries + 1]
  /\ UNCHANGED <<closed, terminated, pending, replies, connVars>>

\* Dispatch, getInboundRay: the link in use, or a new one (the routing dispatcher
\* may refuse it, which changes nothing).  A closed dispatcher has none.
GetInboundRay(w) ==
  /\ writing[w] = NoEntry /\ ~closed
  /\ \/ /\ conn # NoEntry /\ conn \notin terminated
        /\ writing' = [writing EXCEPT ![w] = conn]
        /\ UNCHANGED <<conn, entries, input>>
     \/ /\ conn = NoEntry \/ conn \in terminated
        /\ entries < MaxEntries
        /\ entries' = entries + 1 /\ conn' = entries + 1
        /\ input' = [input EXCEPT ![entries + 1] = "read"]
        /\ writing' = [writing EXCEPT ![w] = entries + 1]
  /\ UNCHANGED <<closed, terminated, pending, replies, connVars>>

\* Dispatch, the write: it fails on an entry that has ended since, or for another
\* reason, and then the entry is closed.
DispatchWrites(w) ==
  /\ writing[w] # NoEntry
  /\ writing' = [writing EXCEPT ![w] = NoEntry]
  /\ terminated' \in {terminated, terminated \cup {writing[w]}}
  /\ UNCHANGED <<conn, closed, entries, input, pending, replies, connVars>>

\* The timer: a minute without a packet that comes back.
TimesOut(e) ==
  /\ e \in 1..entries /\ e \notin terminated
  /\ terminated' = terminated \cup {e}
  /\ UNCHANGED <<conn, closed, entries, writing, input, pending, replies, connVars>>

RemoveRay ==
  /\ ~closed
  /\ closed' = TRUE
  /\ conn' = NoEntry
  /\ terminated' = terminated \cup ({conn} \ {NoEntry})
  /\ UNCHANGED <<entries, writing, input, pending, replies, connVars>>

\* The outbound answers.
Reply(e) ==
  /\ e \in 1..entries /\ e \notin terminated /\ replies[e] < MaxReplies
  /\ replies' = [replies EXCEPT ![e] = @ + 1]
  /\ pending' = [pending EXCEPT ![e] = @ + 1]
  /\ UNCHANGED <<conn, closed, entries, terminated, writing, input, connVars>>

\* handleInput: it leaves when the context is done or the link has no more, ...
HandleInputLeaves(e) ==
  /\ input[e] = "read" /\ (e \in terminated \/ pending[e] = 0)
  /\ input' = [input EXCEPT ![e] = "leaving"]
  /\ UNCHANGED <<conn, closed, entries, terminated, writing, pending, replies, connVars>>

\* ... and otherwise takes what there is ...
HandleInputReads(e) ==
  /\ input[e] = "read" /\ pending[e] > 0
  /\ input' = [input EXCEPT ![e] = "callback"]
  /\ UNCHANGED <<conn, closed, entries, terminated, writing, pending, replies, connVars>>

\* ... and calls callback for every packet, which drops it when the cache is full
\* and, by chance, when the connection is done.
Callback(e) ==
  /\ input[e] = "callback"
  /\ pending' = [pending EXCEPT ![e] = @ - 1]
  /\ input' = [input EXCEPT ![e] = IF pending[e] > 1 THEN "callback" ELSE "read"]
  /\ \/ cache < CacheSize /\ cache' = cache + 1
     \/ (cache = CacheSize \/ readerDone) /\ UNCHANGED cache
  /\ UNCHANGED <<conn, closed, entries, terminated, writing, replies, readerDone, reader>>

\* handleInput, the deferred calls: conn.Close and callClose.
HandleInputEnds(e) ==
  /\ input[e] = "leaving"
  /\ input' = [input EXCEPT ![e] = "ended"]
  /\ terminated' = terminated \cup {e}
  /\ readerDone' = TRUE
  /\ UNCHANGED <<conn, closed, entries, writing, pending, replies, cache, reader>>

-----------------------------------------------------------------------------
(* dispatcherConn *)

ReadFrom ==
  /\ reader = "reading"
  /\ \/ cache > 0 /\ cache' = cache - 1 /\ UNCHANGED reader
     \/ cache = 0 /\ readerDone /\ reader' = "eof" /\ UNCHANGED cache
  /\ UNCHANGED <<entryVars, readerDone>>

DispatcherClose ==
  /\ ~readerDone
  /\ readerDone' = TRUE
  /\ UNCHANGED <<entryVars, cache, reader>>

DispatcherNext ==
  \/ \E w \in Writers : GetInboundRay(w) \/ DispatchWrites(w)
  \/ \E e \in Entries :
       \/ TimesOut(e) \/ Reply(e)
       \/ HandleInputLeaves(e) \/ HandleInputReads(e) \/ Callback(e) \/ HandleInputEnds(e)
  \/ RemoveRay \/ ReadFrom \/ DispatcherClose

DispatcherSpec == DispatcherInit /\ [][DispatcherNext]_dispatcherVars

-----------------------------------------------------------------------------
(* Properties *)

\* No link is left behind: one that is open and that packets can still come back
\* on is the one the dispatcher knows, so that RemoveRay leaves none open and a
\* Dispatch that comes later, or was on its way, opens none.
OpenLinkIsKnown == \A e \in 1..entries : e \notin terminated => e = conn /\ ~closed
=============================================================================
