------------------------------- MODULE XHTTP --------------------------------
(****************************************************************************)
(* transport/internet/splithttp: the session of a connection in packet-up   *)
(* mode, and the HTTP clients that connections share.                       *)
(****************************************************************************)
EXTENDS Sequences, FiniteSets, Integers, FiniteSetsExt, TLAPS

(***************************************************************************)
(* transport/internet/splithttp in its packet-up mode: a connection whose  *)
(* uploads are numbered POST requests, which overtake each other, and      *)
(* whose downloads are the response to one GET request.  On the server a   *)
(* session brings them together: requestHandler.sessions, and in a session *)
(* the upload queue, which puts the packets in order again.                *)
(*                                                                         *)
(* A session that expires before its GET request arrives is forgotten; the *)
(* requests still to come then find a new one under the same id.  The      *)
(* sessions of the id are numbered.  A payload is read in two parts.  No   *)
(* request arrives twice.                                                  *)
(***************************************************************************)

CONSTANTS
  Packets,      \* bound: packets the client uploads
  MaxPackets,   \* ScMaxBufferedPosts
  MaxSessions   \* bound: sessions of the id

Sessions == 1..MaxSessions
Seqs == 0..(Packets - 1)
Free == Packets    \* writeCloseMutex is not held

VARIABLES
  posted,    \* packets the client has sent so far
  inflight,  \* requests on their way
  failed,    \* some request has failed: uploadPipeReader.Interrupt
  pushing,   \* [Seqs -> session the handler of a POST pushes to, 0 if none]
  current,   \* the session in requestHandler.sessions, 0 if none
  created,   \* how many sessions there have been
  reaper,    \* sessions whose reaping goroutine still waits
  closing,   \* sessions whose queue a goroutine is about to close
  get,       \* the GET request: idle, found, serving, ending, done
  mine,      \* the session it has found
  chan,      \* uploadQueue.pushedPackets of every session
  heap,      \* uploadQueue.heap, with the part still to be read
  nextSeq, closed, mutex,
  reading,   \* the reader of the connection: none, ready, wait, pop, ended
  delivered  \* what it has got

queueVars == <<chan, heap, nextSeq, closed, mutex, reading, delivered>>
httpVars == <<pushing, current, created, reaper, closing, get, mine>>
vars == <<posted, inflight, failed, httpVars, queueVars>>

Init ==
  /\ posted = 0 /\ inflight = {} /\ failed = FALSE
  /\ pushing = [p \in Seqs |-> 0]
  /\ current = 0 /\ created = 0 /\ reaper = {} /\ closing = {}
  /\ get = "idle" /\ mine = 0
  /\ chan = [s \in Sessions |-> <<>>] /\ heap = [s \in Sessions |-> {}]
  /\ nextSeq = [s \in Sessions |-> 0] /\ closed = [s \in Sessions |-> FALSE]
  /\ mutex = [s \in Sessions |-> Free]
  /\ reading = [s \in Sessions |-> "none"] /\ delivered = [s \in Sessions |-> <<>>]

-----------------------------------------------------------------------------
(* The client *)

\* The goroutine of Dial: one request per chunk, started when the one before
\* has been written, not when it has been answered.
Post ==
  /\ posted < Packets /\ ~failed
  /\ posted' = posted + 1
  /\ inflight' = inflight \cup {posted}
  /\ UNCHANGED <<failed, httpVars, queueVars>>

\* PostPacket fails.
PostFails(p) ==
  /\ p \in inflight
  /\ inflight' = inflight \ {p}
  /\ failed' = TRUE
  /\ UNCHANGED <<posted, httpVars, queueVars>>

-----------------------------------------------------------------------------
(* requestHandler *)

\* upsertSession: the session of the id, or a new one with its reaper.
Upsert(s) ==
  \/ /\ current # 0 /\ s = current
     /\ UNCHANGED <<current, created, reaper>>
  \/ /\ current = 0 /\ created < MaxSessions /\ s = created + 1
     /\ current' = s /\ created' = s /\ reaper' = reaper \cup {s}

\* ServeHTTP for a POST request.
ServePost(p) ==
  /\ p \in inflight
  /\ inflight' = inflight \ {p}
  /\ \E s \in Sessions : Upsert(s) /\ pushing' = [pushing EXCEPT ![p] = s]
  /\ UNCHANGED <<posted, failed, closing, get, mine, queueVars>>

\* ServeHTTP for the GET request: from here on the session is not reaped.
ServeGet ==
  /\ get = "idle"
  /\ get' = "found"
  /\ \E s \in Sessions : Upsert(s) /\ mine' = s
  /\ UNCHANGED <<posted, inflight, failed, pushing, closing, queueVars>>

Connect ==
  /\ get = "found"
  /\ get' = "serving"
  /\ reaper' = reaper \ {mine}
  /\ reading' = [reading EXCEPT ![mine] = "ready"]
  /\ UNCHANGED <<posted, inflight, failed, pushing, current, created, closing, mine,
                 chan, heap, nextSeq, closed, mutex, delivered>>

\* The connection is closed from either side, and closes its reader.
GetEnds ==
  /\ get = "serving"
  /\ get' = "ending"
  /\ closing' = closing \cup {mine}
  /\ UNCHANGED <<posted, inflight, failed, pushing, current, created, reaper, mine, queueVars>>

\* conn.Close has returned: the deferred Delete.
GetReturns ==
  /\ get = "ending" /\ mine \notin closing
  /\ get' = "done"
  /\ current' = 0
  /\ UNCHANGED <<posted, inflight, failed, pushing, created, reaper, closing, mine, queueVars>>

\* Mutant: the reaper only closes the queue.
ReapKeeps(s) ==
  /\ s \in reaper
  /\ reaper' = reaper \ {s}
  /\ closing' = closing \cup {s}
  /\ UNCHANGED <<posted, inflight, failed, pushing, current, created, get, mine, queueVars>>

\* 30 s without a GET request.
Reap(s) ==
  /\ s \in reaper
  /\ reaper' = reaper \ {s}
  /\ current' = 0
  /\ closing' = closing \cup {s}
  /\ UNCHANGED <<posted, inflight, failed, pushing, created, get, mine, queueVars>>

-----------------------------------------------------------------------------
(* uploadQueue *)

\* Push to a closed queue fails, and so does the request.
PushFails(p) ==
  LET s == pushing[p] IN
  /\ s # 0 /\ mutex[s] = Free /\ closed[s]
  /\ pushing' = [pushing EXCEPT ![p] = 0]
  /\ failed' = TRUE
  /\ UNCHANGED <<posted, inflight, current, created, reaper, closing, get, mine, queueVars>>

PushLocks(p) ==
  LET s == pushing[p] IN
  /\ s # 0 /\ mutex[s] = Free /\ ~closed[s]
  /\ mutex' = [mutex EXCEPT ![s] = p]
  /\ UNCHANGED <<posted, inflight, failed, httpVars, chan, heap, nextSeq, closed, reading, delivered>>

\* The send to the channel, while the mutex is held.
Push(p) ==
  LET s == pushing[p] IN
  /\ s # 0 /\ mutex[s] = p
  /\ Len(chan[s]) < MaxPackets
  /\ chan' = [chan EXCEPT ![s] = Append(@, p)]
  /\ mutex' = [mutex EXCEPT ![s] = Free]
  /\ pushing' = [pushing EXCEPT ![p] = 0]
  /\ UNCHANGED <<posted, inflight, failed, current, created, reaper, closing, get, mine,
                 heap, nextSeq, closed, reading, delivered>>

\* Close drops what is in the channel.
Close(s) ==
  /\ s \in closing /\ mutex[s] = Free
  /\ closing' = closing \ {s}
  /\ closed' = [closed EXCEPT ![s] = TRUE]
  /\ chan' = [chan EXCEPT ![s] = <<>>]
  /\ UNCHANGED <<posted, inflight, failed, pushing, current, created, reaper, get, mine,
                 heap, nextSeq, mutex, reading, delivered>>

ReadStep(s, how, to) == reading[s] = how /\ reading' = [reading EXCEPT ![s] = to]

\* Read, up to where it waits for a packet or looks at the heap.
ReadBegins(s) ==
  /\ ReadStep(s, "ready", IF closed[s] THEN "ended" ELSE IF heap[s] = {} THEN "wait" ELSE "pop")
  /\ UNCHANGED <<posted, inflight, failed, httpVars, chan, heap, nextSeq, closed, mutex, delivered>>

ReadReceives(s) ==
  /\ chan[s] # <<>>
  /\ ReadStep(s, "wait", "pop")
  /\ heap' = [heap EXCEPT ![s] = @ \cup {[seq |-> Head(chan[s]), part |-> 1]}]
  /\ chan' = [chan EXCEPT ![s] = Tail(@)]
  /\ UNCHANGED <<posted, inflight, failed, httpVars, nextSeq, closed, mutex, delivered>>

ReadEOF(s) ==
  /\ chan[s] = <<>> /\ closed[s]
  /\ ReadStep(s, "wait", "ended")
  /\ UNCHANGED <<posted, inflight, failed, httpVars, chan, heap, nextSeq, closed, mutex, delivered>>

\* heap.Pop
Least(s, p) == p \in heap[s] /\ \A q \in heap[s] : p.seq <= q.seq

\* Mutant: a packet that is ahead is read when there is no other.
ReadPopsAhead(s, p) ==
  /\ Least(s, p) /\ p.seq >= nextSeq[s]
  /\ ReadStep(s, "pop", "ready")
  /\ delivered' = [delivered EXCEPT ![s] = @ \o <<[seq |-> p.seq, part |-> p.part]>>]
  /\ heap' = [heap EXCEPT ![s] = (@ \ {p}) \cup IF p.part = 1 THEN {[p EXCEPT !.part = 2]} ELSE {}]
  /\ nextSeq' = [nextSeq EXCEPT ![s] = IF p.part = 2 THEN p.seq + 1 ELSE @]
  /\ UNCHANGED <<posted, inflight, failed, httpVars, chan, closed, mutex>>

\* The next packet: half of it is read, or what is left.
ReadPops(s, p) ==
  /\ Least(s, p) /\ p.seq = nextSeq[s]
  /\ ReadStep(s, "pop", "ready")
  /\ delivered' = [delivered EXCEPT ![s] = Append(@, p)]
  /\ heap' = [heap EXCEPT ![s] = (@ \ {p}) \cup IF p.part = 1 THEN {[p EXCEPT !.part = 2]} ELSE {}]
  /\ nextSeq' = [nextSeq EXCEPT ![s] = IF p.part = 2 THEN p.seq + 1 ELSE @]
  /\ UNCHANGED <<posted, inflight, failed, httpVars, chan, closed, mutex>>

\* A packet that is ahead waits in the heap, unless there are too many.
ReadWaits(s, p) ==
  /\ Least(s, p) /\ p.seq > nextSeq[s]
  /\ ReadStep(s, "pop", IF Cardinality(heap[s]) - 1 > MaxPackets THEN "ended" ELSE "wait")
  /\ UNCHANGED <<posted, inflight, failed, httpVars, chan, heap, nextSeq, closed, mutex, delivered>>

\* The proxy behind the connection reads no more.
ReaderStops(s) ==
  /\ ReadStep(s, "ready", "ended")
  /\ UNCHANGED <<posted, inflight, failed, httpVars, chan, heap, nextSeq, closed, mutex, delivered>>

QueueNext(s) ==
  \/ Close(s) \/ ReadBegins(s) \/ ReadReceives(s) \/ ReadEOF(s) \/ ReaderStops(s)
  \/ \E p \in heap[s] : ReadPops(s, p) \/ ReadWaits(s, p)

Next ==
  \/ Post \/ ServeGet \/ Connect \/ GetEnds \/ GetReturns
  \/ \E p \in Seqs : PostFails(p) \/ ServePost(p) \/ PushFails(p) \/ PushLocks(p) \/ Push(p)
  \/ \E s \in Sessions : Reap(s) \/ QueueNext(s)

Spec == Init /\ [][Next]_vars

\* The server's goroutines run; a connection ends some day (its proxy closes it
\* when it is idle).
FairSpec ==
  /\ Spec
  /\ WF_vars(Connect \/ GetEnds \/ GetReturns)
  /\ WF_vars(\E p \in Seqs : PushFails(p) \/ PushLocks(p) \/ Push(p))
  /\ WF_vars(\E s \in Sessions : Reap(s))
  /\ WF_vars(\E s \in Sessions : QueueNext(s))

-----------------------------------------------------------------------------
(* Properties *)

\* However the requests overtake each other and however little a Read takes,
\* the reader of a session gets the parts of the packets in the order in which
\* the client has sent them, without a gap (uploadQueue.Read).
UploadInOrder ==
  \A s \in Sessions : \A i \in DOMAIN delivered[s] :
    delivered[s][i] = [seq |-> (i - 1) \div 2, part |-> 1 + ((i - 1) % 2)]

\* A handler that holds writeCloseMutex waits for room in a queue nobody reads.
Stuck(s) == mutex[s] \in Seqs /\ Len(chan[s]) = MaxPackets /\ reading[s] = "ended"

\* The comment in ServeHTTP: "after GET is done, the connection is finished.
\* disable automatic session reaping, and handle it in defer".
SessionsEnd == <>[](current = 0)

-----------------------------------------------------------------------------
(***************************************************************************)
(* transport/internet/splithttp on the dialing side: XmuxManager, which    *)
(* shares HTTP clients between connections within configured limits, and   *)
(* the life of a connection as far as it uses clients (Dial).              *)
(*                                                                         *)
(* Zero stands for "no limit", as in the configuration.  Whether a client  *)
(* is past its UnreusableAt is left open (it is marked stale at any time). *)
(* With DownloadSettings the downloads have a manager of their own, whose  *)
(* connections are like those here that upload nothing.                    *)
(***************************************************************************)

CONSTANTS
  Limits,      \* the configured limits: [connections, concurrency, reuse, requests]
  Dials,       \* connections that are dialed
  MaxClients,  \* bound: clients that are created
  MaxPosts     \* bound: packets a connection uploads

Clients == 1..MaxClients
Modes == {"packet-up", "stream-up", "stream-one"}

VARIABLES
  limits,     \* of this manager, rolled once
  list,       \* XmuxManager.xmuxClients
  clientsMade,    \* clients created so far
  leftUsage, leftRequests, openUsage,  \* of every client
  dead,       \* clients that are closed, or stale, which only Post tells apart
  used,       \* how often a client has been handed out
  conn,       \* [Dials -> idle, got, open, closing, closed]
  mode,       \* of every connection
  apart,      \* whether there are DownloadSettings
  client,     \* the xmuxClient variable of every connection
  first,      \* what it was when the connection was dialed
  replaces,   \* connections whose upload is about to replace the client
  posts,      \* packets a connection has uploaded
  moves       \* history: uploads that have moved to a client

xmuxVars == <<limits, list, clientsMade, leftUsage, leftRequests, openUsage, dead, used,
              conn, mode, apart, client, first, replaces, posts, moves>>

\* NewXmuxManager
XmuxInit ==
  /\ limits \in Limits
  /\ list = {} /\ clientsMade = 0 /\ dead = {}
  /\ leftUsage = [c \in Clients |-> 0] /\ leftRequests = [c \in Clients |-> 0]
  /\ openUsage = [c \in Clients |-> 0] /\ used = [c \in Clients |-> 0]
  /\ conn = [d \in Dials |-> "idle"] /\ client = [d \in Dials |-> 0] /\ first = client
  /\ mode \in {[d \in Dials |-> m] : m \in Modes} /\ posts = [d \in Dials |-> 0]
  /\ apart \in BOOLEAN /\ (apart => \A d \in Dials : mode[d] # "stream-one")
  /\ replaces = {} /\ moves = [c \in Clients |-> 0]

\* Clients GetXmuxClient removes from the list first.
Unusable(c) ==
  \/ c \in dead
  \/ limits.reuse > 0 /\ leftUsage[c] = 0
  \/ limits.requests > 0 /\ leftRequests[c] <= 0

Usable == {c \in list : ~Unusable(c)}

\* newXmuxClient
NewClient(c) ==
  /\ clientsMade < MaxClients /\ c = clientsMade + 1
  /\ clientsMade' = c
  /\ list' = Usable \cup {c}
  /\ leftUsage' = [leftUsage EXCEPT ![c] = limits.reuse - 1]
  /\ leftRequests' = [leftRequests EXCEPT ![c] = limits.requests]
  /\ used' = [used EXCEPT ![c] = 1]

\* Clients with room for one more connection.
Candidates ==
  {c \in Usable : limits.concurrency > 0 => openUsage[c] < limits.concurrency}

\* Mutant: a client may be handed out once more after its first use.
GetXmuxClientOnce(c) ==
  \/ /\ \/ Usable = {}
        \/ limits.connections > 0 /\ Cardinality(Usable) < limits.connections
        \/ Candidates = {}
     /\ clientsMade < MaxClients /\ c = clientsMade + 1
     /\ clientsMade' = c /\ list' = Usable \cup {c}
     /\ leftUsage' = [leftUsage EXCEPT ![c] = limits.reuse]
     /\ leftRequests' = [leftRequests EXCEPT ![c] = limits.requests]
     /\ used' = [used EXCEPT ![c] = 1]
  \/ /\ c \in Candidates
     /\ ~(limits.connections > 0 /\ Cardinality(Usable) < limits.connections)
     /\ list' = Usable
     /\ leftUsage' = [leftUsage EXCEPT ![c] = IF @ > 0 THEN @ - 1 ELSE @]
     /\ used' = [used EXCEPT ![c] = @ + 1]
     /\ UNCHANGED <<clientsMade, leftRequests>>

\* GetXmuxClient: a new client when there is none, when more connections are
\* wanted, or when all are full; otherwise one of the candidates.
GetXmuxClient(c) ==
  \/ /\ \/ Usable = {}
        \/ limits.connections > 0 /\ Cardinality(Usable) < limits.connections
        \/ Candidates = {}
     /\ NewClient(c)
  \/ /\ c \in Candidates
     /\ ~(limits.connections > 0 /\ Cardinality(Usable) < limits.connections)
     /\ list' = Usable
     /\ leftUsage' = [leftUsage EXCEPT ![c] = IF @ > 0 THEN @ - 1 ELSE @]
     /\ used' = [used EXCEPT ![c] = @ + 1]
     /\ UNCHANGED <<clientsMade, leftRequests>>

\* Dial: getHTTPClient, under globalDialerAccess.
DialGets(d, c) ==
  /\ conn[d] = "idle"
  /\ GetXmuxClient(c)
  /\ conn' = [conn EXCEPT ![d] = "got"]
  /\ client' = [client EXCEPT ![d] = c] /\ first' = [first EXCEPT ![d] = c]
  /\ UNCHANGED <<limits, openUsage, dead, mode, apart, replaces, posts, moves>>

\* The rest of Dial, which is not under the lock: a request for the download,
\* unless that has its own client, and one for an upload that is a stream.
DialOpens(d) ==
  /\ conn[d] = "got"
  /\ conn' = [conn EXCEPT ![d] = "open"]
  /\ openUsage' = [openUsage EXCEPT ![client[d]] = @ + 1]
  /\ leftRequests' = [leftRequests EXCEPT ![client[d]] =
       @ - (IF apart THEN 0 ELSE 1) - (IF mode[d] = "stream-up" THEN 1 ELSE 0)]
  /\ UNCHANGED <<limits, list, clientsMade, leftUsage, dead, used, mode, apart, client, first,
                 replaces, posts, moves>>

\* The upload goroutine, which ends only when it has uploaded what was written
\* before Close: it takes a request of its client ...
XmuxPost(d) ==
  /\ conn[d] \notin {"idle", "got"} /\ d \notin replaces
  /\ mode[d] = "packet-up" /\ posts[d] < MaxPosts
  /\ posts' = [posts EXCEPT ![d] = @ + 1]
  /\ leftRequests' = [leftRequests EXCEPT ![client[d]] = @ - 1]
  /\ LET last == limits.requests > 0 /\ leftRequests[client[d]] - 1 <= 0 IN
     \/ (last \/ client[d] \in dead) /\ replaces' = replaces \cup {d}
     \/ ~last /\ UNCHANGED replaces
  /\ UNCHANGED <<limits, list, clientsMade, leftUsage, openUsage, dead, used, conn, mode, apart,
                 client, first, moves>>

\* ... and replaces one that has had its last, or is stale, for the packets to
\* come.  The variable is the one onClose reads, without a lock.
XmuxReplace(d, c) ==
  /\ d \in replaces /\ replaces' = replaces \ {d}
  /\ GetXmuxClient(c)
  /\ client' = [client EXCEPT ![d] = c]
  /\ moves' = [moves EXCEPT ![c] = @ + 1]
  /\ UNCHANGED <<limits, openUsage, dead, conn, mode, apart, first, posts>>

\* Mutant: every call of Close counts.
CloseTwice(d) ==
  /\ conn[d] = "open" \/ (conn[d] = "closed" /\ openUsage[client[d]] > -2)
  /\ conn' = [conn EXCEPT ![d] = "closing"]
  /\ openUsage' = [openUsage EXCEPT ![client[d]] = @ - 1]
  /\ UNCHANGED <<limits, list, clientsMade, leftUsage, leftRequests, dead, used, mode, apart,
                 client, first, replaces, posts, moves>>

\* splitConn.onClose, the first time: xmuxClient is the client of the moment ...
XmuxClose(d) ==
  /\ conn[d] = "open"
  /\ conn' = [conn EXCEPT ![d] = "closing"]
  /\ openUsage' = [openUsage EXCEPT ![client[d]] = @ - 1]
  /\ UNCHANGED <<limits, list, clientsMade, leftUsage, leftRequests, dead, used, mode, apart,
                 client, first, replaces, posts, moves>>

\* ... and xmuxClient2, without DownloadSettings, the one the connection was
\* dialed with, if that is now another.
XmuxCloseSecond(d) ==
  /\ conn[d] = "closing"
  /\ conn' = [conn EXCEPT ![d] = "closed"]
  /\ openUsage' = IF apart \/ first[d] = client[d] THEN openUsage
                  ELSE [openUsage EXCEPT ![first[d]] = @ - 1]
  /\ UNCHANGED <<limits, list, clientsMade, leftUsage, leftRequests, dead, used, mode, apart,
                 client, first, replaces, posts, moves>>

\* A request of the client fails, or it has become too old.
Dies(c) ==
  /\ c \in 1..clientsMade /\ c \notin dead
  /\ dead' = dead \cup {c}
  /\ UNCHANGED <<limits, list, clientsMade, leftUsage, leftRequests, openUsage, used, conn, mode,
                 apart, client, first, replaces, posts, moves>>

XmuxNext ==
  \/ \E d \in Dials, c \in Clients : DialGets(d, c) \/ XmuxReplace(d, c)
  \/ \E d \in Dials : DialOpens(d) \/ XmuxPost(d) \/ XmuxClose(d) \/ XmuxCloseSecond(d)
  \/ \E c \in Clients : Dies(c)

XmuxSpec == XmuxInit /\ [][XmuxNext]_xmuxVars

-----------------------------------------------------------------------------
(* Properties *)

\* A client is handed out at most cMaxReuseTimes times, the replacements of the
\* upload goroutine included (leftUsage starts at one less).
WithinReuse == limits.reuse > 0 => \A c \in Clients : used[c] <= limits.reuse

\* A client that may still be handed out never looks fuller than it is: its open
\* usage is at most the connections dialed with it that are open, and falls short
\* of them by no more than the uploads that have moved to it.  Those do not count
\* for it while they last, but their Close takes one from it, so that the limit on
\* concurrency admits one more from then on; the client they left, which Close may
\* miss or take from twice, has had its last request or is stale.
DialedWith(c) == Cardinality({d \in Dials : conn[d] = "open" /\ first[d] = c})
UsageBalanced ==
  \A c \in 1..clientsMade :
    ~Unusable(c) => openUsage[c] \in DialedWith(c) - moves[c]..DialedWith(c)

-----------------------------------------------------------------------------
(* Proof of UploadInOrder, for any number of packets, sessions and buffered *)
(* packets                                                                  *)

Part == [seq : Seqs, part : {1, 2}]

QueueTypeOK ==
  /\ posted \in Nat /\ inflight \subseteq Seqs
  /\ pushing \in [Seqs -> {0} \cup Sessions]
  /\ chan \in [Sessions -> Seq(Seqs)] /\ heap \in [Sessions -> SUBSET Part]
  /\ nextSeq \in [Sessions -> Nat] /\ delivered \in [Sessions -> Seq(Part)]

\* The packet p has not been in the queue of session s.
Untouched(s, p) ==
  /\ nextSeq[s] <= p
  /\ \A i \in 1..Len(chan[s]) : chan[s][i] # p
  /\ \A q \in heap[s] : q.seq # p

\* A packet on its way to a queue is in none: the client sends each once, and the
\* handler of its request pushes it once.
OnceInv ==
  /\ \A p \in Seqs : p >= posted => p \notin inflight /\ pushing[p] = 0 /\ \A s \in Sessions : Untouched(s, p)
  /\ \A p \in inflight : pushing[p] = 0
  /\ \A p \in Seqs : p \in inflight \/ pushing[p] # 0 => \A s \in Sessions : Untouched(s, p)

\* What waits in a queue has not been read, and is there once; only of the packet
\* that is next the first part may have been read.
HeapInv(s) ==
  /\ \A i \in 1..Len(chan[s]) :
       /\ nextSeq[s] <= chan[s][i]
       /\ \A q \in heap[s] : q.seq # chan[s][i]
       /\ \A j \in 1..Len(chan[s]) : chan[s][i] = chan[s][j] => i = j
  /\ \A q, r \in heap[s] : q.seq = r.seq => q = r
  /\ \A q \in heap[s] : nextSeq[s] <= q.seq /\ (q.part = 2 => q.seq = nextSeq[s])

InOrder(d) == \A i \in 1..Len(d) : d[i] = [seq |-> (i - 1) \div 2, part |-> 1 + ((i - 1) % 2)]

ReadInv(s) ==
  /\ Len(delivered[s]) = 2 * nextSeq[s] + IF \E q \in heap[s] : q.part = 2 THEN 1 ELSE 0
  /\ InOrder(delivered[s])

QueueInv == OnceInv /\ \A s \in Sessions : HeapInv(s) /\ ReadInv(s)

\* The next part of a stream that is in order.
LEMMA InOrderAppends ==
  ASSUME NEW d \in Seq(Part), NEW p \in Part, p.seq \in Nat,
         InOrder(d), Len(d) = 2 * p.seq + p.part - 1
  PROVE  InOrder(Append(d, p))
<1>0. PICK n \in Nat, k \in {1, 2} : p.seq = n /\ p.part = k
  BY DEF Part
<1>1. p = [seq |-> n, part |-> k]
  BY <1>0 DEF Part
<1>2. ((2 * n + k) - 1) \div 2 = n /\ 1 + (((2 * n + k) - 1) % 2) = k
  BY Z3
<1>3. Len(d) = 2 * n + k - 1 /\ Len(Append(d, p)) = 2 * n + k
  BY <1>0
<1>4. ASSUME NEW i \in 1..Len(Append(d, p))
      PROVE  Append(d, p)[i] = [seq |-> (i - 1) \div 2, part |-> 1 + ((i - 1) % 2)]
  <2>1. CASE i = 2 * n + k
    BY <1>1, <1>2, <1>3, <2>1
  <2>2. CASE i # 2 * n + k
    BY <1>3, <2>2 DEF InOrder
  <2> QED
    BY <2>1, <2>2
<1> QED
  BY <1>4 DEF InOrder

\* A step that leaves the queues alone.
LEMMA QueuesStay ==
  ASSUME QueueInv, UNCHANGED <<chan, heap, nextSeq, delivered>>
  PROVE  /\ \A s \in Sessions : HeapInv(s)' /\ ReadInv(s)'
         /\ \A s \in Sessions, p \in Seqs : Untouched(s, p) => Untouched(s, p)'
BY DEF QueueInv, HeapInv, ReadInv, Untouched

\* The client and the handlers move a request on, and touch no queue.
LEMMA RequestsMove ==
  ASSUME Packets \in Nat, QueueTypeOK, QueueInv,
         \/ Post \/ ServeGet \/ Connect \/ GetEnds \/ GetReturns
         \/ \E p \in Seqs : PostFails(p) \/ ServePost(p) \/ PushFails(p) \/ PushLocks(p)
         \/ \E s \in Sessions : Reap(s) \/ ReadBegins(s) \/ ReadEOF(s) \/ ReaderStops(s)
         \/ \E s \in Sessions : \E p \in heap[s] : ReadWaits(s, p)
  PROVE  QueueTypeOK' /\ QueueInv'
<1>1. UNCHANGED <<chan, heap, nextSeq, delivered>>
  BY DEF Post, ServeGet, Connect, GetEnds, GetReturns, PostFails, ServePost, PushFails, PushLocks,
         Reap, ReadBegins, ReadEOF, ReaderStops, ReadWaits, queueVars
<1>2. \/ UNCHANGED <<posted, inflight, pushing>>
      \/ Post
      \/ \E p \in Seqs : PostFails(p) \/ ServePost(p) \/ PushFails(p)
  BY DEF ServeGet, Connect, GetEnds, GetReturns, PushLocks,
         Reap, ReadBegins, ReadEOF, ReaderStops, ReadWaits, httpVars
<1>3. QueueTypeOK' /\ OnceInv'
  <2>1. CASE UNCHANGED <<posted, inflight, pushing>>
    BY <1>1, <2>1 DEF QueueTypeOK, QueueInv, OnceInv, Untouched
  <2>2. CASE Post
    <3>1. posted \in Seqs /\ posted' = posted + 1 /\ inflight' = inflight \cup {posted} /\ pushing' = pushing
      BY <2>2 DEF Post, QueueTypeOK, Seqs, httpVars
    <3>2. QueueTypeOK'
      BY <1>1, <3>1 DEF QueueTypeOK
    <3>3. OnceInv'
      BY <1>1, <3>1, QueuesStay DEF QueueTypeOK, QueueInv, OnceInv, Seqs
    <3> QED
      BY <3>2, <3>3
  <2>3. ASSUME NEW p \in Seqs, PostFails(p) \/ ServePost(p) \/ PushFails(p)
        PROVE  QueueTypeOK' /\ OnceInv'
    <3>1. /\ posted' = posted /\ inflight' \subseteq inflight
          /\ \/ pushing' = pushing
             \/ p \in inflight /\ p \notin inflight' /\ \E s \in Sessions : pushing' = [pushing EXCEPT ![p] = s]
             \/ pushing' = [pushing EXCEPT ![p] = 0]
      BY <2>3 DEF PostFails, ServePost, PushFails, httpVars
    <3>2. QueueTypeOK'
      BY <1>1, <3>1 DEF QueueTypeOK
    <3>3. ASSUME NEW r \in Seqs
          PROVE  /\ pushing'[r] # 0 => pushing[r] # 0 \/ (r \in inflight /\ r \notin inflight')
                 /\ r \in inflight' => r \in inflight
      BY <3>1 DEF QueueTypeOK
    <3>4. \A s \in Sessions, r \in Seqs : Untouched(s, r) => Untouched(s, r)'
      BY <1>1, QueuesStay
    <3>5. OnceInv'
      BY <3>1, <3>2, <3>3, <3>4 DEF QueueTypeOK, QueueInv, OnceInv
    <3> QED
      BY <3>2, <3>5
  <2> QED
    BY <1>2, <2>1, <2>2, <2>3
<1> QED
  BY <1>1, <1>3, QueuesStay DEF QueueInv

\* The packet that is pushed is new to the queue.
LEMMA PushAdds ==
  ASSUME Packets \in Nat, QueueTypeOK, QueueInv, NEW p \in Seqs, Push(p)
  PROVE  QueueTypeOK' /\ QueueInv'
<1>0. PICK s \in Sessions : s = pushing[p] /\ s # 0
  BY DEF Push, QueueTypeOK
<1>1. /\ Untouched(s, p)
      /\ chan' = [chan EXCEPT ![s] = Append(chan[s], p)]
      /\ pushing' = [pushing EXCEPT ![p] = 0]
      /\ UNCHANGED <<posted, inflight, heap, nextSeq, delivered>>
  BY <1>0 DEF Push, QueueTypeOK, QueueInv, OnceInv
<1>2. QueueTypeOK'
  BY <1>1 DEF QueueTypeOK
<1>3. chan'[s] = Append(chan[s], p) /\ \A t \in Sessions \ {s} : chan'[t] = chan[t]
  BY <1>1 DEF QueueTypeOK
<1>4. \A t \in Sessions, r \in Seqs : r # p /\ Untouched(t, r) => Untouched(t, r)'
  BY <1>1, <1>3 DEF QueueTypeOK, Untouched
<1>5. p \notin inflight /\ ~ p >= posted
  BY <1>0 DEF QueueInv, OnceInv
<1>6. OnceInv'
  BY <1>1, <1>4, <1>5 DEF QueueTypeOK, QueueInv, OnceInv
<1>7. HeapInv(s)'
  BY <1>1, <1>3 DEF QueueTypeOK, QueueInv, HeapInv, Untouched, Seqs
<1>8. \A t \in Sessions : ReadInv(t)'
  BY <1>1 DEF QueueInv, ReadInv
<1>9. \A t \in Sessions \ {s} : HeapInv(t)'
  BY <1>1, <1>3 DEF QueueInv, HeapInv
<1> QED
  BY <1>2, <1>6, <1>7, <1>8, <1>9 DEF QueueInv

\* Close only drops packets.
LEMMA CloseDrops ==
  ASSUME QueueTypeOK, QueueInv, NEW s \in Sessions, Close(s)
  PROVE  QueueTypeOK' /\ QueueInv'
<1>1. /\ chan' = [chan EXCEPT ![s] = <<>>]
      /\ UNCHANGED <<posted, inflight, pushing, heap, nextSeq, delivered>>
  BY DEF Close
<1>2. QueueTypeOK'
  BY <1>1 DEF QueueTypeOK
<1>3. chan'[s] = <<>> /\ \A t \in Sessions \ {s} : chan'[t] = chan[t]
  BY <1>1 DEF QueueTypeOK
<1>4. \A t \in Sessions, r \in Seqs : Untouched(t, r) => Untouched(t, r)'
  BY <1>1, <1>3 DEF Untouched
<1>5. OnceInv'
  BY <1>1, <1>4 DEF QueueTypeOK, QueueInv, OnceInv
<1>6. \A t \in Sessions : HeapInv(t)'
  BY <1>1, <1>3 DEF QueueInv, HeapInv
<1>7. \A t \in Sessions : ReadInv(t)'
  BY <1>1 DEF QueueInv, ReadInv
<1> QED
  BY <1>2, <1>5, <1>6, <1>7 DEF QueueInv

\* A packet goes from the channel to the heap.
LEMMA ReceiveMoves ==
  ASSUME Packets \in Nat, QueueTypeOK, QueueInv, NEW s \in Sessions, ReadReceives(s)
  PROVE  QueueTypeOK' /\ QueueInv'
<1>0. PICK p : p = [seq |-> Head(chan[s]), part |-> 1]
  OBVIOUS
<1>1. /\ chan[s] \in Seq(Seqs) /\ chan[s] # <<>>
      /\ chan' = [chan EXCEPT ![s] = Tail(chan[s])]
      /\ heap' = [heap EXCEPT ![s] = heap[s] \cup {p}]
      /\ UNCHANGED <<posted, inflight, pushing, nextSeq, delivered>>
  BY <1>0 DEF ReadReceives, QueueTypeOK, httpVars
<1>2. p \in Part /\ p.seq = chan[s][1] /\ p.part = 1
  BY <1>0, <1>1 DEF Part
<1>3. QueueTypeOK'
  BY <1>1, <1>2 DEF QueueTypeOK
<1>4. /\ chan'[s] = Tail(chan[s]) /\ heap'[s] = heap[s] \cup {p}
      /\ \A t \in Sessions \ {s} : chan'[t] = chan[t] /\ heap'[t] = heap[t]
  BY <1>1 DEF QueueTypeOK
<1>5. \A i \in 1..Len(chan'[s]) : i + 1 \in 1..Len(chan[s]) /\ chan'[s][i] = chan[s][i + 1]
  <2>1. /\ Len(Tail(chan[s])) = Len(chan[s]) - 1 /\ Len(chan[s]) \in Nat
        /\ \A i \in 1..Len(Tail(chan[s])) : Tail(chan[s])[i] = chan[s][i + 1]
    BY <1>1
  <2> QED
    BY <1>4, <2>1
<1>6. 1 \in 1..Len(chan[s])
  BY <1>1
<1>7. \A r \in Seqs : Untouched(s, r) => Untouched(s, r)'
  BY <1>1, <1>2, <1>4, <1>5, <1>6 DEF Untouched
<1>8. \A t \in Sessions \ {s}, r \in Seqs : Untouched(t, r) => Untouched(t, r)'
  BY <1>1, <1>4 DEF Untouched
<1>9. OnceInv'
  <2>1. \A t \in Sessions, r \in Seqs : Untouched(t, r) => Untouched(t, r)'
    BY <1>7, <1>8, Zenon
  <2> QED
    BY <1>1, <2>1, Zenon DEF QueueTypeOK, QueueInv, OnceInv
<1>10. HeapInv(s)'
  <2>1. HeapInv(s)
    BY DEF QueueInv
  <2>2. \A i \in 1..Len(chan[s]) : i # 1 => chan[s][i] # p.seq
    BY <1>2, <1>6, <2>1 DEF HeapInv
  <2>3. \A q \in heap[s] : q.seq # p.seq
    BY <1>2, <1>6, <2>1 DEF HeapInv
  <2>4. nextSeq[s] <= p.seq
    BY <1>2, <1>6, <2>1 DEF HeapInv
  <2>5. ASSUME NEW i \in 1..Len(chan'[s])
        PROVE  /\ nextSeq[s] <= chan'[s][i]
               /\ \A q \in heap'[s] : q.seq # chan'[s][i]
               /\ \A j \in 1..Len(chan'[s]) : chan'[s][i] = chan'[s][j] => i = j
    BY <1>4, <1>5, <2>1, <2>2, <1>1 DEF HeapInv
  <2>6. \A q, r \in heap'[s] : q.seq = r.seq => q = r
    BY <1>4, <2>1, <2>3 DEF HeapInv
  <2>7. \A q \in heap'[s] : nextSeq[s] <= q.seq /\ (q.part = 2 => q.seq = nextSeq[s])
    BY <1>2, <1>4, <2>1, <2>4 DEF HeapInv
  <2> QED
    BY <1>1, <2>5, <2>6, <2>7 DEF HeapInv
<1>11. ReadInv(s)'
  BY <1>1, <1>2, <1>4 DEF QueueInv, ReadInv
<1>12. \A t \in Sessions \ {s} : HeapInv(t)' /\ ReadInv(t)'
  BY <1>1, <1>4 DEF QueueInv, HeapInv, ReadInv
<1> QED
  BY <1>3, <1>9, <1>10, <1>11, <1>12 DEF QueueInv

\* The first part of the next packet leaves its second in the heap; the second
\* part makes way for the next packet.
LEMMA PopReads ==
  ASSUME Packets \in Nat, QueueTypeOK, QueueInv,
         NEW s \in Sessions, NEW p \in heap[s], ReadPops(s, p)
  PROVE  QueueTypeOK' /\ QueueInv'
<1>0. PICK rest : rest = [p EXCEPT !.part = 2]
  OBVIOUS
<1>1. /\ p \in Part /\ p.seq = nextSeq[s] /\ p.part \in {1, 2} /\ p.seq \in Nat
      /\ heap[s] \subseteq Part /\ nextSeq[s] \in Nat /\ delivered[s] \in Seq(Part)
  <2>1. heap[s] \subseteq Part /\ nextSeq[s] \in Nat /\ delivered[s] \in Seq(Part)
    BY DEF QueueTypeOK
  <2>2. p.seq = nextSeq[s]
    BY DEF ReadPops
  <2>3. p.part \in {1, 2} /\ p.seq \in Nat
    BY <2>1, <2>2 DEF Part
  <2> QED
    BY <2>1, <2>2, <2>3
<1>2. rest \in Part /\ rest.seq = p.seq /\ rest.part = 2
  BY <1>0, <1>1 DEF Part
<1>3. /\ delivered' = [delivered EXCEPT ![s] = Append(delivered[s], p)]
      /\ heap' = [heap EXCEPT ![s] = (heap[s] \ {p}) \cup IF p.part = 1 THEN {rest} ELSE {}]
      /\ nextSeq' = [nextSeq EXCEPT ![s] = IF p.part = 2 THEN p.seq + 1 ELSE nextSeq[s]]
      /\ UNCHANGED <<posted, inflight, pushing, chan>>
  BY <1>0 DEF ReadPops, httpVars
<1>4. QueueTypeOK'
  BY <1>1, <1>2, <1>3 DEF QueueTypeOK
<1>5. /\ delivered'[s] = Append(delivered[s], p)
      /\ heap'[s] = (heap[s] \ {p}) \cup IF p.part = 1 THEN {rest} ELSE {}
      /\ nextSeq'[s] = IF p.part = 2 THEN p.seq + 1 ELSE nextSeq[s]
      /\ \A t \in Sessions \ {s} :
           heap'[t] = heap[t] /\ nextSeq'[t] = nextSeq[t] /\ delivered'[t] = delivered[t]
  BY <1>3 DEF QueueTypeOK
<1>6. \A q \in heap[s] : q # p => q.seq # p.seq /\ q.seq > nextSeq[s] /\ q.part = 1 /\ q.seq \in Nat
  BY <1>1 DEF QueueInv, HeapInv, Part, Seqs
<1>7. \A i \in 1..Len(chan[s]) : chan[s][i] \in Nat /\ chan[s][i] > nextSeq[s]
  <2>1. chan[s] \in Seq(Seqs)
    BY DEF QueueTypeOK
  <2>2. \A i \in 1..Len(chan[s]) : chan[s][i] \in Nat
    BY <2>1 DEF Seqs
  <2>3. \A i \in 1..Len(chan[s]) : nextSeq[s] <= chan[s][i] /\ p.seq # chan[s][i]
    BY DEF QueueInv, HeapInv
  <2> QED
    BY <1>1, <2>2, <2>3
<1>8. \A r \in Seqs : Untouched(s, r) => Untouched(s, r)'
  BY <1>1, <1>2, <1>3, <1>5 DEF Untouched, Seqs
<1>9. \A t \in Sessions \ {s}, r \in Seqs : Untouched(t, r) => Untouched(t, r)'
  BY <1>3, <1>5 DEF Untouched
<1>10. OnceInv'
  <2>1. \A t \in Sessions, r \in Seqs : Untouched(t, r) => Untouched(t, r)'
    BY <1>8, <1>9, Zenon
  <2> QED
    BY <1>3, <2>1, Zenon DEF QueueTypeOK, QueueInv, OnceInv
<1>11. HeapInv(s)'
  <2>1. HeapInv(s)
    BY DEF QueueInv
  <2>2. CASE p.part = 1
    <3>0. p.part # 2
      BY <2>2
    <3>1. nextSeq'[s] = nextSeq[s] /\ heap'[s] = (heap[s] \ {p}) \cup {rest}
      BY <1>5, <2>2, <3>0, Zenon
    <3>2. \A q \in heap'[s] : q = rest \/ (q \in heap[s] /\ q # p)
      BY <3>1
    <3>3. \A i \in 1..Len(chan[s]) : \A q \in heap'[s] : q.seq # chan[s][i]
      BY <1>2, <2>1, <3>2 DEF HeapInv
    <3>4. \A q, r \in heap'[s] : q.seq = r.seq => q = r
      BY <1>2, <1>6, <2>1, <3>2 DEF HeapInv
    <3>5. \A q \in heap'[s] : nextSeq[s] <= q.seq /\ (q.part = 2 => q.seq = nextSeq[s])
      BY <1>1, <1>2, <2>1, <3>2 DEF HeapInv
    <3> QED
      BY <1>3, <2>1, <3>1, <3>3, <3>4, <3>5 DEF HeapInv
  <2>3. CASE p.part = 2
    <3>0. p.part # 1
      BY <2>3
    <3>1. nextSeq'[s] = nextSeq[s] + 1 /\ heap'[s] = heap[s] \ {p}
      <4>1. nextSeq'[s] = p.seq + 1 /\ heap'[s] = (heap[s] \ {p}) \cup {}
        BY <1>5, <2>3, <3>0, Zenon
      <4> QED
        BY <1>1, <4>1
    <3>2. \A i \in 1..Len(chan[s]) : nextSeq'[s] <= chan[s][i]
      BY <1>1, <1>7, <3>1
    <3>3. \A q \in heap'[s] : q \in heap[s] /\ q.part = 1 /\ nextSeq'[s] <= q.seq
      BY <1>1, <1>6, <3>1
    <3>4. \A q \in heap'[s] : q.part # 2
      BY <3>3
    <3>5. \A i \in 1..Len(chan[s]) : \A q \in heap'[s] : q.seq # chan[s][i]
      BY <2>1, <3>3 DEF HeapInv
    <3>6. \A q, r \in heap'[s] : q.seq = r.seq => q = r
      BY <2>1, <3>3 DEF HeapInv
    <3> QED
      BY <1>3, <2>1, <3>2, <3>3, <3>4, <3>5, <3>6 DEF HeapInv
  <2> QED
    BY <1>1, <2>2, <2>3
<1>12. ReadInv(s)'
  <2>1. ReadInv(s)
    BY DEF QueueInv
  <2>2. Len(delivered[s]) = 2 * nextSeq[s] + p.part - 1
    <3>1. CASE p.part = 1
      <4>1. ~ \E q \in heap[s] : q.part = 2
        BY <1>6, <3>1
      <4> QED
        BY <1>1, <2>1, <3>1, <4>1 DEF ReadInv
    <3>2. CASE p.part = 2
      BY <1>1, <2>1, <3>2 DEF ReadInv
    <3> QED
      BY <1>1, <3>1, <3>2
  <2>3. InOrder(delivered'[s])
    <3>1. InOrder(delivered[s])
      BY <2>1 DEF ReadInv
    <3>2. Len(delivered[s]) = 2 * p.seq + p.part - 1
      BY <1>1, <2>2
    <3>3. InOrder(Append(delivered[s], p))
      BY <1>1, <3>1, <3>2, InOrderAppends, Zenon
    <3> QED
      BY <1>5, <3>3, Zenon
  <2>4. (\E q \in heap'[s] : q.part = 2) <=> p.part = 1
    <3>1. CASE p.part = 1
      BY <1>2, <1>5, <3>1
    <3>2. CASE p.part = 2
      <4>1. heap'[s] = heap[s] \ {p}
        BY <1>5, <3>2
      <4> QED
        BY <1>6, <3>2, <4>1
    <3> QED
      BY <1>1, <3>1, <3>2
  <2>5. Len(delivered'[s]) = 2 * nextSeq[s] + p.part
    <3>1. Len(delivered'[s]) = Len(delivered[s]) + 1 /\ Len(delivered[s]) \in Nat
      BY <1>1, <1>5
    <3> QED
      BY <1>1, <2>2, <3>1
  <2> QED
    <3>1. CASE p.part = 1
      BY <1>5, <2>3, <2>4, <2>5, <3>1 DEF ReadInv, InOrder
    <3>2. CASE p.part = 2
      <4>1. nextSeq'[s] = nextSeq[s] + 1
        BY <1>1, <1>5, <3>2
      <4>2. Len(delivered'[s]) = 2 * nextSeq'[s] + 0
        BY <1>1, <2>5, <3>2, <4>1
      <4> QED
        BY <2>3, <2>4, <3>2, <4>2 DEF ReadInv, InOrder
    <3> QED
      BY <1>1, <3>1, <3>2
<1>13. ASSUME NEW t \in Sessions \ {s} PROVE HeapInv(t)' /\ ReadInv(t)'
  <2>1. UNCHANGED <<chan[t], heap[t], nextSeq[t], delivered[t]>>
    BY <1>3, <1>5, Zenon
  <2>2. HeapInv(t) /\ ReadInv(t)
    BY Zenon DEF QueueInv
  <2>3. HeapInv(t)'
    BY <2>1, <2>2 DEF HeapInv
  <2>4. ReadInv(t)'
    BY <2>1, <2>2 DEF ReadInv
  <2> QED
    BY <2>3, <2>4
<1> QED
  BY <1>4, <1>10, <1>11, <1>12, <1>13 DEF QueueInv

\* However many packets are posted, in whatever order their requests arrive, and
\* whatever a session's queue may hold: what its reader gets is in order and has
\* no gap.  (uploadQueue.Push and Read, requestHandler.ServeHTTP)
THEOREM UploadsAreRead ==
  ASSUME Packets \in Nat
  PROVE  Spec => []UploadInOrder
<1>1. Init => QueueTypeOK /\ QueueInv
  BY DEF Init, QueueTypeOK, QueueInv, OnceInv, Untouched, HeapInv, ReadInv, InOrder, Seqs
<1>2. QueueTypeOK /\ QueueInv /\ [Next]_vars => QueueTypeOK' /\ QueueInv'
  <2> SUFFICES ASSUME QueueTypeOK, QueueInv, [Next]_vars PROVE QueueTypeOK' /\ QueueInv'
    OBVIOUS
  <2>1. CASE UNCHANGED vars
    <3>1. UNCHANGED <<posted, inflight, pushing, chan, heap, nextSeq, delivered>>
      BY <2>1 DEF vars, httpVars, queueVars
    <3> QED
      BY <3>1, QueuesStay DEF QueueTypeOK, QueueInv, OnceInv
  <2>2. CASE \E p \in Seqs : Push(p)
    BY <2>2, PushAdds
  <2>3. CASE \E s \in Sessions : Close(s)
    BY <2>3, CloseDrops
  <2>4. CASE \E s \in Sessions : ReadReceives(s)
    BY <2>4, ReceiveMoves
  <2>5. CASE \E s \in Sessions : \E p \in heap[s] : ReadPops(s, p)
    BY <2>5, PopReads
  <2> QED
    BY <2>1, <2>2, <2>3, <2>4, <2>5, RequestsMove DEF Next, QueueNext
<1>3. QueueTypeOK /\ QueueInv => UploadInOrder
  <2>1. QueueTypeOK => \A s \in Sessions : DOMAIN delivered[s] = 1..Len(delivered[s])
    BY DEF QueueTypeOK
  <2> QED
    BY <2>1 DEF QueueInv, ReadInv, InOrder, UploadInOrder
<1> QED
  BY <1>1, <1>2, <1>3, PTL DEF Spec

-----------------------------------------------------------------------------
(* Proof of WithinReuse, for any limits and any number of connections *)

\* Of a client that exists, the uses it has had and those it has left add up to
\* the limit; the list holds only clients that exist.
ReuseInv ==
  /\ limits \in [connections : Nat, concurrency : Nat, reuse : Nat, requests : Nat]
  /\ clientsMade \in Nat /\ list \subseteq Clients
  /\ leftUsage \in [Clients -> Int] /\ used \in [Clients -> Nat]
  /\ \A c \in list : c <= clientsMade
  /\ \A c \in Clients : c > clientsMade => used[c] = 0
  /\ limits.reuse > 0 => \A c \in Clients : c <= clientsMade => /\ leftUsage[c] >= 0
                                              /\ used[c] + leftUsage[c] = limits.reuse

\* A client is new, or has a use left.
LEMMA GetKeepsReuse ==
  ASSUME MaxClients \in Nat, ReuseInv, NEW c \in Clients, GetXmuxClient(c), limits' = limits
  PROVE  ReuseInv'
<1>1. c \in Nat /\ Usable \subseteq list /\ limits.reuse \in Nat
  BY DEF Clients, Usable, ReuseInv
<1>2. CASE NewClient(c)
  <2>1. /\ c = clientsMade + 1 /\ clientsMade' = c /\ list' = Usable \cup {c}
        /\ leftUsage' = [leftUsage EXCEPT ![c] = limits.reuse - 1]
        /\ used' = [used EXCEPT ![c] = 1]
    BY <1>2 DEF NewClient
  <2>2. \A d \in Clients : d \in Nat
    BY DEF Clients
  <2>3. \A d \in Clients : /\ leftUsage'[d] = IF d = c THEN limits.reuse - 1 ELSE leftUsage[d]
                           /\ used'[d] = IF d = c THEN 1 ELSE used[d]
    BY <2>1 DEF ReuseInv
  <2>4. leftUsage' \in [Clients -> Int] /\ used' \in [Clients -> Nat]
    BY <1>1, <2>1 DEF ReuseInv
  <2>5. limits.reuse > 0 => \A d \in Clients : d <= clientsMade' => /\ leftUsage'[d] >= 0
                                              /\ used'[d] + leftUsage'[d] = limits.reuse
    BY <1>1, <2>1, <2>2, <2>3 DEF ReuseInv
  <2>6. /\ clientsMade' \in Nat /\ list' \subseteq Clients
        /\ \A d \in list' : d <= clientsMade'
        /\ \A d \in Clients : d > clientsMade' => used'[d] = 0
    BY <1>1, <2>1, <2>2, <2>3 DEF ReuseInv
  <2> QED
    BY <2>4, <2>5, <2>6 DEF ReuseInv
<1>3. CASE c \in Candidates /\ ~NewClient(c)
  <2>1. /\ c \in list /\ (limits.reuse > 0 => leftUsage[c] # 0)
        /\ list' = Usable /\ clientsMade' = clientsMade
        /\ leftUsage' = [leftUsage EXCEPT ![c] = IF leftUsage[c] > 0 THEN leftUsage[c] - 1 ELSE leftUsage[c]]
        /\ used' = [used EXCEPT ![c] = used[c] + 1]
    BY <1>3 DEF GetXmuxClient, Candidates, Usable, Unusable
  <2>2. \A d \in Clients :
          /\ leftUsage'[d] = IF d = c THEN IF leftUsage[c] > 0 THEN leftUsage[c] - 1 ELSE leftUsage[c]
                                      ELSE leftUsage[d]
          /\ used'[d] = IF d = c THEN used[c] + 1 ELSE used[d]
          /\ leftUsage[d] \in Int /\ used[d] \in Nat
    BY <2>1 DEF ReuseInv
  <2>3. leftUsage' \in [Clients -> Int] /\ used' \in [Clients -> Nat]
    BY <2>1, <2>2 DEF ReuseInv
  <2>4. ASSUME limits.reuse > 0, NEW d \in Clients, d <= clientsMade
        PROVE  leftUsage'[d] >= 0 /\ used'[d] + leftUsage'[d] = limits.reuse
    BY <1>1, <2>1, <2>2, <2>4 DEF ReuseInv
  <2>5. c <= clientsMade /\ clientsMade \in Nat
    BY <2>1 DEF ReuseInv
  <2>6. \A d \in Clients : d > clientsMade' => used'[d] = 0
    BY <1>1, <2>1, <2>2, <2>5 DEF ReuseInv
  <2> QED
    BY <1>1, <2>1, <2>3, <2>4, <2>6 DEF ReuseInv
<1> QED
  BY <1>2, <1>3 DEF GetXmuxClient

\* No client is handed out more often than configured, however dialing,
\* replacing and dying clients interleave.  (XmuxManager.GetXmuxClient)
THEOREM ReuseIsLimited ==
  ASSUME MaxClients \in Nat,
         Limits \subseteq [connections : Nat, concurrency : Nat, reuse : Nat, requests : Nat]
  PROVE  XmuxSpec => []WithinReuse
<1>1. XmuxInit => ReuseInv
  BY DEF XmuxInit, ReuseInv, Clients
<1>2. ReuseInv /\ [XmuxNext]_xmuxVars => ReuseInv'
  <2> SUFFICES ASSUME ReuseInv, [XmuxNext]_xmuxVars PROVE ReuseInv'
    OBVIOUS
  <2>1. CASE UNCHANGED <<limits, list, clientsMade, leftUsage, used>>
    BY <2>1 DEF ReuseInv
  <2>2. CASE limits' = limits /\ \E c \in Clients : GetXmuxClient(c)
    BY <2>2, GetKeepsReuse
  <2> QED
    BY <2>1, <2>2 DEF XmuxNext, xmuxVars, DialGets, XmuxPost, XmuxReplace, DialOpens, XmuxClose,
                          XmuxCloseSecond, Dies
<1>3. ReuseInv => WithinReuse
  <2> SUFFICES ASSUME ReuseInv, limits.reuse > 0, NEW c \in Clients PROVE used[c] <= limits.reuse
    BY DEF WithinReuse
  <2>1. c \in Nat /\ clientsMade \in Nat /\ limits.reuse \in Nat /\ used[c] \in Nat /\ leftUsage[c] \in Int
    BY DEF ReuseInv, Clients
  <2> QED
    BY <2>1 DEF ReuseInv
<1> QED
  BY <1>1, <1>2, <1>3, PTL DEF XmuxSpec
=============================================================================
