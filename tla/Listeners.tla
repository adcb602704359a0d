----------------------------- MODULE Listeners ------------------------------
(****************************************************************************)
(* Listeners: the sockets of the file system and their lock files           *)
(* (transport/internet), and the accept loops of the stream transports.     *)
(****************************************************************************)
EXTENDS Naturals, FiniteSets

(***************************************************************************)
(* Listening on a Unix domain socket.  DefaultListener takes a lock on     *)
(* <path>.lock (FileLocker: create the file, flock it), listens, and sets  *)
(* the permissions; whatever fails gives the lock back.  Closing the       *)
(* listener gives the lock back (unlock, close and remove the file) and    *)
(* then closes the socket, which removes the socket's path.                *)
(*                                                                         *)
(* Several instances use the same path.  A lock belongs to a file, not to  *)
(* its path: two files created one after the other at the same path have   *)
(* locks of their own.                                                     *)
(***************************************************************************)

CONSTANTS Instances,   \* the listeners of one path
          MaxFiles     \* how many lock files are created at most

VARIABLES phase,     \* what each instance is doing
          fd,        \* the lock file each instance has open, 0 for none
          holder,    \* who holds the lock of each file, 0 for nobody
          lockPath,  \* the file at <path>.lock, 0 for none
          sockPath,  \* whose socket is at <path>, 0 for none
          files      \* how many lock files were created

unixVars == <<phase, fd, holder, lockPath, sockPath, files>>

\* FileLocker.Acquire, os.Create: the file at the path, or a new one.
Create(i) ==
  /\ phase[i] = "new"
  /\ lockPath = 0 => files < MaxFiles
  /\ files' = IF lockPath = 0 THEN files + 1 ELSE files
  /\ lockPath' = IF lockPath = 0 THEN files + 1 ELSE lockPath
  /\ fd' = [fd EXCEPT ![i] = lockPath']
  /\ phase' = [phase EXCEPT ![i] = "waiting"]
  /\ UNCHANGED <<holder, sockPath>>

\* FileLocker.Acquire, flock: it waits until nobody holds the lock of this file.
Flock(i) ==
  /\ phase[i] = "waiting" /\ holder[fd[i]] = 0
  /\ holder' = [holder EXCEPT ![fd[i]] = i]
  /\ phase' = [phase EXCEPT ![i] = "locked"]
  /\ UNCHANGED <<fd, lockPath, sockPath, files>>

\* A Listen whose failure does not give the lock back.
ListenKeepsLock(i) ==
  /\ phase[i] = "locked"
  /\ \/ sockPath = 0 /\ sockPath' = i /\ phase' = [phase EXCEPT ![i] = "listening"]
     \/ sockPath # 0 /\ phase' = [phase EXCEPT ![i] = "closed"] /\ UNCHANGED sockPath
  /\ UNCHANGED <<fd, holder, lockPath, files>>

\* DefaultListener.Listen with the lock held: the system refuses an address in use, and
\* Chmod may fail; then the listener is closed again, or never was, and the lock is
\* given back.
UnixListen(i) ==
  /\ phase[i] = "locked"
  /\ \/ sockPath = 0 /\ sockPath' = i
        /\ phase' \in {[phase EXCEPT ![i] = p] : p \in {"listening", "unlock"}}
     \/ sockPath # 0 /\ phase' = [phase EXCEPT ![i] = "unlock"] /\ UNCHANGED sockPath
  /\ UNCHANGED <<fd, holder, lockPath, files>>

\* UnixListenerWrapper.Close.
UnixClose(i) ==
  /\ phase[i] = "listening"
  /\ phase' = [phase EXCEPT ![i] = "unlock"]
  /\ UNCHANGED <<fd, holder, lockPath, sockPath, files>>

\* FileLocker.Release: unlock and close the file, ...
Unlock(i) ==
  /\ phase[i] = "unlock"
  /\ holder' = [holder EXCEPT ![fd[i]] = 0]
  /\ phase' = [phase EXCEPT ![i] = "remove"]
  /\ fd' = [fd EXCEPT ![i] = 0]
  /\ UNCHANGED <<lockPath, sockPath, files>>

\* ... and remove its path, whatever file is there by now.
Remove(i) ==
  /\ phase[i] = "remove"
  /\ lockPath' = 0
  /\ phase' = [phase EXCEPT ![i] = "socket"]
  /\ UNCHANGED <<fd, holder, sockPath, files>>

\* UnixListener.Close removes the path of the socket.
CloseSocket(i) ==
  /\ phase[i] = "socket"
  /\ sockPath' = IF sockPath = i THEN 0 ELSE sockPath
  /\ phase' = [phase EXCEPT ![i] = "closed"]
  /\ UNCHANGED <<fd, holder, lockPath, files>>

UnixInit ==
  /\ phase = [i \in Instances |-> "new"] /\ fd = [i \in Instances |-> 0]
  /\ holder = [f \in 1..MaxFiles |-> 0]
  /\ lockPath = 0 /\ sockPath = 0 /\ files = 0

Step(i) == Create(i) \/ Flock(i) \/ UnixListen(i) \/ Unlock(i) \/ Remove(i) \/ CloseSocket(i)

UnixNext == \E i \in Instances : Step(i) \/ UnixClose(i)

UnixSpec == UnixInit /\ [][UnixNext]_unixVars
UnixFairSpec == UnixSpec /\ \A i \in Instances : WF_unixVars(Step(i)) /\ WF_unixVars(UnixClose(i))

-----------------------------------------------------------------------------

\* The listener of a socket is alone, and a lock is never left behind: as long as every
\* listener is closed in the end, each instance that wants the path gets through, and
\* the lock and the socket are free afterwards.
LockIsBack ==
  /\ \A i \in Instances : phase[i] = "closed"
  /\ \A f \in 1..MaxFiles : holder[f] = 0
  /\ lockPath = 0 /\ sockPath = 0

-----------------------------------------------------------------------------
(***************************************************************************)
(* The listeners of the stream transports: how one comes up (the settings  *)
(* of the transport, the address, the system's answer), how its loop       *)
(* accepts connections, and how it is closed.  RAW hands every connection  *)
(* to a goroutine of its own, WebSocket and gRPC leave that to their HTTP  *)
(* server, and HTTPUpgrade reads the request of a client in the accept     *)
(* loop itself.  gRPC listens in a goroutine after Listen has returned.    *)
(***************************************************************************)

CONSTANTS Requests,   \* what is asked for: transport, address and settings
          Clients     \* those that connect

VARIABLES req,        \* the request
          result,     \* what Listen returned: "none", "ok", "error"
          socket,     \* "none", "open", "closed": the system's listener
          loop,       \* "off", "starting", "accept", "handle", "ended"
          handling,   \* the client the loop itself is busy with, 0 for none
          client      \* the state of each client

acceptVars == <<req, result, socket, loop, handling, client>>

Transports == {"tcp", "httpupgrade", "websocket", "grpc"}

\* ToMemoryStreamConfig: the settings of the transport that is named (RAW when none
\* is), or fresh ones; then those of the security.
ToMemoryStreamConfig(q) ==
  LET protocol == IF q.protocol = "" THEN "tcp" ELSE q.protocol
  IN IF protocol \notin Transports \/ q.security = "unknown" THEN <<>>
     ELSE <<[protocol |-> protocol, security |-> q.security]>>

\* ListenTCP and ListenUnix of the transport layer: a domain is not an address to
\* listen on, except localhost; without a port it is the path of a Unix socket.
Address(q) ==
  IF q.port = 0 THEN IF q.address = "path" THEN "unix" ELSE "invalid"
  ELSE IF q.address \in {"ip", "localhost"} THEN "tcp" ELSE "invalid"

Failed == [result |-> "error", socket |-> "none", loop |-> "off"]

Serving == [result |-> "ok", socket |-> "open", loop |-> "accept"]

\* DefaultListener.Listen: the system may refuse; keep-alive times of different signs
\* are refused before it is asked, except for a Unix socket.
ListenSystem(q) ==
  IF Address(q) = "tcp" /\ q.keepAlive = "mixed" THEN {"refused"} ELSE {"refused", "listens"}

\* ListenTCP of RAW: the header settings are looked at after the system listens, and
\* the socket stays open when they are bad.
ListenRAW(q) ==
  {IF s = "refused" THEN Failed
   ELSE IF q.header = "bad" THEN [Failed EXCEPT !.socket = "open"] ELSE Serving
     : s \in ListenSystem(q)}

\* ListenHTTPUpgrade.
ListenHTTPUpgrade(q) == {IF s = "refused" THEN Failed ELSE Serving : s \in ListenSystem(q)}

\* ListenWS.
ListenWS(q) == {IF s = "refused" THEN Failed ELSE Serving : s \in ListenSystem(q)}

\* Listen of gRPC: it returns before anybody has asked the system.
ListenGRPC(q) == {[Serving EXCEPT !.socket = "none", !.loop = "starting"]}

\* The listen function that the transport has registered.
ListenFunc(q) ==
  LET m == ToMemoryStreamConfig(q)
  IN IF m = <<>> \/ Address(q) = "invalid" THEN {Failed}
     ELSE CASE m[1].protocol = "tcp" -> ListenRAW(q)
            [] m[1].protocol = "httpupgrade" -> ListenHTTPUpgrade(q)
            [] m[1].protocol = "websocket" -> ListenWS(q)
            [] m[1].protocol = "grpc" -> ListenGRPC(q)

Listen ==
  /\ result = "none"
  /\ \E r \in ListenFunc(req) :
       result' = r.result /\ socket' = r.socket /\ loop' = r.loop
  /\ UNCHANGED <<req, handling, client>>

\* The goroutine of gRPC's Listen: a failure is only logged; a server that was stopped
\* before does not serve.
Serve ==
  /\ loop = "starting"
  /\ \/ loop' = "ended" /\ UNCHANGED socket
     \/ /\ "listens" \in ListenSystem(req) /\ socket # "closed"
        /\ socket' = "open" /\ loop' = "accept"
  /\ UNCHANGED <<req, result, handling, client>>

\* A client connects, sends its request or not, and may go away.
Connect(c) ==
  /\ socket = "open" /\ client[c] = "away"
  /\ client' = [client EXCEPT ![c] = "queued"]
  /\ UNCHANGED <<req, result, socket, loop, handling>>

Asks(c) ==
  /\ client[c] \in {"queued", "accepted"}
  /\ client' = [client EXCEPT ![c] = IF @ = "queued" THEN "queuedAsks" ELSE "asks"]
  /\ UNCHANGED <<req, result, socket, loop, handling>>

\* The accept loop takes a connection.
keepAccepting(c) ==
  /\ loop = "accept" /\ socket = "open" /\ client[c] \in {"queued", "queuedAsks"}
  /\ client' = [client EXCEPT ![c] = IF @ = "queued" THEN "accepted" ELSE "asks"]
  /\ \/ req.protocol = "httpupgrade" /\ loop' = "handle" /\ handling' = c
     \/ req.protocol # "httpupgrade" /\ UNCHANGED <<loop, handling>>
  /\ UNCHANGED <<req, result, socket>>

\* A loop that gives up when the system is out of descriptors.
AcceptFailsForGood ==
  /\ loop = "accept" /\ result = "ok"
  /\ loop' = "ended"
  /\ UNCHANGED <<req, result, socket, handling, client>>

\* Accept fails.  A closed listener ends the loop.  Of any other error, "too many open
\* files" for one, RAW and the HTTP servers try again; HTTPUpgrade gives up.
AcceptFails ==
  /\ loop = "accept" /\ result = "ok"
  /\ loop' = IF socket = "closed" \/ req.protocol = "httpupgrade" THEN "ended" ELSE "accept"
  /\ UNCHANGED <<req, result, socket, handling, client>>

\* The connection is handed to the inbound: by its own goroutine once the client has
\* asked, or by the loop that waits for the request.
AddConn(c) ==
  /\ client[c] = "asks" /\ handling \in {0, c}
  /\ handling = 0 => req.protocol # "httpupgrade"
  /\ client' = [client EXCEPT ![c] = "served"]
  /\ handling' = 0
  /\ loop' = IF handling = c THEN "accept" ELSE loop
  /\ UNCHANGED <<req, result, socket>>

\* Close of the listener: the connections that were accepted go on.
Close ==
  /\ result = "ok" /\ socket # "closed"
  /\ socket' = "closed"
  /\ client' = [c \in Clients |->
                  IF client[c] \in {"queued", "queuedAsks"} THEN "refused" ELSE client[c]]
  /\ UNCHANGED <<req, result, loop, handling>>

AcceptInit ==
  /\ req \in Requests /\ result = "none" /\ socket = "none" /\ loop = "off"
  /\ handling = 0 /\ client = [c \in Clients |-> "away"]

AcceptNext ==
  \/ Listen \/ Serve \/ AcceptFails \/ Close
  \/ \E c \in Clients : Connect(c) \/ Asks(c) \/ keepAccepting(c) \/ AddConn(c)

AcceptSpec == AcceptInit /\ [][AcceptNext]_acceptVars

\* The goroutines run, and Accept does not fail for ever; clients ask when they like.
AcceptFairSpec ==
  /\ AcceptSpec /\ WF_acceptVars(Serve)
  /\ \A c \in Clients : WF_acceptVars(AddConn(c)) /\ WF_acceptVars(keepAccepting(c))
  /\ WF_acceptVars(loop = "accept" /\ socket = "closed" /\ AcceptFails)

-----------------------------------------------------------------------------
\* When Listen has succeeded, no client that has asked waits for ever, whatever the
\* others do: it is served, or turned away by a listener that is closed.  One that
\* connects and stays silent holds nobody up, and neither does an Accept that fails.
\* HTTPUpgrade promises neither.
NobodyWaits ==
  result = "ok" /\ req.protocol # "httpupgrade" => \A c \in Clients : client[c] \notin {"queuedAsks", "asks"}

=============================================================================
