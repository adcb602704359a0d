--------------------------- MODULE V2RootLifecycle ---------------------------
(***************************************************************************)
(* The exported C API of the shared library (v2root/xray_dll.go) and the   *)
(* core.Instance objects it starts and closes (core/xray.go).              *)
(*                                                                         *)
(* Callers are the threads of the embedding application.  Start and Stop   *)
(* run under serverLock; the traffic calls take serverLock only to look at *)
(* the status and then go on without it.  Start returns as soon as it has  *)
(* spawned the goroutine that calls srv.Start(), so the instance comes up  *)
(* (or fails to) concurrently with every later call.                       *)
(*                                                                         *)
(* An id names one free-port pick, the port it picked and the instance     *)
(* that is created for it, if core.New succeeds.                           *)
(***************************************************************************)
EXTENDS Naturals

CONSTANTS
  Callers,         \* threads that call the library
  Ports,           \* ephemeral ports net.Listen("127.0.0.1:0") may return
  UserPort,        \* the port of the user's own inbound, the same in each config
  MaxIds,          \* bound: how many free-port picks are explored
  NFeatures,       \* features of an instance, started in order 1..NFeatures
  InboundFeature,  \* the one that is the inbound manager and binds the ports
  Ops,             \* the operations the callers use in this instance
  NONE             \* Go's nil

Ids == 1..MaxIds

AllOps == {"Start", "Stop", "GetTotalTraffics", "GetRealtimeSpeed", "TestLatency"}

ASSUME LifecycleAssumption ==
  /\ MaxIds \in Nat
  /\ NFeatures \in Nat
  /\ InboundFeature \in 1..NFeatures
  /\ UserPort \notin Ports
  /\ NONE \notin Callers \cup Ports \cup {UserPort} \cup Nat
  /\ Ops \subseteq AllOps

VARIABLES
  pc,            \* where each caller is in the call it makes
  my,            \* the id a caller's local variables refer to (port, srv, addr)
  serverLock,    \* its holder, or NONE
  statsMutex,    \* its holder, or NONE
  server,        \* the id of the current server, or NONE
  done,          \* the id of the instance the channel was made for, or NONE
  serverStatus,
  statsApiPort,  \* the id whose port the variable holds
  baseline,      \* the id lastTotalUplink/Downlink were read through; NONE when
                 \* lastStatsTime is zero
  ids,           \* how many ids have been handed out
  port,          \* the port picked for each id
  tests,         \* the ids that belong to TestLatency
  go,            \* what the goroutine that calls srv.Start() is doing
  running,       \* Instance.running
  started,       \* how many features srv.Start() has started
  bound,         \* the ports the instance listens on
  closed,        \* the instances on which Close has been called
  dialer         \* the instance whose DNS client and outbound manager the
                 \* process-wide system dialer uses

apiVars == <<pc, my, serverLock, statsMutex, server, done, serverStatus,
             statsApiPort, baseline>>
idVars == <<ids, port, tests>>
instVars == <<go, running, started, bound, closed>>
vars == <<apiVars, idVars, instVars, dialer>>

-----------------------------------------------------------------------------
Init ==
  /\ pc = [c \in Callers |-> "idle"]
  /\ my = [c \in Callers |-> NONE]
  /\ serverLock = NONE
  /\ statsMutex = NONE
  /\ server = NONE
  /\ done = NONE
  /\ serverStatus = "STOPPED"
  /\ statsApiPort = NONE
  /\ baseline = NONE
  /\ ids = 0
  /\ port = [n \in Ids |-> NONE]
  /\ tests = {}
  /\ go = [n \in Ids |-> "none"]
  /\ running = [n \in Ids |-> FALSE]
  /\ started = [n \in Ids |-> 0]
  /\ bound = [n \in Ids |-> {}]
  /\ closed = {}
  /\ dialer = NONE

Goto(c, label) == pc' = [pc EXCEPT ![c] = label]

\* The application calls one of the exported functions.
Call(c, op) ==
  /\ pc[c] = "idle"
  /\ op \in Ops
  /\ Goto(c, op)
  /\ my' = [my EXCEPT ![c] = NONE]
  /\ UNCHANGED <<serverLock, statsMutex, server, done, serverStatus, statsApiPort,
                 baseline, idVars, instVars, dialer>>

Busy == UNION {bound[n] : n \in Ids}

\* net.Listen("tcp", "127.0.0.1:0") and Close: some port nobody listens on now.
PickFreePort(c) ==
  /\ ids < MaxIds
  /\ ids' = ids + 1
  /\ \E p \in Ports \ Busy : port' = [port EXCEPT ![ids + 1] = p]
  /\ my' = [my EXCEPT ![c] = ids + 1]

\* core.New: builds the instance and, on the way, points the process-wide
\* dialer at it (internet.InitSystemDialer).  Errors before that call leave
\* the dialer alone, later ones (the handlers) do not.
NewInstance(c) == dialer' = my[c]
NewFails(c) == dialer' \in {dialer, my[c]}

-----------------------------------------------------------------------------
(* Start *)

StartLock(c) ==
  /\ pc[c] = "Start"
  /\ serverLock = NONE
  /\ \/ /\ server # NONE /\ serverStatus = "RUNNING"
        /\ Goto(c, "idle")
        /\ UNCHANGED <<serverLock, serverStatus>>
     \/ /\ ~(server # NONE /\ serverStatus = "RUNNING")
        /\ serverLock' = c
        /\ serverStatus' = "STARTING"
        /\ Goto(c, "startPrepare")
  /\ UNCHANGED <<my, statsMutex, server, done, statsApiPort, baseline, idVars,
                 instVars, dialer>>

StartFails(c) ==
  /\ serverStatus' = "STOPPED"
  /\ serverLock' = NONE
  /\ Goto(c, "idle")
  /\ UNCHANGED <<statsMutex, server, done, baseline, tests, instVars>>

\* Every early return between the lock and the port pick: empty config,
\* missing geosite file, unreadable or invalid input, JSON errors, no free port.
StartRejects(c) ==
  /\ pc[c] = "startPrepare"
  /\ StartFails(c)
  /\ UNCHANGED <<my, statsApiPort, ids, port, dialer>>

StartPickPort(c) ==
  /\ pc[c] = "startPrepare"
  /\ PickFreePort(c)
  /\ statsApiPort' = ids + 1
  /\ Goto(c, "startCreate")
  /\ UNCHANGED <<serverLock, statsMutex, server, done, serverStatus, baseline,
                 tests, instVars, dialer>>

\* Validation, the temporary file, LoadConfig or core.New fails.
StartCreateFails(c) ==
  /\ pc[c] = "startCreate"
  /\ NewFails(c)
  /\ StartFails(c)
  /\ UNCHANGED <<my, statsApiPort, ids, port>>

StartCreate(c) ==
  /\ pc[c] = "startCreate"
  /\ NewInstance(c)
  /\ server' = my[c]
  /\ done' = my[c]
  /\ Goto(c, "startReset")
  /\ UNCHANGED <<my, serverLock, statsMutex, serverStatus, statsApiPort, baseline,
                 idVars, instVars>>

\* Mutant: Start relies on Stop having reset the totals.
StartResetSkipped(c) ==
  /\ pc[c] = "startReset"
  /\ statsMutex = NONE
  /\ Goto(c, "startSpawn")
  /\ UNCHANGED <<my, serverLock, statsMutex, server, done, serverStatus,
                 statsApiPort, baseline, idVars, instVars, dialer>>

StartReset(c) ==
  /\ pc[c] = "startReset"
  /\ statsMutex = NONE
  /\ baseline' = NONE
  /\ Goto(c, "startSpawn")
  /\ UNCHANGED <<my, serverLock, statsMutex, server, done, serverStatus,
                 statsApiPort, idVars, instVars, dialer>>

StartSpawn(c) ==
  /\ pc[c] = "startSpawn"
  /\ go' = [go EXCEPT ![my[c]] = "spawned"]
  /\ Goto(c, "startReturn")
  /\ UNCHANGED <<my, serverLock, statsMutex, server, done, serverStatus,
                 statsApiPort, baseline, idVars, running, started, bound, closed,
                 dialer>>

StartReturn(c) ==
  /\ pc[c] = "startReturn"
  /\ serverStatus' = "RUNNING"
  /\ serverLock' = NONE
  /\ Goto(c, "idle")
  /\ UNCHANGED <<my, statsMutex, server, done, statsApiPort, baseline, idVars,
                 instVars, dialer>>

-----------------------------------------------------------------------------
(* core.Instance.  Start holds statusLock from "starting" to its end, so a  *)
(* Close waits for it.                                                      *)

InstanceStart(n) ==
  /\ go[n] = "spawned"
  /\ go' = [go EXCEPT ![n] = "starting"]
  /\ running' = [running EXCEPT ![n] = TRUE]
  /\ UNCHANGED <<apiVars, idVars, started, bound, closed, dialer>>

Wanted(n) == {port[n], UserPort}

\* The inbound manager binds the ports of its handlers in some order and
\* stops at the first it cannot have; the earlier ones stay bound.
BindPorts(n, got) ==
  /\ got \in SUBSET (Wanted(n) \ (Busy \ bound[n]))
  /\ bound' = [bound EXCEPT ![n] = @ \cup got]

InstanceStartFeature(n) ==
  /\ go[n] = "starting"
  /\ started[n] < NFeatures
  /\ \E ok \in BOOLEAN :
       /\ IF started[n] + 1 = InboundFeature
            THEN \E got \in SUBSET Wanted(n) : BindPorts(n, got) /\ ok = (got = Wanted(n))
            ELSE bound' = bound
       /\ started' = [started EXCEPT ![n] = IF ok THEN @ + 1 ELSE @]
       /\ go' = [go EXCEPT ![n] = IF ~ok THEN "failed"
                                  ELSE IF started[n] + 1 = NFeatures THEN "finished"
                                  ELSE @]
  /\ UNCHANGED <<apiVars, idVars, running, closed, dialer>>

\* Mutant: the goroutine clears only the variable.
StartGoroutineFailedKeepsStatus(n) ==
  /\ go[n] = "failed"
  /\ n \notin tests
  /\ serverLock = NONE
  /\ server' = NONE
  /\ go' = [go EXCEPT ![n] = "exited"]
  /\ UNCHANGED <<pc, my, serverLock, statsMutex, done, serverStatus, statsApiPort,
                 baseline, idVars, running, started, bound, closed, dialer>>
\* The goroutine Start spawned reports the failure; it does not look whether
\* server still is its own srv.
StartGoroutineFailed(n) ==
  /\ go[n] = "failed"
  /\ n \notin tests
  /\ serverLock = NONE
  /\ server' = NONE
  /\ serverStatus' = "STOPPED"
  /\ go' = [go EXCEPT ![n] = "exited"]
  /\ UNCHANGED <<pc, my, serverLock, statsMutex, done, statsApiPort, baseline,
                 idVars, running, started, bound, closed, dialer>>

\* Instance.Close: every feature is closed, whatever has been started.
InstanceClose(n) ==
  /\ go[n] # "starting"
  /\ running' = [running EXCEPT ![n] = FALSE]
  /\ bound' = [bound EXCEPT ![n] = {}]
  /\ closed' = closed \cup {n}

-----------------------------------------------------------------------------
(* Stop *)

StopLock(c) ==
  /\ pc[c] = "Stop"
  /\ serverLock = NONE
  /\ \/ /\ server = NONE
        /\ serverStatus' = "STOPPED"
        /\ Goto(c, "idle")
        /\ UNCHANGED serverLock
     \/ /\ server # NONE
        /\ serverStatus' = "STOPPING"
        /\ serverLock' = c
        /\ Goto(c, "stopClose")
  /\ UNCHANGED <<my, statsMutex, server, done, statsApiPort, baseline, idVars,
                 instVars, dialer>>

\* Mutant: Stop forgets to clear server.
StopCloseKeepsServer(c) ==
  /\ pc[c] = "stopClose"
  /\ InstanceClose(server)
  /\ done' = NONE
  /\ serverStatus' = "STOPPED"
  /\ Goto(c, "stopReset")
  /\ UNCHANGED <<my, serverLock, statsMutex, server, statsApiPort, baseline, idVars,
                 go, started, dialer>>

\* An error of server.Close() is only printed: the same assignments follow.
StopClose(c) ==
  /\ pc[c] = "stopClose"
  /\ InstanceClose(server)
  /\ done' = NONE
  /\ server' = NONE
  /\ serverStatus' = "STOPPED"
  /\ Goto(c, "stopReset")
  /\ UNCHANGED <<my, serverLock, statsMutex, statsApiPort, baseline, idVars, go,
                 started, dialer>>

StopReset(c) ==
  /\ pc[c] = "stopReset"
  /\ statsMutex = NONE
  /\ baseline' = NONE
  /\ serverLock' = NONE
  /\ Goto(c, "idle")
  /\ UNCHANGED <<my, statsMutex, server, done, serverStatus, statsApiPort, idVars,
                 instVars, dialer>>

-----------------------------------------------------------------------------
(* GetTotalTraffics and GetRealtimeSpeed *)

TrafficCheck(c) ==
  /\ pc[c] \in {"GetTotalTraffics", "GetRealtimeSpeed"}
  /\ serverLock = NONE
  /\ Goto(c, IF serverStatus # "RUNNING" \/ server = NONE THEN "idle"
             ELSE IF pc[c] = "GetTotalTraffics" THEN "totalQuery" ELSE "speedLock")
  /\ UNCHANGED <<my, serverLock, statsMutex, server, done, serverStatus,
                 statsApiPort, baseline, idVars, instVars, dialer>>

SpeedLock(c) ==
  /\ pc[c] = "speedLock"
  /\ statsMutex = NONE
  /\ statsMutex' = c
  /\ Goto(c, "speedQuery")
  /\ UNCHANGED <<my, serverLock, server, done, serverStatus, statsApiPort, baseline,
                 idVars, instVars, dialer>>

\* queryStatsFromAPI: the port is read without serverLock ...
QueryDial(c) ==
  /\ pc[c] \in {"totalQuery", "speedQuery"}
  /\ my' = [my EXCEPT ![c] = statsApiPort]
  /\ Goto(c, IF pc[c] = "totalQuery" THEN "totalWait" ELSE "speedWait")
  /\ UNCHANGED <<serverLock, statsMutex, server, done, serverStatus, statsApiPort,
                 baseline, idVars, instVars, dialer>>

\* ... and an instance that listens on it may answer before the time-outs.
Answers(c) == \E m \in Ids : port[my[c]] \in bound[m]

TotalReturn(c) ==
  /\ pc[c] = "totalWait"
  /\ Goto(c, "idle")
  /\ UNCHANGED <<my, serverLock, statsMutex, server, done, serverStatus,
                 statsApiPort, baseline, idVars, instVars, dialer>>

\* Mutant: a query that fails is made again, with statsMutex held.
SpeedReturnRetries(c) ==
  /\ pc[c] = "speedWait"
  /\ \/ Answers(c) /\ baseline' = my[c] /\ statsMutex' = NONE /\ Goto(c, "idle")
     \/ UNCHANGED <<baseline, statsMutex>> /\ Goto(c, "speedQuery")
  /\ UNCHANGED <<my, serverLock, server, done, serverStatus, statsApiPort, idVars,
                 instVars, dialer>>

SpeedReturn(c) ==
  /\ pc[c] = "speedWait"
  /\ \/ Answers(c) /\ baseline' = my[c]
     \/ UNCHANGED baseline
  /\ statsMutex' = NONE
  /\ Goto(c, "idle")
  /\ UNCHANGED <<my, serverLock, server, done, serverStatus, statsApiPort, idVars,
                 instVars, dialer>>

-----------------------------------------------------------------------------
(* TestLatency, one configuration per call (testSingleConfig): an instance  *)
(* of its own that never touches serverLock.                                *)

TestRejects(c) ==
  /\ pc[c] \in {"TestLatency", "testCreate"}
  /\ IF pc[c] = "testCreate" THEN NewFails(c) ELSE UNCHANGED dialer
  /\ Goto(c, "idle")
  /\ UNCHANGED <<my, serverLock, statsMutex, server, done, serverStatus,
                 statsApiPort, baseline, idVars, instVars>>

TestPickPort(c) ==
  /\ pc[c] = "TestLatency"
  /\ PickFreePort(c)
  /\ tests' = tests \cup {ids + 1}
  /\ Goto(c, "testCreate")
  /\ UNCHANGED <<serverLock, statsMutex, server, done, serverStatus, statsApiPort,
                 baseline, instVars, dialer>>

TestSpawn(c) ==
  /\ pc[c] = "testCreate"
  /\ NewInstance(c)
  /\ go' = [go EXCEPT ![my[c]] = "spawned"]
  /\ Goto(c, "testClose")
  /\ UNCHANGED <<my, serverLock, statsMutex, server, done, serverStatus,
                 statsApiPort, baseline, idVars, running, started, bound, closed>>

\* The port answered and the probes were made, or it did not for 3 seconds:
\* in both cases the deferred Close ends the call.
TestClose(c) ==
  /\ pc[c] = "testClose"
  /\ InstanceClose(my[c])
  /\ Goto(c, "idle")
  /\ UNCHANGED <<my, serverLock, statsMutex, server, done, serverStatus,
                 statsApiPort, baseline, idVars, go, started, dialer>>

-----------------------------------------------------------------------------
StartStep(c) ==
  \/ StartLock(c) \/ StartRejects(c) \/ StartPickPort(c) \/ StartCreateFails(c)
  \/ StartCreate(c) \/ StartReset(c) \/ StartSpawn(c) \/ StartReturn(c)

StopStep(c) == StopLock(c) \/ StopClose(c) \/ StopReset(c)

TrafficStep(c) ==
  \/ TrafficCheck(c) \/ SpeedLock(c) \/ QueryDial(c) \/ TotalReturn(c) \/ SpeedReturn(c)

TestStep(c) == TestRejects(c) \/ TestPickPort(c) \/ TestSpawn(c) \/ TestClose(c)

CallerStep(c) == StartStep(c) \/ StopStep(c) \/ TrafficStep(c) \/ TestStep(c)

GoroutineStep(n) ==
  InstanceStart(n) \/ InstanceStartFeature(n) \/ StartGoroutineFailed(n)

Next ==
  \/ \E c \in Callers : \/ \E op \in AllOps : Call(c, op)
                        \/ CallerStep(c)
  \/ \E n \in Ids : GoroutineStep(n)

Spec == Init /\ [][Next]_vars

\* The Go scheduler runs every goroutine that can run, the time-outs of the
\* stats query and of the probe end, and sync.Mutex hands the lock over in
\* arrival order once a waiter has starved for 1 ms: a waiter is not overtaken
\* for ever, which is strong fairness of the steps that lock.
Fairness ==
  /\ \A c \in Callers : SF_vars(CallerStep(c))
  /\ \A n \in Ids : SF_vars(GoroutineStep(n))

FairSpec == Spec /\ Fairness

-----------------------------------------------------------------------------
Labels ==
  {"idle", "startPrepare", "startCreate", "startReset", "startSpawn", "startReturn",
   "stopClose", "stopReset", "totalQuery", "totalWait", "speedLock", "speedQuery",
   "speedWait", "testCreate", "testClose"} \cup AllOps

\* The variables of the library and of its instances keep their types.
TypeOK ==
  /\ pc \in [Callers -> Labels]
  /\ my \in [Callers -> Ids \cup {NONE}]
  /\ serverLock \in Callers \cup {NONE}
  /\ statsMutex \in Callers \cup {NONE}
  /\ server \in Ids \cup {NONE}
  /\ done \in Ids \cup {NONE}
  /\ serverStatus \in {"STOPPED", "STARTING", "RUNNING", "STOPPING"}
  /\ statsApiPort \in Ids \cup {NONE}
  /\ baseline \in Ids \cup {NONE}
  /\ ids \in 0..MaxIds
  /\ port \in [Ids -> Ports \cup {NONE}]
  /\ tests \subseteq Ids
  /\ go \in [Ids -> {"none", "spawned", "starting", "failed", "finished", "exited"}]
  /\ running \in [Ids -> BOOLEAN]
  /\ started \in [Ids -> 0..NFeatures]
  /\ bound \in [Ids -> SUBSET (Ports \cup {UserPort, NONE})]
  /\ closed \subseteq Ids
  /\ dialer \in Ids \cup {NONE}

\* What GetStatus can report, since it takes serverLock: STOPPED exactly when
\* there is no server and RUNNING exactly when there is one, whichever of
\* Start, Stop and the failing goroutines wrote last and by whichever path.
StatusTracksServer ==
  serverLock = NONE => serverStatus = IF server = NONE THEN "STOPPED" ELSE "RUNNING"

\* The server a Stop would close has never been closed before, and the done
\* channel Stop would close is the one made for it: no late goroutine and no
\* second Stop leads to a second close of either.
ServerIsOpen ==
  server # NONE => server \notin closed /\ done = server

\* GetRealtimeSpeed computes a speed as a difference to the stored totals.
\* While a server is reported as running those totals were read through that
\* server's own API port (or there are none): not through the port of an
\* earlier server, however long the query or the call was delayed.
BaselineOfCurrentServer ==
  (serverLock = NONE /\ server # NONE) => baseline \in {NONE, server}

\* Every call returns: serverLock, statsMutex and Instance.statusLock are never
\* waited for in a circle, although Stop waits for a running srv.Start() and a
\* failing srv.Start() waits for serverLock.
CallReturns == \A c \in Callers : []<>(pc[c] = "idle")

-----------------------------------------------------------------------------
(* What the documentation says and the code does not keep. *)

\* core/xray.go: "At any time, there must be at most one Server instance running."
AtMostOneRunning ==
  \A m, n \in Ids : running[m] /\ running[n] => m = n
=============================================================================
