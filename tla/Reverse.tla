------------------------------- MODULE Reverse ------------------------------
(***************************************************************************)
(* app/reverse: a bridge inside a private network opens tunnels to a       *)
(* portal, which sends the requests of its users through them.  A tunnel   *)
(* is a mux connection with the portal as its client; the first session in *)
(* it is a control connection, on which the portal sends a message now and *)
(* then.  After MaxTotal sessions the portal drains a tunnel: it says so   *)
(* on the control connection and ends it, and the bridge opens another.    *)
(* The Reverse inbound and outbound of VLESS work the same way.            *)
(***************************************************************************)
EXTENDS Naturals, Sequences, FiniteSets

CONSTANTS Requests,
          MaxTunnels,   \* bound: the tunnels of a behaviour
          MaxTotal,     \* sessions until a tunnel is drained, 256 in the code
          PerWorker,    \* sessions per tunnel that make the bridge open another, 16
          Beat,         \* the beats between two messages, 5
          MaxFaults     \* bound: connections that break or go silent

VARIABLES
  made,       \* tunnels opened so far
  bridge,     \* Bridge.workers: the tunnels that the bridge knows
  server,     \* the bridge's end of each tunnel: "none", "open", "closed"
  state,      \* BridgeWorker.State
  picker,     \* StaticMuxPicker.workers
  client,     \* the portal's end: "none", "open", "closed"
  draining, counter,
  beating,    \* the heartbeat task of the PortalWorker runs
  control,    \* the control session is open
  messages,   \* control messages on their way to the bridge
  total,      \* TotalConnections
  silent,     \* nothing gets through any more, and nobody is told
  request,    \* where each request is: "idle", "picked", "open", "done", "failed"
  through,    \* the tunnel it uses
  faults

bridgeVars == <<bridge, server, state>>
portalVars == <<picker, client, draining, counter, beating, control, total>>
requestVars == <<request, through>>
vars == <<made, bridgeVars, portalVars, messages, silent, requestVars, faults>>

Tunnels == 1..MaxTunnels
Has(s, t) == \E i \in DOMAIN s : s[i] = t

Sessions(t) ==
  {r \in Requests : request[r] = "open" /\ through[r] = t}
Connections(t) == Cardinality(Sessions(t)) + IF control[t] THEN 1 ELSE 0

-----------------------------------------------------------------------------
\* The bridge.  A worker that drains counts as gone, although it still serves.
IsActive(t) == state[t] = "ACTIVE" /\ server[t] = "open"

RECURSIVE SumConnections(_)
SumConnections(s) == IF s = <<>> THEN 0 ELSE Connections(Head(s)) + SumConnections(Tail(s))

\* A monitor that does not look at the state of its workers.
MonitorAnyState ==
  LET left == SelectSeq(bridge, LAMBDA t : server[t] = "open")
      wanted == left = <<>> \/ SumConnections(left) \div Len(left) > PerWorker
  IN /\ IF wanted /\ made < MaxTunnels
          THEN /\ made' = made + 1
               /\ bridge' = Append(left, made + 1)
               /\ server' = [server EXCEPT ![made + 1] = "open"]
          ELSE bridge' = left /\ UNCHANGED <<made, server>>
     /\ UNCHANGED <<state, portalVars, messages, silent, requestVars, faults>>

\* Bridge.monitor with its cleanup.
Monitor ==
  LET left == SelectSeq(bridge, IsActive)
      wanted == left = <<>> \/ SumConnections(left) \div Len(left) > PerWorker
  IN /\ IF wanted /\ made < MaxTunnels
          THEN /\ made' = made + 1
               /\ bridge' = Append(left, made + 1)
               /\ server' = [server EXCEPT ![made + 1] = "open"]
          ELSE bridge' = left /\ UNCHANGED <<made, server>>
     /\ UNCHANGED <<state, portalVars, messages, silent, requestVars, faults>>

\* handleInternalConn.
HandleInternalConn(t) ==
  /\ server[t] = "open" /\ messages[t] # <<>> /\ ~silent[t]
  /\ state' = [state EXCEPT ![t] = Head(messages[t])]
  /\ messages' = [messages EXCEPT ![t] = Tail(@)]
  /\ UNCHANGED <<made, bridge, server, portalVars, silent, requestVars, faults>>

\* The timer of a worker: a minute without a message.  Once the control connection has
\* ended it is set to a day, which is longer than anything here.
BridgeTimeout(t) ==
  /\ server[t] = "open" /\ silent[t]
  /\ server' = [server EXCEPT ![t] = "closed"]
  /\ UNCHANGED <<made, bridge, state, portalVars, messages, silent, requestVars, faults>>

\* The monitor of the mux server: no session, and none since the last look.
ServerIdle(t) ==
  /\ server[t] = "open" /\ client[t] # "none" /\ Connections(t) = 0 /\ messages[t] = <<>>
  /\ server' = [server EXCEPT ![t] = "closed"]
  /\ UNCHANGED <<made, bridge, state, portalVars, messages, silent, requestVars, faults>>

-----------------------------------------------------------------------------
\* HandleConnection for the tunnel domain: NewPortalWorker opens the control session.
HandleTunnel(t) ==
  /\ server[t] = "open" /\ client[t] = "none" /\ ~silent[t]
  /\ client' = [client EXCEPT ![t] = "open"]
  /\ picker' = Append(picker, t)
  /\ control' = [control EXCEPT ![t] = TRUE]
  /\ total' = [total EXCEPT ![t] = 1]
  /\ beating' = [beating EXCEPT ![t] = TRUE]
  /\ UNCHANGED <<made, bridgeVars, draining, counter, messages, silent, requestVars, faults>>

\* PortalWorker.heartbeat: the last one says DRAIN and ends the control connection.
Heartbeat(t) ==
  LET drains == total[t] > MaxTotal
      beat == (counter[t] + 1) % Beat
      says == IF drains THEN <<"DRAIN">> ELSE IF beat = 1 THEN <<"ACTIVE">> ELSE <<>>
  IN /\ beating[t] /\ messages[t] = <<>>     \* bound: one message on its way
     /\ IF client[t] = "closed" \/ draining[t]
          THEN /\ beating' = [beating EXCEPT ![t] = FALSE]
               /\ UNCHANGED <<draining, counter, control, messages>>
          ELSE /\ draining' = [draining EXCEPT ![t] = drains]
               /\ counter' = [counter EXCEPT ![t] = beat]
               /\ control' = [control EXCEPT ![t] = ~drains]
               /\ messages' = [messages EXCEPT ![t] = @ \o says]
               /\ UNCHANGED beating
     /\ UNCHANGED <<made, bridgeVars, picker, client, total, silent, requestVars, faults>>

\* The monitor of the mux client.
ClientIdle(t) ==
  /\ client[t] = "open" /\ Connections(t) = 0
  /\ client' = [client EXCEPT ![t] = "closed"]
  /\ UNCHANGED <<made, bridgeVars, picker, draining, counter, beating, control, total,
                 messages, silent, requestVars, faults>>

\* StaticMuxPicker.cleanup.
Cleanup ==
  /\ \E i \in DOMAIN picker : client[picker[i]] = "closed"
  /\ picker' = SelectSeq(picker, LAMBDA t : client[t] # "closed")
  /\ UNCHANGED <<made, bridgeVars, client, draining, counter, beating, control, total,
                 messages, silent, requestVars, faults>>

\* PickAvailable: the first of the tunnels with the fewest sessions, among those that do
\* not drain if there is one.
Candidates ==
  LET open == {i \in DOMAIN picker : client[picker[i]] = "open"}
      steady == {i \in open : ~draining[picker[i]]}
  IN IF steady # {} THEN steady ELSE open

PickAvailable ==
  CHOOSE i \in Candidates : \A j \in Candidates :
    LET a == Connections(picker[i])
        b == Connections(picker[j])
    IN a < b \/ (a = b /\ i <= j)

\* ClientManager.Dispatch for a request of a user: it takes a tunnel, and tries again
\* when that is closed by the time it is used.
Pick(r) ==
  /\ request[r] = "idle"
  /\ IF Candidates = {} THEN request' = [request EXCEPT ![r] = "failed"] /\ UNCHANGED through
     ELSE /\ request' = [request EXCEPT ![r] = "picked"]
          /\ through' = [through EXCEPT ![r] = picker[PickAvailable]]
  /\ UNCHANGED <<made, bridgeVars, portalVars, messages, silent, faults>>

Dispatch(r) ==
  LET t == through[r]
  IN /\ request[r] = "picked"
     /\ IF client[t] = "open"
          THEN /\ request' = [request EXCEPT ![r] = "open"]
               /\ total' = [total EXCEPT ![t] = @ + 1]
               /\ UNCHANGED through
          ELSE /\ request' = [request EXCEPT ![r] = "idle"]
               /\ through' = [through EXCEPT ![r] = 0]
               /\ UNCHANGED total
     /\ UNCHANGED <<made, bridgeVars, picker, client, draining, counter, beating, control,
                    messages, silent, faults>>

Finish(r) ==
  /\ request[r] = "open"
  /\ request' = [request EXCEPT ![r] = "done"]
  /\ through' = [through EXCEPT ![r] = 0]
  /\ UNCHANGED <<made, bridgeVars, portalVars, messages, silent, faults>>

\* The connection of a tunnel breaks: each end that is still open learns of it, and the
\* sessions in it end.
Ends(t) ==
  /\ client' = [client EXCEPT ![t] = "closed"]
  /\ server' = [server EXCEPT ![t] = "closed"]
  /\ control' = [control EXCEPT ![t] = FALSE]
  /\ messages' = [messages EXCEPT ![t] = <<>>]
  /\ request' = [r \in Requests |-> IF r \in Sessions(t) THEN "done" ELSE request[r]]
  /\ through' = [r \in Requests |-> IF r \in Sessions(t) THEN 0 ELSE through[r]]
  /\ UNCHANGED <<made, bridge, state, picker, draining, counter, beating, total, silent>>

Breaks(t) ==
  /\ server[t] = "open" /\ faults < MaxFaults
  /\ Ends(t) /\ faults' = faults + 1

GoesSilent(t) ==
  /\ server[t] = "open" /\ ~silent[t] /\ faults < MaxFaults
  /\ silent' = [silent EXCEPT ![t] = TRUE] /\ faults' = faults + 1
  /\ UNCHANGED <<made, bridgeVars, portalVars, messages, requestVars>>

\* One end has closed the connection, and the other sees it.
SeesClose(t) ==
  /\ client[t] # "none" /\ ~silent[t]
  /\ \/ client[t] = "closed" /\ server[t] = "open"
     \/ client[t] = "open" /\ server[t] = "closed"
  /\ Ends(t) /\ UNCHANGED faults

Init ==
  /\ made = 0 /\ bridge = <<>> /\ picker = <<>> /\ faults = 0
  /\ server = [t \in Tunnels |-> "none"] /\ state = [t \in Tunnels |-> "ACTIVE"]
  /\ client = [t \in Tunnels |-> "none"]
  /\ draining = [t \in Tunnels |-> FALSE] /\ counter = [t \in Tunnels |-> 0]
  /\ beating = [t \in Tunnels |-> FALSE] /\ control = [t \in Tunnels |-> FALSE]
  /\ messages = [t \in Tunnels |-> <<>>] /\ total = [t \in Tunnels |-> 0]
  /\ silent = [t \in Tunnels |-> FALSE]
  /\ request = [r \in Requests |-> "idle"] /\ through = [r \in Requests |-> 0]

TunnelStep(t) ==
  \/ HandleInternalConn(t) \/ BridgeTimeout(t) \/ ServerIdle(t)
  \/ HandleTunnel(t) \/ Heartbeat(t) \/ ClientIdle(t) \/ SeesClose(t)

Next ==
  \/ Monitor \/ Cleanup
  \/ \E t \in Tunnels : TunnelStep(t) \/ Breaks(t) \/ GoesSilent(t)
  \/ \E r \in Requests : Pick(r) \/ Dispatch(r) \/ Finish(r)

\* The tasks run for ever; a user may hold a session as long as they like.
Fairness ==
  /\ WF_vars(Monitor) /\ WF_vars(Cleanup)
  /\ \A t \in Tunnels : WF_vars(HandleInternalConn(t) \/ BridgeTimeout(t))
  /\ \A t \in Tunnels : WF_vars(HandleTunnel(t)) /\ WF_vars(SeesClose(t))
  /\ \A t \in Tunnels : WF_vars(Heartbeat(t)) /\ WF_vars(ClientIdle(t) \/ ServerIdle(t))

Spec == Init /\ [][Next]_vars
FairSpec == Spec /\ Fairness

-----------------------------------------------------------------------------
Usable(t) ==
  /\ server[t] = "open" /\ client[t] = "open" /\ Has(picker, t)
  /\ ~draining[t] /\ ~silent[t]

=============================================================================
