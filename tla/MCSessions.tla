----------------------------- MODULE MCSessions -----------------------------
(***************************************************************************)
(* What happens to a connection, on small instances: a behaviour is that   *)
(* of one component, and those of common/mux stay new in those of others.  *)
(*   relay    a session between an inbound and an outbound proxy           *)
(*   reverse  the tunnels between a bridge and a portal                    *)
(*   link     a mux connection with its sessions at both ends              *)
(*   xudp     the UDP flows of the mux server that outlive a connection    *)
(***************************************************************************)
EXTENDS MuxLink, XUDP

CONSTANTS w1, w2

VARIABLES component, inb, outb, c, r, upPipe, downPipe, i, o, task, wbuf, made,
          bridge, bridgeEnd, state, picker, portal, draining, counter, beating,
          control, messages, total, silent, request, through, faults

-----------------------------------------------------------------------------
(* Every program of an inbound and of an outbound, in one session at least *)

Prog == INSTANCE Relay WITH Chunks <- 2, Cap <- 1, Attempts <- 2, MaxRounds <- 2, Sessions <- {},
  up <- 0, down <- 0

Pairs ==
  {<<Prog!VLessIn, Prog!VLessOut>>, <<Prog!SocksIn, Prog!FreedomOut>>,
   <<Prog!HttpConnectIn, Prog!SocksOut>>, <<Prog!DokodemoIn, Prog!TrojanOut>>,
   <<Prog!SocksIn, Prog!HttpOut>>, <<Prog!HttpPlainIn, Prog!LoopbackOut>>,
   <<Prog!DokodemoIn, Prog!ShadowsocksOut>>, <<Prog!ShadowsocksIn, Prog!BlackholeOut>>,
   <<Prog!TrojanIn, Prog!LoopbackOut>>, <<Prog!VMessIn, Prog!LoopbackOut>>,
   <<Prog!HttpConnectIn, Prog!VMessOut>>}

Relay == INSTANCE Relay WITH Chunks <- 2, Cap <- 1, Attempts <- 2, MaxRounds <- 2, Sessions <- Pairs,
  up <- upPipe, down <- downPipe

Rev == INSTANCE Reverse WITH
  Requests <- {1}, MaxTunnels <- 3, MaxTotal <- 1, PerWorker <- 1, Beat <- 2, MaxFaults <- 1,
  client <- portal, server <- bridgeEnd

-----------------------------------------------------------------------------
allVars == <<component, inb, outb, c, r, upPipe, downPipe, i, o, task, wbuf,
             made, bridge, bridgeEnd, state, picker, portal, draining, counter,
             beating, control, messages, total, silent, request, through,
             faults, up, down, count, id, client, fetch, followup, sentUp,
             server, lookup, linkHandle, sentDown, gotUp, gotDown, broken, map,
             xstatus, mux, xlink, owner, slink, xudp, sclosed, sessions, open,
             err, handle, serves, pc, x, num, news, done, smClosed, lock,
             closing>>

AtRelay ==
  /\ component = "relay"
  /\ UNCHANGED <<component, made, bridge, bridgeEnd, state, picker, portal,
                 draining, counter, beating, control, messages, total, silent,
                 request, through, faults, up, down, count, id, client, fetch,
                 followup, sentUp, server, lookup, linkHandle, sentDown, gotUp,
                 gotDown, broken, map, xstatus, mux, xlink, owner, slink, xudp,
                 sclosed, sessions, open, err, handle, serves, pc, x, num,
                 news, done, smClosed, lock, closing>>

AtReverse ==
  /\ component = "reverse"
  /\ UNCHANGED <<component, inb, outb, c, r, upPipe, downPipe, i, o, task,
                 wbuf, up, down, count, id, client, fetch, followup, sentUp,
                 server, lookup, linkHandle, sentDown, gotUp, gotDown, broken,
                 map, xstatus, mux, xlink, owner, slink, xudp, sclosed,
                 sessions, open, err, handle, serves, pc, x, num, news, done,
                 smClosed, lock, closing>>

AtLink ==
  /\ component = "link"
  /\ UNCHANGED <<component, inb, outb, c, r, upPipe, downPipe, i, o, task,
                 wbuf, made, bridge, bridgeEnd, state, picker, portal,
                 draining, counter, beating, control, messages, total, silent,
                 request, through, faults, map, xstatus, mux, xlink, owner,
                 slink, xudp, sclosed, sessions, open, err, handle, serves, pc,
                 x, num, news, done, smClosed, lock, closing>>

AtXudp ==
  /\ component = "xudp"
  /\ UNCHANGED <<component, inb, outb, c, r, upPipe, downPipe, i, o, task,
                 wbuf, made, bridge, bridgeEnd, state, picker, portal,
                 draining, counter, beating, control, messages, total, silent,
                 request, through, faults, up, down, count, id, client, fetch,
                 followup, sentUp, server, lookup, linkHandle, sentDown, gotUp,
                 gotDown, broken>>

AllInit ==
  \/ /\ component = "relay"
     /\ Relay!Init
     /\ MuxInit
     /\ XudpInit
     /\ made = 0 /\ bridge = 0 /\ bridgeEnd = 0 /\ state = 0 /\ picker = 0
     /\ portal = 0 /\ draining = 0 /\ counter = 0 /\ beating = 0
     /\ control = 0 /\ messages = 0 /\ total = 0 /\ silent = 0 /\ request = 0
     /\ through = 0 /\ faults = 0
  \/ /\ component = "reverse"
     /\ Rev!Init
     /\ MuxInit
     /\ XudpInit
     /\ inb = 0 /\ outb = 0 /\ c = 0 /\ r = 0 /\ upPipe = 0 /\ downPipe = 0
     /\ i = 0 /\ o = 0 /\ task = 0 /\ wbuf = 0
  \/ /\ component = "link"
     /\ MuxInit
     /\ XudpInit
     /\ inb = 0 /\ outb = 0 /\ c = 0 /\ r = 0 /\ upPipe = 0 /\ downPipe = 0
     /\ i = 0 /\ o = 0 /\ task = 0 /\ wbuf = 0 /\ made = 0 /\ bridge = 0
     /\ bridgeEnd = 0 /\ state = 0 /\ picker = 0 /\ portal = 0 /\ draining = 0
     /\ counter = 0 /\ beating = 0 /\ control = 0 /\ messages = 0 /\ total = 0
     /\ silent = 0 /\ request = 0 /\ through = 0 /\ faults = 0
  \/ /\ component = "xudp"
     /\ XudpInit
     /\ MuxInit
     /\ inb = 0 /\ outb = 0 /\ c = 0 /\ r = 0 /\ upPipe = 0 /\ downPipe = 0
     /\ i = 0 /\ o = 0 /\ task = 0 /\ wbuf = 0 /\ made = 0 /\ bridge = 0
     /\ bridgeEnd = 0 /\ state = 0 /\ picker = 0 /\ portal = 0 /\ draining = 0
     /\ counter = 0 /\ beating = 0 /\ control = 0 /\ messages = 0 /\ total = 0
     /\ silent = 0 /\ request = 0 /\ through = 0 /\ faults = 0

AllNext ==
  \/ AtRelay /\ Relay!Next
  \/ AtReverse /\ Rev!Next
  \/ AtLink /\ MuxNext
  \/ AtXudp /\ XudpNext

\* The fairness of each component, while it is the one that runs.
SessionsSpec ==
  /\ AllInit /\ [][AllNext]_allVars
  /\ WF_(Relay!vars)(component = "relay" /\ Relay!Progress)
  /\ WF_muxVars(component = "link" /\ MuxProgress)
  /\ WF_xudpVars(component = "xudp" /\ XudpProgress)
  /\ WF_(Rev!vars)(component = "reverse" /\ Rev!Monitor)
  /\ WF_(Rev!vars)(component = "reverse" /\ Rev!Cleanup)
  /\ \A t \in 1..3 :
       /\ WF_(Rev!vars)(/\ component = "reverse"
                        /\ \/ Rev!HandleInternalConn(t) \/ Rev!BridgeTimeout(t) \/ Rev!HandleTunnel(t)
                           \/ Rev!SeesClose(t) \/ Rev!ClientIdle(t) \/ Rev!ServerIdle(t))
       /\ WF_(Rev!vars)(component = "reverse" /\ Rev!Heartbeat(t))

-----------------------------------------------------------------------------
(* Properties *)

\* What a session carries arrives in order and, when both ends report success, as a
\* whole: the Process functions of the proxies.
RelayedWhole == component = "relay" => Relay!StreamIntact /\ Relay!CleanEndIsWhole

\* Sessions end (the Process functions), a tunnel comes back (Bridge.monitor), a close
\* reaches the other end of a mux session (Writer.Close), and once all connections have
\* ended no UDP flow stays in the map (XUDPManager).
SessionsEnd ==
  <>[](/\ component = "relay" => Relay!Over \/ Relay!Stuck
       /\ component = "reverse" /\ made < 3 => \E t \in Rev!Tunnels : Rev!Usable(t)
       /\ component = "link" => ClosedAtBothEnds
       /\ component = "xudp" => NoFlowIsLeft)
=============================================================================
