------------------------------ MODULE KCPConn ------------------------------
(***************************************************************************)
(* transport/internet/kcp, how a connection ends: the dialing end, the     *)
(* listener with its session, and UDP between them.                        *)
(*                                                                         *)
(* Connection.state is read and stored by several goroutines without a     *)
(* lock: whoever closes the connection ("app"), Input ("input") and flush, *)
(* which both updaters run ("data", "ping").  Each of them reads the state *)
(* and decides (Decide), and stores its decision later (SetState).  The    *)
(* checks of flush are independent of each other; a pass over them is      *)
(* modelled check by check.  Whether a timer has run out is left open.     *)
(* Data, acks and pings end a connection alike, by their close option, and *)
(* are not told apart.                                                     *)
(***************************************************************************)
EXTENDS Naturals, FiniteSets

CONSTANTS
  WireCap,   \* bound: segments in the network at a time, more are lost
  Updaters,  \* of a connection: "ping" and, besides, "data"
  MaxConns   \* bound: connections the listener creates

Ends == {"dialer", "listener"}
Peer(e) == IF e = "dialer" THEN "listener" ELSE "dialer"
Threads == Updaters \cup {"app", "input"}
Nothing == "nothing"   \* a thread that has nothing to store
Absent == "absent"     \* no connection, or one that has been terminated

VARIABLES
  state,     \* of the connection of each end, or Absent
  decided,   \* [Ends -> [Threads -> State \cup {Nothing}]]
  pinging,   \* ends whose ping updater runs
  doomed,    \* ends with a goroutine about to call Terminate
  hasClosed, \* ends that have ever begun to close by themselves
  wire,      \* segments in the network
  conns      \* connections the listener has created

connVars == <<state, decided, pinging, doomed, hasClosed, wire, conns>>

ConnSegment == [to : Ends, kind : {"terminate", "other"}, close : BOOLEAN]

Live(e) == state[e] # Absent
Idle(e, t) == decided[e][t] = Nothing

ConnInit ==
  /\ state = [e \in Ends |-> IF e = "dialer" THEN "Active" ELSE Absent]
  /\ decided = [e \in Ends |-> [t \in Threads |-> Nothing]]
  /\ pinging = {"dialer"}
  /\ doomed = {} /\ hasClosed = {}
  /\ wire = {} /\ conns = 0

\* The network keeps some of what it holds and is given.
Send(segs) ==
  /\ wire' \in SUBSET (wire \cup segs)
  /\ Cardinality(wire') <= WireCap

-----------------------------------------------------------------------------
(* SetState *)

Decide(e, t, s) == decided' = [decided EXCEPT ![e][t] = s]

\* SetState, the store and what it entails: a Terminated connection wakes up its
\* updaters and is terminated by a goroutine of its own.
SetState(e, t) ==
  LET s == decided[e][t] IN
  /\ ~Idle(e, t)
  /\ state' = [state EXCEPT ![e] = s]
  /\ decided' = [decided EXCEPT ![e][t] = Nothing]
  /\ hasClosed' = IF s \in {"PeerClosed", "PeerTerminating"} THEN hasClosed ELSE hasClosed \cup {e}
  /\ pinging' = IF s = "Terminated" THEN pinging \cup {e} ELSE pinging
  /\ doomed' = IF s = "Terminated" THEN doomed \cup {e} ELSE doomed
  /\ UNCHANGED <<wire, conns>>

\* Terminate; a connection of the listener leaves its sessions (Writer.Close).
\* What its goroutines store afterwards nobody reads.
Terminate(e) ==
  /\ e \in doomed
  /\ doomed' = doomed \ {e}
  /\ state' = [state EXCEPT ![e] = Absent]
  /\ decided' = [decided EXCEPT ![e] = [t \in Threads |-> Nothing]]
  /\ pinging' = pinging \ {e}
  /\ UNCHANGED <<hasClosed, wire, conns>>

\* What Close does in a state: nothing in one that is closed already.
CloseTo(s) ==
  CASE s = "Active" -> "ReadyToClose"
    [] s = "PeerClosed" -> "Terminating"
    [] s = "PeerTerminating" -> "Terminated"
    [] OTHER -> Nothing

\* The user of a connection closes it.
Close(e) ==
  /\ Live(e) /\ CloseTo(state[e]) # Nothing /\ Idle(e, "app")
  /\ Decide(e, "app", CloseTo(state[e]))
  /\ UNCHANGED <<state, pinging, doomed, hasClosed, wire, conns>>

-----------------------------------------------------------------------------
(* flush *)

\* A connection that is Active hears nothing for 30 s and is closed; one that
\* is ReadyToClose has nothing left to send, or 15 s have passed; Terminating
\* ends after 8 s, PeerTerminating after 4 s.
FlushTo(s) ==
  CASE s \in {"Active"} -> "ReadyToClose"
    [] s \in {"ReadyToClose", "PeerTerminating"} -> "Terminating"
    [] s = "Terminating" -> "Terminated"
    [] OTHER -> Nothing

\* Mutant: PeerTerminating has no timeout.
FlushDecidesNot(e, u) ==
  /\ Live(e) /\ Idle(e, u) /\ (u = "ping" => e \in pinging)
  /\ state[e] # "PeerTerminating" /\ FlushTo(state[e]) # Nothing
  /\ Decide(e, u, FlushTo(state[e]))
  /\ UNCHANGED <<state, pinging, doomed, hasClosed, wire, conns>>

FlushDecides(e, u) ==
  /\ Live(e) /\ Idle(e, u) /\ (u = "ping" => e \in pinging)
  /\ FlushTo(state[e]) # Nothing
  /\ Decide(e, u, FlushTo(state[e]))
  /\ UNCHANGED <<state, pinging, doomed, hasClosed, wire, conns>>

Seg(e, kind) == [to |-> Peer(e), kind |-> kind, close |-> state[e] = "ReadyToClose"]

\* The rest of flush: a Terminating connection only says so, another one sends
\* its acks, its data and a ping.
FlushSends(e, u) ==
  /\ Live(e) /\ state[e] # "Terminated" /\ Idle(e, u) /\ (u = "ping" => e \in pinging)
  /\ Send({Seg(e, IF state[e] = "Terminating" THEN "terminate" ELSE "other")})
  /\ UNCHANGED <<state, decided, pinging, doomed, hasClosed, conns>>

\* Updater.run ends when it sees that the connection is Terminated.
PingStops(e) ==
  /\ e \in pinging /\ state[e] = "Terminated" /\ Idle(e, "ping")
  /\ pinging' = pinging \ {e}
  /\ UNCHANGED <<state, decided, doomed, hasClosed, wire, conns>>

-----------------------------------------------------------------------------
(* Input *)

\* OnPeerClosed
PeerClosedTo(s) ==
  CASE s = "ReadyToClose" -> "Terminating"
    [] s = "Active" -> "PeerClosed"
    [] OTHER -> Nothing

\* A Terminate command.
TerminateTo(s) ==
  CASE s \in {"Active", "PeerClosed"} -> "PeerTerminating"
    [] s = "ReadyToClose" -> "Terminating"
    [] s = "Terminating" -> "Terminated"
    [] OTHER -> Nothing

\* Mutant: an option of any segment is taken for a Close.
InputAnyClose(e, m) ==
  /\ m \in wire /\ m.to = e /\ Live(e) /\ Idle(e, "input")
  /\ Decide(e, "input", IF m.kind = "terminate" THEN TerminateTo(state[e]) ELSE PeerClosedTo(state[e]))
  /\ UNCHANGED <<state, pinging, doomed, hasClosed, wire, conns>>

\* Connection.Input.  The network may deliver a segment again.
ConnInput(e, m) ==
  /\ m \in wire /\ m.to = e /\ Live(e) /\ Idle(e, "input")
  /\ Decide(e, "input", IF m.kind = "terminate" THEN TerminateTo(state[e])
                        ELSE IF m.close THEN PeerClosedTo(state[e]) ELSE Nothing)
  /\ UNCHANGED <<state, pinging, doomed, hasClosed, wire, conns>>

\* Listener.OnReceive without a session: any segment but a Terminate creates a
\* connection, a late one of a connection that has ended too.  The connection
\* then gets the segment (Input).
Accept(m) ==
  LET e == "listener" IN
  /\ m \in wire /\ m.to = e /\ ~Live(e)
  /\ m.kind # "terminate" /\ conns < MaxConns
  /\ conns' = conns + 1
  /\ state' = [state EXCEPT ![e] = "Active"]
  /\ decided' = [decided EXCEPT ![e] =
       [t \in Threads |-> IF t = "input" /\ m.close THEN PeerClosedTo("Active") ELSE Nothing]]
  /\ pinging' = pinging \cup {e}
  /\ doomed' = doomed \ {e}
  /\ UNCHANGED <<hasClosed, wire>>

\* Listener.Close: every session is terminated, whatever its state.
CloseListener ==
  /\ Live("listener")
  /\ doomed' = doomed \cup {"listener"}
  /\ hasClosed' = hasClosed \cup {"listener"}
  /\ conns' = MaxConns
  /\ UNCHANGED <<state, decided, pinging, wire>>

ConnNext ==
  \/ \E e \in Ends, t \in Threads : SetState(e, t)
  \/ \E e \in Ends : Close(e) \/ Terminate(e) \/ PingStops(e)
  \/ \E e \in Ends, u \in Updaters : FlushDecides(e, u) \/ FlushSends(e, u)
  \/ \E e \in Ends, m \in wire : ConnInput(e, m)
  \/ \E m \in wire : Accept(m)
  \/ CloseListener

ConnSpec == ConnInit /\ [][ConnNext]_connVars

\* Goroutines run, and the ping updater of a connection keeps flushing.
ConnFairSpec ==
  /\ ConnSpec
  /\ WF_connVars(\E e \in Ends, t \in Threads : SetState(e, t))
  /\ WF_connVars(\E e \in Ends : FlushDecides(e, "ping"))
  /\ WF_connVars(\E e \in Ends : Terminate(e))

-----------------------------------------------------------------------------
(* Properties *)

\* A connection that closes is gone in the end.  One that is PeerClosed does not close
\* yet: it waits for its user, or for a Terminate of its peer, and nothing in flush ends
\* it.  That holds of a connection whose user has closed it too, when OnPeerClosed has
\* read Active before and stores PeerClosed over the ReadyToClose of Close.
NoneCloses ==
  \A e \in Ends : state[e] \notin {"ReadyToClose", "Terminating", "PeerTerminating"}

\* A connection is PeerClosed or PeerTerminating only when its peer has begun
\* to close: late, repeated and reordered segments, and a session made anew
\* by a late one, never end a connection whose peer is active (OnPeerClosed).
PeerHasClosed ==
  \A e \in Ends : state[e] \in {"PeerClosed", "PeerTerminating"} => Peer(e) \in hasClosed
=============================================================================
