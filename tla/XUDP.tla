-------------------------------- MODULE XUDP --------------------------------
(***************************************************************************)
(* common/mux, server side, XUDP: a UDP flow with a global ID outlives the *)
(* mux connection that carries it.  XUDPManager.Map keeps it for a minute, *)
(* and a New frame with its ID on another connection takes it over.        *)
(*                                                                         *)
(* There is one global ID.  The n-th New frame with it makes session n and *)
(* perhaps an XUDP value and a link, both named n as well.  A thread is    *)
(* the reading goroutine or the monitor of a worker, or the handle that    *)
(* the n-th New starts.  The lock of a worker's session manager is held    *)
(* from the beginning of Session.Close to its end; a monitor takes it for  *)
(* one session after the other.                                            *)
(***************************************************************************)
EXTENDS Naturals, Sequences, FiniteSets, TLAPS

CONSTANTS
  Workers,    \* mux connections
  MaxNews,    \* bound: New frames
  NONE

N == 1..MaxNews
Threads == ({"run", "monitor"} \X Workers) \cup ({"handle"} \X N)

ASSUME XudpAssumption == MaxNews \in Nat /\ NONE \notin Threads

VARIABLES
  map,        \* XUDPManager.Map[GlobalID]: an XUDP value, or 0 for nil
  xstatus,     \* XUDP.Status: "initializing", "active", "expiring"
  mux,        \* XUDP.Mux: a session, or 0
  xlink,      \* the link of XUDP.Mux, or 0
  owner,      \* Session.parent: the worker of each session, or NONE
  slink,      \* the link of each session
  xudp,       \* Session.XUDP
  sclosed,    \* Session.closed
  open,       \* links that have not been interrupted or ended
  err,        \* links with an error in the error channel of their pipe
  sessions,   \* the sessions in the manager of each worker
  handle,     \* the handles: "none", "read", "write", "close", "end"
  serves,     \* the session each handle is for
  pc, x, num,   \* where the reading goroutine of each worker is, with its x and n
  news,       \* New frames so far
  done,       \* workers that are done
  smClosed,   \* workers whose session manager is closed
  lock,       \* the thread that holds the lock of each worker's session manager
  closing     \* the session each thread is closing, or 0

mapVars == <<map, xstatus, mux, xlink>>
sessionVars == <<owner, slink, xudp, sclosed, sessions>>
handleVars == <<handle, serves>>
linkVars == <<open, err>>
runVars == <<pc, x, num, news>>
workerVars == <<done, smClosed>>
closeVars == <<lock, closing>>
xudpVars == <<mapVars, sessionVars, linkVars, handleVars, runVars, workerVars, closeVars>>

XudpInit ==
  /\ map = 0
  /\ xstatus = [i \in N |-> "initializing"]
  /\ mux = [i \in N |-> 0]
  /\ xlink = [i \in N |-> 0]
  /\ owner = [i \in N |-> NONE]
  /\ slink = [i \in N |-> 0]
  /\ xudp = [i \in N |-> 0]
  /\ sclosed = [i \in N |-> FALSE]
  /\ open = {}
  /\ err = {}
  /\ sessions = [w \in Workers |-> {}]
  /\ handle = [i \in N |-> "none"]
  /\ serves = [i \in N |-> 0]
  /\ pc = [w \in Workers |-> "idle"]
  /\ x = [w \in Workers |-> 0]
  /\ num = [w \in Workers |-> 0]
  /\ news = 0
  /\ done = {}
  /\ smClosed = {}
  /\ lock = [w \in Workers |-> NONE]
  /\ closing = [t \in Threads |-> 0]

Goto(w, label) == pc' = [pc EXCEPT ![w] = label]

-----------------------------------------------------------------------------
(* Session.Close *)

\* A monitor holds its own manager's lock, anyone else locks the parent.
LockOf(t, s) == IF t[1] = "monitor" THEN t[2] ELSE owner[s]

\* Mutant: Close looks at closed before it locks the manager.
ClosePassesEarly(t, s) == sclosed[s]

\* A session that has been closed is passed over, but only under the lock.
ClosePasses(t, s) == sclosed[s] /\ lock[LockOf(t, s)] = NONE

\* closed is set and ReturnAnError puts an error into the pipe.
CloseBegins(t, s) ==
  /\ closing[t] = 0
  /\ lock[LockOf(t, s)] = NONE
  /\ ~sclosed[s]
  /\ slink[s] \notin err
  /\ sclosed' = [sclosed EXCEPT ![s] = TRUE]
  /\ err' = err \cup {slink[s]}
  /\ closing' = [closing EXCEPT ![t] = s]
  /\ lock' = [lock EXCEPT ![LockOf(t, s)] = t]
  /\ UNCHANGED <<owner, slink, xudp, sessions, open>>

\* Mutant: the XUDP is not marked for expiry.
CloseEndsActive(t) ==
  LET s == closing[t] IN
  /\ s # 0
  /\ err' = err \ {slink[s]}
  /\ xstatus' = xstatus
  /\ closing' = [closing EXCEPT ![t] = 0]
  /\ lock' = [lock EXCEPT ![LockOf(t, s)] = NONE]
  /\ sessions' = [sessions EXCEPT ![owner[s]] = @ \ {s}]

\* After Gosched: Recover takes the error back, an active XUDP is to expire, and
\* the session is removed from its parent.
CloseEnds(t) ==
  LET s == closing[t] IN
  /\ s # 0
  /\ err' = err \ {slink[s]}
  /\ xstatus' = [xstatus EXCEPT ![xudp[s]] = IF @ = "active" THEN "expiring" ELSE @]
  /\ closing' = [closing EXCEPT ![t] = 0]
  /\ lock' = [lock EXCEPT ![LockOf(t, s)] = NONE]
  /\ sessions' = [sessions EXCEPT ![owner[s]] = @ \ {s}]

Closed(t) ==
  /\ CloseEnds(t)
  /\ UNCHANGED <<map, mux, xlink, owner, slink, xudp, sclosed, open, handleVars, runVars, workerVars>>

-----------------------------------------------------------------------------
(* handleStatusNew with a global ID, by the reading goroutine of w *)

Run(w) == <<"run", w>>

\* Mutant: a flow that another New is working on is taken over.
NewNoConflict(w) ==
  /\ pc[w] = "idle" /\ w \notin done /\ closing[Run(w)] = 0
  /\ news < MaxNews
  /\ news' = news + 1
  /\ num' = [num EXCEPT ![w] = news + 1]
  /\ \/ /\ map = 0
        /\ map' = news + 1
        /\ x' = [x EXCEPT ![w] = news + 1]
        /\ Goto(w, "dispatch")
        /\ UNCHANGED xstatus
     \/ /\ map # 0
        /\ xstatus' = [xstatus EXCEPT ![map] = "initializing"]
        /\ x' = [x EXCEPT ![w] = map]
        /\ Goto(w, "detach")
        /\ UNCHANGED map
  /\ UNCHANGED <<mux, xlink, sessionVars, linkVars, handleVars, workerVars, closeVars>>

\* Look the ID up: a new XUDP, a conflict, or one to take over.
New(w) ==
  /\ pc[w] = "idle" /\ w \notin done /\ closing[Run(w)] = 0
  /\ news < MaxNews
  /\ news' = news + 1
  /\ num' = [num EXCEPT ![w] = news + 1]
  /\ \/ /\ map = 0
        /\ map' = news + 1
        /\ x' = [x EXCEPT ![w] = news + 1]
        /\ Goto(w, "dispatch")
        /\ UNCHANGED xstatus
     \/ /\ map # 0 /\ xstatus[map] = "initializing"
        /\ UNCHANGED <<map, x, pc, xstatus>>
     \/ /\ map # 0 /\ xstatus[map] # "initializing"
        /\ xstatus' = [xstatus EXCEPT ![map] = "initializing"]
        /\ x' = [x EXCEPT ![w] = map]
        /\ Goto(w, "detach")
        /\ UNCHANGED map
  /\ UNCHANGED <<mux, xlink, sessionVars, linkVars, handleVars, workerVars, closeVars>>

\* x.Mux.Close(false)
NewDetach(w) ==
  /\ pc[w] = "detach"
  /\ CloseBegins(Run(w), mux[x[w]])
  /\ Goto(w, "detached")
  /\ UNCHANGED <<mapVars, handleVars, x, num, news, workerVars>>

NewDetached(w) ==
  /\ pc[w] = "detach" /\ ClosePasses(Run(w), mux[x[w]])
  /\ Goto(w, "write")
  /\ UNCHANGED <<mapVars, sessionVars, linkVars, handleVars, x, num, news, workerVars, closeVars>>

NewDetachEnds(w) ==
  /\ pc[w] = "detached"
  /\ CloseEnds(Run(w))
  /\ Goto(w, "write")
  /\ UNCHANGED <<map, mux, xlink, owner, slink, xudp, sclosed, open, handleVars, x, num, news, workerVars>>

\* The packet goes to the old link; if that is gone it is interrupted and a
\* new one is needed.
NewWrite(w) ==
  /\ pc[w] = "write"
  /\ Goto(w, IF xlink[x[w]] \in open THEN "attach" ELSE "dispatch")
  /\ UNCHANGED <<mapVars, sessionVars, linkVars, handleVars, x, num, news, workerVars, closeVars>>

NewDispatch(w) ==
  /\ pc[w] = "dispatch"
  /\ xlink' = [xlink EXCEPT ![x[w]] = num[w]]
  /\ open' = open \cup {num[w]}
  /\ Goto(w, "attach")
  /\ UNCHANGED <<map, xstatus, mux, sessionVars, err, handleVars, x, num, news, workerVars, closeVars>>

\* Dispatch fails: the XUDP is forgotten and the connection breaks.
NewDispatchFails(w) ==
  /\ pc[w] = "dispatch"
  /\ map' = 0
  /\ done' = done \cup {w}
  /\ Goto(w, "idle")
  /\ UNCHANGED <<xstatus, mux, xlink, sessionVars, linkVars, handleVars, x, num, news, smClosed, closeVars>>

\* The XUDP gets its new session and is active.
NewAttach(w) ==
  /\ pc[w] = "attach"
  /\ owner' = [owner EXCEPT ![num[w]] = w]
  /\ slink' = [slink EXCEPT ![num[w]] = xlink[x[w]]]
  /\ xudp' = [xudp EXCEPT ![num[w]] = x[w]]
  /\ mux' = [mux EXCEPT ![x[w]] = num[w]]
  /\ xstatus' = [xstatus EXCEPT ![x[w]] = "active"]
  /\ Goto(w, "add")
  /\ UNCHANGED <<map, xlink, sclosed, sessions, linkVars, handleVars, x, num, news, workerVars, closeVars>>

\* What is added, and handled, is what x.Mux is by now.
NewAdd(w) ==
  /\ pc[w] = "add" /\ lock[w] = NONE
  /\ w \notin smClosed
  /\ sessions' = [sessions EXCEPT ![w] = @ \cup {mux[x[w]]}]
  /\ handle' = [handle EXCEPT ![num[w]] = "read"]
  /\ serves' = [serves EXCEPT ![num[w]] = mux[x[w]]]
  /\ Goto(w, "idle")
  /\ UNCHANGED <<mapVars, owner, slink, xudp, sclosed, linkVars, x, num, news, workerVars, closeVars>>

\* The manager has been closed meanwhile: so is the session.
NewAddFails(w) ==
  /\ pc[w] = "add"
  /\ w \in smClosed
  /\ CloseBegins(Run(w), mux[x[w]])
  /\ Goto(w, "idle")
  /\ UNCHANGED <<mapVars, handleVars, x, num, news, workerVars>>

\* Another New has taken the session over before Add failed.
NewAddFailed(w) ==
  /\ pc[w] = "add"
  /\ w \in smClosed
  /\ ClosePasses(Run(w), mux[x[w]])
  /\ Goto(w, "idle")
  /\ UNCHANGED <<mapVars, sessionVars, linkVars, handleVars, x, num, news, workerVars, closeVars>>

-----------------------------------------------------------------------------
(* handle, and what else closes a session *)

From(h) == slink[serves[h]]

HandleRead(h) ==
  /\ handle[h] = "read"
  /\ From(h) \in open
  /\ handle' = [handle EXCEPT ![h] = "write"]
  /\ UNCHANGED <<mapVars, sessionVars, linkVars, serves, runVars, workerVars, closeVars>>

\* To the connection of the New that started the handle.
HandleWrite(h) ==
  /\ handle[h] = "write"
  /\ handle' = [handle EXCEPT ![h] = IF owner[h] \in done THEN "close" ELSE "read"]
  /\ UNCHANGED <<mapVars, sessionVars, linkVars, serves, runVars, workerVars, closeVars>>

\* The error of ReturnAnError, or the end of the link.
HandleError(h) ==
  /\ handle[h] = "read"
  /\ From(h) \in err
  /\ err' = err \ {From(h)}
  /\ handle' = [handle EXCEPT ![h] = "close"]
  /\ UNCHANGED <<mapVars, sessionVars, open, serves, runVars, workerVars, closeVars>>

HandleCut(h) ==
  /\ handle[h] = "read"
  /\ From(h) \notin open
  /\ handle' = [handle EXCEPT ![h] = "close"]
  /\ UNCHANGED <<mapVars, sessionVars, linkVars, serves, runVars, workerVars, closeVars>>

HandleClose(h) ==
  /\ handle[h] = "close"
  /\ handle' = [handle EXCEPT ![h] = "end"]
  /\ \/ CloseBegins(<<"handle", h>>, serves[h])
     \/ /\ ClosePasses(<<"handle", h>>, serves[h])
        /\ UNCHANGED <<sessionVars, linkVars, closeVars>>
  /\ UNCHANGED <<mapVars, serves, runVars, workerVars>>

\* The client ends the session.
EndFrame(w, s) ==
  /\ pc[w] = "idle" /\ w \notin done \cup smClosed
  /\ s \in sessions[w]
  /\ CloseBegins(Run(w), s)
  /\ UNCHANGED <<mapVars, handleVars, runVars, workerVars>>

\* The target ends the flow.
LinkEnds(l) ==
  /\ l \in open
  /\ open' = open \ {l}
  /\ UNCHANGED <<mapVars, sessionVars, err, handleVars, runVars, workerVars, closeVars>>

\* The connection ends, and its monitor closes the manager and its sessions.
WorkerDone(w) ==
  /\ w \notin done
  /\ done' = done \cup {w}
  /\ UNCHANGED <<mapVars, sessionVars, linkVars, handleVars, runVars, smClosed, closeVars>>

MonitorCloses(w) ==
  /\ w \in done \ smClosed
  /\ lock[w] = NONE
  /\ smClosed' = smClosed \cup {w}
  /\ UNCHANGED <<mapVars, sessionVars, linkVars, handleVars, runVars, done, closeVars>>

\* The timer finds no session: the manager closes first, the worker is done next.
MonitorIdle(w) ==
  /\ w \notin smClosed /\ w \notin done
  /\ lock[w] = NONE /\ sessions[w] = {}
  /\ smClosed' = smClosed \cup {w}
  /\ UNCHANGED <<mapVars, sessionVars, linkVars, handleVars, runVars, done, closeVars>>

MonitorIdleDone(w) ==
  /\ w \in smClosed \ done
  /\ done' = done \cup {w}
  /\ UNCHANGED <<mapVars, sessionVars, linkVars, handleVars, runVars, smClosed, closeVars>>

MonitorClosesSession(w, s) ==
  /\ w \in smClosed
  /\ s \in sessions[w]
  /\ CloseBegins(<<"monitor", w>>, s)
  /\ UNCHANGED <<mapVars, handleVars, runVars, workerVars>>

\* A minute after its session was closed the XUDP is interrupted and removed.
Expire ==
  /\ map # 0 /\ xstatus[map] = "expiring"
  /\ open' = open \ {xlink[map]}
  /\ map' = 0
  /\ UNCHANGED <<xstatus, mux, xlink, sessionVars, err, handleVars, runVars, workerVars, closeVars>>
-----------------------------------------------------------------------------

RunStep(w) ==
  \/ NewDetach(w) \/ NewDetached(w) \/ NewDetachEnds(w) \/ NewWrite(w)
  \/ NewDispatch(w) \/ NewDispatchFails(w) \/ NewAttach(w)
  \/ NewAdd(w) \/ NewAddFails(w) \/ NewAddFailed(w)

MonitorStep(w) == MonitorCloses(w) \/ MonitorIdleDone(w) \/ \E s \in N : MonitorClosesSession(w, s)
HandleStep(s) == HandleWrite(s) \/ HandleError(s) \/ HandleCut(s) \/ HandleClose(s)

\* A thread whose reading goroutine is past NewDetach ends the close there.
ClosedStep(t) == (\A w \in Workers : t = Run(w) => pc[w] # "detached") /\ Closed(t)

XudpNext ==
  \/ \E w \in Workers :
       \/ New(w) \/ RunStep(w) \/ MonitorStep(w) \/ WorkerDone(w) \/ MonitorIdle(w)
       \/ \E s \in N : EndFrame(w, s)
  \/ \E s \in N : HandleRead(s) \/ HandleStep(s) \/ LinkEnds(s)
  \/ \E t \in Threads : ClosedStep(t)
  \/ Expire

XudpSpec == XudpInit /\ [][XudpNext]_xudpVars

\* Goroutines run on, a lock that is free is granted, and the expiry loop comes round.
XudpProgress ==
  \/ \E w \in Workers : RunStep(w) \/ MonitorStep(w)
  \/ \E s \in N : HandleStep(s)
  \/ \E t \in Threads : ClosedStep(t)
  \/ Expire

XudpFairSpec == XudpSpec /\ WF_xudpVars(XudpProgress)

-----------------------------------------------------------------------------
(* Properties *)

\* Some New has added and handled a session that a later New had put into
\* x.Mux, between x.Status = Active and the reads of x.Mux that follow it.
Overtaken == \E h \in N : serves[h] \notin {0, h}

\* x.Mux.Close(false) detaches a flow from its previous connection: a flow that
\* is about to expire is not in use, its session has been closed and no New has
\* taken it over since.
DetachedForGood == map # 0 /\ xstatus[map] = "expiring" => sclosed[mux[map]]

\* So it is, however closes on one connection race with a takeover on another
\* (Session.Close, handleStatusNew, the expiry loop), until a New is overtaken.
ExpiringIsUnused == ~Overtaken => DetachedForGood

\* At most one New at a time works on a flow, so that the fields of XUDP it
\* sets without the lock are its own (Status is Initializing meanwhile).
OneTakeover ==
  \A v, w \in Workers :
    (v # w /\ pc[v] \notin {"idle", "add"} /\ pc[w] \notin {"idle", "add"}) => x[v] # x[w]

FlowsHaveOneOwner == OneTakeover /\ ExpiringIsUnused

\* When all connections have ended, no flow stays in the map
\* (it is active, and then expires, or a failed New has removed it).
NoFlowIsLeft == done = Workers => map = 0

-----------------------------------------------------------------------------
(* The inductive invariant of the flows *)

Working(w) == pc[w] \notin {"idle", "add"}
Labels == {"idle", "detach", "detached", "write", "dispatch", "attach", "add"}

FlowTypeOK ==
  /\ news \in Nat /\ map \in N \cup {0} /\ news <= MaxNews
  /\ xstatus \in [N -> {"initializing", "active", "expiring"}]
  /\ mux \in [N -> N \cup {0}] /\ xudp \in [N -> N \cup {0}] /\ serves \in [N -> N \cup {0}]
  /\ DOMAIN owner = N /\ sclosed \in [N -> BOOLEAN]
  /\ sessions \in [Workers -> SUBSET N]
  /\ pc \in [Workers -> Labels] /\ x \in [Workers -> N \cup {0}] /\ num \in [Workers -> N \cup {0}]
  /\ closing \in [Threads -> N \cup {0}] /\ lock \in [Workers -> Threads \cup {NONE}]

\* A New that works on a flow keeps its Status at Initializing, and has a number of
\* its own, which is not that of a session yet.
TakeoverInv ==
  /\ map <= news
  /\ \A i \in N : i > news => xstatus[i] = "initializing" /\ mux[i] = 0 /\ xudp[i] = 0 /\ serves[i] = 0
  /\ \A w \in Workers : Working(w) => x[w] \in 1..news /\ xstatus[x[w]] = "initializing" /\ xudp[num[w]] = 0
  /\ \A w \in Workers : pc[w] # "idle" => num[w] \in 1..news /\ serves[num[w]] = 0
  /\ \A v, w \in Workers : v # w /\ pc[v] # "idle" /\ pc[w] # "idle" => num[v] # num[w]
  /\ OneTakeover

\* The session of a flow is its last one, and every other one has been closed.
FlowInv ==
  /\ \A i \in N : mux[i] # 0 => xudp[mux[i]] = i
  /\ \A i \in N : xstatus[i] # "initializing" => mux[i] # 0
  /\ \A s \in N : xudp[s] # 0 => owner[s] \in Workers /\ mux[xudp[s]] # 0
  /\ \A s \in N : xudp[s] # 0 /\ ~sclosed[s] => mux[xudp[s]] = s
  /\ \A s \in N : serves[s] # 0 => xudp[serves[s]] # 0
  /\ \A w \in Workers : pc[w] \in {"detach", "detached"} => mux[x[w]] # 0
  /\ \A w \in Workers : pc[w] = "detached" => closing[Run(w)] = mux[x[w]] /\ sclosed[mux[x[w]]]
  /\ \A w \in Workers : pc[w] \in {"write", "dispatch", "attach"} => mux[x[w]] = 0 \/ sclosed[mux[x[w]]]
  /\ \A w \in Workers : pc[w] = "add" => x[w] \in N /\ mux[x[w]] # 0 /\ owner[num[w]] = w /\ xudp[num[w]] = x[w]
  /\ \A w \in Workers : \A s \in sessions[w] : xudp[s] # 0

HandleInv == DOMAIN handle = N /\ \A h \in N : handle[h] # "none" => serves[h] # 0

\* A session is listed by its own worker, and who closes it holds that worker's lock.
Held(t) ==
  /\ xudp[closing[t]] # 0 /\ mux[xudp[closing[t]]] = closing[t] /\ sclosed[closing[t]]
  /\ LockOf(t, closing[t]) = owner[closing[t]] /\ lock[owner[closing[t]]] = t

OwnerInv ==
  /\ \A w \in Workers : \A s \in sessions[w] : owner[s] = w
  /\ \A t \in Threads : closing[t] # 0 => Held(t)
  /\ \A w \in Workers : pc[w] \in {"write", "dispatch", "attach"} =>
       \A t \in Threads : closing[t] # 0 => closing[t] # mux[x[w]]
  /\ \A i \in N : xstatus[i] = "expiring" => sclosed[mux[i]]

XudpInv == FlowTypeOK /\ TakeoverInv /\ FlowInv /\ HandleInv /\ (~Overtaken => OwnerInv)

-----------------------------------------------------------------------------
(* Steps of the flows *)

flowVars == <<map, xstatus, mux, owner, xudp, sclosed, sessions, serves, pc, x, num, news, closing, lock>>

LEMMA ThreadFacts ==
  /\ \A w \in Workers : Run(w) \in Threads /\ <<"monitor", w>> \in Threads
  /\ \A h \in N : <<"handle", h>> \in Threads
  /\ \A v, w \in Workers : Run(v) = Run(w) => v = w
  /\ NONE \notin Threads
BY XudpAssumption, Zenon DEF Threads, Run

\* Who closes a session locks its owner's manager, as long as a monitor finds only its
\* own sessions.
LEMMA LockOfOwner ==
  ASSUME NEW s
  PROVE  /\ \A w : LockOf(Run(w), s) = owner[s]
         /\ \A h : LockOf(<<"handle", h>>, s) = owner[s]
         /\ \A w : LockOf(<<"monitor", w>>, s) = w
BY Zenon DEF LockOf, Run

\* The two halves of Session.Close keep the types.
LEMMA CloseBeginsTypes ==
  ASSUME FlowTypeOK, NEW t \in Threads, NEW s \in N, CloseBegins(t, s)
  PROVE  /\ sclosed' \in [N -> BOOLEAN] /\ closing' \in [Threads -> N \cup {0}]
         /\ lock' \in [Workers -> Threads \cup {NONE}]
         /\ UNCHANGED <<owner, xudp, sessions>>
BY Zenon DEF FlowTypeOK, CloseBegins

LEMMA CloseEndsTypes ==
  ASSUME FlowTypeOK, NEW t \in Threads, CloseEnds(t)
  PROVE  /\ xstatus' \in [N -> {"initializing", "active", "expiring"}]
         /\ closing' \in [Threads -> N \cup {0}]
         /\ lock' \in [Workers -> Threads \cup {NONE}] /\ sessions' \in [Workers -> SUBSET N]
<1> DEFINE k == xudp[closing[t]]
<1>1. xstatus' = [xstatus EXCEPT ![k] = IF xstatus[k] = "active" THEN "expiring" ELSE xstatus[k]]
  BY Zenon DEF CloseEnds
<1>2. xstatus' \in [N -> {"initializing", "active", "expiring"}]
  BY <1>1, Zenon DEF FlowTypeOK
<1>3. /\ closing' = [closing EXCEPT ![t] = 0]
      /\ lock' = [lock EXCEPT ![LockOf(t, closing[t])] = NONE]
      /\ sessions' = [sessions EXCEPT ![owner[closing[t]]] = sessions[owner[closing[t]]] \ {closing[t]}]
  BY Zenon DEF CloseEnds
<1> QED
  BY <1>2, <1>3, Zenon DEF FlowTypeOK

\* Reading, and what the monitor only waits for, leaves flows and sessions alone.
LEMMA FlowIdle ==
  /\ \A h \in N :
       HandleRead(h) \/ HandleWrite(h) \/ HandleError(h) \/ HandleCut(h) \/ LinkEnds(h) => UNCHANGED flowVars
  /\ \A w \in Workers :
       WorkerDone(w) \/ MonitorCloses(w) \/ MonitorIdle(w) \/ MonitorIdleDone(w) => UNCHANGED flowVars
  /\ UNCHANGED xudpVars => UNCHANGED flowVars
<1> USE DEF flowVars, mapVars, sessionVars, handleVars, runVars, closeVars
<1>1. ASSUME NEW h \in N, HandleRead(h) \/ HandleWrite(h) \/ HandleError(h) \/ HandleCut(h) \/ LinkEnds(h)
      PROVE  UNCHANGED flowVars
  BY <1>1, Zenon DEF HandleRead, HandleWrite, HandleError, HandleCut, LinkEnds
<1>2. ASSUME NEW w \in Workers, WorkerDone(w) \/ MonitorCloses(w) \/ MonitorIdle(w) \/ MonitorIdleDone(w)
      PROVE  UNCHANGED flowVars
  BY <1>2, Zenon DEF WorkerDone, MonitorCloses, MonitorIdle, MonitorIdleDone
<1>3. UNCHANGED xudpVars => UNCHANGED flowVars
  BY Zenon DEF xudpVars
<1> QED
  BY <1>1, <1>2, <1>3, Zenon

LEMMA FlowTypeOKStep ==
  ASSUME FlowTypeOK, TakeoverInv, FlowInv, HandleInv, [XudpNext]_xudpVars
  PROVE  FlowTypeOK'
<1>1. ASSUME NEW w \in Workers, New(w) PROVE FlowTypeOK'
  <2>1. news + 1 \in N /\ news' = news + 1
    BY <1>1, XudpAssumption DEF New, FlowTypeOK, N
  <2>2. /\ num' = [num EXCEPT ![w] = news + 1] /\ map' \in {map, news + 1}
        /\ x' \in {x, [x EXCEPT ![w] = news + 1], [x EXCEPT ![w] = map]}
        /\ pc' \in {pc, [pc EXCEPT ![w] = "dispatch"], [pc EXCEPT ![w] = "detach"]}
        /\ xstatus' \in {xstatus, [xstatus EXCEPT ![map] = "initializing"]}
    BY <1>1, Zenon DEF New, Goto
  <2>3. UNCHANGED <<mux, owner, xudp, sclosed, sessions, serves, closing, lock>>
    BY <1>1, Zenon DEF New, sessionVars, handleVars, closeVars
  <2>4. num' \in [Workers -> N \cup {0}] /\ map' \in N \cup {0} /\ news' \in Nat /\ news' <= MaxNews
    BY <2>1, <2>2 DEF FlowTypeOK, N
  <2>5. x' \in [Workers -> N \cup {0}]
    BY <2>1, <2>2 DEF FlowTypeOK
  <2>6. pc' \in [Workers -> Labels]
    BY <2>2, Zenon DEF FlowTypeOK, Labels
  <2>7. xstatus' \in [N -> {"initializing", "active", "expiring"}]
    BY <2>2, Zenon DEF FlowTypeOK
  <2> QED
    BY <2>3, <2>4, <2>5, <2>6, <2>7, Zenon DEF FlowTypeOK
<1>2. ASSUME NEW t \in Threads, NEW s \in N, CloseBegins(t, s),
             UNCHANGED <<map, xstatus, mux, serves, x, num, news>>, pc' \in [Workers -> Labels]
      PROVE  FlowTypeOK'
  BY <1>2, CloseBeginsTypes, Zenon DEF FlowTypeOK
<1>3. ASSUME NEW t \in Threads, CloseEnds(t), UNCHANGED <<map, mux, owner, xudp, sclosed, serves, x, num, news>>,
             pc' \in [Workers -> Labels]
      PROVE  FlowTypeOK'
  BY <1>3, CloseEndsTypes, Zenon DEF FlowTypeOK
<1>4. ASSUME NEW w \in Workers, NewDetach(w) PROVE FlowTypeOK'
  <2>1. mux[x[w]] \in N /\ CloseBegins(Run(w), mux[x[w]]) /\ pc' \in [Workers -> Labels]
    BY <1>4 DEF NewDetach, Goto, FlowTypeOK, FlowInv, TakeoverInv, Working, Labels, N
  <2> QED
    BY <1>2, <1>4, <2>1, ThreadFacts, Zenon DEF NewDetach, mapVars, handleVars
<1>5. ASSUME NEW w \in Workers, NewAddFails(w) PROVE FlowTypeOK'
  <2>1. mux[x[w]] \in N /\ CloseBegins(Run(w), mux[x[w]]) /\ pc' \in [Workers -> Labels]
    BY <1>5 DEF NewAddFails, Goto, FlowTypeOK, FlowInv, Labels
  <2> QED
    BY <1>2, <1>5, <2>1, ThreadFacts, Zenon DEF NewAddFails, mapVars, handleVars
<1>6. ASSUME NEW h \in N, HandleClose(h) PROVE FlowTypeOK'
  <2>1. CASE CloseBegins(<<"handle", h>>, serves[h])
    <3>1. serves[h] \in N
      BY <1>6, Zenon DEF HandleClose, HandleInv, FlowTypeOK
    <3> QED
      BY <1>2, <1>6, <2>1, <3>1, ThreadFacts, Zenon DEF HandleClose, mapVars, runVars, FlowTypeOK
  <2>2. CASE UNCHANGED <<sessionVars, linkVars, closeVars>>
    BY <1>6, <2>2, Zenon DEF HandleClose, mapVars, sessionVars, closeVars, runVars, FlowTypeOK
  <2> QED
    BY <1>6, <2>1, <2>2, Zenon DEF HandleClose
<1>7. ASSUME NEW w \in Workers, NEW s \in N, EndFrame(w, s) \/ MonitorClosesSession(w, s) PROVE FlowTypeOK'
  BY <1>2, <1>7, ThreadFacts, Zenon DEF EndFrame, MonitorClosesSession, mapVars, handleVars, runVars, FlowTypeOK
<1>8. ASSUME NEW w \in Workers, NewDetachEnds(w) PROVE FlowTypeOK'
  BY <1>3, <1>8, ThreadFacts, Zenon DEF NewDetachEnds, Goto, Labels, handleVars, FlowTypeOK
<1>9. ASSUME NEW t \in Threads, ClosedStep(t) PROVE FlowTypeOK'
  BY <1>3, <1>9, Zenon DEF ClosedStep, Closed, handleVars, runVars, FlowTypeOK
<1>10. ASSUME NEW w \in Workers, NewDetached(w) \/ NewWrite(w) \/ NewDispatch(w) \/ NewDispatchFails(w) \/ NewAddFailed(w)
       PROVE  FlowTypeOK'
  <2>1. UNCHANGED <<xstatus, mux, owner, xudp, sclosed, sessions, serves, x, num, news, closing, lock>>
    BY <1>10, Zenon DEF NewDetached, NewWrite, NewDispatch, NewDispatchFails, NewAddFailed,
                 mapVars, sessionVars, handleVars, closeVars
  <2>2. map' \in {0, map} /\ \E l \in Labels : pc' = [pc EXCEPT ![w] = l]
    BY <1>10, Zenon DEF NewDetached, NewWrite, NewDispatch, NewDispatchFails, NewAddFailed, Goto, mapVars, Labels
  <2> QED
    BY <2>1, <2>2, Zenon DEF FlowTypeOK
<1>11. ASSUME NEW w \in Workers, NewAttach(w) PROVE FlowTypeOK'
  BY <1>11, Zenon DEF NewAttach, Goto, Labels, handleVars, closeVars, FlowTypeOK, TakeoverInv, Working, N
<1>12. ASSUME NEW w \in Workers, NewAdd(w) PROVE FlowTypeOK'
  <2>1. mux[x[w]] \in N
    BY <1>12 DEF NewAdd, FlowTypeOK, FlowInv
  <2>2. /\ sessions' = [sessions EXCEPT ![w] = sessions[w] \cup {mux[x[w]]}]
        /\ serves' = [serves EXCEPT ![num[w]] = mux[x[w]]] /\ pc' = [pc EXCEPT ![w] = "idle"]
        /\ UNCHANGED <<map, xstatus, mux, owner, xudp, sclosed, x, num, news, closing, lock>>
    BY <1>12, Zenon DEF NewAdd, Goto, mapVars, closeVars
  <2>3. sessions' \in [Workers -> SUBSET N]
    BY <2>1, <2>2 DEF FlowTypeOK
  <2>4. serves' \in [N -> N \cup {0}] /\ pc' \in [Workers -> Labels]
    BY <2>1, <2>2, Zenon DEF FlowTypeOK, Labels
  <2> QED
    BY <2>2, <2>3, <2>4, Zenon DEF FlowTypeOK
<1>13. ASSUME Expire PROVE FlowTypeOK'
  BY <1>13, Zenon DEF Expire, sessionVars, handleVars, runVars, closeVars, FlowTypeOK
<1>14. CASE UNCHANGED flowVars
  BY <1>14, Zenon DEF flowVars, FlowTypeOK
<1> QED
  BY <1>1, <1>4, <1>5, <1>6, <1>7, <1>8, <1>9, <1>10, <1>11, <1>12, <1>13, <1>14, FlowIdle, Zenon
  DEF XudpNext, RunStep, MonitorStep, HandleStep


\* A handle is for a session.
LEMMA HandleInvStep ==
  ASSUME FlowTypeOK, FlowInv, TakeoverInv, HandleInv, [XudpNext]_xudpVars
  PROVE  HandleInv'
<1>1. ASSUME NEW w \in Workers, NewAdd(w) PROVE HandleInv'
  <2>1. /\ mux[x[w]] # 0
        /\ serves' = [serves EXCEPT ![num[w]] = mux[x[w]]] /\ handle' = [handle EXCEPT ![num[w]] = "read"]
    BY <1>1, Zenon DEF NewAdd, FlowInv
  <2> QED
    BY <2>1, Zenon DEF HandleInv, FlowTypeOK
<1>2. ASSUME NEW h \in N, HandleRead(h) \/ HandleStep(h) PROVE HandleInv'
  <2>1. /\ handle[h] # "none" /\ serves' = serves
        /\ \E l \in {"read", "write", "close", "end"} : handle' = [handle EXCEPT ![h] = l]
    BY <1>2, Zenon DEF HandleRead, HandleStep, HandleWrite, HandleError, HandleCut, HandleClose
  <2> QED
    BY <2>1, Zenon DEF HandleInv
<1>3. CASE UNCHANGED handleVars
  BY <1>3, Zenon DEF handleVars, HandleInv
<1> QED
  BY <1>1, <1>2, <1>3, Zenon
  DEF XudpNext, RunStep, MonitorStep, New, NewDetach, NewDetached, NewDetachEnds, NewWrite, NewDispatch,
      NewDispatchFails, NewAttach, NewAddFails, NewAddFailed, EndFrame, LinkEnds, WorkerDone, MonitorCloses,
      MonitorIdle, MonitorIdleDone, MonitorClosesSession, ClosedStep, Closed, Expire, xudpVars

\* A New takes a flow that nobody works on, or makes a flow of its own.
LEMMA TakeoverInvStep ==
  ASSUME FlowTypeOK, TakeoverInv, [XudpNext]_xudpVars
  PROVE  TakeoverInv'
<1> USE DEF FlowTypeOK, TakeoverInv, OneTakeover, N, Working
<1>1. ASSUME NEW w \in Workers, New(w) PROVE TakeoverInv'
  <2>1. /\ pc[w] = "idle" /\ news' = news + 1 /\ num' = [num EXCEPT ![w] = news + 1] /\ news + 1 <= MaxNews
        /\ UNCHANGED <<mux, xudp, serves>>
    BY <1>1, XudpAssumption DEF New, sessionVars, handleVars
  <2>2. CASE map = 0 /\ map' = news + 1 /\ x' = [x EXCEPT ![w] = news + 1] /\ Goto(w, "dispatch") /\ UNCHANGED xstatus
    BY <2>1, <2>2, XudpAssumption DEF Goto, Labels
  <2>3. CASE UNCHANGED <<map, x, pc, xstatus>>
    BY <2>1, <2>3, XudpAssumption
  <2>4. CASE /\ map # 0 /\ xstatus[map] # "initializing" /\ xstatus' = [xstatus EXCEPT ![map] = "initializing"]
             /\ x' = [x EXCEPT ![w] = map] /\ Goto(w, "detach") /\ UNCHANGED map
    BY <2>1, <2>4, XudpAssumption DEF Goto, Labels
  <2> QED
    BY <1>1, <2>2, <2>3, <2>4, Zenon DEF New
<1>2. ASSUME NEW w \in Workers, NewDetach(w) \/ NewDetached(w) \/ NewWrite(w) \/ NewDispatch(w) \/ NewDispatchFails(w)
                                \/ NewAddFails(w) \/ NewAddFailed(w)
      PROVE  TakeoverInv'
  <2>1. /\ UNCHANGED <<xstatus, mux, xudp, serves, x, num, news>> /\ map' \in {0, map}
        /\ pc[w] # "idle" /\ \E l \in Labels : pc' = [pc EXCEPT ![w] = l] /\ (pc[w] = "add" => l = "idle")
    BY <1>2, Zenon DEF NewDetach, NewDetached, NewWrite, NewDispatch, NewDispatchFails, NewAddFails, NewAddFailed, Goto,
                CloseBegins, mapVars, sessionVars, handleVars, Labels
  <2> QED
    BY <2>1 DEF Labels
<1>3. ASSUME NEW t \in Threads, CloseEnds(t), UNCHANGED <<map, mux, xudp, serves, x, num, news>>,
             pc' = pc \/ \E w \in Workers : pc[w] = "detached" /\ pc' = [pc EXCEPT ![w] = "write"]
      PROVE  TakeoverInv'
  <2>1. \A i \in N : xstatus[i] = "initializing" => xstatus'[i] = "initializing"
    BY <1>3, Zenon DEF CloseEnds
  <2>2. \A w \in Workers : (Working(w)' => Working(w)) /\ (pc'[w] # "idle" => pc[w] # "idle")
    BY <1>3 DEF Labels
  <2>3. \A i \in N : i > news => xstatus'[i] = "initializing"
    BY <2>1
  <2> QED
    BY <1>3, <2>1, <2>2, <2>3
<1>4. ASSUME NEW w \in Workers, NewDetachEnds(w) PROVE TakeoverInv'
  BY <1>3, <1>4, ThreadFacts, Zenon DEF NewDetachEnds, Goto, handleVars
<1>5. ASSUME NEW t \in Threads, ClosedStep(t) PROVE TakeoverInv'
  BY <1>3, <1>5, Zenon DEF ClosedStep, Closed, handleVars, runVars
<1>6. ASSUME NEW w \in Workers, NewAttach(w) PROVE TakeoverInv'
  BY <1>6 DEF NewAttach, Goto, Labels, handleVars
<1>7. ASSUME NEW w \in Workers, NewAdd(w) PROVE TakeoverInv'
  BY <1>7 DEF NewAdd, Goto, Labels, mapVars
<1>8. ASSUME Expire PROVE TakeoverInv'
  BY <1>8 DEF Expire, sessionVars, handleVars, runVars
<1>9. CASE UNCHANGED <<map, xstatus, mux, xudp, serves, pc, x, num, news>>
  BY <1>9, Zenon
<1> HIDE DEF FlowTypeOK, TakeoverInv, OneTakeover, Working
<1>10. ASSUME NEW w \in Workers, NEW s \in N, EndFrame(w, s) \/ MonitorClosesSession(w, s) PROVE TakeoverInv'
  BY <1>9, <1>10, Zenon DEF EndFrame, MonitorClosesSession, CloseBegins, mapVars, handleVars, runVars
<1>11. ASSUME NEW h \in N, HandleClose(h) PROVE TakeoverInv'
  BY <1>9, <1>11, Zenon DEF HandleClose, CloseBegins, mapVars, sessionVars, runVars
<1>12. CASE UNCHANGED flowVars
  BY <1>9, <1>12, Zenon DEF flowVars
<1> QED
  BY <1>1, <1>2, <1>4, <1>5, <1>6, <1>7, <1>8, <1>10, <1>11, <1>12, FlowIdle, Zenon
  DEF XudpNext, RunStep, MonitorStep, HandleStep

\* A flow gets a new session only after its last one has been closed.
LEMMA FlowInvStep ==
  ASSUME FlowTypeOK, TakeoverInv, FlowInv, HandleInv, [XudpNext]_xudpVars
  PROVE  FlowInv'
<1> USE DEF FlowTypeOK, FlowInv
<1>1. ASSUME NEW w \in Workers, New(w) PROVE FlowInv'
  <2>1. /\ pc[w] = "idle" /\ num' = [num EXCEPT ![w] = news + 1]
        /\ UNCHANGED <<mux, owner, xudp, sclosed, sessions, serves, closing>>
    BY <1>1, Zenon DEF New, sessionVars, handleVars, closeVars
  <2>2. CASE x' = [x EXCEPT ![w] = news + 1] /\ Goto(w, "dispatch") /\ UNCHANGED xstatus
    <3>1. news + 1 \in N /\ mux[news + 1] = 0
      BY <1>1, XudpAssumption DEF New, TakeoverInv, N
    <3> QED
      BY <2>1, <2>2, <3>1 DEF Goto, Labels
  <2>3. CASE UNCHANGED <<map, x, pc, xstatus>>
    BY <2>1, <2>3
  <2>4. CASE /\ map # 0 /\ xstatus[map] # "initializing" /\ xstatus' = [xstatus EXCEPT ![map] = "initializing"]
             /\ x' = [x EXCEPT ![w] = map] /\ Goto(w, "detach")
    BY <2>1, <2>4 DEF Goto, Labels
  <2> QED
    BY <1>1, <2>2, <2>3, <2>4, Zenon DEF New
<1>2. ASSUME NEW t \in Threads, NEW s \in N, CloseBegins(t, s),
             UNCHANGED <<xstatus, mux, serves, x, num>>,
             \/ pc' = pc
             \/ \E w \in Workers : pc[w] = "add" /\ pc' = [pc EXCEPT ![w] = "idle"]
             \/ \E w \in Workers : /\ pc[w] = "detach" /\ pc' = [pc EXCEPT ![w] = "detached"]
                                   /\ t = Run(w) /\ s = mux[x[w]]
      PROVE  FlowInv'
  <2>1. \A r \in N : sclosed[r] => sclosed'[r]
    BY <1>2, Zenon DEF CloseBegins
  <2>2. UNCHANGED <<owner, xudp, sessions>> /\ closing[t] = 0 /\ closing' = [closing EXCEPT ![t] = s]
    BY <1>2, Zenon DEF CloseBegins
  <2>3. \A w \in Workers : pc'[w] = "detached" => closing'[Run(w)] = mux'[x'[w]] /\ sclosed'[mux'[x'[w]]]
    <3>1. sclosed'[s]
      BY <1>2, Zenon DEF CloseBegins
    <3>2. \A w \in Workers : pc[w] = "detached" => mux[x[w]] \in N
      BY DEF TakeoverInv, Working, N
    <3> QED
      BY <1>2, <2>1, <2>2, <3>1, <3>2, ThreadFacts
  <2>4. \A w \in Workers : pc'[w] \in {"write", "dispatch", "attach"} => mux'[x'[w]] = 0 \/ sclosed'[mux'[x'[w]]]
    BY <1>2, <2>1 DEF TakeoverInv, Working, N
  <2> QED
    BY <1>2, <2>1, <2>2, <2>3, <2>4
<1>3. ASSUME NEW t \in Threads, CloseEnds(t), UNCHANGED <<mux, owner, xudp, sclosed, serves, x, num>>,
             \/ pc' = pc /\ \A w \in Workers : t = Run(w) => pc[w] # "detached"
             \/ \E w \in Workers : t = Run(w) /\ pc[w] = "detached" /\ pc' = [pc EXCEPT ![w] = "write"]
                                   /\ sclosed[mux[x[w]]]
      PROVE  FlowInv'
  <2>1. \A i \in N : xstatus'[i] # "initializing" => xstatus[i] # "initializing"
    BY <1>3, Zenon DEF CloseEnds
  <2>2. closing' = [closing EXCEPT ![t] = 0] /\ \A w \in Workers : sessions'[w] \subseteq sessions[w]
    BY <1>3 DEF CloseEnds
  <2> QED
    BY <1>3, <2>1, <2>2, ThreadFacts
<1>4. ASSUME NEW w \in Workers, NewDetach(w) PROVE FlowInv'
  <2>1. mux[x[w]] \in N
    BY <1>4 DEF NewDetach, TakeoverInv, Working, N
  <2> QED
    BY <1>2, <1>4, <2>1, ThreadFacts, Zenon DEF NewDetach, Goto, mapVars, handleVars
<1>5. ASSUME NEW w \in Workers, NewAddFails(w) PROVE FlowInv'
  <2>1. mux[x[w]] \in N
    BY <1>5 DEF NewAddFails
  <2> QED
    BY <1>2, <1>5, <2>1, ThreadFacts, Zenon DEF NewAddFails, Goto, mapVars, handleVars
<1>6. ASSUME NEW h \in N, HandleClose(h) PROVE FlowInv'
  <2>1. CASE CloseBegins(<<"handle", h>>, serves[h])
    <3>1. serves[h] \in N
      BY <1>6 DEF HandleClose, HandleInv
    <3> QED
      BY <1>2, <1>6, <2>1, <3>1, ThreadFacts, Zenon DEF HandleClose, mapVars, runVars
  <2>2. CASE UNCHANGED <<sessionVars, linkVars, closeVars>>
    BY <1>6, <2>2 DEF HandleClose, mapVars, sessionVars, closeVars, runVars
  <2> QED
    BY <1>6, <2>1, <2>2, Zenon DEF HandleClose
<1>7. ASSUME NEW w \in Workers, NEW s \in N, EndFrame(w, s) \/ MonitorClosesSession(w, s) PROVE FlowInv'
  BY <1>2, <1>7, ThreadFacts, Zenon DEF EndFrame, MonitorClosesSession, mapVars, handleVars, runVars
<1>8. ASSUME NEW w \in Workers, NewDetachEnds(w) PROVE FlowInv'
  BY <1>3, <1>8, ThreadFacts, Zenon DEF NewDetachEnds, Goto, handleVars
<1>9. ASSUME NEW t \in Threads, ClosedStep(t) PROVE FlowInv'
  BY <1>3, <1>9, Zenon DEF ClosedStep, Closed, handleVars, runVars
<1>10. ASSUME NEW w \in Workers, NewDetached(w) PROVE FlowInv'
  BY <1>10 DEF NewDetached, ClosePasses, Goto, Labels, mapVars, sessionVars, handleVars, closeVars
<1>11. ASSUME NEW w \in Workers, NewWrite(w) \/ NewDispatch(w) \/ NewDispatchFails(w) \/ NewAddFailed(w) PROVE FlowInv'
  <2>1. UNCHANGED <<xstatus, mux, owner, xudp, sclosed, sessions, serves, x, num, closing>>
    BY <1>11, Zenon DEF NewWrite, NewDispatch, NewDispatchFails, NewAddFailed, mapVars, sessionVars, handleVars, closeVars
  <2>2. \/ pc' = [pc EXCEPT ![w] = "idle"]
        \/ pc[w] \in {"write", "dispatch"} /\ \E l \in {"attach", "dispatch"} : pc' = [pc EXCEPT ![w] = l]
    BY <1>11, Zenon DEF NewWrite, NewDispatch, NewDispatchFails, NewAddFailed, Goto
  <2> QED
    BY <2>1, <2>2
<1>12. ASSUME NEW w \in Workers, NewAttach(w) PROVE FlowInv'
  <2> DEFINE X == x[w]
             n == num[w]
  <2>1. /\ X \in N /\ n \in N /\ X # 0 /\ n # 0 /\ xudp[n] = 0 /\ (mux[X] = 0 \/ sclosed[mux[X]])
        /\ \A v \in Workers : v # w /\ Working(v) => x[v] # X
        /\ \A v \in Workers : v # w /\ pc[v] # "idle" => num[v] # n
    BY <1>12 DEF NewAttach, TakeoverInv, OneTakeover, Working, N
  <2>2. /\ owner' = [owner EXCEPT ![n] = w] /\ xudp' = [xudp EXCEPT ![n] = X]
        /\ mux' = [mux EXCEPT ![X] = n] /\ xstatus' = [xstatus EXCEPT ![X] = "active"]
        /\ pc' = [pc EXCEPT ![w] = "add"]
        /\ UNCHANGED <<sclosed, sessions, serves, x, num, closing>>
    BY <1>12, Zenon DEF NewAttach, Goto, handleVars, closeVars
  <2>3. \A s \in N : xudp'[s] = (IF s = n THEN X ELSE xudp[s]) /\ mux'[s] = (IF s = X THEN n ELSE mux[s])
                     /\ owner'[s] = (IF s = n THEN w ELSE owner[s])
    BY <2>1, <2>2, Zenon
  <2>4. /\ \A i \in N : mux'[i] # 0 => xudp'[mux'[i]] = i
        /\ \A i \in N : xstatus'[i] # "initializing" => mux'[i] # 0
        /\ \A s \in N : xudp'[s] # 0 => owner'[s] \in Workers /\ mux'[xudp'[s]] # 0
    <3>1. 0 \notin N
      BY DEF N
    <3>2. ASSUME NEW i \in N, mux'[i] # 0 PROVE xudp'[mux'[i]] = i
      <4>1. mux[i] \in N \cup {0} /\ (mux[i] # 0 => xudp[mux[i]] = i)
        BY Zenon
      <4> HIDE DEF FlowTypeOK, FlowInv
      <4>2. CASE i = X
        BY <2>1, <2>3, <4>2, Zenon
      <4>3. CASE i # X
        <5>1. mux'[i] = mux[i] /\ mux[i] \in N /\ xudp[mux[i]] = i
          BY <2>3, <3>2, <4>1, <4>3, Zenon
        <5>2. mux[i] # n
          BY <2>1, <3>1, <5>1, Zenon
        <5> QED
          BY <2>3, <5>1, <5>2, Zenon
      <4> QED
        BY <4>2, <4>3, Zenon
    <3>3. ASSUME NEW i \in N, xstatus'[i] # "initializing" PROVE mux'[i] # 0
      BY <2>1, <2>2, <2>3, <3>3, Zenon
    <3>4. ASSUME NEW s \in N, xudp'[s] # 0 PROVE owner'[s] \in Workers /\ mux'[xudp'[s]] # 0
      <4>1. xudp[s] # 0 => owner[s] \in Workers /\ mux[xudp[s]] # 0 /\ xudp[s] \in N
        BY Zenon
      <4> HIDE DEF FlowTypeOK, FlowInv
      <4>2. CASE s = n
        BY <2>1, <2>3, <4>2, Zenon
      <4>3. CASE s # n
        <5>1. xudp'[s] = xudp[s] /\ owner'[s] = owner[s] /\ xudp[s] # 0 /\ xudp[s] \in N
          BY <2>3, <3>4, <4>1, <4>3, Zenon
        <5>2. mux'[xudp[s]] # 0
          BY <2>1, <2>3, <4>1, <5>1, Zenon
        <5> QED
          BY <4>1, <5>1, <5>2, Zenon
      <4> QED
        BY <4>2, <4>3, Zenon
    <3> QED
      BY <3>2, <3>3, <3>4, Zenon
  <2>5. /\ \A s \in N : xudp'[s] # 0 /\ ~sclosed'[s] => mux'[xudp'[s]] = s
        /\ \A s \in N : serves'[s] # 0 => xudp'[serves'[s]] # 0
        /\ \A v \in Workers : \A s \in sessions'[v] : xudp'[s] # 0
    BY <2>1, <2>2, <2>3
  <2>6. ASSUME NEW v \in Workers, v # w, Working(v) PROVE mux'[x'[v]] = mux[x[v]] /\ pc'[v] = pc[v]
    BY <2>1, <2>2, <2>3, <2>6 DEF TakeoverInv, Working, N
  <2>7. /\ \A v \in Workers : pc'[v] \in {"detach", "detached"} => mux'[x'[v]] # 0
        /\ \A v \in Workers : pc'[v] = "detached" => closing'[Run(v)] = mux'[x'[v]] /\ sclosed'[mux'[x'[v]]]
        /\ \A v \in Workers : pc'[v] \in {"write", "dispatch", "attach"} => mux'[x'[v]] = 0 \/ sclosed'[mux'[x'[v]]]
    <3>1. ASSUME NEW v \in Workers, pc'[v] \in {"detach", "detached", "write", "dispatch", "attach"}
          PROVE  v # w /\ Working(v) /\ pc'[v] = pc[v]
      BY <2>2, <3>1 DEF Working
    <3>2. ASSUME NEW v \in Workers, pc'[v] \in {"detach", "detached", "write", "dispatch", "attach"}
          PROVE  mux'[x'[v]] = mux[x[v]] /\ pc'[v] = pc[v]
      BY <2>6, <3>1, <3>2, Zenon
    <3> QED
      BY <2>2, <3>2
  <2>8. \A v \in Workers : pc'[v] = "add" => /\ x'[v] \in N /\ mux'[x'[v]] # 0
                                             /\ owner'[num'[v]] = v /\ xudp'[num'[v]] = x'[v]
    <3>1. \A v \in Workers : pc[v] = "add" => /\ x[v] \in N /\ mux[x[v]] # 0
                                              /\ owner[num[v]] = v /\ xudp[num[v]] = x[v]
      BY Zenon
    <3>2. \A v \in Workers : v # w => pc'[v] = pc[v]
      BY <2>2
    <3>3. \A v \in Workers : pc[v] # "idle" => num[v] \in N
      BY DEF TakeoverInv, N
    <3> HIDE DEF FlowTypeOK, FlowInv
    <3>4. x'[w] = X /\ num'[w] = n /\ mux'[X] = n /\ owner'[n] = w /\ xudp'[n] = X
      BY <2>1, <2>2, <2>3, Zenon
    <3>5. ASSUME NEW v \in Workers, v # w, pc'[v] = "add"
          PROVE  /\ x'[v] \in N /\ mux'[x'[v]] # 0
                 /\ owner'[num'[v]] = v /\ xudp'[num'[v]] = x'[v]
      <4>1. pc[v] = "add" /\ x'[v] = x[v] /\ num'[v] = num[v]
        BY <2>2, <3>2, <3>5, Zenon
      <4>2. num[v] \in N /\ num[v] # n
        BY <2>1, <3>3, <3>5, <4>1, Zenon
      <4>3. mux'[x[v]] # 0
        <5>1. x[v] \in N /\ mux[x[v]] # 0
          BY <3>1, <4>1, Zenon
        <5> QED
          BY <2>1, <2>3, <5>1
      <4>4. owner'[num[v]] = v /\ xudp'[num[v]] = x[v]
        BY <2>3, <3>1, <4>1, <4>2, Zenon
      <4> QED
        BY <3>1, <4>1, <4>3, <4>4, Zenon
    <3>6. x'[w] \in N /\ mux'[x'[w]] # 0 /\ owner'[num'[w]] = w /\ xudp'[num'[w]] = x'[w]
      BY <2>1, <3>4
    <3> QED
      BY <3>5, <3>6
  <2> QED
    BY <2>4, <2>5, <2>7, <2>8, Zenon
<1>13. ASSUME NEW w \in Workers, NewAdd(w) PROVE FlowInv'
  <2>1. mux[x[w]] \in N /\ xudp[mux[x[w]]] # 0
    BY <1>13 DEF NewAdd, N
  <2>2. /\ sessions' = [sessions EXCEPT ![w] = sessions[w] \cup {mux[x[w]]}]
        /\ serves' = [serves EXCEPT ![num[w]] = mux[x[w]]] /\ pc' = [pc EXCEPT ![w] = "idle"]
        /\ UNCHANGED <<xstatus, mux, owner, xudp, sclosed, x, num, closing>>
    BY <1>13, Zenon DEF NewAdd, Goto, mapVars, closeVars
  <2> QED
    BY <2>1, <2>2
<1>14. ASSUME Expire PROVE FlowInv'
  BY <1>14 DEF Expire, sessionVars, handleVars, runVars, closeVars
<1>15. CASE UNCHANGED flowVars
  BY <1>15 DEF flowVars
<1> HIDE DEF FlowTypeOK, FlowInv
<1> QED
  BY <1>1, <1>4, <1>5, <1>6, <1>7, <1>8, <1>9, <1>10, <1>11, <1>12, <1>13, <1>14, <1>15, FlowIdle, Zenon
  DEF XudpNext, RunStep, MonitorStep, HandleStep


\* No session that another New has put in its place has been added yet, if none has
\* after the step.
LEMMA OvertakenStays ==
  ASSUME FlowTypeOK, TakeoverInv, FlowInv, [XudpNext]_xudpVars, ~Overtaken'
  PROVE  ~Overtaken /\ \A w \in Workers : NewAdd(w) => mux[x[w]] = num[w]
<1>1. ASSUME NEW w \in Workers, NewAdd(w) PROVE ~Overtaken /\ mux[x[w]] = num[w]
  <2>1. /\ num[w] \in N /\ serves[num[w]] = 0 /\ mux[x[w]] # 0
        /\ serves' = [serves EXCEPT ![num[w]] = mux[x[w]]]
    BY <1>1 DEF NewAdd, TakeoverInv, FlowInv, FlowTypeOK, N
  <2> QED
    BY <2>1, Zenon DEF FlowTypeOK, Overtaken
<1>2. CASE UNCHANGED serves
  BY <1>1, <1>2, Zenon DEF Overtaken
<1>3. ASSUME NEW w \in Workers, New(w) \/ (RunStep(w) /\ ~NewAdd(w)) PROVE UNCHANGED serves
  BY <1>3, Zenon
  DEF RunStep, New, NewDetach, NewDetached, NewDetachEnds, NewWrite, NewDispatch, NewDispatchFails, NewAttach,
      NewAddFails, NewAddFailed, handleVars
<1>4. ASSUME NEW w \in Workers, MonitorStep(w) \/ WorkerDone(w) \/ MonitorIdle(w) \/ \E s \in N : EndFrame(w, s)
      PROVE  UNCHANGED serves
  BY <1>4, Zenon
  DEF MonitorStep, MonitorCloses, MonitorIdle, MonitorIdleDone, MonitorClosesSession, WorkerDone, EndFrame, handleVars
<1>5. ASSUME NEW s \in N, HandleRead(s) \/ HandleStep(s) \/ LinkEnds(s) PROVE UNCHANGED serves
  BY <1>5, Zenon DEF HandleStep, HandleRead, HandleWrite, HandleError, HandleCut, HandleClose, LinkEnds, handleVars
<1>6. ASSUME Expire \/ UNCHANGED xudpVars \/ \E t \in Threads : ClosedStep(t) PROVE UNCHANGED serves
  BY <1>6, Zenon DEF ClosedStep, Closed, Expire, xudpVars, handleVars
<1> QED
  BY <1>1, <1>2, <1>3, <1>4, <1>5, <1>6, Zenon DEF XudpNext

\* Another worker's lock stays.
LEMMA LockElsewhere ==
  ASSUME FlowTypeOK, NEW a, NEW b, NEW v, NEW u \in Threads, lock' = [lock EXCEPT ![a] = v], lock[b] = u, a # b
  PROVE  lock'[b] = u
BY DEF FlowTypeOK

\* A close goes on under its lock while its session and flow stay as they are.
LEMMA HeldStays ==
  ASSUME NEW t, NEW c, c = closing[t], Held(t), closing'[t] = c, xudp'[c] = xudp[c], mux'[xudp[c]] = mux[xudp[c]],
         sclosed'[c], owner'[c] = owner[c], lock'[owner[c]] = t
  PROVE  Held(t)'
<1>1. /\ xudp[c] # 0 /\ mux[xudp[c]] = c
      /\ LockOf(t, c) = owner[c] /\ lock[owner[c]] = t
  BY Zenon DEF Held
<1>2. xudp'[closing'[t]] = xudp[c] /\ owner'[closing'[t]] = owner[c] /\ sclosed'[closing'[t]]
  BY Zenon
<1>3. LockOf(t, closing[t])' = owner'[closing'[t]]
  BY <1>1, <1>2, Zenon DEF LockOf
<1>4. xudp'[closing'[t]] # 0 /\ mux'[xudp'[closing'[t]]] = closing'[t] /\ lock'[owner'[closing'[t]]] = t
  BY <1>1, <1>2, Zenon
<1> QED
  BY <1>2, <1>3, <1>4, Zenon DEF Held

\* The session of a flow that a New takes over, or has taken over, belongs to the flow.
LEMMA SessionOfNew ==
  ASSUME FlowTypeOK, TakeoverInv, FlowInv, NEW w \in Workers, pc[w] \in {"detach", "add"}
  PROVE  mux[x[w]] \in N /\ xudp[mux[x[w]]] # 0
<1>1. x[w] \in N
  <2>1. CASE pc[w] = "detach"
    <3>1. x[w] \in 1..news
      BY <2>1, Zenon DEF TakeoverInv, Working
    <3> QED
      BY <3>1 DEF FlowTypeOK, N
  <2>2. CASE pc[w] = "add"
    BY <2>2, Zenon DEF FlowInv
  <2> QED
    BY <2>1, <2>2, Zenon
<1>2. mux[x[w]] # 0
  BY Zenon DEF FlowInv
<1>3. mux[x[w]] \in N /\ xudp[mux[x[w]]] = x[w]
  BY <1>1, <1>2 DEF FlowInv, FlowTypeOK
<1>4. x[w] # 0
  BY <1>1 DEF N
<1> QED
  BY <1>3, <1>4, Zenon

\* OwnerInv stays when no close begins or ends and no session is added.
LEMMA OwnerStays ==
  ASSUME OwnerInv, UNCHANGED <<mux, owner, xudp, sclosed, closing, lock>>,
         \A w \in Workers : \A s \in sessions'[w] : owner[s] = w,
         \A w \in Workers : pc'[w] \in {"write", "dispatch", "attach"} =>
           \A t \in Threads : closing[t] # 0 => closing[t] # mux[x'[w]],
         \A i \in N : xstatus'[i] = "expiring" => xstatus[i] = "expiring"
  PROVE  OwnerInv'
<1>1. ASSUME NEW t \in Threads, closing'[t] # 0 PROVE Held(t)'
  <2>1. Held(t)
    BY <1>1, Zenon DEF OwnerInv
  <2>2. sclosed[closing[t]] /\ lock[owner[closing[t]]] = t
    BY <2>1, Zenon DEF Held
  <2> QED
    BY <2>1, <2>2, HeldStays, Zenon
<1>2. \A w \in Workers : \A s \in sessions'[w] : owner'[s] = w
  BY Zenon
<1>3. \A w \in Workers : pc'[w] \in {"write", "dispatch", "attach"} =>
        \A t \in Threads : closing'[t] # 0 => closing'[t] # mux'[x'[w]]
  BY Zenon
<1>4. \A i \in N : xstatus'[i] = "expiring" => sclosed'[mux'[i]]
  BY Zenon DEF OwnerInv
<1> QED
  BY <1>1, <1>2, <1>3, <1>4, Zenon DEF OwnerInv

\* Session.Close begins under the lock of the owner.
LEMMA CloseBeginsOwner ==
  ASSUME FlowTypeOK, TakeoverInv, FlowInv, OwnerInv, NEW t \in Threads, NEW s \in N, xudp[s] # 0,
         LockOf(t, s) = owner[s], CloseBegins(t, s), UNCHANGED <<mux, xstatus, x>>,
         \A w \in Workers : pc'[w] \in {"write", "dispatch", "attach"} => pc'[w] = pc[w]
  PROVE  OwnerInv'
<1>1. /\ closing[t] = 0 /\ lock[owner[s]] = NONE /\ ~sclosed[s]
      /\ closing' = [closing EXCEPT ![t] = s] /\ lock' = [lock EXCEPT ![owner[s]] = t]
      /\ UNCHANGED <<owner, xudp, sessions>>
  BY Zenon DEF CloseBegins
<1>2. sclosed'[s] /\ \A r \in N : sclosed[r] => sclosed'[r]
  BY Zenon DEF CloseBegins, FlowTypeOK
<1>3. owner[s] \in Workers /\ mux[xudp[s]] = s
  BY <1>1, Zenon DEF FlowInv
<1>4. \A w \in Workers : \A r \in sessions'[w] : owner'[r] = w
  BY <1>1, Zenon DEF OwnerInv
<1>5. ASSUME NEW u \in Threads, closing'[u] # 0 PROVE Held(u)'
  <2>1. CASE u = t
    <3>1. closing'[u] = s
      BY <1>1, <2>1, Zenon DEF FlowTypeOK
    <3>2. LockOf(u, closing[u])' = owner'[s]
      BY <1>1, <2>1, <3>1, Zenon DEF LockOf
    <3>3. lock'[owner[s]] = t
      BY <1>1, <1>3, Zenon DEF FlowTypeOK
    <3> QED
      BY <1>1, <1>2, <1>3, <2>1, <3>1, <3>2, <3>3, Zenon DEF Held
  <2>2. CASE u # t
    <3>1. closing'[u] = closing[u] /\ closing[u] \in N
      BY <1>1, <1>5, <2>2, Zenon DEF FlowTypeOK
    <3>2. Held(u)
      BY <3>1, <1>5, Zenon DEF OwnerInv
    <3>3. lock[owner[closing[u]]] = u /\ sclosed'[closing[u]]
      BY <1>2, <3>1, <3>2, Zenon DEF Held
    <3>4. owner[closing[u]] # owner[s]
      BY <1>1, <3>3, ThreadFacts, Zenon
    <3>5. owner[closing[u]] \in Workers
      BY <3>1, <3>2, Zenon DEF Held, FlowInv
    <3>6. lock'[owner[closing[u]]] = u
      BY <1>1, <3>3, <3>4, <3>5, Zenon DEF FlowTypeOK
    <3> QED
      BY <1>1, <3>1, <3>2, <3>3, <3>6, HeldStays, Zenon
  <2> QED
    BY <2>1, <2>2, Zenon
<1>6. ASSUME NEW w \in Workers, pc'[w] \in {"write", "dispatch", "attach"}, NEW u \in Threads, closing'[u] # 0
      PROVE  closing'[u] # mux'[x'[w]]
  <2>1. pc[w] \in {"write", "dispatch", "attach"} /\ UNCHANGED <<mux, x>>
    BY <1>6, Zenon
  <2>2. CASE u = t
    <3>1. closing'[u] = s
      BY <1>1, <2>2, Zenon DEF FlowTypeOK
    <3>2. mux[x[w]] = 0 \/ sclosed[mux[x[w]]]
      BY <2>1, Zenon DEF FlowInv
    <3>3. s # 0
      BY DEF N
    <3> QED
      BY <1>1, <2>1, <3>1, <3>2, <3>3, Zenon
  <2>3. CASE u # t
    <3>1. closing'[u] = closing[u]
      BY <1>1, <2>3, Zenon DEF FlowTypeOK
    <3>2. closing[u] # mux[x[w]]
      BY <1>6, <2>1, <3>1, Zenon DEF OwnerInv
    <3> QED
      BY <2>1, <3>1, <3>2
  <2> QED
    BY <2>2, <2>3, Zenon
<1>7. ASSUME NEW i \in N, xstatus'[i] = "expiring" PROVE sclosed'[mux'[i]]
  <2>1. sclosed[mux[i]]
    BY <1>7, Zenon DEF OwnerInv
  <2>2. mux[i] \in N
    <3>1. mux[i] # 0
      BY <1>7, Zenon DEF FlowInv
    <3> QED
      BY <3>1, Zenon DEF FlowTypeOK
  <2> QED
    BY <1>2, <2>1, <2>2, Zenon
<1> QED
  BY <1>4, <1>5, <1>6, <1>7, Zenon DEF OwnerInv

\* Session.Close ends: the flow is to expire, and the lock is free again.
LEMMA CloseEndsOwner ==
  ASSUME FlowTypeOK, TakeoverInv, FlowInv, OwnerInv, NEW t \in Threads, CloseEnds(t),
         UNCHANGED <<owner, xudp, mux, sclosed, x>>,
         \A w \in Workers : pc'[w] \in {"write", "dispatch", "attach"} => pc'[w] = pc[w] \/ mux[x[w]] = closing[t]
  PROVE  OwnerInv'
<1> DEFINE s == closing[t]
<1>1. s \in N /\ xudp[s] # 0 /\ mux[xudp[s]] = s /\ sclosed[s] /\ LockOf(t, s) = owner[s] /\ lock[owner[s]] = t
  <2>1. s # 0 /\ s \in N
    BY DEF CloseEnds, FlowTypeOK
  <2> QED
    BY <2>1, Zenon DEF OwnerInv, Held
<1>2. /\ closing' = [closing EXCEPT ![t] = 0] /\ lock' = [lock EXCEPT ![owner[s]] = NONE]
      /\ \A w \in Workers : sessions'[w] \subseteq sessions[w]
  BY <1>1 DEF CloseEnds, FlowTypeOK
<1>3. \A i \in N : xstatus'[i] = "expiring" => xstatus[i] = "expiring" \/ i = xudp[s]
  BY Zenon DEF CloseEnds, FlowTypeOK
<1>4. \A w \in Workers : \A r \in sessions'[w] : owner'[r] = w
  BY <1>2, Zenon DEF OwnerInv
<1>5. ASSUME NEW u \in Threads, closing'[u] # 0
      PROVE  closing'[u] = closing[u] /\ closing[u] # s /\ Held(u)'
  <2>1. u # t /\ closing'[u] = closing[u] /\ closing[u] # 0
    BY <1>2, <1>5, Zenon DEF FlowTypeOK
  <2>2. Held(u)
    BY <2>1, Zenon DEF OwnerInv
  <2>3. lock[owner[closing[u]]] = u /\ sclosed[closing[u]]
    BY <2>2, Zenon DEF Held
  <2>4. closing[u] # s /\ owner[closing[u]] # owner[s]
    BY <1>1, <2>1, <2>3, Zenon
  <2>5. lock'[owner[closing[u]]] = u
    BY <1>2, <2>3, <2>4, LockElsewhere, Zenon
  <2> QED
    BY <2>1, <2>2, <2>3, <2>4, <2>5, HeldStays, Zenon
<1>6. ASSUME NEW w \in Workers, pc'[w] \in {"write", "dispatch", "attach"}, NEW u \in Threads, closing'[u] # 0
      PROVE  closing'[u] # mux'[x'[w]]
  <2>1. closing'[u] = closing[u] /\ closing[u] # s /\ closing[u] # 0
    BY <1>5, <1>6, Zenon
  <2>2. CASE mux[x[w]] = s
    BY <2>1, <2>2, Zenon
  <2>3. CASE pc[w] \in {"write", "dispatch", "attach"}
    BY <2>1, <2>3, Zenon DEF OwnerInv
  <2> QED
    BY <1>6, <2>2, <2>3, Zenon
<1>7. \A i \in N : xstatus'[i] = "expiring" => sclosed'[mux'[i]]
  BY <1>1, <1>3, Zenon DEF OwnerInv
<1> QED
  BY <1>4, <1>5, <1>6, <1>7, Zenon DEF OwnerInv


\* As long as no session has been added by another's New, it is listed by its own
\* worker, and a flow does not change hands while its session is being closed.
LEMMA OwnerInvStep ==
  ASSUME FlowTypeOK, TakeoverInv, FlowInv, HandleInv, OwnerInv, ~Overtaken, [XudpNext]_xudpVars,
         \A w \in Workers : NewAdd(w) => mux[x[w]] = num[w]
  PROVE  OwnerInv'
<1>1. ASSUME NEW w \in Workers, New(w) PROVE OwnerInv'
  <2>1. UNCHANGED <<mux, owner, xudp, sclosed, sessions, closing, lock>>
    BY <1>1, Zenon DEF New, sessionVars, closeVars
  <2>2. \A i \in N : xstatus'[i] = "expiring" => xstatus[i] = "expiring"
    BY <1>1, Zenon DEF New, FlowTypeOK
  <2>3. ASSUME NEW v \in Workers, pc'[v] \in {"write", "dispatch", "attach"}
        PROVE  \A t \in Threads : closing[t] # 0 => closing[t] # mux[x'[v]]
    <3>1. CASE v = w
      <4>1. x'[w] = news + 1 /\ news + 1 \in N
        BY <1>1, <2>3, <3>1, XudpAssumption DEF New, Goto, FlowTypeOK, N
      <4>2. mux[news + 1] = 0
        BY <4>1 DEF TakeoverInv, FlowTypeOK
      <4> QED
        BY <3>1, <4>1, <4>2, Zenon
    <3>2. CASE v # w
      <4>1. pc'[v] = pc[v] /\ x'[v] = x[v]
        BY <1>1, <3>2 DEF New, Goto, FlowTypeOK
      <4>2. \A t \in Threads : closing[t] # 0 => closing[t] # mux[x[v]]
        BY <2>3, <4>1, Zenon DEF OwnerInv
      <4> QED
        BY <4>1, <4>2, Zenon
    <3> QED
      BY <3>1, <3>2, Zenon
  <2>4. \A v \in Workers : \A s \in sessions'[v] : owner[s] = v
    BY <2>1, Zenon DEF OwnerInv
  <2> QED
    BY <2>1, <2>2, <2>3, <2>4, OwnerStays, Zenon
<1>2. ASSUME NEW w \in Workers, NewDetach(w) \/ NewAddFails(w) PROVE OwnerInv'
  <2> DEFINE s == mux[x[w]]
  <2>1. s \in N /\ xudp[s] # 0
    BY <1>2, SessionOfNew, Zenon DEF NewDetach, NewAddFails
  <2>2. CloseBegins(Run(w), s) /\ LockOf(Run(w), s) = owner[s] /\ Run(w) \in Threads
    BY <1>2, ThreadFacts, LockOfOwner, Zenon DEF NewDetach, NewAddFails
  <2>3. UNCHANGED <<mux, xstatus, x>> /\ \A v \in Workers : pc'[v] \in {"write", "dispatch", "attach"} => pc'[v] = pc[v]
    BY <1>2 DEF NewDetach, NewAddFails, Goto, mapVars, FlowTypeOK
  <2> QED
    BY <2>1, <2>2, <2>3, CloseBeginsOwner, Zenon
<1>3. ASSUME NEW h \in N, HandleClose(h) PROVE OwnerInv'
  <2>1. UNCHANGED <<mux, xstatus, x, pc>>
    BY <1>3, Zenon DEF HandleClose, mapVars, runVars
  <2>2. CASE CloseBegins(<<"handle", h>>, serves[h])
    <3>1. serves[h] \in N /\ xudp[serves[h]] # 0
      BY <1>3 DEF HandleClose, HandleInv, FlowTypeOK, FlowInv
    <3>2. <<"handle", h>> \in Threads /\ LockOf(<<"handle", h>>, serves[h]) = owner[serves[h]]
      BY ThreadFacts, LockOfOwner, Zenon
    <3> QED
      BY <2>1, <2>2, <3>1, <3>2, CloseBeginsOwner, Zenon
  <2>3. CASE UNCHANGED <<sessionVars, linkVars, closeVars>>
    <3>1. UNCHANGED <<mux, owner, xudp, sclosed, sessions, closing, lock, xstatus, x, pc>>
      BY <2>1, <2>3, Zenon DEF sessionVars, closeVars
    <3> QED
      BY <3>1, OwnerStays, Zenon DEF OwnerInv
  <2> QED
    BY <1>3, <2>2, <2>3, Zenon DEF HandleClose
<1>4. ASSUME NEW w \in Workers, NEW s \in N, EndFrame(w, s) \/ MonitorClosesSession(w, s) PROVE OwnerInv'
  <2>1. s \in sessions[w] /\ UNCHANGED <<mux, xstatus, x, pc>>
    BY <1>4, Zenon DEF EndFrame, MonitorClosesSession, mapVars, runVars
  <2>2. owner[s] = w /\ xudp[s] # 0
    <3>1. owner[s] = w
      BY <2>1, Zenon DEF OwnerInv
    <3>2. xudp[s] # 0
      BY <2>1, Zenon DEF FlowInv
    <3> QED
      BY <3>1, <3>2, Zenon
  <2>3. \E t \in Threads : CloseBegins(t, s) /\ LockOf(t, s) = owner[s]
    <3>1. CASE EndFrame(w, s)
      BY <3>1, ThreadFacts, LockOfOwner, Zenon DEF EndFrame
    <3>2. CASE MonitorClosesSession(w, s)
      BY <2>2, <3>2, ThreadFacts, LockOfOwner, Zenon DEF MonitorClosesSession
    <3> QED
      BY <1>4, <3>1, <3>2, Zenon
  <2> QED
    BY <2>1, <2>2, <2>3, CloseBeginsOwner, Zenon
<1>5. ASSUME NEW w \in Workers, NewDetachEnds(w) PROVE OwnerInv'
  <2>1. /\ CloseEnds(Run(w)) /\ UNCHANGED <<owner, xudp, mux, sclosed, x>> /\ mux[x[w]] = closing[Run(w)]
        /\ pc' = [pc EXCEPT ![w] = "write"]
    BY <1>5, Zenon DEF NewDetachEnds, Goto, FlowInv
  <2>2. \A v \in Workers : pc'[v] \in {"write", "dispatch", "attach"} => pc'[v] = pc[v] \/ mux[x[v]] = closing[Run(w)]
    BY <2>1, Zenon DEF FlowTypeOK
  <2> QED
    BY <2>1, <2>2, ThreadFacts, CloseEndsOwner, Zenon
<1>6. ASSUME NEW t \in Threads, ClosedStep(t) PROVE OwnerInv'
  BY <1>6, CloseEndsOwner, Zenon DEF ClosedStep, Closed, runVars
<1>7. ASSUME NEW w \in Workers, NewDetached(w) PROVE OwnerInv'
  <2> DEFINE s == mux[x[w]]
  <2>1. /\ s \in N /\ xudp[s] # 0
    BY <1>7, SessionOfNew, Zenon DEF NewDetached
  <2>2. lock[owner[s]] = NONE
    BY <1>7, LockOfOwner, Zenon DEF NewDetached, ClosePasses
  <2>3. ASSUME NEW t \in Threads, closing[t] # 0 PROVE closing[t] # s
    <3>1. lock[owner[closing[t]]] = t
      BY <2>3, Zenon DEF OwnerInv, Held
    <3> QED
      BY <2>2, <3>1, ThreadFacts, Zenon
  <2>4. /\ UNCHANGED <<xstatus, mux, owner, xudp, sclosed, sessions, x, closing, lock>>
        /\ pc' = [pc EXCEPT ![w] = "write"]
    BY <1>7, Zenon DEF NewDetached, Goto, mapVars, sessionVars, closeVars
  <2>5. ASSUME NEW v \in Workers, pc'[v] \in {"write", "dispatch", "attach"}
        PROVE  \A t \in Threads : closing[t] # 0 => closing[t] # mux[x[v]]
    <3>1. CASE v = w
      BY <2>3, <3>1, Zenon
    <3>2. CASE v # w
      <4>1. pc'[v] = pc[v]
        BY <2>4, <3>2, Zenon DEF FlowTypeOK
      <4> QED
        BY <2>5, <4>1, Zenon DEF OwnerInv
    <3> QED
      BY <3>1, <3>2, Zenon
  <2> QED
    BY <2>4, <2>5, OwnerStays, Zenon DEF OwnerInv
<1>8. ASSUME NEW w \in Workers, NewWrite(w) \/ NewDispatch(w) \/ NewDispatchFails(w) \/ NewAddFailed(w) PROVE OwnerInv'
  <2>1. UNCHANGED <<xstatus, mux, owner, xudp, sclosed, sessions, x, closing, lock>>
    BY <1>8, Zenon DEF NewWrite, NewDispatch, NewDispatchFails, NewAddFailed, mapVars, sessionVars, closeVars
  <2>2. \A v \in Workers : pc'[v] \in {"write", "dispatch", "attach"} => pc[v] \in {"write", "dispatch", "attach"}
    BY <1>8 DEF NewWrite, NewDispatch, NewDispatchFails, NewAddFailed, Goto, FlowTypeOK
  <2>3. ASSUME NEW v \in Workers, pc'[v] \in {"write", "dispatch", "attach"}
        PROVE  \A t \in Threads : closing[t] # 0 => closing[t] # mux[x[v]]
    BY <2>2, <2>3, Zenon DEF OwnerInv
  <2> QED
    BY <2>1, <2>3, OwnerStays, Zenon DEF OwnerInv
<1>9. ASSUME NEW w \in Workers, NewAttach(w) PROVE OwnerInv'
  <2> DEFINE X == x[w]
             n == num[w]
  <2>1. /\ X \in N /\ n \in N /\ xudp[n] = 0
        /\ \A t \in Threads : closing[t] # 0 => closing[t] # mux[X]
        /\ \A v \in Workers : v # w /\ Working(v) => x[v] # X
    <3>1. pc[w] = "attach"
      BY <1>9, Zenon DEF NewAttach
    <3>2. X \in N /\ n \in N /\ xudp[n] = 0
      BY <3>1 DEF TakeoverInv, Working, FlowTypeOK, N
    <3>3. \A t \in Threads : closing[t] # 0 => closing[t] # mux[X]
      BY <3>1, Zenon DEF OwnerInv
    <3>4. \A v \in Workers : v # w /\ Working(v) => x[v] # X
      BY <3>1, Zenon DEF TakeoverInv, OneTakeover, Working
    <3> QED
      BY <3>2, <3>3, <3>4, Zenon
  <2>2. /\ owner' = [owner EXCEPT ![n] = w] /\ xudp' = [xudp EXCEPT ![n] = X]
        /\ mux' = [mux EXCEPT ![X] = n] /\ xstatus' = [xstatus EXCEPT ![X] = "active"]
        /\ pc' = [pc EXCEPT ![w] = "add"]
        /\ UNCHANGED <<sclosed, sessions, x, closing, lock>>
    BY <1>9, Zenon DEF NewAttach, Goto, closeVars
  <2>3. \A r \in N : xudp[r] # 0 => xudp'[r] = xudp[r] /\ owner'[r] = owner[r]
    BY <2>1, <2>2, Zenon DEF FlowTypeOK
  <2>4. \A v \in Workers : \A r \in sessions'[v] : owner'[r] = v
    <3>1. ASSUME NEW v \in Workers, NEW r \in sessions[v] PROVE r \in N /\ xudp[r] # 0 /\ owner[r] = v
      <4>1. r \in N
        BY Zenon DEF FlowTypeOK
      <4>2. xudp[r] # 0
        BY Zenon DEF FlowInv
      <4>3. owner[r] = v
        BY Zenon DEF OwnerInv
      <4> QED
        BY <4>1, <4>2, <4>3, Zenon
    <3> QED
      BY <2>2, <2>3, <3>1, Zenon
  <2>5. ASSUME NEW t \in Threads, closing'[t] # 0 PROVE Held(t)'
    <3> DEFINE c == closing[t]
    <3>1. closing'[t] = c /\ c # 0 /\ Held(t)
      BY <2>2, <2>5, Zenon DEF OwnerInv
    <3>2. c \in N
      BY <3>1 DEF FlowTypeOK
    <3>3. xudp[c] # 0 /\ mux[xudp[c]] = c /\ sclosed[c] /\ lock[owner[c]] = t
      BY <3>1, Zenon DEF Held
    <3>4. xudp'[c] = xudp[c] /\ owner'[c] = owner[c] /\ sclosed'[c] /\ lock'[owner[c]] = t
      BY <2>2, <2>3, <3>2, <3>3, Zenon
    <3>5. xudp[c] # X
      BY <2>1, <3>1, <3>3, Zenon
    <3>6. xudp[c] \in N
      BY <3>2, <3>3 DEF FlowTypeOK
    <3>7. mux'[xudp[c]] = mux[xudp[c]]
      BY <2>2, <3>5, <3>6, Zenon DEF FlowTypeOK
    <3> QED
      BY <3>1, <3>4, <3>7, HeldStays, Zenon
  <2>6. ASSUME NEW v \in Workers, pc'[v] \in {"write", "dispatch", "attach"}, NEW t \in Threads, closing'[t] # 0
        PROVE  closing'[t] # mux'[x'[v]]
    <3>1. v # w /\ pc[v] = pc'[v] /\ Working(v)
      BY <2>2, <2>6, Zenon DEF FlowTypeOK, Working
    <3>2. mux'[x'[v]] = mux[x[v]]
      BY <2>1, <2>2, <3>1 DEF FlowTypeOK
    <3>3. closing[t] # 0 /\ closing'[t] = closing[t] /\ pc[v] \in {"write", "dispatch", "attach"}
      BY <2>2, <2>6, <3>1, Zenon
    <3>4. closing[t] # mux[x[v]]
      BY <3>3, Zenon DEF OwnerInv
    <3> QED
      BY <3>2, <3>3, <3>4, Zenon
  <2>7. \A i \in N : xstatus'[i] = "expiring" => sclosed'[mux'[i]]
    BY <2>1, <2>2, Zenon DEF OwnerInv, FlowTypeOK
  <2> QED
    BY <2>4, <2>5, <2>6, <2>7, Zenon DEF OwnerInv
<1>10. ASSUME NEW w \in Workers, NewAdd(w) PROVE OwnerInv'
  <2>1. mux[x[w]] = num[w] /\ owner[num[w]] = w
    BY <1>10, Zenon DEF NewAdd, FlowInv
  <2>2. /\ sessions' = [sessions EXCEPT ![w] = sessions[w] \cup {mux[x[w]]}] /\ pc' = [pc EXCEPT ![w] = "idle"]
        /\ UNCHANGED <<xstatus, mux, owner, xudp, sclosed, x, closing, lock>>
    BY <1>10, Zenon DEF NewAdd, Goto, mapVars, closeVars
  <2>3. \A v \in Workers : \A s \in sessions'[v] : owner[s] = v
    BY <2>1, <2>2 DEF OwnerInv, FlowTypeOK
  <2>4. ASSUME NEW v \in Workers, pc'[v] \in {"write", "dispatch", "attach"}
        PROVE  \A t \in Threads : closing[t] # 0 => closing[t] # mux[x[v]]
    <3>1. pc'[v] = pc[v]
      BY <2>2, <2>4, Zenon DEF FlowTypeOK
    <3> QED
      BY <2>4, <3>1, Zenon DEF OwnerInv
  <2> QED
    BY <2>2, <2>3, <2>4, OwnerStays, Zenon DEF OwnerInv
<1>11. CASE UNCHANGED <<xstatus, mux, owner, xudp, sclosed, sessions, pc, x, closing, lock>>
  BY <1>11, OwnerStays, Zenon DEF OwnerInv
<1>12. CASE UNCHANGED flowVars
  BY <1>11, <1>12, Zenon DEF flowVars
<1>13. CASE Expire
  BY <1>11, <1>13, Zenon DEF Expire, sessionVars, runVars, closeVars
<1> QED
  BY <1>1, <1>2, <1>3, <1>4, <1>5, <1>6, <1>7, <1>8, <1>9, <1>10, <1>12, <1>13, FlowIdle, Zenon
  DEF XudpNext, RunStep, MonitorStep, HandleStep

\* A flow of XUDP is in the hands of one New at a time, and is removed only when the
\* session that used it last has been closed, for any number of connections and of
\* New frames (unless a New has been overtaken between Status and its reads of Mux).
THEOREM OneOwner == XudpSpec => []FlowsHaveOneOwner
<1>1. XudpInit => XudpInv
  <2> SUFFICES ASSUME XudpInit PROVE XudpInv
    BY Zenon
  <2>1. sclosed \in [N -> BOOLEAN]
    BY Zenon DEF XudpInit
  <2>2. FlowTypeOK
    BY <2>1, XudpAssumption DEF XudpInit, FlowTypeOK, Labels
  <2>3. TakeoverInv
    BY DEF XudpInit, TakeoverInv, OneTakeover, Working
  <2>4. FlowInv /\ HandleInv
    BY Zenon DEF XudpInit, FlowInv, HandleInv
  <2>5. OwnerInv
    BY DEF XudpInit, OwnerInv
  <2> QED
    BY <2>2, <2>3, <2>4, <2>5, Zenon DEF XudpInv
<1>2. XudpInv /\ [XudpNext]_xudpVars => XudpInv'
  BY FlowTypeOKStep, TakeoverInvStep, FlowInvStep, HandleInvStep, OvertakenStays, OwnerInvStep, Zenon DEF XudpInv
<1>3. XudpInv => FlowsHaveOneOwner
  BY Zenon DEF XudpInv, TakeoverInv, FlowTypeOK, OwnerInv, FlowsHaveOneOwner, ExpiringIsUnused, DetachedForGood
<1> QED
  BY <1>1, <1>2, <1>3, PTL DEF XudpSpec

=============================================================================
