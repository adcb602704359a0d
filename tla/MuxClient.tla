----------------------------- MODULE MuxClient -----------------------------
(***************************************************************************)
(* common/mux, client side: ClientManager.Dispatch with its incremental    *)
(* worker picker, the client workers with their monitors, and the session  *)
(* manager of each worker.                                                 *)
(*                                                                         *)
(* Each dispatcher dispatches one link, and stands for the session that is *)
(* allocated for it.  A region under a lock is one step; so is IsFull,     *)
(* whose answer Allocate does not rely on.  What goes over the connection  *)
(* is in module MuxLink.                                                   *)
(***************************************************************************)
EXTENDS Naturals, Sequences, FiniteSets

CONSTANTS
  Dispatchers,
  Workers,          \* bound: workers that can be created
  MaxConcurrency,   \* ClientStrategy; 0: no limit
  MaxConnection,
  MaxTries,         \* tries of ClientManager.Dispatch, 16 in the code
  NONE

\* The count of sessions, which is compared with MaxConnection, is a uint16.
ASSUME StrategyAssumption ==
  MaxConcurrency \in Nat /\ MaxConnection \in Nat /\ MaxConnection < 65536

VARIABLES
  workers,    \* IncrementalWorkerPicker.workers
  created,    \* workers made so far
  sessions,   \* SessionManager.sessions of each worker
  count,      \* SessionManager.count
  smClosed,   \* SessionManager.closed
  done,       \* ClientWorker.done
  mpc,        \* where the monitor of each worker is
  check,      \* its checkSize and checkCount
  dpc,        \* where each dispatcher is
  worker,     \* the worker it was given
  tries,
  bound,      \* have input and output of the session been set?
  sclosed,    \* Session.closed, and Session.done
  released,   \* have the input and output of the link been shut by Close?
  fetch       \* fetchInput of the session: "none", "run", "end"

workerVars == <<workers, created>>
managerVars == <<sessions, count, smClosed>>
monitorVars == <<mpc, check>>
dispatchVars == <<dpc, worker, tries>>
sessionVars == <<bound, sclosed, released, fetch>>
vars == <<workerVars, managerVars, done, monitorVars, dispatchVars, sessionVars>>

Init ==
  /\ workers = <<>>
  /\ created = {}
  /\ sessions = [w \in Workers |-> {}]
  /\ count = [w \in Workers |-> 0]
  /\ smClosed = [w \in Workers |-> FALSE]
  /\ done = [w \in Workers |-> FALSE]
  /\ mpc = [w \in Workers |-> "size"]
  /\ check = [w \in Workers |-> [size |-> 0, count |-> 0]]
  /\ dpc = [d \in Dispatchers |-> "idle"]
  /\ worker = [d \in Dispatchers |-> NONE]
  /\ tries = [d \in Dispatchers |-> 0]
  /\ bound = [d \in Dispatchers |-> FALSE]
  /\ sclosed = [d \in Dispatchers |-> FALSE]
  /\ released = [d \in Dispatchers |-> FALSE]
  /\ fetch = [d \in Dispatchers |-> "none"]

Full(w) ==
  \/ MaxConcurrency > 0 /\ Cardinality(sessions[w]) >= MaxConcurrency
  \/ MaxConnection > 0 /\ count[w] >= MaxConnection
IsFull(w) == done[w] \/ Full(w)

NotDone(w) == ~done[w]

-----------------------------------------------------------------------------
(* IncrementalWorkerPicker and ClientManager.Dispatch *)

\* Mutant: the picker does not put the worker it has found at the end.
SwappedNot(ws, i) == [ws EXCEPT ![i] = ws[Len(ws)]]

\* The worker found and the last one change places.
Swapped(ws, i) == [ws EXCEPT ![i] = ws[Len(ws)], ![Len(ws)] = ws[i]]

Dispatch(d) ==
  /\ dpc[d] = "idle"
  /\ dpc' = [dpc EXCEPT ![d] = "pick"]
  /\ UNCHANGED <<workerVars, managerVars, done, monitorVars, worker, tries, sessionVars>>

\* pickInternal: the first worker that is not full.  It is the one at its place
\* after the exchange that is returned.
PickFound(d, w) ==
  /\ dpc[d] = "pick"
  /\ \E i \in 1..Len(workers) :
       /\ ~IsFull(workers[i]) /\ \A j \in 1..(i - 1) : IsFull(workers[j])
       /\ workers' = Swapped(workers, i)
       /\ w = workers'[i]
  /\ worker' = [worker EXCEPT ![d] = w]
  /\ dpc' = [dpc EXCEPT ![d] = "ask"]
  /\ UNCHANGED <<created, managerVars, done, monitorVars, tries, sessionVars>>

\* pickInternal: all are full; cleanup, and create one.
PickCreate(d, w) ==
  /\ dpc[d] = "pick"
  /\ \A i \in 1..Len(workers) : IsFull(workers[i])
  /\ w \notin created
  /\ created' = created \cup {w}
  /\ workers' = Append(SelectSeq(workers, NotDone), w)
  /\ worker' = [worker EXCEPT ![d] = w]
  /\ dpc' = [dpc EXCEPT ![d] = "ask"]
  /\ UNCHANGED <<managerVars, done, monitorVars, tries, sessionVars>>

\* pickInternal: the factory cannot create one, and Dispatch returns the error.
PickFails(d) ==
  /\ dpc[d] = "pick"
  /\ \A i \in 1..Len(workers) : IsFull(workers[i])
  /\ workers' = SelectSeq(workers, NotDone)
  /\ dpc' = [dpc EXCEPT ![d] = "error"]
  /\ UNCHANGED <<created, managerVars, done, monitorVars, worker, tries, sessionVars>>

\* cleanupFunc, from time to time; with no worker left it reports an error.
Cleanup ==
  /\ workers # <<>>
  /\ workers' = SelectSeq(workers, NotDone)
  /\ UNCHANGED <<created, managerVars, done, monitorVars, dispatchVars, sessionVars>>

Retry(d) ==
  /\ tries' = [tries EXCEPT ![d] = @ + 1]
  /\ dpc' = [dpc EXCEPT ![d] = IF tries[d] + 1 < MaxTries THEN "pick" ELSE "gaveUp"]

\* ClientWorker.Dispatch asks IsFull once more ...
DispatchAsk(d) ==
  /\ dpc[d] = "ask"
  /\ IF IsFull(worker[d])
       THEN Retry(d)
       ELSE dpc' = [dpc EXCEPT ![d] = "allocate"] /\ UNCHANGED tries
  /\ UNCHANGED <<workerVars, managerVars, done, monitorVars, worker, sessionVars>>

\* Mutant: Allocate relies on IsFull.
AllocateUnchecked(d) ==
  LET w == worker[d] IN
  /\ dpc[d] = "allocate"
  /\ ~smClosed[w]
  /\ count' = [count EXCEPT ![w] = @ + 1]
  /\ sessions' = [sessions EXCEPT ![w] = @ \cup {d}]
  /\ dpc' = [dpc EXCEPT ![d] = "bind"]
  /\ UNCHANGED <<workerVars, smClosed, done, monitorVars, worker, tries, sessionVars>>

\* ... and SessionManager.Allocate decides.
Allocate(d) ==
  LET w == worker[d] IN
  /\ dpc[d] = "allocate"
  /\ IF smClosed[w] \/ Full(w)
       THEN Retry(d) /\ UNCHANGED <<sessions, count>>
       ELSE /\ count' = [count EXCEPT ![w] = @ + 1]
            /\ sessions' = [sessions EXCEPT ![w] = @ \cup {d}]
            /\ dpc' = [dpc EXCEPT ![d] = "bind"]
            /\ UNCHANGED tries
  /\ UNCHANGED <<workerVars, smClosed, done, monitorVars, worker, sessionVars>>

\* Input and output are set after the session has been entered; a link whose
\* reader is not a pipe keeps the dispatcher waiting for the session.
DispatchBind(d, waits) ==
  /\ dpc[d] = "bind"
  /\ bound' = [bound EXCEPT ![d] = TRUE]
  /\ fetch' = [fetch EXCEPT ![d] = "run"]
  /\ dpc' = [dpc EXCEPT ![d] = IF waits THEN "wait" ELSE "returned"]
  /\ UNCHANGED <<workerVars, managerVars, done, monitorVars, worker, tries, sclosed, released>>

\* Mutant: the dispatcher waits until the link has been shut.
DispatchWaitedLink(d) ==
  /\ dpc[d] = "wait"
  /\ released[d]
  /\ dpc' = [dpc EXCEPT ![d] = "returned"]
  /\ UNCHANGED <<workerVars, managerVars, done, monitorVars, worker, tries, sessionVars>>

\* The session is done, or the context is.
DispatchWaited(d) ==
  /\ dpc[d] = "wait"
  /\ sclosed[d]
  /\ dpc' = [dpc EXCEPT ![d] = "returned"]
  /\ UNCHANGED <<workerVars, managerVars, done, monitorVars, worker, tries, sessionVars>>

DispatchCancelled(d) ==
  /\ dpc[d] = "wait"
  /\ dpc' = [dpc EXCEPT ![d] = "returned"]
  /\ UNCHANGED <<workerVars, managerVars, done, monitorVars, worker, tries, sessionVars>>

-----------------------------------------------------------------------------
(* Sessions *)

\* Mutant: Close does not take the session out of its manager.
SessionCloseKeeps(d) ==
  /\ sclosed' = [sclosed EXCEPT ![d] = TRUE]
  /\ released' = [released EXCEPT ![d] = @ \/ (~sclosed[d] /\ bound[d])]
  /\ sessions' = sessions

\* Session.Close of a session without XUDP, under the manager's lock.
SessionClose(d) ==
  /\ sclosed' = [sclosed EXCEPT ![d] = TRUE]
  /\ released' = [released EXCEPT ![d] = @ \/ (~sclosed[d] /\ bound[d])]
  /\ sessions' = IF sclosed[d] \/ smClosed[worker[d]] THEN sessions
                 ELSE [sessions EXCEPT ![worker[d]] = @ \ {d}]

\* fetchInput ends: the input is at its end or broken, or the connection is.
FetchInputEnds(d) ==
  /\ fetch[d] = "run"
  /\ fetch' = [fetch EXCEPT ![d] = "end"]
  /\ SessionClose(d)
  /\ UNCHANGED <<workerVars, count, smClosed, done, monitorVars, dispatchVars, bound>>

\* fetchOutput gets an End frame for the session, or cannot write to its output.
FetchOutputCloses(d) ==
  /\ fetch[d] # "none"
  /\ d \in sessions[worker[d]]
  /\ SessionClose(d)
  /\ UNCHANGED <<workerVars, count, smClosed, done, monitorVars, dispatchVars, bound, fetch>>

-----------------------------------------------------------------------------
(* The worker *)

\* The connection ends: fetchOutput or the outbound's Process returns.
ConnectionEnds(w) ==
  /\ w \in created
  /\ ~done[w]
  /\ done' = [done EXCEPT ![w] = TRUE]
  /\ UNCHANGED <<workerVars, managerVars, monitorVars, dispatchVars, sessionVars>>

MonitorSize(w) ==
  /\ w \in created /\ mpc[w] = "size"
  /\ check' = [check EXCEPT ![w].size = Cardinality(sessions[w])]
  /\ mpc' = [mpc EXCEPT ![w] = "count"]
  /\ UNCHANGED <<workerVars, managerVars, done, dispatchVars, sessionVars>>

MonitorCount(w) ==
  /\ mpc[w] = "count"
  /\ check' = [check EXCEPT ![w].count = count[w]]
  /\ mpc' = [mpc EXCEPT ![w] = "select"]
  /\ UNCHANGED <<workerVars, managerVars, done, dispatchVars, sessionVars>>

CloseIfIdle(w) ==
  /\ sessions[w] = {}
  /\ check[w] = [size |-> 0, count |-> count[w]]

\* The ticker ticks: CloseIfNoSessionAndIdle, and done if it says so.
MonitorTick(w) ==
  /\ mpc[w] = "select"
  /\ mpc' = [mpc EXCEPT ![w] = "size"]
  /\ IF smClosed[w] \/ CloseIfIdle(w)
       THEN /\ smClosed' = [smClosed EXCEPT ![w] = TRUE]
            /\ sessions' = [sessions EXCEPT ![w] = {}]
            /\ done' = [done EXCEPT ![w] = TRUE]
       ELSE UNCHANGED <<sessions, smClosed, done>>
  /\ UNCHANGED <<workerVars, count, check, dispatchVars, sessionVars>>

\* SessionManager.Close closes what is open.
CloseManager(w) ==
  LET S == IF smClosed[w] THEN {} ELSE sessions[w] IN
  /\ sclosed' = [d \in Dispatchers |-> sclosed[d] \/ d \in S]
  /\ released' = [d \in Dispatchers |-> released[d] \/ (d \in S /\ ~sclosed[d] /\ bound[d])]

\* done: the manager is closed and the connection interrupted.
MonitorDone(w) ==
  /\ mpc[w] = "select"
  /\ done[w]
  /\ mpc' = [mpc EXCEPT ![w] = "end"]
  /\ CloseManager(w)
  /\ smClosed' = [smClosed EXCEPT ![w] = TRUE]
  /\ sessions' = [sessions EXCEPT ![w] = {}]
  /\ UNCHANGED <<workerVars, count, done, check, dispatchVars, bound, fetch>>
-----------------------------------------------------------------------------

DispatchStep(d) ==
  \/ PickFails(d) \/ \E w \in Workers : PickFound(d, w) \/ PickCreate(d, w)
  \/ DispatchAsk(d) \/ Allocate(d)
  \/ \E waits \in BOOLEAN : DispatchBind(d, waits)

Next ==
  \/ \E d \in Dispatchers :
       \/ Dispatch(d) \/ DispatchStep(d) \/ DispatchWaited(d) \/ DispatchCancelled(d)
       \/ FetchInputEnds(d) \/ FetchOutputCloses(d)
  \/ Cleanup
  \/ \E w \in Workers :
       \/ ConnectionEnds(w) \/ MonitorSize(w) \/ MonitorCount(w)
       \/ MonitorTick(w) \/ MonitorDone(w)

Spec == Init /\ [][Next]_vars

\* Goroutines run on and tickers tick.  A fetchInput whose connection has been
\* interrupted, or whose session has been closed, ends; a context, a remote
\* peer and a connection may go on for ever.
FairSpec ==
  /\ Spec
  /\ \A d \in Dispatchers :
       /\ WF_vars(DispatchStep(d))
       /\ WF_vars(DispatchWaited(d))
       /\ WF_vars((sclosed[d] \/ \E w \in Workers : worker[d] = w /\ mpc[w] = "end") /\ FetchInputEnds(d))
  /\ \A w \in Workers :
       /\ WF_vars(MonitorSize(w)) /\ WF_vars(MonitorCount(w))
       /\ WF_vars(MonitorTick(w)) /\ SF_vars(MonitorDone(w))

-----------------------------------------------------------------------------
(* Properties *)

\* No worker carries more sessions at a time, or more in its life, than the
\* strategy allows, although several dispatchers ask IsFull and then allocate
\* (SessionManager.Allocate).
WithinStrategy ==
  \A w \in Workers :
    /\ MaxConcurrency > 0 => Cardinality(sessions[w]) <= MaxConcurrency
    /\ MaxConnection > 0 => count[w] <= MaxConnection

\* The picker knows every worker whose connection is open, once, so that none
\* is left unused with its connection held (pickInternal, cleanup).
PickerKnowsOpenWorkers ==
  \A w \in created :
    ~done[w] => Cardinality({i \in 1..Len(workers) : workers[i] = w}) = 1

\* A session its manager lists is open, and one that has been bound, is open
\* and has its manager open is listed: Closed sessions free their place, and
\* the idle close of a worker never drops a session that is in use
\* (Session.Close, CloseIfNoSessionAndIdle).
ListedIsOpen ==
  \A d \in Dispatchers :
    bound[d] => (d \in sessions[worker[d]] <=> ~sclosed[d])

\* Dispatch does not run out of tries, although pickInternal may return a
\* worker that is full ("unable to find an available mux client").
DispatchFindsWorker == \A d \in Dispatchers : dpc[d] # "gaveUp"

\* When the connection of a worker ends, its sessions are closed and a
\* dispatcher that waits for one returns (monitor, SessionManager.Close).
EndedWithWorker ==
  \A d \in Dispatchers, w \in Workers :
    worker[d] = w /\ bound[d] /\ done[w] => sclosed[d] /\ dpc[d] = "returned" /\ fetch[d] = "end"
=============================================================================
