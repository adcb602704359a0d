----------------------------- MODULE MCDelivery -----------------------------
(***************************************************************************)
(* Goroutines that wait for locks and for a network that loses, on small   *)
(* instances: a behaviour is that of one of them, and the first two stay   *)
(* as they were made in those of the others.                               *)
(*   kcp     the sending and receiving windows of mKCP                     *)
(*   timer   the inactivity timer of a connection (common/signal)          *)
(*   client  a worker of the mux client, its sessions and its monitor      *)
(***************************************************************************)
EXTENDS KCPData, ActivityTimer

CONSTANTS k1, k2, c1, c2, t1, t2,   \* tasks, callers and timers
          d1, d2, w1                \* dispatchers and a worker

VARIABLES component, workers, created, sessions, count, smClosed, done, mpc,
          check, dpc, worker, tries, bound, sclosed, released, fetch

Client == INSTANCE MuxClient WITH
  Dispatchers <- {d1, d2}, Workers <- {w1}, MaxConcurrency <- 2, MaxConnection <- 0, MaxTries <- 2

MCMessage == <<"a", "b", "c">>

-----------------------------------------------------------------------------
allVars == <<component, window, firstUnacknowledged, nextNumber, updated,
             cache, acklist, dirty, rnext, leftOver, delivered, net, running,
             timer, pc, work, updatedChan, checkTask, consumed, once, mu,
             cancelled, made, sets, updates, quiet, workers, created, sessions,
             count, smClosed, done, mpc, check, dpc, worker, tries, bound,
             sclosed, released, fetch>>

AtKcp ==
  /\ component = "kcp"
  /\ UNCHANGED <<component, running, timer, pc, work, updatedChan, checkTask,
                 consumed, once, mu, cancelled, made, sets, updates, quiet,
                 workers, created, sessions, count, smClosed, done, mpc, check,
                 dpc, worker, tries, bound, sclosed, released, fetch>>

AtTimer ==
  /\ component = "timer"
  /\ UNCHANGED <<component, window, firstUnacknowledged, nextNumber, updated,
                 cache, acklist, dirty, rnext, leftOver, delivered, net,
                 workers, created, sessions, count, smClosed, done, mpc, check,
                 dpc, worker, tries, bound, sclosed, released, fetch>>

AtClient ==
  /\ component = "client"
  /\ UNCHANGED <<component, window, firstUnacknowledged, nextNumber, updated,
                 cache, acklist, dirty, rnext, leftOver, delivered, net,
                 running, timer, pc, work, updatedChan, checkTask, consumed,
                 once, mu, cancelled, made, sets, updates, quiet>>

AllInit ==
  \/ /\ component = "kcp"
     /\ Init
     /\ ActivityInit
     /\ workers = 0 /\ created = 0 /\ sessions = 0 /\ count = 0
     /\ smClosed = 0 /\ done = 0 /\ mpc = 0 /\ check = 0 /\ dpc = 0
     /\ worker = 0 /\ tries = 0 /\ bound = 0 /\ sclosed = 0 /\ released = 0
     /\ fetch = 0
  \/ /\ component = "timer"
     /\ ActivityInit
     /\ Init
     /\ workers = 0 /\ created = 0 /\ sessions = 0 /\ count = 0
     /\ smClosed = 0 /\ done = 0 /\ mpc = 0 /\ check = 0 /\ dpc = 0
     /\ worker = 0 /\ tries = 0 /\ bound = 0 /\ sclosed = 0 /\ released = 0
     /\ fetch = 0
  \/ /\ component = "client"
     /\ Client!Init
     /\ Init
     /\ ActivityInit

AllNext ==
  \/ AtKcp /\ Next
  \/ AtTimer /\ ActivityNext
  \/ AtClient /\ Client!Next

FetchEnds(d) ==
  (sclosed[d] \/ (worker[d] = w1 /\ mpc[w1] = "end")) /\ Client!FetchInputEnds(d)

\* The fairness of each component, while it is the one that runs.  No step leads from one
\* to another, so that a conjunct of strong fairness may be one of each.
DeliverySpec ==
  /\ AllInit /\ [][AllNext]_allVars
  /\ WF_vars(component = "kcp" /\ Read)
  /\ WF_activityVars(component = "timer" /\ MadeFinished)
  /\ \A tm \in {t1, t2} : WF_activityVars(component = "timer" /\ PeriodicFire(tm))
  /\ \A d \in {d1, d2} : /\ WF_(Client!vars)(component = "client" /\ Client!DispatchStep(d))
                        /\ WF_(Client!vars)(component = "client" /\ Client!DispatchWaited(d))
                        /\ WF_(Client!vars)(component = "client" /\ FetchEnds(d))
  /\ WF_(Client!vars)(component = "client" /\ Client!MonitorSize(w1))
  /\ WF_(Client!vars)(component = "client" /\ Client!MonitorCount(w1))
  /\ WF_(Client!vars)(component = "client" /\ Client!MonitorTick(w1))
  /\ SF_allVars(\/ /\ component = "kcp" /\ unacked # {} /\ SenderFlush({firstUnacknowledged}, FALSE)
                   /\ Data({firstUnacknowledged}) \subseteq net' /\ AtKcp
                \/ component = "timer" /\ Step(c1) /\ AtTimer
                \/ component = "client" /\ Client!MonitorDone(w1) /\ AtClient)
  /\ SF_allVars(\/ /\ component = "kcp"
                   /\ \E m \in net : m.type = "data" /\ m.number = firstUnacknowledged /\ ProcessData(m)
                   /\ AtKcp
                \/ component = "timer" /\ Step(c2) /\ AtTimer)
  /\ SF_allVars(\/ component = "kcp" /\ SenderFlush({}, TRUE) /\ SenderPing \in net' /\ AtKcp
                \/ component = "timer" /\ Step(t1) /\ AtTimer)
  /\ SF_allVars(\/ /\ component = "kcp"
                   /\ \E m \in net : ProcessSenderPing(m) /\ m.sendingNext = firstUnacknowledged
                   /\ AtKcp
                \/ component = "timer" /\ Step(t2) /\ AtTimer)
  /\ SF_allVars(\/ component = "kcp" /\ ReceiverFlush(TRUE, FALSE) /\ Ack \in net' /\ AtKcp
                \/ component = "timer" /\ SetStep(c1) /\ AtTimer)
  /\ SF_allVars(\/ /\ component = "kcp"
                   /\ (\E m \in net : ProcessAck(m)) /\ window' # window /\ AtKcp
                \/ component = "timer" /\ SetStep(c2) /\ AtTimer)

-----------------------------------------------------------------------------
(* Properties *)

\* Everything that is pushed is delivered whatever is lost on the way, and when no
\* more is pushed both windows become empty and stay so (SendingWorker.Flush,
\* ReceivingWorker.Flush).  When activity ceases the connection is cancelled
\* (ActivityTimer).  The sessions of a mux worker end with it (ClientWorker.monitor).
EndsWell ==
  <>[](/\ component = "kcp" => Len(delivered) = nextNumber /\ unacked = {} /\ acklist = {}
       /\ component = "timer" => CancelledWhenIdle
       /\ component = "client" => Client!EndedWithWorker)
=============================================================================
