------------------------------ MODULE Periodic ------------------------------
(***************************************************************************)
(* common/task Periodic: a task that is executed at once by Start and then *)
(* again whenever its timer fires, until Close or until it fails.          *)
(*                                                                         *)
(* A thread is a caller of Start and Close or a timer, which becomes a     *)
(* goroutine when it fires.  A region under access is one step.  Time is   *)
(* left out: an armed timer may fire at any moment.                        *)
(***************************************************************************)
EXTENDS FiniteSets

CONSTANTS
  Tasks,      \* Periodic values
  Callers,
  Timers,     \* bound: timers that are armed or running at a time
  NONE

Threads == Callers \cup Timers

VARIABLES
  running,    \* Periodic.running of each task
  timer,      \* Periodic.timer: a timer, or NONE for nil
  pc,         \* where each thread is; "idle" callers, "free" and "armed" timers
  work        \* the task each thread works for

periodicVars == <<running, timer, pc, work>>

PeriodicInit ==
  /\ running = [k \in Tasks |-> FALSE]
  /\ timer = [k \in Tasks |-> NONE]
  /\ pc = [th \in Threads |-> IF th \in Callers THEN "idle" ELSE "free"]
  /\ work = [th \in Threads |-> NONE]

\* A thread that has returned.  A timer nobody refers to may be used again.
Rest(th) == IF th \in Callers THEN "idle" ELSE "free"
Unused == {n \in Timers : pc[n] = "free" /\ \A k \in Tasks : timer[k] # n}

-----------------------------------------------------------------------------
(* Start and Close, called by c *)

\* Start returns at once when the task is running.
Start(c, k) ==
  /\ pc[c] = "idle"
  /\ ~running[k]
  /\ running' = [running EXCEPT ![k] = TRUE]
  /\ pc' = [pc EXCEPT ![c] = "check"]
  /\ work' = [work EXCEPT ![c] = k]
  /\ UNCHANGED timer

\* Start's own reaction to an error of checkedExecute.
StartFailed(c) ==
  /\ pc[c] = "startFailed"
  /\ running' = [running EXCEPT ![work[c]] = FALSE]
  /\ pc' = [pc EXCEPT ![c] = "idle"]
  /\ UNCHANGED <<timer, work>>

\* timer.Stop, which has no effect on a timer that has fired.
Stopped(k) == [n \in Threads |-> IF n = timer[k] /\ pc[n] = "armed" THEN "free" ELSE pc[n]]

CloseTask(k) ==
  /\ running' = [running EXCEPT ![k] = FALSE]
  /\ timer' = [timer EXCEPT ![k] = NONE]

PeriodicClose(c, k) ==
  /\ pc[c] = "idle"
  /\ CloseTask(k)
  /\ pc' = Stopped(k)
  /\ UNCHANGED work

-----------------------------------------------------------------------------
(* checkedExecute, on whatever thread it runs *)

Fire(n) ==
  /\ pc[n] = "armed"
  /\ pc' = [pc EXCEPT ![n] = "check"]
  /\ UNCHANGED <<running, timer, work>>

\* Mutant: the timer of a closed task goes on ticking.
HasClosedTicks(th) ==
  /\ pc[th] = "check"
  /\ pc' = [pc EXCEPT ![th] = IF running[work[th]] THEN "execute"
                              ELSE IF th \in Timers THEN "armed" ELSE "idle"]
  /\ UNCHANGED <<running, timer, work>>

\* Mutant: a timer that fires arms the next one without executing the task.
HasClosedSkips(th) ==
  /\ pc[th] = "check"
  /\ pc' = [pc EXCEPT ![th] = IF ~running[work[th]] THEN Rest(th)
                              ELSE IF th \in Timers THEN "arm" ELSE "execute"]
  /\ UNCHANGED <<running, timer, work>>

HasClosed(th) ==
  /\ pc[th] = "check"
  /\ pc' = [pc EXCEPT ![th] = IF running[work[th]] THEN "execute" ELSE Rest(th)]
  /\ UNCHANGED <<running, timer, work>>

\* Execute returns nil or an error.
Execute(th, failed) ==
  /\ pc[th] = "execute"
  /\ pc' = [pc EXCEPT ![th] = IF failed THEN "failed" ELSE "arm"]
  /\ UNCHANGED <<running, timer, work>>

\* Mutant: a failed execution leaves the task marked as running.
ExecuteFailedKeepsRunning(th) ==
  /\ pc[th] = "failed"
  /\ pc' = [pc EXCEPT ![th] = IF th \in Callers THEN "startFailed" ELSE "free"]
  /\ UNCHANGED <<running, timer, work>>

ExecuteFailed(th) ==
  /\ pc[th] = "failed"
  /\ running' = [running EXCEPT ![work[th]] = FALSE]
  /\ pc' = [pc EXCEPT ![th] = IF th \in Callers THEN "startFailed" ELSE "free"]
  /\ UNCHANGED <<timer, work>>

\* A task closed during Execute is not armed again ...
Disarmed(th) ==
  /\ pc[th] = "arm"
  /\ ~running[work[th]]
  /\ pc' = [pc EXCEPT ![th] = Rest(th)]
  /\ UNCHANGED <<running, timer, work>>

\* ... and one that is running is, whoever started it since.
Arm(th, n) ==
  /\ pc[th] = "arm"
  /\ running[work[th]]
  /\ n \in Unused \cup ({th} \cap Timers)
  /\ timer' = [timer EXCEPT ![work[th]] = n]
  /\ pc' = [pc EXCEPT ![th] = Rest(th), ![n] = "armed"]
  /\ work' = [work EXCEPT ![n] = work[th]]
  /\ UNCHANGED running
-----------------------------------------------------------------------------

PeriodicStep(th) ==
  \/ HasClosed(th)
  \/ \E failed \in BOOLEAN : Execute(th, failed)
  \/ ExecuteFailed(th)
  \/ Disarmed(th)
  \/ \E n \in Timers : Arm(th, n)

PeriodicNext ==
  \/ \E c \in Callers, k \in Tasks : Start(c, k) \/ PeriodicClose(c, k)
  \/ \E c \in Callers : StartFailed(c)
  \/ \E n \in Timers : Fire(n)
  \/ \E th \in Threads : PeriodicStep(th)

PeriodicSpec == PeriodicInit /\ [][PeriodicNext]_periodicVars

\* Timers fire, and Execute and the code around it run on.  Nobody has to call
\* Start or Close.
PeriodicFairSpec ==
  /\ PeriodicSpec
  /\ \A n \in Timers : WF_periodicVars(Fire(n))
  /\ \A th \in Threads : WF_periodicVars(PeriodicStep(th))
  /\ \A c \in Callers : WF_periodicVars(StartFailed(c))

-----------------------------------------------------------------------------
(* Properties *)

\* The threads that carry task k on: they execute it or will.
Alive(k) == {th \in Threads : work[th] = k /\ pc[th] \in {"armed", "check", "execute", "arm"}}

\* The threads whose execution of task k has failed, and that are about to clear running.
Failing(k) == {th \in Threads : work[th] = k /\ pc[th] = "failed"}

\* A task that is marked as running is carried on by a timer or an execution, or one that
\* failed is about to clear the mark: however Start, Close, failures and firings
\* interleave, Start returns without starting a task that nobody carries on only in the
\* moment between an error of Execute and the region that clears running (Periodic.Start,
\* checkedExecute).
RunningIsAlive == \A k \in Tasks : running[k] => Alive(k) # {} \/ Failing(k) # {}

\* A running task is executed again, unless it is stopped
\* (checkedExecute arms the next timer).
StoppedOrExecuted(k) == ~running[k] \/ \E th \in Threads : work[th] = k /\ pc[th] = "execute"

=============================================================================
