--------------------------- MODULE ActivityTimer ---------------------------
(***************************************************************************)
(* common/signal ActivityTimer: cancels a connection after a while without *)
(* activity.  A Periodic task, replaced by every SetTimeout, calls check,  *)
(* which takes the token that Update left or else finishes the timer.      *)
(*                                                                         *)
(* The Periodic tasks are those of module Periodic, with check as their    *)
(* Execute; check never returns an error.                                  *)
(***************************************************************************)
EXTENDS Naturals, Periodic, TLAPS

CONSTANTS
  MaxSets,    \* bound: calls SetTimeout(d) with d > 0, the constructor's included
  MaxUpdates  \* bound: calls of Update

ASSUME TimerAssumption ==
  Callers \cap Timers = {} /\ NONE \notin Tasks \cup Callers \cup Timers

VARIABLES
  updatedChan,    \* is there a token in the channel updated?
  checkTask,
  consumed,
  once,       \* "new", "running", "done"
  mu,         \* the thread that holds mu, or NONE
  cancelled,  \* has onTimeout been called?
  made,       \* has CancelAfterInactivity returned?
  sets, updates,
  quiet       \* history: "active" since the last Update, then "armed" once a
              \* timer is armed, then "elapsed" once it has fired

timerVars == <<updatedChan, checkTask, consumed, once, mu, cancelled, made>>
counters == <<sets, updates, quiet>>
activityVars == <<periodicVars, timerVars, counters>>

ActivityInit ==
  /\ PeriodicInit
  /\ updatedChan = FALSE
  /\ checkTask = NONE
  /\ consumed = FALSE
  /\ once = "new"
  /\ mu = NONE
  /\ cancelled = FALSE
  /\ made = FALSE
  /\ sets = 0
  /\ updates = 0
  /\ quiet = "active"

\* A Periodic that is closed and that no thread works for is as good as new.
Fresh == {k \in Tasks : k # checkTask /\ ~running[k] /\ Alive(k) \cup Failing(k) = {}}

Go(th, label) == pc' = [pc EXCEPT ![th] = label]

-----------------------------------------------------------------------------
Update ==
  /\ made
  /\ updates < MaxUpdates
  /\ updates' = updates + 1
  /\ updatedChan' = TRUE
  /\ quiet' = "active"
  /\ UNCHANGED <<periodicVars, checkTask, consumed, once, mu, cancelled, made, sets>>

\* Mutant: check does not take the token.
CheckActiveKeepsToken(th) ==
  /\ pc[th] = "execute"
  /\ updatedChan
  /\ Go(th, "arm")
  /\ UNCHANGED <<running, timer, work, timerVars, counters>>

\* check finds a token, or finishes the timer.
CheckActive(th) ==
  /\ pc[th] = "execute"
  /\ updatedChan
  /\ updatedChan' = FALSE
  /\ Go(th, "arm")
  /\ UNCHANGED <<running, timer, work, checkTask, consumed, once, mu, cancelled, made, counters>>

CheckIdle(th) ==
  /\ pc[th] = "execute"
  /\ ~updatedChan
  /\ Go(th, "finish")
  /\ UNCHANGED <<running, timer, work, timerVars, counters>>

-----------------------------------------------------------------------------
(* finish *)

\* finish was called by check, or by a SetTimeout(0), which does not hold mu.
AfterFinish(th) == IF th \in Callers /\ mu # th THEN "idle" ELSE "arm"

\* once.Do blocks while another thread is in it.
FinishOnce(th) ==
  /\ pc[th] = "finish"
  /\ once # "running"
  /\ IF once = "done"
       THEN Go(th, AfterFinish(th)) /\ UNCHANGED <<once, consumed>>
       ELSE Go(th, "lock") /\ once' = "running" /\ consumed' = TRUE
  /\ UNCHANGED <<running, timer, work, updatedChan, checkTask, mu, cancelled, made, counters>>

\* The region under mu; a thread that already holds mu waits for itself.
FinishLocked(th) ==
  /\ pc[th] = "lock"
  /\ mu = NONE
  /\ IF checkTask = NONE
       THEN Go(th, AfterFinish(th)) /\ UNCHANGED <<running, timer>>
       ELSE /\ CloseTask(checkTask)
            /\ pc' = [Stopped(checkTask) EXCEPT ![th] = AfterFinish(th)]
  /\ once' = "done"
  /\ cancelled' = TRUE
  /\ UNCHANGED <<work, updatedChan, checkTask, consumed, mu, made, counters>>

-----------------------------------------------------------------------------
(* SetTimeout; the first call is CancelAfterInactivity's *)

Ready(c) ==
  /\ pc[c] = "idle" /\ mu # c
  /\ made \/ (sets = 0 /\ \A d \in Callers : pc[d] = "idle")

SetTimeoutZero(c) ==
  /\ Ready(c)
  /\ ~consumed
  /\ Go(c, "finish")
  /\ UNCHANGED <<running, timer, work, timerVars, counters>>

SetTimeout(c) ==
  /\ Ready(c)
  /\ ~consumed
  /\ sets < MaxSets
  /\ sets' = sets + 1
  /\ Go(c, "set")
  /\ UNCHANGED <<running, timer, work, timerVars, updates, quiet>>

\* Mutant: the second test of consumed, under mu, is left out.
SetLockUnchecked(c) ==
  /\ pc[c] = "set"
  /\ mu = NONE
  /\ Go(c, "close") /\ mu' = c
  /\ UNCHANGED <<running, timer, work, updatedChan, checkTask, consumed, once, cancelled, made, counters>>

SetLock(c) ==
  /\ pc[c] = "set"
  /\ mu = NONE
  /\ IF consumed
       THEN Go(c, "idle") /\ made' = TRUE /\ UNCHANGED mu
       ELSE Go(c, "close") /\ mu' = c /\ UNCHANGED made
  /\ UNCHANGED <<running, timer, work, updatedChan, checkTask, consumed, once, cancelled, counters>>

\* Mutant: the task of the previous timeout is replaced but not closed.
SetCloseKeepsOld(c, k) ==
  /\ pc[c] = "close"
  /\ k \in Fresh
  /\ Go(c, "update") /\ UNCHANGED <<running, timer>>
  /\ checkTask' = k
  /\ UNCHANGED <<work, updatedChan, consumed, once, mu, cancelled, made, counters>>

SetClose(c, k) ==
  /\ pc[c] = "close"
  /\ k \in Fresh
  /\ IF checkTask = NONE
       THEN Go(c, "update") /\ UNCHANGED <<running, timer>>
       ELSE /\ CloseTask(checkTask)
            /\ pc' = [Stopped(checkTask) EXCEPT ![c] = "update"]
  /\ checkTask' = k
  /\ UNCHANGED <<work, updatedChan, consumed, once, mu, cancelled, made, counters>>

\* Mutant: the new task is started without a token.
SetUpdateSkipped(c) ==
  /\ pc[c] = "update"
  /\ Go(c, "start")
  /\ UNCHANGED <<running, timer, work, timerVars, counters>>

SetUpdate(c) ==
  /\ pc[c] = "update"
  /\ updatedChan' = TRUE
  /\ quiet' = "active"
  /\ Go(c, "start")
  /\ UNCHANGED <<running, timer, work, checkTask, consumed, once, mu, cancelled, made, sets, updates>>

\* newCheckTask.Start executes check on this thread, with mu held.
SetStart(c) ==
  /\ pc[c] = "start"
  /\ running' = [running EXCEPT ![checkTask] = TRUE]
  /\ work' = [work EXCEPT ![c] = checkTask]
  /\ Go(c, "check")
  /\ UNCHANGED <<timer, timerVars, counters>>

SetUnlock(c) ==
  /\ pc[c] = "idle"
  /\ mu = c
  /\ mu' = NONE
  /\ made' = TRUE
  /\ UNCHANGED <<periodicVars, updatedChan, checkTask, consumed, once, cancelled, counters>>

\* CancelAfterInactivity(0) returns.
MadeFinished ==
  /\ ~made
  /\ cancelled
  /\ \A c \in Callers : pc[c] = "idle" /\ mu # c
  /\ made' = TRUE
  /\ UNCHANGED <<periodicVars, updatedChan, checkTask, consumed, once, mu, cancelled, counters>>

-----------------------------------------------------------------------------
(* What Periodic does around check *)

PeriodicHasClosed(th) == HasClosed(th) /\ UNCHANGED <<timerVars, counters>>
PeriodicDisarmed(th) == Disarmed(th) /\ UNCHANGED <<timerVars, counters>>

PeriodicArm(th, n) ==
  /\ Arm(th, n)
  /\ quiet' = IF quiet = "active" THEN "armed" ELSE quiet
  /\ UNCHANGED <<timerVars, sets, updates>>

PeriodicFire(n) ==
  /\ Fire(n)
  /\ quiet' = IF quiet = "armed" THEN "elapsed" ELSE quiet
  /\ UNCHANGED <<timerVars, sets, updates>>

-----------------------------------------------------------------------------
\* Everything thread th does on its own once it has been called or has fired.
Step(th) ==
  \/ CheckActive(th) \/ CheckIdle(th)
  \/ FinishOnce(th) \/ FinishLocked(th)
  \/ PeriodicHasClosed(th) \/ PeriodicDisarmed(th)
  \/ \E n \in Timers : PeriodicArm(th, n)

SetStep(c) ==
  \/ SetLock(c) \/ SetUpdate(c) \/ SetStart(c) \/ SetUnlock(c)
  \/ \E k \in Tasks : SetClose(c, k)

ActivityNext ==
  \/ Update
  \/ \E c \in Callers : SetTimeout(c) \/ SetTimeoutZero(c) \/ SetStep(c)
  \/ \E th \in Threads : Step(th)
  \/ \E n \in Timers : PeriodicFire(n)
  \/ MadeFinished

ActivitySpec == ActivityInit /\ [][ActivityNext]_activityVars

\* Goroutines run on and timers fire; nobody has to call Update or SetTimeout.
\* A lock is not passed over for ever (sync.Mutex is starvation-free).
ActivityFairSpec ==
  /\ ActivitySpec
  /\ \A th \in Threads : SF_activityVars(Step(th))
  /\ \A c \in Callers : SF_activityVars(SetStep(c))
  /\ \A n \in Timers : WF_activityVars(PeriodicFire(n))
  /\ WF_activityVars(MadeFinished)

-----------------------------------------------------------------------------
(* Properties *)

\* Only the task of the latest timeout is running, however SetTimeout calls
\* overlap with each other and with checks (SetTimeout closes the old task).
OneCheckTask == \A k \in Tasks : running[k] => k = checkTask

\* Once the timer has finished no task is running any more and none is started
\* (the second test of consumed in SetTimeout, "double check, just in case").
FinishIsFinal == once = "done" => \A k \in Tasks : ~running[k]

\* Both: the check task is the one task that runs, until the timer has finished.
OneTaskTillTheEnd == OneCheckTask /\ FinishIsFinal

\* The step of check that finds the timer idle.
ChecksElapsed == \A th \in Threads : CheckIdle(th) /\ sets <= 1 => quiet = "elapsed"

\* A check finishes the timer only when a whole interval has passed since the
\* last Update (ActivityTimer.check), as long as the timeout is set only once:
\* after a second SetTimeout the check of the old task may take the new token.
IdleFirst == [][ChecksElapsed]_activityVars

\* A SetTimeout whose first check finds no token calls finish with mu held: it
\* waits for mu itself, or for the once of a thread that waits for mu.
FinishesUnderMu == \E c \in Callers : mu = c /\ pc[c] \in {"finish", "lock"}

\* When activity ceases, the connection is cancelled (onTimeout), however often
\* its timeout is changed, unless a SetTimeout calls finish with mu held.
CancelledWhenIdle == made => cancelled \/ FinishesUnderMu
TimesOut == <>[]CancelledWhenIdle

-----------------------------------------------------------------------------
(* Periodic: a task that is running is alive *)

Busy == {"armed", "check", "execute", "failed", "arm"}

PeriodicTypeOK ==
  /\ running \in [Tasks -> BOOLEAN]
  /\ timer \in [Tasks -> Timers \cup {NONE}]
  /\ pc \in [Threads -> Busy \cup {"idle", "free", "startFailed"}]
  /\ work \in [Threads -> Tasks \cup {NONE}]

\* The timer a task refers to works for it: Close stops no other task's timer.
TimerInv == \A k \in Tasks : timer[k] # NONE => work[timer[k]] = k

\* A task that is running is carried on by some thread.
AliveInv == \A k \in Tasks : running[k] => \E th \in Threads : work[th] = k /\ pc[th] \in Busy

PeriodicInv == PeriodicTypeOK /\ TimerInv /\ AliveInv

LEMMA PeriodicTypeStep ==
  ASSUME PeriodicTypeOK, [PeriodicNext]_periodicVars
  PROVE  PeriodicTypeOK'
<1> USE DEF PeriodicTypeOK, Threads, Busy
<1>1. ASSUME NEW c \in Callers, NEW k \in Tasks, Start(c, k) PROVE PeriodicTypeOK'
  BY <1>1, Zenon DEF Start
<1>2. ASSUME NEW c \in Callers, NEW k \in Tasks, PeriodicClose(c, k) PROVE PeriodicTypeOK'
  BY <1>2, Zenon DEF PeriodicClose, CloseTask, Stopped
<1>3. ASSUME NEW c \in Callers, StartFailed(c) PROVE PeriodicTypeOK'
  BY <1>3, Zenon DEF StartFailed
<1>4. ASSUME NEW n \in Timers, Fire(n) PROVE PeriodicTypeOK'
  BY <1>4, Zenon DEF Fire
<1>5. ASSUME NEW th \in Threads, HasClosed(th) PROVE PeriodicTypeOK'
  BY <1>5, Zenon DEF HasClosed, Rest
<1>6. ASSUME NEW th \in Threads, NEW failed \in BOOLEAN, Execute(th, failed) PROVE PeriodicTypeOK'
  BY <1>6, Zenon DEF Execute
<1>7. ASSUME NEW th \in Threads, ExecuteFailed(th) PROVE PeriodicTypeOK'
  BY <1>7, Zenon DEF ExecuteFailed
<1>8. ASSUME NEW th \in Threads, Disarmed(th) PROVE PeriodicTypeOK'
  BY <1>8, Zenon DEF Disarmed, Rest
<1>9. ASSUME NEW th \in Threads, NEW n \in Timers, Arm(th, n) PROVE PeriodicTypeOK'
  BY <1>9, Zenon DEF Arm, Rest
<1>10. CASE UNCHANGED periodicVars
  BY <1>10, Zenon DEF periodicVars
<1> HIDE DEF PeriodicTypeOK
<1> QED
  BY <1>1, <1>2, <1>3, <1>4, <1>5, <1>6, <1>7, <1>8, <1>9, <1>10, Zenon DEF PeriodicNext, PeriodicStep

\* Only Arm lets a task refer to a timer, and the timer works for the task from then on.
LEMMA TimerInvStep ==
  ASSUME PeriodicTypeOK, TimerInv, [PeriodicNext]_periodicVars
  PROVE  TimerInv'
<1> USE TimerAssumption DEF PeriodicTypeOK, TimerInv, Threads
<1>1. ASSUME NEW c \in Callers, NEW k \in Tasks, Start(c, k) PROVE TimerInv'
  BY <1>1, Zenon DEF Start
<1>2. ASSUME NEW c \in Callers, NEW k \in Tasks, PeriodicClose(c, k) PROVE TimerInv'
  BY <1>2, Zenon DEF PeriodicClose, CloseTask
<1>3. ASSUME NEW th \in Threads, NEW n \in Timers, Arm(th, n) PROVE TimerInv'
  <2>1. \A k \in Tasks : timer[k] = n => n = th /\ work[th] = k
    BY <1>3 DEF Arm, Unused
  <2>2. \A k \in Tasks : timer'[k] = IF k = work[th] THEN n ELSE timer[k]
    BY <1>3, Zenon DEF Arm
  <2>3. \A m \in Threads : work'[m] = IF m = n THEN work[th] ELSE work[m]
    BY <1>3, Zenon DEF Arm
  <2> QED
    BY <2>1, <2>2, <2>3
<1>4. CASE UNCHANGED <<timer, work>>
  BY <1>4, Zenon
<1> QED
  BY Zenon, <1>1, <1>2, <1>3, <1>4
  DEF PeriodicNext, PeriodicStep, StartFailed, Fire, HasClosed, Execute,
      ExecuteFailed, Disarmed, periodicVars

\* Every step that takes a thread away from a running task puts another in its place.
LEMMA AliveInvStep ==
  ASSUME PeriodicTypeOK, TimerInv, AliveInv, [PeriodicNext]_periodicVars
  PROVE  AliveInv'
<1> USE TimerAssumption DEF PeriodicTypeOK, TimerInv, AliveInv, Threads, Busy
<1>1. ASSUME NEW c \in Callers, NEW k \in Tasks, Start(c, k) PROVE AliveInv'
  <2>1. work'[c] = k /\ pc'[c] = "check"
    BY <1>1, Zenon DEF Start
  <2>2. \A th \in Threads \ {c} : work'[th] = work[th] /\ pc'[th] = pc[th]
    BY <1>1, Zenon DEF Start
  <2>3. \A j \in Tasks \ {k} : running'[j] = running[j]
    BY <1>1, Zenon DEF Start
  <2>4. pc[c] \notin Busy
    BY <1>1, Zenon DEF Start
  <2> QED
    BY <2>1, <2>2, <2>3, <2>4
<1>2. ASSUME NEW c \in Callers, NEW k \in Tasks, PeriodicClose(c, k) PROVE AliveInv'
  <2>1. ~running'[k] /\ \A j \in Tasks \ {k} : running'[j] = running[j]
    BY <1>2 DEF PeriodicClose, CloseTask
  <2>2. \A th \in Threads : pc'[th] = pc[th] \/ (timer[k] = th /\ timer[k] # NONE)
    BY <1>2 DEF PeriodicClose, Stopped
  <2>3. \A th \in Threads : work[th] # k => pc'[th] = pc[th]
    BY <2>2, Zenon
  <2>4. work' = work
    BY <1>2, Zenon DEF PeriodicClose
  <2> QED
    BY <2>1, <2>3, <2>4
<1>3. ASSUME NEW c \in Callers, StartFailed(c) PROVE AliveInv'
  BY <1>3 DEF StartFailed
<1>4. ASSUME NEW n \in Timers, Fire(n) PROVE AliveInv'
  BY <1>4 DEF Fire
<1>5. ASSUME NEW th \in Threads, HasClosed(th) PROVE AliveInv'
  BY <1>5 DEF HasClosed
<1>6. ASSUME NEW th \in Threads, NEW failed \in BOOLEAN, Execute(th, failed) PROVE AliveInv'
  BY <1>6 DEF Execute
<1>7. ASSUME NEW th \in Threads, ExecuteFailed(th) PROVE AliveInv'
  BY <1>7 DEF ExecuteFailed
<1>8. ASSUME NEW th \in Threads, Disarmed(th) PROVE AliveInv'
  BY <1>8 DEF Disarmed
<1>9. ASSUME NEW th \in Threads, NEW n \in Timers, Arm(th, n) PROVE AliveInv'
  <2>1. work'[n] = work[th] /\ pc'[n] = "armed" /\ n \in Threads
    BY <1>9, Zenon DEF Arm
  <2>2. \A m \in Threads \ {th, n} : work'[m] = work[m] /\ pc'[m] = pc[m]
    BY <1>9, Zenon DEF Arm
  <2>3. n = th \/ pc[n] \notin Busy
    BY <1>9, Zenon DEF Arm, Unused
  <2>4. running' = running
    BY <1>9, Zenon DEF Arm
  <2> QED
    BY <2>1, <2>2, <2>3, <2>4
<1>10. CASE UNCHANGED periodicVars
  BY <1>10, Zenon DEF periodicVars
<1> HIDE DEF AliveInv
<1> QED
  BY <1>1, <1>2, <1>3, <1>4, <1>5, <1>6, <1>7, <1>8, <1>9, <1>10 DEF PeriodicNext, PeriodicStep

\* However Start, Close, failures and firings interleave, Start takes a dead task for a
\* running one only while a failed execution is about to clear running (Periodic.Start
\* returns at once when it is set).
THEOREM RunningTasksAreAlive == PeriodicSpec => []RunningIsAlive
<1>1. PeriodicInit => PeriodicInv
  BY Zenon DEF PeriodicInit, PeriodicInv, PeriodicTypeOK, TimerInv, AliveInv, Threads, Busy
<1>2. PeriodicInv /\ [PeriodicNext]_(periodicVars) => PeriodicInv'
  BY PeriodicTypeStep, TimerInvStep, AliveInvStep, Zenon DEF PeriodicInv, periodicVars
<1>3. PeriodicInv => RunningIsAlive
  <2> SUFFICES ASSUME PeriodicInv, NEW k \in Tasks, running[k]
               PROVE  Alive(k) # {} \/ Failing(k) # {}
    BY Zenon DEF RunningIsAlive
  <2>1. PICK th \in Threads : work[th] = k /\ pc[th] \in Busy
    BY Zenon DEF PeriodicInv, AliveInv
  <2>2. CASE pc[th] = "failed"
    <3>1. th \in Failing(k)
      BY <2>1, <2>2, Zenon DEF Failing
    <3> QED
      BY <3>1, Zenon
  <2>3. CASE pc[th] # "failed"
    <3>1. pc[th] \in {"armed", "check", "execute", "arm"}
      BY <2>1, <2>3, Zenon DEF Busy
    <3>2. th \in Alive(k)
      BY <2>1, <3>1, Zenon DEF Alive
    <3> QED
      BY <3>2, Zenon
  <2> QED
    BY <2>2, <2>3, Zenon
<1> QED
  BY <1>1, <1>2, <1>3, PTL DEF PeriodicSpec

-----------------------------------------------------------------------------
(* ActivityTimer: the inductive invariant *)

Setting == {"close", "update", "start"}

ActivityTypeOK ==
  /\ running \in [Tasks -> BOOLEAN]
  /\ timer \in [Tasks -> Timers \cup {NONE}]
  /\ pc \in [Threads -> Setting \cup {"armed", "check", "execute", "arm", "idle", "free", "set",
                                      "finish", "lock"}]
  /\ checkTask \in Tasks \cup {NONE}
  /\ mu \in Callers \cup {NONE}
  /\ once \in {"new", "running", "done"}
  /\ consumed \in BOOLEAN /\ updatedChan \in BOOLEAN
  /\ sets \in Nat /\ quiet \in {"active", "armed", "elapsed"}

\* consumed is set before the timer finishes.  A SetTimeout that is about to start
\* a task has seen consumed unset with mu held, and holds it still: the timer can
\* not have finished since, because finish needs mu.
MuInv ==
  /\ once # "new" => consumed
  /\ \A th \in Threads : pc[th] = "lock" => consumed
  /\ \A c \in Callers : pc[c] \in Setting => mu = c /\ once # "done"
  /\ \A c \in Callers : pc[c] \in {"update", "start"} => checkTask \in Tasks

\* SetTimeout closes the check task there is, which stops at most the timer it has
\* armed.
LEMMA SetCloseStops ==
  ASSUME ActivityTypeOK, NEW c \in Callers, NEW k \in Tasks, SetClose(c, k)
  PROVE  /\ pc[c] = "close" /\ pc'[c] = "update" /\ \A u \in Threads \ {c} : pc'[u] \in {pc[u], "free"}
         /\ DOMAIN pc' = Threads /\ pc' = [u \in Threads |-> pc'[u]] /\ checkTask' = k
         /\ UNCHANGED <<work, updatedChan, consumed, once, mu, cancelled, made, counters>>
<1> USE DEF Threads
<1>1. /\ pc[c] = "close" /\ checkTask' = k /\ c \in Threads
      /\ UNCHANGED <<work, updatedChan, consumed, once, mu, cancelled, made, counters>>
  BY Zenon DEF SetClose
<1>2. CASE checkTask = NONE
  <2>1. pc' = [pc EXCEPT ![c] = "update"]
    BY <1>2, Zenon DEF SetClose, Go
  <2> QED
    BY <1>1, <2>1, Zenon DEF ActivityTypeOK
<1>3. CASE checkTask # NONE
  <2>1. pc' = [Stopped(checkTask) EXCEPT ![c] = "update"]
    BY <1>3, Zenon DEF SetClose
  <2>2. pc' = [u \in Threads |-> IF u = c THEN "update"
                ELSE IF u = timer[checkTask] /\ pc[u] = "armed" THEN "free" ELSE pc[u]]
    BY <1>1, <2>1, Zenon DEF Stopped
  <2> QED
    BY <1>1, <2>2
<1> QED
  BY <1>2, <1>3, Zenon

\* Every step keeps the types.
LEMMA ActivityTypeStep ==
  ASSUME ActivityTypeOK, MuInv, [ActivityNext]_activityVars
  PROVE  ActivityTypeOK'
<1> USE TimerAssumption DEF ActivityTypeOK, MuInv, Threads, Setting, timerVars, counters, periodicVars
<1>1. ASSUME Update PROVE ActivityTypeOK'
  BY <1>1, Zenon DEF Update
<1>2. ASSUME NEW c \in Callers, SetTimeout(c) PROVE ActivityTypeOK'
  BY <1>2 DEF SetTimeout, Ready, Go
<1>3. ASSUME NEW c \in Callers, SetTimeoutZero(c) PROVE ActivityTypeOK'
  BY <1>3, Zenon DEF SetTimeoutZero, Ready, Go
<1>4. ASSUME NEW c \in Callers, SetLock(c) PROVE ActivityTypeOK'
  BY <1>4, Zenon DEF SetLock, Go
<1>5. ASSUME NEW c \in Callers, NEW k \in Tasks, SetClose(c, k) PROVE ActivityTypeOK'
  <2>1. running' \in [Tasks -> BOOLEAN] /\ timer' \in [Tasks -> Timers \cup {NONE}]
    BY <1>5, Zenon DEF SetClose, CloseTask
  <2>2. \A u \in Threads : pc'[u] \in Setting \cup {"armed", "check", "execute", "arm", "idle", "free", "set",
                                                   "finish", "lock"}
    BY <1>5, SetCloseStops, Zenon
  <2> QED
    BY <1>5, <2>1, <2>2, SetCloseStops, Zenon
<1>6. ASSUME NEW c \in Callers, SetUpdate(c) PROVE ActivityTypeOK'
  BY <1>6, Zenon DEF SetUpdate, Go
<1>7. ASSUME NEW c \in Callers, SetStart(c) PROVE ActivityTypeOK'
  BY <1>7, Zenon DEF SetStart, Go
<1>8. ASSUME NEW c \in Callers, SetUnlock(c) PROVE ActivityTypeOK'
  BY <1>8, Zenon DEF SetUnlock
<1>9. ASSUME NEW th \in Threads, CheckActive(th) PROVE ActivityTypeOK'
  BY <1>9, Zenon DEF CheckActive, Go
<1>10. ASSUME NEW th \in Threads, CheckIdle(th) PROVE ActivityTypeOK'
  BY <1>10, Zenon DEF CheckIdle, Go
<1>11. ASSUME NEW th \in Threads, FinishOnce(th) PROVE ActivityTypeOK'
  BY <1>11, Zenon DEF FinishOnce, Go, AfterFinish
<1>12. ASSUME NEW th \in Threads, FinishLocked(th) PROVE ActivityTypeOK'
  BY <1>12, Zenon DEF FinishLocked, Go, AfterFinish, CloseTask, Stopped
<1>13. ASSUME NEW th \in Threads, PeriodicHasClosed(th) PROVE ActivityTypeOK'
  BY <1>13, Zenon DEF PeriodicHasClosed, HasClosed, Rest
<1>14. ASSUME NEW th \in Threads, PeriodicDisarmed(th) PROVE ActivityTypeOK'
  BY <1>14, Zenon DEF PeriodicDisarmed, Disarmed, Rest
<1>15. ASSUME NEW th \in Threads, NEW n \in Timers, PeriodicArm(th, n) PROVE ActivityTypeOK'
  BY <1>15, Zenon DEF PeriodicArm, Arm, Rest, Unused
<1>16. ASSUME NEW n \in Timers, PeriodicFire(n) PROVE ActivityTypeOK'
  BY <1>16, Zenon DEF PeriodicFire, Fire
<1>17. ASSUME MadeFinished PROVE ActivityTypeOK'
  BY <1>17, Zenon DEF MadeFinished
<1>18. CASE UNCHANGED activityVars
  BY <1>18, Zenon DEF activityVars
<1> HIDE DEF ActivityTypeOK
<1> QED
  BY <1>1, <1>2, <1>3, <1>4, <1>5, <1>6, <1>7, <1>8, <1>9,
     <1>10, <1>11, <1>12, <1>13, <1>14, <1>15, <1>16, <1>17, <1>18, Zenon
  DEF ActivityNext, Step, SetStep

\* Every step keeps mu with the SetTimeout that is about to start a task.
LEMMA MuInvStep ==
  ASSUME ActivityTypeOK, MuInv, [ActivityNext]_activityVars
  PROVE  MuInv'
<1> USE TimerAssumption DEF ActivityTypeOK, MuInv, Threads, Setting, timerVars, counters, periodicVars
<1>1. ASSUME Update PROVE MuInv'
  BY <1>1, Zenon DEF Update
<1>2. ASSUME NEW c \in Callers, SetTimeout(c) PROVE MuInv'
  BY <1>2, Zenon DEF SetTimeout, Ready, Go
<1>3. ASSUME NEW c \in Callers, SetTimeoutZero(c) PROVE MuInv'
  BY <1>3, Zenon DEF SetTimeoutZero, Ready, Go
<1>4. ASSUME NEW c \in Callers, SetLock(c) PROVE MuInv'
  BY <1>4 DEF SetLock, Go
<1>5. ASSUME NEW c \in Callers, NEW k \in Tasks, SetClose(c, k) PROVE MuInv'
  BY <1>5, SetCloseStops, Zenon
<1>6. ASSUME NEW c \in Callers, SetUpdate(c) PROVE MuInv'
  BY <1>6, Zenon DEF SetUpdate, Go
<1>7. ASSUME NEW c \in Callers, SetStart(c) PROVE MuInv'
  BY <1>7, Zenon DEF SetStart, Go
<1>8. ASSUME NEW c \in Callers, SetUnlock(c) PROVE MuInv'
  BY <1>8, Zenon DEF SetUnlock
<1>9. ASSUME NEW th \in Threads, CheckActive(th) PROVE MuInv'
  BY <1>9, Zenon DEF CheckActive, Go
<1>10. ASSUME NEW th \in Threads, CheckIdle(th) PROVE MuInv'
  BY <1>10, Zenon DEF CheckIdle, Go
<1>11. ASSUME NEW th \in Threads, FinishOnce(th) PROVE MuInv'
  BY <1>11 DEF FinishOnce, Go, AfterFinish
<1>12. ASSUME NEW th \in Threads, FinishLocked(th) PROVE MuInv'
  <2>1. consumed /\ UNCHANGED <<consumed, checkTask, mu>>
    BY <1>12, Zenon DEF FinishLocked
  <2>2. \A c \in Callers : pc[c] \notin Setting
    BY <1>12, Zenon DEF FinishLocked
  <2>3. \A u \in Threads : pc'[u] \in {pc[u], "free", "idle", "arm"}
    BY <1>12, Zenon DEF FinishLocked, Go, AfterFinish, CloseTask, Stopped
  <2> QED
    BY <2>1, <2>2, <2>3, Zenon
<1>13. ASSUME NEW th \in Threads, PeriodicHasClosed(th) PROVE MuInv'
  BY <1>13, Zenon DEF PeriodicHasClosed, HasClosed, Rest
<1>14. ASSUME NEW th \in Threads, PeriodicDisarmed(th) PROVE MuInv'
  BY <1>14, Zenon DEF PeriodicDisarmed, Disarmed, Rest
<1>15. ASSUME NEW th \in Threads, NEW n \in Timers, PeriodicArm(th, n) PROVE MuInv'
  BY <1>15, Zenon DEF PeriodicArm, Arm, Rest, Unused
<1>16. ASSUME NEW n \in Timers, PeriodicFire(n) PROVE MuInv'
  BY <1>16, Zenon DEF PeriodicFire, Fire
<1>17. ASSUME MadeFinished PROVE MuInv'
  BY <1>17, Zenon DEF MadeFinished
<1>18. CASE UNCHANGED activityVars
  BY <1>18, Zenon DEF activityVars
<1> HIDE DEF MuInv
<1> QED
  BY <1>1, <1>2, <1>3, <1>4, <1>5, <1>6, <1>7, <1>8, <1>9,
     <1>10, <1>11, <1>12, <1>13, <1>14, <1>15, <1>16, <1>17, <1>18, Zenon
  DEF ActivityNext, Step, SetStep

\* Only SetStart starts a task, the check task, and only before the timer has finished.
LEMMA OneTaskStep ==
  ASSUME ActivityTypeOK, MuInv, OneTaskTillTheEnd, [ActivityNext]_activityVars
  PROVE  OneTaskTillTheEnd'
<1> USE TimerAssumption DEF ActivityTypeOK, MuInv, OneTaskTillTheEnd, OneCheckTask, FinishIsFinal, Threads, Setting, timerVars, counters, periodicVars
<1>1. ASSUME Update PROVE OneTaskTillTheEnd'
  BY <1>1, Zenon DEF Update
<1>2. ASSUME NEW c \in Callers, SetTimeout(c) PROVE OneTaskTillTheEnd'
  BY <1>2, Zenon DEF SetTimeout, Ready, Go
<1>3. ASSUME NEW c \in Callers, SetTimeoutZero(c) PROVE OneTaskTillTheEnd'
  BY <1>3, Zenon DEF SetTimeoutZero, Ready, Go
<1>4. ASSUME NEW c \in Callers, SetLock(c) PROVE OneTaskTillTheEnd'
  BY <1>4, Zenon DEF SetLock, Go
<1>5. ASSUME NEW c \in Callers, NEW k \in Tasks, SetClose(c, k) PROVE OneTaskTillTheEnd'
  BY <1>5 DEF SetClose, Go, Fresh, CloseTask, Stopped
<1>6. ASSUME NEW c \in Callers, SetUpdate(c) PROVE OneTaskTillTheEnd'
  BY <1>6, Zenon DEF SetUpdate, Go
<1>7. ASSUME NEW c \in Callers, SetStart(c) PROVE OneTaskTillTheEnd'
  BY <1>7, Zenon DEF SetStart, Go
<1>8. ASSUME NEW c \in Callers, SetUnlock(c) PROVE OneTaskTillTheEnd'
  BY <1>8, Zenon DEF SetUnlock
<1>9. ASSUME NEW th \in Threads, CheckActive(th) PROVE OneTaskTillTheEnd'
  BY <1>9, Zenon DEF CheckActive, Go
<1>10. ASSUME NEW th \in Threads, CheckIdle(th) PROVE OneTaskTillTheEnd'
  BY <1>10, Zenon DEF CheckIdle, Go
<1>11. ASSUME NEW th \in Threads, FinishOnce(th) PROVE OneTaskTillTheEnd'
  BY <1>11, Zenon DEF FinishOnce, Go, AfterFinish
<1>12. ASSUME NEW th \in Threads, FinishLocked(th) PROVE OneTaskTillTheEnd'
  BY <1>12 DEF FinishLocked, Go, AfterFinish, CloseTask, Stopped
<1>13. ASSUME NEW th \in Threads, PeriodicHasClosed(th) PROVE OneTaskTillTheEnd'
  BY <1>13, Zenon DEF PeriodicHasClosed, HasClosed, Rest
<1>14. ASSUME NEW th \in Threads, PeriodicDisarmed(th) PROVE OneTaskTillTheEnd'
  BY <1>14, Zenon DEF PeriodicDisarmed, Disarmed, Rest
<1>15. ASSUME NEW th \in Threads, NEW n \in Timers, PeriodicArm(th, n) PROVE OneTaskTillTheEnd'
  BY <1>15, Zenon DEF PeriodicArm, Arm, Rest, Unused
<1>16. ASSUME NEW n \in Timers, PeriodicFire(n) PROVE OneTaskTillTheEnd'
  BY <1>16, Zenon DEF PeriodicFire, Fire
<1>17. ASSUME MadeFinished PROVE OneTaskTillTheEnd'
  BY <1>17, Zenon DEF MadeFinished
<1>18. CASE UNCHANGED activityVars
  BY <1>18, Zenon DEF activityVars
<1> HIDE DEF OneTaskTillTheEnd
<1> QED
  BY <1>1, <1>2, <1>3, <1>4, <1>5, <1>6, <1>7, <1>8, <1>9,
     <1>10, <1>11, <1>12, <1>13, <1>14, <1>15, <1>16, <1>17, <1>18, Zenon
  DEF ActivityNext, Step, SetStep

LEMMA ActivityStarts == ActivityInit => ActivityTypeOK /\ MuInv
<1> SUFFICES ASSUME ActivityInit PROVE ActivityTypeOK /\ MuInv
  BY Zenon
<1> USE DEF ActivityInit, PeriodicInit, Threads, Setting
<1>1. consumed \in BOOLEAN /\ updatedChan \in BOOLEAN
  BY Zenon
<1>2. /\ running \in [Tasks -> BOOLEAN] /\ timer \in [Tasks -> Timers \cup {NONE}]
      /\ sets \in Nat /\ checkTask = NONE /\ mu = NONE /\ once = "new" /\ quiet = "active"
  BY Zenon
<1>3. pc \in [Threads -> {"idle", "free"}]
  BY Zenon
<1>4. ActivityTypeOK
  BY <1>1, <1>2, <1>3, Zenon DEF ActivityTypeOK
<1>5. MuInv
  BY Zenon DEF MuInv
<1> QED
  BY <1>4, <1>5, Zenon

\* Only the task of the latest timeout runs, and none once the timer has finished,
\* however SetTimeout, checks, updates and timers interleave.
THEOREM OneTask == ActivitySpec => []OneTaskTillTheEnd
<1>1. ActivityInit => ActivityTypeOK /\ MuInv /\ OneTaskTillTheEnd
  <2>1. ActivityInit => OneTaskTillTheEnd
    BY Zenon DEF ActivityInit, PeriodicInit, OneTaskTillTheEnd, OneCheckTask, FinishIsFinal
  <2> QED
    BY <2>1, ActivityStarts, Zenon
<1>2. ActivityTypeOK /\ MuInv /\ OneTaskTillTheEnd /\ [ActivityNext]_activityVars =>
        (ActivityTypeOK /\ MuInv /\ OneTaskTillTheEnd)'
  BY ActivityTypeStep, MuInvStep, OneTaskStep, Zenon
<1> QED
  BY <1>1, <1>2, PTL DEF ActivitySpec

-----------------------------------------------------------------------------
(* ActivityTimer: checks and the time that has passed *)

\* A thread is part of the chain that SetTimeout begins, with its first check, and
\* that goes on from timer to timer; a SetTimeout(0) that finishes is not.
InChain(th) ==
  \/ pc[th] \in Setting \cup {"set", "check", "execute", "arm", "armed"}
  \/ pc[th] \in {"finish", "lock"} /\ (th \in Timers \/ mu = th)

\* One timeout, one chain.
ChainInv ==
  /\ sets = 0 => \A th \in Threads : ~InChain(th)
  /\ sets <= 1 => \A th, u \in Threads : InChain(th) /\ InChain(u) => th = u

\* Unless there is a token, a timer that is armed was armed after the last
\* Update, and a check runs after such a timer has fired.
QuietInv ==
  sets <= 1 =>
    /\ \A th \in Threads : pc[th] \in {"check", "execute"} /\ ~updatedChan => quiet = "elapsed"
    /\ \A th \in Threads : pc[th] = "armed" /\ ~updatedChan => quiet \in {"armed", "elapsed"}
    /\ \A th \in Threads : pc[th] = "start" => updatedChan

\* Closing the check task stops at most the timer it has armed.
LEMMA FinishLockedStops ==
  ASSUME ActivityTypeOK, NEW th \in Threads, FinishLocked(th)
  PROVE  /\ \A u \in Threads \ {th} : pc'[u] \in {pc[u], "free"}
         /\ pc'[th] = AfterFinish(th)
<1> USE DEF ActivityTypeOK, Threads
<1>1. CASE checkTask = NONE
  BY <1>1, Zenon DEF FinishLocked, Go
<1>2. CASE checkTask # NONE
  BY <1>2, Zenon DEF FinishLocked, Stopped
<1> QED
  BY <1>1, <1>2, Zenon

\* A step leaves the chain as long as it is: Arm hands it on.
LEMMA ChainInvStep ==
  ASSUME ActivityTypeOK, MuInv, ChainInv, [ActivityNext]_activityVars
  PROVE  ChainInv'
<1> USE TimerAssumption DEF ActivityTypeOK, MuInv, ChainInv, InChain, Threads, Setting, timerVars, counters, periodicVars
<1>1. ASSUME Update PROVE ChainInv'
  BY <1>1, Zenon DEF Update
<1>2. ASSUME NEW c \in Callers, SetTimeout(c) PROVE ChainInv'
  BY <1>2 DEF SetTimeout, Ready, Go
<1>3. ASSUME NEW c \in Callers, SetTimeoutZero(c) PROVE ChainInv'
  BY <1>3 DEF SetTimeoutZero, Ready, Go
<1>4. ASSUME NEW c \in Callers, SetLock(c) PROVE ChainInv'
  BY <1>4 DEF SetLock, Go
<1>5. ASSUME NEW c \in Callers, NEW k \in Tasks, SetClose(c, k) PROVE ChainInv'
  BY <1>5 DEF SetClose, Go, Fresh, CloseTask, Stopped
<1>6. ASSUME NEW c \in Callers, SetUpdate(c) PROVE ChainInv'
  BY <1>6, Zenon DEF SetUpdate, Go
<1>7. ASSUME NEW c \in Callers, SetStart(c) PROVE ChainInv'
  BY <1>7, Zenon DEF SetStart, Go
<1>8. ASSUME NEW c \in Callers, SetUnlock(c) PROVE ChainInv'
  BY <1>8, Zenon DEF SetUnlock
<1>9. ASSUME NEW th \in Threads, CheckActive(th) PROVE ChainInv'
  BY <1>9, Zenon DEF CheckActive, Go
<1>10. ASSUME NEW th \in Threads, CheckIdle(th) PROVE ChainInv'
  BY <1>10, Zenon DEF CheckIdle, Go
<1>11. ASSUME NEW th \in Threads, FinishOnce(th) PROVE ChainInv'
  BY <1>11 DEF FinishOnce, Go, AfterFinish
<1>12. ASSUME NEW th \in Threads, FinishLocked(th) PROVE ChainInv'
  <2>1. \A u \in Threads \ {th} : pc'[u] \in {pc[u], "free"}
    BY <1>12, FinishLockedStops, Zenon
  <2>2. mu = NONE /\ mu' = mu /\ sets' = sets /\ pc[th] = "lock"
    BY <1>12, Zenon DEF FinishLocked
  <2>3. pc'[th] = IF th \in Callers THEN "idle" ELSE "arm"
    BY <1>12, <2>2, FinishLockedStops, Zenon DEF AfterFinish
  <2>4. \A u \in Threads : InChain(u)' => InChain(u)
    BY <2>1, <2>2, <2>3, Zenon
  <2> QED
    BY <2>2, <2>4, Zenon
<1>13. ASSUME NEW th \in Threads, PeriodicHasClosed(th) PROVE ChainInv'
  BY <1>13, Zenon DEF PeriodicHasClosed, HasClosed, Rest
<1>14. ASSUME NEW th \in Threads, PeriodicDisarmed(th) PROVE ChainInv'
  BY <1>14 DEF PeriodicDisarmed, Disarmed, Rest
<1>15. ASSUME NEW th \in Threads, NEW n \in Timers, PeriodicArm(th, n) PROVE ChainInv'
  BY <1>15 DEF PeriodicArm, Arm, Rest, Unused
<1>16. ASSUME NEW n \in Timers, PeriodicFire(n) PROVE ChainInv'
  BY <1>16, Zenon DEF PeriodicFire, Fire
<1>17. ASSUME MadeFinished PROVE ChainInv'
  BY <1>17, Zenon DEF MadeFinished
<1>18. CASE UNCHANGED activityVars
  BY <1>18, Zenon DEF activityVars
<1> HIDE DEF ChainInv
<1> QED
  BY <1>1, <1>2, <1>3, <1>4, <1>5, <1>6, <1>7, <1>8, <1>9,
     <1>10, <1>11, <1>12, <1>13, <1>14, <1>15, <1>16, <1>17, <1>18, Zenon
  DEF ActivityNext, Step, SetStep

\* Only the one check there is takes the token, and it arms a timer next.
LEMMA QuietInvStep ==
  ASSUME ActivityTypeOK, ChainInv, QuietInv, [ActivityNext]_activityVars
  PROVE  QuietInv'
<1> USE TimerAssumption DEF ActivityTypeOK, ChainInv, QuietInv, InChain, Threads, Setting, timerVars, counters, periodicVars
<1>1. ASSUME Update PROVE QuietInv'
  BY <1>1, Zenon DEF Update
<1>2. ASSUME NEW c \in Callers, SetTimeout(c) PROVE QuietInv'
  BY <1>2 DEF SetTimeout, Ready, Go
<1>3. ASSUME NEW c \in Callers, SetTimeoutZero(c) PROVE QuietInv'
  BY <1>3, Zenon DEF SetTimeoutZero, Ready, Go
<1>4. ASSUME NEW c \in Callers, SetLock(c) PROVE QuietInv'
  BY <1>4 DEF SetLock, Go
<1>5. ASSUME NEW c \in Callers, NEW k \in Tasks, SetClose(c, k) PROVE QuietInv'
  BY <1>5, SetCloseStops, Zenon
<1>6. ASSUME NEW c \in Callers, SetUpdate(c) PROVE QuietInv'
  BY <1>6, Zenon DEF SetUpdate, Go
<1>7. ASSUME NEW c \in Callers, SetStart(c) PROVE QuietInv'
  BY <1>7, Zenon DEF SetStart, Go
<1>8. ASSUME NEW c \in Callers, SetUnlock(c) PROVE QuietInv'
  BY <1>8, Zenon DEF SetUnlock
<1>9. ASSUME NEW th \in Threads, CheckActive(th) PROVE QuietInv'
  BY <1>9, Zenon DEF CheckActive, Go
<1>10. ASSUME NEW th \in Threads, CheckIdle(th) PROVE QuietInv'
  BY <1>10, Zenon DEF CheckIdle, Go
<1>11. ASSUME NEW th \in Threads, FinishOnce(th) PROVE QuietInv'
  BY <1>11 DEF FinishOnce, Go, AfterFinish
<1>12. ASSUME NEW th \in Threads, FinishLocked(th) PROVE QuietInv'
  <2>1. \A u \in Threads : pc'[u] \in {pc[u], "free", "idle", "arm"}
    BY <1>12, FinishLockedStops, Zenon DEF AfterFinish
  <2>2. UNCHANGED <<sets, quiet, updatedChan>>
    BY <1>12, Zenon DEF FinishLocked
  <2> QED
    BY <2>1, <2>2, Zenon
<1>13. ASSUME NEW th \in Threads, PeriodicHasClosed(th) PROVE QuietInv'
  BY <1>13, Zenon DEF PeriodicHasClosed, HasClosed, Rest
<1>14. ASSUME NEW th \in Threads, PeriodicDisarmed(th) PROVE QuietInv'
  BY <1>14, Zenon DEF PeriodicDisarmed, Disarmed, Rest
<1>15. ASSUME NEW th \in Threads, NEW n \in Timers, PeriodicArm(th, n) PROVE QuietInv'
  <2>1. \A u \in Threads \ {n} : pc'[u] \in {pc[u], "free", "idle"}
    BY <1>15, Zenon DEF PeriodicArm, Arm, Rest
  <2>2. pc'[n] = "armed"
    BY <1>15, Zenon DEF PeriodicArm, Arm
  <2>3. UNCHANGED <<sets, updatedChan>> /\ quiet' = IF quiet = "active" THEN "armed" ELSE quiet
    BY <1>15, Zenon DEF PeriodicArm
  <2>4. sets <= 1 => \A u \in Threads : pc[u] \notin {"check", "execute", "armed", "start"}
    BY <1>15, Zenon DEF PeriodicArm, Arm
  <2>5. quiet \in {"active", "armed", "elapsed"}
    BY Zenon
  <2> QED
    BY <2>1, <2>2, <2>3, <2>4, <2>5, Zenon
<1>16. ASSUME NEW n \in Timers, PeriodicFire(n) PROVE QuietInv'
  BY <1>16, Zenon DEF PeriodicFire, Fire
<1>17. ASSUME MadeFinished PROVE QuietInv'
  BY <1>17, Zenon DEF MadeFinished
<1>18. CASE UNCHANGED activityVars
  BY <1>18, Zenon DEF activityVars
<1> HIDE DEF QuietInv
<1> QED
  BY <1>1, <1>2, <1>3, <1>4, <1>5, <1>6, <1>7, <1>8, <1>9,
     <1>10, <1>11, <1>12, <1>13, <1>14, <1>15, <1>16, <1>17, <1>18, Zenon
  DEF ActivityNext, Step, SetStep

\* A check ends a connection only when a whole interval has passed since the last
\* Update, as long as the timeout is set only once (ActivityTimer.check).
THEOREM ChecksAfterInterval == ActivitySpec => IdleFirst
<1> DEFINE Inv == ActivityTypeOK /\ MuInv /\ ChainInv /\ QuietInv
<1>1. ActivityInit => Inv
  <2> SUFFICES ASSUME ActivityInit PROVE Inv
    BY Zenon
  <2>1. ActivityTypeOK /\ MuInv
    BY ActivityStarts, Zenon
  <2>2. \A th \in Threads : pc[th] \in {"idle", "free"}
    BY Zenon DEF ActivityInit, PeriodicInit, Threads
  <2> QED
    BY <2>1, <2>2, Zenon DEF ChainInv, QuietInv, InChain, Setting
<1>2. Inv /\ [ActivityNext]_activityVars => Inv'
  BY ActivityTypeStep, MuInvStep, ChainInvStep, QuietInvStep, Zenon
<1>3. Inv /\ [ActivityNext]_activityVars => [ChecksElapsed]_activityVars
  BY Zenon DEF QuietInv, ChecksElapsed, CheckIdle
<1> QED
  BY <1>1, <1>2, <1>3, PTL DEF ActivitySpec, IdleFirst
=============================================================================
