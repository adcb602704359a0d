----------------------------- MODULE MCPlumbing -----------------------------
(***************************************************************************)
(* What sessions are built of, on small instances: a behaviour is that of  *)
(* one component, and the pipe and the tasks stay new in those of others.  *)
(*   pipe      the pipes of transport/pipe                                 *)
(*   periodic  the tasks of common/task                                    *)
(*   channel   the channels of app/stats                                   *)
(*   logger    the log                                                     *)
(***************************************************************************)
EXTENDS Pipe, Periodic

VARIABLES component, blocking, chState, published, cancelled, waiting, channel,
          current, sending, subs, buffer, shut, chReceived, taken, panicked,
          currentLog, active, logBuffer, access, done, runner, held,
          dataWritten, handling, count, out, late, fails

Msg == INSTANCE LogAndStats WITH
  MaxMessages <- 3, Subscribers <- {1}, BufferSize <- 1, SubsLimit <- 0,
  Producers <- {1, 2}, Generations <- 2, MaxLogs <- 4, LogBufferSize <- 2,
  MaxFails <- 1, Filtered <- {2}

-----------------------------------------------------------------------------
allVars == <<component, discardOverflow, data, state, readSignal, writeSignal,
             errChan, rpc, rop, wpc, written, accepted, received, running,
             timer, pc, work, blocking, chState, published, cancelled, waiting,
             channel, current, sending, subs, buffer, shut, chReceived, taken,
             panicked, currentLog, active, logBuffer, access, done, runner,
             held, dataWritten, handling, count, out, late, fails>>

AtPipe ==
  /\ component = "pipe"
  /\ UNCHANGED <<component, running, timer, pc, work, blocking, chState,
                 published, cancelled, waiting, channel, current, sending,
                 subs, buffer, shut, chReceived, taken, panicked, currentLog,
                 active, logBuffer, access, done, runner, held, dataWritten,
                 handling, count, out, late, fails>>

AtPeriodic ==
  /\ component = "periodic"
  /\ UNCHANGED <<component, discardOverflow, data, state, readSignal,
                 writeSignal, errChan, rpc, rop, wpc, written, accepted,
                 received, blocking, chState, published, cancelled, waiting,
                 channel, current, sending, subs, buffer, shut, chReceived,
                 taken, panicked, currentLog, active, logBuffer, access, done,
                 runner, held, dataWritten, handling, count, out, late, fails>>

AtChannel ==
  /\ component = "channel"
  /\ UNCHANGED <<component, discardOverflow, data, state, readSignal,
                 writeSignal, errChan, rpc, rop, wpc, written, accepted,
                 received, running, timer, pc, work, currentLog, active,
                 logBuffer, access, done, runner, held, dataWritten, handling,
                 count, out, late, fails>>

AtLogger ==
  /\ component = "logger"
  /\ UNCHANGED <<component, discardOverflow, data, state, readSignal,
                 writeSignal, errChan, rpc, rop, wpc, written, accepted,
                 received, running, timer, pc, work, blocking, chState,
                 published, cancelled, waiting, channel, current, sending,
                 subs, buffer, shut, chReceived, taken, panicked>>

AllInit ==
  \/ /\ component = "pipe"
     /\ Init
     /\ PeriodicInit
     /\ blocking = 0 /\ chState = 0 /\ published = 0 /\ cancelled = 0
     /\ waiting = 0 /\ channel = 0 /\ current = 0 /\ sending = 0 /\ subs = 0
     /\ buffer = 0 /\ shut = 0 /\ chReceived = 0 /\ taken = 0 /\ panicked = 0
     /\ currentLog = 0 /\ active = 0 /\ logBuffer = 0 /\ access = 0
     /\ done = 0 /\ runner = 0 /\ held = 0 /\ dataWritten = 0 /\ handling = 0
     /\ count = 0 /\ out = 0 /\ late = 0 /\ fails = 0
  \/ /\ component = "periodic"
     /\ PeriodicInit
     /\ Init /\ ~discardOverflow
     /\ blocking = 0 /\ chState = 0 /\ published = 0 /\ cancelled = 0
     /\ waiting = 0 /\ channel = 0 /\ current = 0 /\ sending = 0 /\ subs = 0
     /\ buffer = 0 /\ shut = 0 /\ chReceived = 0 /\ taken = 0 /\ panicked = 0
     /\ currentLog = 0 /\ active = 0 /\ logBuffer = 0 /\ access = 0
     /\ done = 0 /\ runner = 0 /\ held = 0 /\ dataWritten = 0 /\ handling = 0
     /\ count = 0 /\ out = 0 /\ late = 0 /\ fails = 0
  \/ /\ component = "channel"
     /\ Msg!ChannelInit
     /\ Init /\ ~discardOverflow
     /\ PeriodicInit
     /\ currentLog = 0 /\ active = 0 /\ logBuffer = 0 /\ access = 0
     /\ done = 0 /\ runner = 0 /\ held = 0 /\ dataWritten = 0 /\ handling = 0
     /\ count = 0 /\ out = 0 /\ late = 0 /\ fails = 0
  \/ /\ component = "logger"
     /\ Msg!LogInit
     /\ Init /\ ~discardOverflow
     /\ PeriodicInit
     /\ blocking = 0 /\ chState = 0 /\ published = 0 /\ cancelled = 0
     /\ waiting = 0 /\ channel = 0 /\ current = 0 /\ sending = 0 /\ subs = 0
     /\ buffer = 0 /\ shut = 0 /\ chReceived = 0 /\ taken = 0 /\ panicked = 0

AllNext ==
  \/ AtPipe /\ Next
  \/ AtPeriodic /\ PeriodicNext
  \/ AtChannel /\ Msg!ChannelNext
  \/ AtLogger /\ Msg!LogNext

\* The fairness of each component: its threads run, its timers fire.
PlumbingSpec ==
  /\ AllInit /\ [][AllNext]_allVars
  /\ WF_allVars(\/ AtPipe /\ \E rd \in Readers : ReaderStep(rd)
                \/ AtChannel /\ Msg!Loop)
  /\ WF_allVars(\/ AtPipe /\ \E rd \in Readers : ReadCall(rd, "Read")
                \/ AtChannel /\ Msg!Goroutines)
  /\ \A tm \in Timers : WF_allVars(AtPeriodic /\ Fire(tm))
  /\ \A th \in Threads : WF_allVars(AtPeriodic /\ PeriodicStep(th))
  /\ \A c \in Callers : WF_allVars(AtPeriodic /\ StartFailed(c))
  /\ \A w \in Writers : SF_allVars(AtPipe /\ WriterStep(w))

-----------------------------------------------------------------------------
(* Properties *)

\* Subscribers of a channel get what is published in order and once; the log is
\* written in order, and what waits has someone to write it.
MessagesInOrder ==
  /\ component = "channel" => Msg!ReceivedInOrder
  /\ component = "logger" => Msg!LogIsKept

\* A running task is executed again unless it is stopped (checkedExecute), one that
\* stays closed comes to rest (Periodic), and what the loop of a channel took has
\* reached its subscribers (Channel).
TasksGoOn ==
  \A k \in Tasks :
    /\ (component = "periodic" /\ running[k]) ~> (component = "periodic" /\ StoppedOrExecuted(k))
    /\ <>[](component = "periodic" => ~running[k])
         => <>[](/\ component = "periodic" => Alive(k) \cup Failing(k) = {}
                 /\ component = "channel" => Msg!AllDelivered)
=============================================================================
