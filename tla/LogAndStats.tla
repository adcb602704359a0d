---------------------------- MODULE LogAndStats -----------------------------
(****************************************************************************)
(* Messages that leave the core: the log (common/log) and the channels of   *)
(* app/stats, each a buffered queue and the goroutine that serves it.       *)
(****************************************************************************)
EXTENDS Naturals, Sequences, SequencesExt, FiniteSets

(***************************************************************************)
(* app/log.Instance and common/log.generalLogger: any goroutine may record *)
(* a message; it goes into a channel, and a goroutine `run`, started on    *)
(* demand and ended after a minute without work, writes what it finds      *)
(* there.  A second Instance (a new core) has a logger, channel and run of *)
(* its own; generation g is the g-th Instance.  The access and the error   *)
(* logger are two independent ones: the model has one of them, and the     *)
(* messages its Instance does not send to it are those of `Filtered`.      *)
(* Formatting and the masking of addresses are left out.                   *)
(***************************************************************************)

CONSTANTS Producers, Generations, MaxLogs, LogBufferSize, MaxFails,
          Filtered      \* messages whose type or severity is not logged

VARIABLES currentLog,      \* the Instance log.RegisterHandler was called with
          active,       \* generation -> Instance.active
          logBuffer,       \* generation -> channel of messages
          access,       \* generation -> the semaphore's token is there
          done,         \* generation -> generalLogger.done is closed
          runner,       \* generation -> where its run goroutine is
          held,         \* generation -> message taken, not yet written
          dataWritten,  \* generation -> written since the last tick
          handling,     \* producer -> generation it is in Handle of, or 0
          count,        \* messages recorded
          out,          \* generation -> what its run has written
          late,         \* generation -> a message came when run was ending
          fails         \* failed attempts to open the file

logVars == <<currentLog, active, logBuffer, access, done, runner, held, dataWritten,
             handling, count, out, late, fails>>

Idle == 0

LogInit ==
  /\ currentLog = 1
  /\ active = [g \in 1..Generations |-> g = 1]
  /\ logBuffer = [g \in 1..Generations |-> <<>>]
  /\ access = [g \in 1..Generations |-> TRUE]
  /\ done = [g \in 1..Generations |-> FALSE]
  /\ runner = [g \in 1..Generations |-> "none"]
  /\ held = [g \in 1..Generations |-> 0]
  /\ dataWritten = [g \in 1..Generations |-> FALSE]
  /\ handling = [p \in Producers |-> Idle]
  /\ count = 0
  /\ out = [g \in 1..Generations |-> <<>>]
  /\ late = [g \in 1..Generations |-> FALSE]
  /\ fails = 0

\* Instance.Handle as far as the first select of generalLogger.Handle: the
\* message enters the channel unless it is full.
Handle(p) ==
    LET m == count + 1
        g == currentLog
        sent == Len(logBuffer[g]) < LogBufferSize
    IN  /\ handling[p] = Idle /\ count < MaxLogs
        /\ count' = m
        /\ IF active[g] /\ m \notin Filtered
           THEN /\ handling' = [handling EXCEPT ![p] = g]
                /\ logBuffer' = IF sent THEN [logBuffer EXCEPT ![g] = Append(@, m)] ELSE logBuffer
                /\ late' = [late EXCEPT ![g] = @ \/ (sent /\ runner[g] = "exit")]
           ELSE UNCHANGED <<handling, logBuffer, late>>
        /\ UNCHANGED <<currentLog, active, access, done, runner, held, dataWritten, out, fails>>

\* The second select: with the semaphore's token, a goroutine is started.
StartRun(p) ==
    LET g == handling[p]
    IN  /\ g # Idle
        /\ handling' = [handling EXCEPT ![p] = Idle]
        /\ access' = [access EXCEPT ![g] = FALSE]
        /\ IF access[g]
           THEN /\ runner' = [runner EXCEPT ![g] = "open"]
                /\ dataWritten' = [dataWritten EXCEPT ![g] = FALSE]
                /\ late' = [late EXCEPT ![g] = FALSE]
           ELSE UNCHANGED <<runner, dataWritten, late>>
        /\ UNCHANGED <<currentLog, active, logBuffer, done, held, count, out, fails>>

(* run *)

To(g, pc) == runner' = [runner EXCEPT ![g] = pc]

\* logger := l.creator(): a file that cannot be opened gives nil.
Open(g) ==
    /\ runner[g] = "open"
    /\ \/ To(g, "loop") /\ UNCHANGED <<fails, late>>
       \/ /\ fails < MaxFails
          /\ fails' = fails + 1
          /\ To(g, "exit")
          /\ late' = [late EXCEPT ![g] = logBuffer[g] # <<>>]
    /\ UNCHANGED <<currentLog, active, logBuffer, access, done, held, dataWritten, handling, count, out>>

LogTake(g) ==
  /\ runner[g] = "loop" /\ logBuffer[g] # <<>>
  /\ held' = [held EXCEPT ![g] = Head(logBuffer[g])]
  /\ logBuffer' = [logBuffer EXCEPT ![g] = Tail(@)]
  /\ To(g, "write")
  /\ UNCHANGED <<currentLog, active, access, done, dataWritten, handling, count, out, late, fails>>

Write(g) ==
    /\ runner[g] = "write"
    /\ out' = [out EXCEPT ![g] = Append(@, held[g])]
    /\ held' = [held EXCEPT ![g] = 0]
    /\ dataWritten' = [dataWritten EXCEPT ![g] = TRUE]
    /\ To(g, "loop")
    /\ UNCHANGED <<currentLog, active, logBuffer, access, done, handling, count, late, fails>>

\* case <-ticker.C: a minute in which nothing was written ends the goroutine.
\* The select may choose it although a message has just arrived.
Tick(g) ==
    /\ runner[g] = "loop"
    /\ dataWritten' = [dataWritten EXCEPT ![g] = FALSE]
    /\ IF dataWritten[g] THEN UNCHANGED <<runner, late>>
       ELSE To(g, "exit") /\ late' = [late EXCEPT ![g] = logBuffer[g] # <<>>]
    /\ UNCHANGED <<currentLog, active, logBuffer, access, done, held, handling, count, out, fails>>

Stop(g) ==
    /\ runner[g] = "loop" /\ done[g]
    /\ To(g, "exit")
    /\ UNCHANGED <<currentLog, active, logBuffer, access, done, held, dataWritten, handling, count, out, late, fails>>

\* Mutant: the token is not given back.
ExitKeepsToken(g) ==
    /\ runner[g] = "exit"
    /\ To(g, "none")
    /\ dataWritten' = [dataWritten EXCEPT ![g] = FALSE]
    /\ UNCHANGED <<currentLog, active, logBuffer, access, done, held, handling, count, out, late, fails>>

\* The deferred calls: the writer is closed, then the token given back.
Exit(g) ==
    /\ runner[g] = "exit"
    /\ To(g, "none")
    /\ access' = [access EXCEPT ![g] = TRUE]
    /\ dataWritten' = [dataWritten EXCEPT ![g] = FALSE]
    /\ UNCHANGED <<currentLog, active, logBuffer, done, held, handling, count, out, late, fails>>

(* Instance *)

\* Instance.Close takes the lock that every Handle in progress shares.
LogClose(g) ==
  /\ active[g]
  /\ \A p \in Producers : handling[p] # g
  /\ active' = [active EXCEPT ![g] = FALSE]
  /\ done' = [done EXCEPT ![g] = TRUE]
  /\ UNCHANGED <<currentLog, logBuffer, access, runner, held, dataWritten, handling, count, out, late, fails>>

\* New registers the Instance before it has a logger: syncHandler.Set waits
\* for every message in progress, and startInternal follows at once.
NewInstance ==
    /\ currentLog < Generations
    /\ \A p \in Producers : handling[p] = Idle
    /\ currentLog' = currentLog + 1
    /\ active' = [active EXCEPT ![currentLog + 1] = TRUE]
    /\ UNCHANGED <<logBuffer, access, done, runner, held, dataWritten, handling, count, out, late, fails>>

Run(g) == Open(g) \/ LogTake(g) \/ Write(g) \/ Stop(g) \/ Exit(g)

LogNext ==
  \/ \E p \in Producers : Handle(p) \/ StartRun(p)
  \/ \E g \in 1..Generations : Run(g) \/ Tick(g) \/ LogClose(g)
  \/ NewInstance

LogSpec == LogInit /\ [][LogNext]_logVars

Increasing(s) == \A i, j \in DOMAIN s : i < j => s[i] < s[j]

(* The messages of a logger are written in the order they came, each once:  *)
(* what has been written, what run holds and what waits is increasing,      *)
(* although run is ended and started again at any time (semaphore `access`).*)
(* A message waits with no run to write it, none about to be started and    *)
(* the logger open only if it met a run that had already decided to end, or *)
(* could not open its file: nothing else loses a wake-up.                   *)
LogIsKept ==
    \A g \in 1..Generations :
        /\ Increasing(out[g] \o SelectSeq(<<held[g]>>, LAMBDA m : m # 0) \o logBuffer[g])
        /\ /\ logBuffer[g] # <<>> /\ ~done[g] /\ runner[g] = "none"
           /\ \A p \in Producers : handling[p] # g
           => late[g]

-----------------------------------------------------------------------------
(***************************************************************************)
(* app/stats, a channel of the statistics manager: publishers, the loop that *)
(* hands messages on, and subscribers that come, go and read as they like.   *)
(* A channel that does not block starts a goroutine for what does not fit.   *)
(* The manager starts a channel once and forgets it when it closes it.       *)
(***************************************************************************)

CONSTANTS
  MaxMessages,  \* bound: messages published
  Subscribers,  \* bound: calls of Subscribe
  BufferSize,
  SubsLimit     \* subsLimit, 0 for none

Messages == 1..MaxMessages
Nothing == [msg |-> 0, to |-> <<>>]

VARIABLES
  blocking,     \* configuration
  chState,        \* new, running, closed (the signal is given) or ended (the loop is)
  published,    \* messages Publish was called for
  cancelled,    \* messages whose context is cancelled
  waiting,      \* messages in publish, by the caller or a goroutine
  channel,      \* c.channel
  current,      \* the message in the loop, and the subscribers it is still to go to
  sending,      \* goroutines of broadcast: <<message, subscriber>>
  subs,         \* c.subscribers
  buffer,       \* [Subscribers -> the subscriber's channel]
  shut,         \* subscribers whose channel is closed
  chReceived,     \* [Subscribers -> messages read]
  taken,        \* history: what the loop has taken, [msg, to] in order
  panicked      \* a goroutine has sent on a closed channel

channelVars == <<blocking, chState, published, cancelled, waiting, channel, current, sending, subs,
                 buffer, shut, chReceived, taken, panicked>>

\* NewChannel
ChannelInit ==
  /\ blocking \in BOOLEAN
  /\ chState = "new" /\ published = 0
  /\ cancelled = {} /\ waiting = {} /\ channel = <<>> /\ current = Nothing /\ sending = {}
  /\ subs = <<>>
  /\ buffer = [s \in Subscribers |-> <<>>] /\ chReceived = buffer
  /\ shut = {} /\ taken = <<>> /\ panicked = FALSE

\* Manager.Start, or RegisterChannel of a running manager.
Start ==
  /\ chState = "new"
  /\ chState' = "running"
  /\ UNCHANGED <<blocking, published, cancelled, waiting, channel, current, sending, subs,
                 buffer, shut, chReceived, taken, panicked>>

\* Manager.Close or UnregisterChannel.
Close ==
  /\ chState = "running"
  /\ chState' = "closed"
  /\ UNCHANGED <<blocking, published, cancelled, waiting, channel, current, sending, subs,
                 buffer, shut, chReceived, taken, panicked>>

\* Subscribe; a channel is used once here.
Subscribe(s) ==
  /\ s \notin Range(subs) \cup shut /\ buffer[s] = <<>> /\ chReceived[s] = <<>>
  /\ SubsLimit = 0 \/ Len(subs) < SubsLimit
  /\ subs' = Append(subs, s)
  /\ UNCHANGED <<blocking, chState, published, cancelled, waiting, channel, current, sending,
                 buffer, shut, chReceived, taken, panicked>>

\* Unsubscribe; the channel is not closed.
Unsubscribe(s) ==
  /\ s \in Range(subs)
  /\ subs' = SelectSeq(subs, LAMBDA u : u # s)
  /\ UNCHANGED <<blocking, chState, published, cancelled, waiting, channel, current, sending,
                 buffer, shut, chReceived, taken, panicked>>

\* Publish: the message goes into the channel, or waits for room.
Publish ==
  /\ published < MaxMessages /\ chState \in {"new", "running"}
  /\ published' = published + 1
  /\ IF Len(channel) < BufferSize
     THEN channel' = Append(channel, published + 1) /\ UNCHANGED waiting
     ELSE waiting' = waiting \cup {published + 1} /\ UNCHANGED channel
  /\ UNCHANGED <<blocking, chState, cancelled, current, sending, subs, buffer, shut, chReceived, taken, panicked>>

\* publish of a message that has waited.
PublishWaiting(m) ==
  /\ m \in waiting
  /\ \/ Len(channel) < BufferSize /\ channel' = Append(channel, m)
     \/ m \in cancelled /\ UNCHANGED channel
  /\ waiting' = waiting \ {m}
  /\ UNCHANGED <<blocking, chState, published, cancelled, current, sending, subs, buffer, shut, chReceived, taken, panicked>>

\* The context of a message ends.
Cancel(m) ==
  /\ m <= published /\ m \notin cancelled
  /\ cancelled' = cancelled \cup {m}
  /\ UNCHANGED <<blocking, chState, published, waiting, channel, current, sending, subs,
                 buffer, shut, chReceived, taken, panicked>>

\* The loop takes a message, and the subscribers of the moment.  It may do so when
\* the channel is closed as well: the select chooses.
Take ==
  /\ chState \in {"running", "closed"} /\ current = Nothing /\ channel # <<>>
  /\ current' = [msg |-> Head(channel), to |-> subs]
  /\ channel' = Tail(channel)
  /\ taken' = Append(taken, [msg |-> Head(channel), to |-> Range(subs)])
  /\ UNCHANGED <<blocking, chState, published, cancelled, waiting, sending, subs, buffer, shut, chReceived, panicked>>

\* Mutant: a blocking channel does not wait either.
BroadcastNever ==
  LET m == current.msg  s == Head(current.to)
  IN  /\ current.to # <<>>
      /\ \/ /\ Len(buffer[s]) < BufferSize
            /\ buffer' = [buffer EXCEPT ![s] = Append(@, m)]
            /\ UNCHANGED sending
         \/ /\ Len(buffer[s]) = BufferSize
            /\ sending' = sending \cup {<<m, s>>}
            /\ UNCHANGED buffer
      /\ current' = IF Len(current.to) = 1 THEN Nothing ELSE [current EXCEPT !.to = Tail(@)]
      /\ UNCHANGED <<blocking, chState, published, cancelled, waiting, channel, subs, shut, chReceived, taken, panicked>>

\* broadcast and broadcastNonBlocking to the next subscriber.
Broadcast ==
  LET m == current.msg  s == Head(current.to)
  IN  /\ current.to # <<>>
      /\ \/ /\ Len(buffer[s]) < BufferSize
            /\ buffer' = [buffer EXCEPT ![s] = Append(@, m)]
            /\ UNCHANGED sending
         \/ blocking /\ m \in cancelled /\ UNCHANGED <<buffer, sending>>
         \/ /\ ~blocking /\ Len(buffer[s]) = BufferSize
            /\ sending' = sending \cup {<<m, s>>}
            /\ UNCHANGED buffer
      /\ current' = IF Len(current.to) = 1 THEN Nothing ELSE [current EXCEPT !.to = Tail(@)]
      /\ UNCHANGED <<blocking, chState, published, cancelled, waiting, channel, subs, shut, chReceived, taken, panicked>>

\* A message for no subscriber is gone.
BroadcastNone ==
  /\ current # Nothing /\ current.to = <<>>
  /\ current' = Nothing
  /\ UNCHANGED <<blocking, chState, published, cancelled, waiting, channel, sending, subs,
                 buffer, shut, chReceived, taken, panicked>>

\* A goroutine of broadcast goes on, is cancelled, or finds the channel closed.
BroadcastWaiting(m, s) ==
  /\ <<m, s>> \in sending
  /\ sending' = sending \ {<<m, s>>}
  /\ \/ /\ s \notin shut /\ Len(buffer[s]) < BufferSize
        /\ buffer' = [buffer EXCEPT ![s] = Append(@, m)]
        /\ UNCHANGED panicked
     \/ m \in cancelled /\ UNCHANGED <<buffer, panicked>>
     \/ s \in shut /\ panicked' = TRUE /\ UNCHANGED buffer
  /\ UNCHANGED <<blocking, chState, published, cancelled, waiting, channel, current, subs, shut, chReceived, taken>>

\* The loop sees the signal: every subscriber is removed and its channel closed.
End ==
  /\ chState = "closed" /\ current = Nothing
  /\ chState' = "ended"
  /\ shut' = shut \cup Range(subs) /\ subs' = <<>>
  /\ UNCHANGED <<blocking, published, cancelled, waiting, channel, current, sending, buffer, chReceived, taken, panicked>>

\* A subscriber reads.
Receive(s) ==
  /\ buffer[s] # <<>>
  /\ chReceived' = [chReceived EXCEPT ![s] = Append(@, Head(buffer[s]))]
  /\ buffer' = [buffer EXCEPT ![s] = Tail(@)]
  /\ UNCHANGED <<blocking, chState, published, cancelled, waiting, channel, current, sending, subs, shut, taken, panicked>>

Loop == Take \/ Broadcast \/ BroadcastNone \/ End
Goroutines ==
  \/ \E m \in Messages : PublishWaiting(m) \/ \E s \in Subscribers : BroadcastWaiting(m, s)
  \/ \E s \in Subscribers : Receive(s)

ChannelNext ==
  \/ Start \/ Close \/ Publish \/ Loop \/ Goroutines
  \/ \E m \in Messages : Cancel(m)
  \/ \E s \in Subscribers : Subscribe(s) \/ Unsubscribe(s)

ChannelSpec == ChannelInit /\ [][ChannelNext]_channelVars

\* The loop and the goroutines run, and subscribers read.
ChannelFairSpec == ChannelSpec /\ WF_channelVars(Loop) /\ WF_channelVars(Goroutines)

-----------------------------------------------------------------------------
(* Properties *)

\* A subscriber gets no message twice and, from a channel that blocks, all in the
\* order in which the loop has taken them, whatever waits or is cancelled.
ReceivedInOrder ==
  \A s \in Subscribers :
    LET all == chReceived[s] \o buffer[s]
        place(m) == CHOOSE i \in DOMAIN taken : taken[i].msg = m
    IN  /\ IsInjective(all)
        /\ blocking => \A i, j \in DOMAIN all : i < j => place(all[i]) < place(all[j])

\* "the published message with guaranteed delivery": what the loop has taken
\* reaches everyone who was subscribed then, unless its context is cancelled or
\* the channel is closed.
AllDelivered ==
  \A i \in DOMAIN taken : \A s \in taken[i].to :
    \/ taken[i].msg \in cancelled \cup Range(chReceived[s])
    \/ chState \in {"closed", "ended"}
Delivered == <>[]AllDelivered

=============================================================================
