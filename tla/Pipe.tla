-------------------------------- MODULE Pipe --------------------------------
(***************************************************************************)
(* transport/pipe: the in-memory pipe between an inbound and an outbound   *)
(* connection, with its two one-token notifiers (common/signal), its done  *)
(* instance and its error channel.                                         *)
(*                                                                         *)
(* Everything between Lock and Unlock is one step; a Signal after the      *)
(* Unlock, and the select a blocked reader or writer waits in, are steps   *)
(* of their own.  A MultiBuffer is a message, all of size 1: the limit     *)
(* counts messages.                                                        *)
(***************************************************************************)
EXTENDS Integers, Sequences

CONSTANTS
  Readers, Writers,
  MaxWrites,        \* bound: messages each writer writes
  Limit             \* option.limit; negative: no limit

ASSUME PipeAssumption ==
  /\ MaxWrites \in Nat
  /\ Limit \in Int

Msgs == Writers \X (1..MaxWrites)

VARIABLES
  discardOverflow,  \* the option, which never changes
  data,         \* the buffered messages
  state,        \* "open", "closed", "errord"
  readSignal,   \* is there a token in the channel of the notifier?
  writeSignal,
  errChan,      \* does the error channel (capacity 1) hold an error?
  rpc,          \* where each reader is
  rop,          \* which of the two read operations it is in
  wpc,          \* where each writer is
  written,      \* how many writes each writer has begun
  accepted,     \* history: messages in the order the pipe took them
  received      \* history: messages in the order readers took them

pipeVars == <<discardOverflow, data, state, readSignal, writeSignal, errChan>>
readerVars == <<rpc, rop>>
writerVars == <<wpc, written>>
history == <<accepted, received>>
vars == <<pipeVars, readerVars, writerVars, history>>

Init ==
  /\ discardOverflow \in BOOLEAN
  /\ data = <<>>
  /\ state = "open"
  /\ readSignal = FALSE
  /\ writeSignal = FALSE
  /\ errChan = FALSE
  /\ rpc = [r \in Readers |-> "idle"]
  /\ rop = [r \in Readers |-> "Read"]
  /\ wpc = [w \in Writers |-> "idle"]
  /\ written = [w \in Writers |-> 0]
  /\ accepted = <<>>
  /\ received = <<>>

\* pipeOption.isFull; pipe.done is closed in the step that leaves "open".
IsFull == Limit >= 0 /\ Len(data) > Limit
Done == state # "open"

-----------------------------------------------------------------------------
(* ReadMultiBuffer and ReadMultiBufferTimeout *)

ReadCall(r, op) ==
  /\ rpc[r] = "idle"
  /\ rpc' = [rpc EXCEPT ![r] = "try"]
  /\ rop' = [rop EXCEPT ![r] = op]
  /\ UNCHANGED <<pipeVars, writerVars, history>>

\* Mutant: a pipe that has been closed returns io.EOF beside buffered data.
ReadTryEOF(r) ==
  /\ rpc[r] = "try"
  /\ IF Done \/ data = <<>>
       THEN /\ rpc' = [rpc EXCEPT ![r] = IF Done THEN "signal" ELSE "wait"]
            /\ UNCHANGED <<data, received>>
       ELSE /\ data' = <<>>
            /\ received' = received \o data
            /\ rpc' = [rpc EXCEPT ![r] = "signal"]
  /\ UNCHANGED <<discardOverflow, state, readSignal, writeSignal, errChan, rop, writerVars, accepted>>

\* readMultiBufferInternal: an error, all that is buffered, or nothing yet.
ReadTry(r) ==
  /\ rpc[r] = "try"
  /\ IF state = "errord" \/ data = <<>>
       THEN /\ rpc' = [rpc EXCEPT ![r] = IF Done THEN "signal" ELSE "wait"]
            /\ UNCHANGED <<data, received>>
       ELSE /\ data' = <<>>
            /\ received' = received \o data
            /\ rpc' = [rpc EXCEPT ![r] = "signal"]
  /\ UNCHANGED <<discardOverflow, state, readSignal, writeSignal, errChan, rop, writerVars, accepted>>

\* Mutant: a read does not tell the writers that there is room.
ReadReturnQuiet(r) ==
  /\ rpc[r] = "signal"
  /\ rpc' = [rpc EXCEPT ![r] = "idle"]
  /\ UNCHANGED <<pipeVars, rop, writerVars, history>>

\* p.writeSignal.Signal() before every return of data or of an error.
ReadReturn(r) ==
  /\ rpc[r] = "signal"
  /\ writeSignal' = TRUE
  /\ rpc' = [rpc EXCEPT ![r] = "idle"]
  /\ UNCHANGED <<discardOverflow, data, state, readSignal, errChan, rop, writerVars, history>>

ReadWake(r) ==
  /\ rpc[r] = "wait"
  /\ \/ readSignal /\ readSignal' = FALSE
     \/ Done /\ UNCHANGED readSignal
  /\ rpc' = [rpc EXCEPT ![r] = "try"]
  /\ UNCHANGED <<discardOverflow, data, state, writeSignal, errChan, rop, writerVars, history>>

\* case err = <-p.errChan: only ReadMultiBuffer waits for it.
ReadError(r) ==
  /\ rpc[r] = "wait" /\ rop[r] = "Read"
  /\ errChan
  /\ errChan' = FALSE
  /\ rpc' = [rpc EXCEPT ![r] = "idle"]
  /\ UNCHANGED <<discardOverflow, data, state, readSignal, writeSignal, rop, writerVars, history>>

\* case <-timer.C
ReadTimeout(r) ==
  /\ rpc[r] = "wait" /\ rop[r] = "ReadTimeout"
  /\ rpc' = [rpc EXCEPT ![r] = "idle"]
  /\ UNCHANGED <<pipeVars, rop, writerVars, history>>

-----------------------------------------------------------------------------
(* WriteMultiBuffer *)

WriteCall(w) ==
  /\ wpc[w] = "idle"
  /\ written[w] < MaxWrites
  /\ written' = [written EXCEPT ![w] = @ + 1]
  /\ wpc' = [wpc EXCEPT ![w] = "try"]
  /\ UNCHANGED <<pipeVars, readerVars, history>>

Message(w) == <<w, written[w]>>

\* Mutant: a writer that fills an empty buffer does not signal.
WriteTryQuiet(w) ==
  /\ wpc[w] = "try"
  /\ \/ /\ state = "open" /\ ~IsFull
        /\ data' = Append(data, Message(w))
        /\ accepted' = Append(accepted, Message(w))
        /\ wpc' = [wpc EXCEPT ![w] = IF data = <<>> THEN "idle" ELSE "signal"]
     \/ /\ state = "open" /\ IsFull
        /\ wpc' = [wpc EXCEPT ![w] = IF discardOverflow THEN "idle" ELSE "wait"]
        /\ UNCHANGED <<data, accepted>>
     \/ /\ Done
        /\ wpc' = [wpc EXCEPT ![w] = "signal"]
        /\ UNCHANGED <<data, accepted>>
  /\ UNCHANGED <<discardOverflow, state, readSignal, writeSignal, errChan, readerVars, written, received>>

\* Mutant: a merge puts the new message first.
WriteTryInFront(w) ==
  /\ wpc[w] = "try"
  /\ state = "open" /\ ~IsFull
  /\ data' = <<Message(w)>> \o data
  /\ accepted' = Append(accepted, Message(w))
  /\ wpc' = [wpc EXCEPT ![w] = "signal"]
  /\ UNCHANGED <<discardOverflow, state, readSignal, writeSignal, errChan, readerVars, written, received>>

\* writeMultiBufferInternal and the tests of its result.
WriteTry(w) ==
  /\ wpc[w] = "try"
  /\ \/ /\ state = "open" /\ ~IsFull
        /\ data' = Append(data, Message(w))
        /\ accepted' = Append(accepted, Message(w))
        /\ wpc' = [wpc EXCEPT ![w] = "signal"]
     \/ /\ state = "open" /\ IsFull
        /\ wpc' = [wpc EXCEPT ![w] = IF discardOverflow THEN "idle" ELSE "wait"]
        /\ UNCHANGED <<data, accepted>>
     \/ /\ Done
        /\ wpc' = [wpc EXCEPT ![w] = "signal"]
        /\ UNCHANGED <<data, accepted>>
  /\ UNCHANGED <<discardOverflow, state, readSignal, writeSignal, errChan, readerVars, written, received>>

\* p.readSignal.Signal() before the return of nil or io.ErrClosedPipe.
WriteReturn(w) ==
  /\ wpc[w] = "signal"
  /\ readSignal' = TRUE
  /\ wpc' = [wpc EXCEPT ![w] = "idle"]
  /\ UNCHANGED <<discardOverflow, data, state, writeSignal, errChan, readerVars, written, history>>

\* The select of a writer that found the pipe full; on done it gives up.
WriteWake(w) ==
  /\ wpc[w] = "wait"
  /\ \/ /\ writeSignal
        /\ writeSignal' = FALSE
        /\ wpc' = [wpc EXCEPT ![w] = "try"]
     \/ /\ Done
        /\ wpc' = [wpc EXCEPT ![w] = "idle"]
        /\ UNCHANGED writeSignal
  /\ UNCHANGED <<discardOverflow, data, state, readSignal, errChan, readerVars, written, history>>

-----------------------------------------------------------------------------
Close ==
  /\ state = "open"
  /\ state' = "closed"
  /\ UNCHANGED <<discardOverflow, data, readSignal, writeSignal, errChan, readerVars, writerVars, history>>

Interrupt ==
  /\ data' = <<>>
  /\ state' = IF state = "open" \/ data # <<>> THEN "errord" ELSE state
  /\ UNCHANGED <<discardOverflow, readSignal, writeSignal, errChan, readerVars, writerVars, history>>

ReturnAnError ==
  /\ ~errChan
  /\ errChan' = TRUE
  /\ UNCHANGED <<discardOverflow, data, state, readSignal, writeSignal, readerVars, writerVars, history>>

Recover ==
  /\ errChan
  /\ errChan' = FALSE
  /\ UNCHANGED <<discardOverflow, data, state, readSignal, writeSignal, readerVars, writerVars, history>>

ReaderStep(r) ==
  ReadTry(r) \/ ReadReturn(r) \/ ReadWake(r) \/ ReadError(r) \/ ReadTimeout(r)
WriterStep(w) == WriteTry(w) \/ WriteReturn(w) \/ WriteWake(w)

Next ==
  \/ \E r \in Readers : \/ \E op \in {"Read", "ReadTimeout"} : ReadCall(r, op)
                        \/ ReaderStep(r)
  \/ \E w \in Writers : WriteCall(w) \/ WriterStep(w)
  \/ Close \/ Interrupt \/ ReturnAnError \/ Recover

Spec == Init /\ [][Next]_vars

\* The goroutines that are in a call run; readers keep reading, as the copy
\* loops that use a pipe do until they get an error.
FairSpec ==
  /\ Spec
  /\ \A r \in Readers : WF_vars(ReaderStep(r)) /\ WF_vars(ReadCall(r, "Read"))
  /\ \A w \in Writers : SF_vars(WriterStep(w))

-----------------------------------------------------------------------------
\* Types of the pipe's variables and of the callers' program counters.
TypeOK ==
  /\ data \in Seq(Msgs)
  /\ state \in {"open", "closed", "errord"}
  /\ discardOverflow \in BOOLEAN /\ errChan \in BOOLEAN
  /\ readSignal \in BOOLEAN /\ writeSignal \in BOOLEAN
  /\ rpc \in [Readers -> {"idle", "try", "wait", "signal"}]
  /\ rop \in [Readers -> {"Read", "ReadTimeout"}]
  /\ wpc \in [Writers -> {"idle", "try", "wait", "signal"}]
  /\ written \in [Writers -> 0..MaxWrites]
  /\ accepted \in Seq(Msgs) /\ received \in Seq(Msgs)

\* The pipe is a FifoChannel: writes that return nil without a discard are
\* delivered once and in order, also after Close, unless it is interrupted.
Fifo == INSTANCE FifoChannel WITH
  in <- accepted, out <- received, open <- state = "open", broken <- state = "errord"
IsFifo == Fifo!Spec
DeliversFifo == Fifo!LiveSpec

\* The limit is overshot by at most one write: WriteMultiBuffer looks at the
\* size before it merges.
SizeBound == Limit >= 0 => Len(data) <= Limit + 1

\* A reader does not sleep beside data: a token is in readSignal, or a writer
\* is about to put one there, or another reader is about to look.  The
\* notifier keeps one token for any number of signals and is consumed by one
\* of any number of readers.
NoLostReadWakeup ==
  (data # <<>> /\ \E r \in Readers : rpc[r] = "wait") =>
    \/ readSignal \/ Done
    \/ \E w \in Writers : wpc[w] = "signal"
    \/ \E r \in Readers : rpc[r] = "try"

\* A writer does not sleep beside an empty pipe: a token is in writeSignal, or
\* a reader is about to put one there, or another writer is about to look.
NoLostWriteWakeup ==
  (data = <<>> /\ \E w \in Writers : wpc[w] = "wait") =>
    \/ writeSignal \/ Done
    \/ \E r \in Readers : rpc[r] = "signal"
    \/ \E w \in Writers : wpc[w] = "try"

\* Both: nobody sleeps through what it waits for.
NoLostWakeup == NoLostReadWakeup /\ NoLostWriteWakeup

=============================================================================
