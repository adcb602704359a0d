----------------------------- MODULE PipeProofs -----------------------------
(***************************************************************************)
(* Proofs about Pipe for any number of readers, writers and messages, any  *)
(* limit and both overflow options.                                        *)
(***************************************************************************)
EXTENDS Pipe, TLAPS

-----------------------------------------------------------------------------
(* Facts about sequences *)

\* Concatenation with the empty sequence.
LEMMA ConcatEmpty ==
  ASSUME NEW S, NEW s \in Seq(S)
  PROVE  s \o <<>> = s
OBVIOUS

\* Appending commutes with prefixing.
LEMMA ConcatAppend ==
  ASSUME NEW S, NEW s \in Seq(S), NEW t \in Seq(S), NEW e \in S
  PROVE  s \o Append(t, e) = Append(s \o t, e)
OBVIOUS

\* Nothing appended to is empty.
LEMMA AppendNotEmpty ==
  ASSUME NEW S, NEW s \in Seq(S), NEW e \in S
  PROVE  Append(s, e) # <<>>
<1>1. Len(Append(s, e)) = Len(s) + 1
  OBVIOUS
<1>2. Len(<<>>) = 0 /\ Len(s) \in Nat
  OBVIOUS
<1> QED
  BY <1>1, <1>2

\* Something is gained by concatenating a non-empty sequence.
LEMMA ConcatGrows ==
  ASSUME NEW S, NEW s \in Seq(S), NEW t \in Seq(S), t # <<>>
  PROVE  s \o t # s
<1>1. Len(t) > 0
  OBVIOUS
<1> QED
  BY <1>1

-----------------------------------------------------------------------------
(* The inductive invariant *)

\* A writer in a call has begun at least one write.
WrittenInv == \A w \in Writers : wpc[w] # "idle" => written[w] \in 1..MaxWrites

\* What was accepted is what readers took followed by what is buffered, until
\* the pipe is interrupted; an interrupted pipe is empty.
FifoInv ==
  IF state = "errord" THEN data = <<>> ELSE received \o data = accepted

IInv == /\ TypeOK /\ WrittenInv /\ FifoInv /\ SizeBound
        /\ NoLostReadWakeup /\ NoLostWriteWakeup

\* The message of a writer that is in a call is a message.
LEMMA MessageType ==
  ASSUME TypeOK, WrittenInv, NEW w \in Writers, wpc[w] # "idle"
  PROVE  Message(w) \in Msgs
BY DEF WrittenInv, Message, Msgs

\* Every step keeps the types.
LEMMA TypeOKStep ==
  ASSUME TypeOK, WrittenInv, Next
  PROVE  TypeOK'
<1> USE PipeAssumption DEF TypeOK, pipeVars, readerVars, writerVars, history
<1>1. ASSUME NEW r \in Readers, NEW op \in {"Read", "ReadTimeout"}, ReadCall(r, op) PROVE TypeOK'
  BY <1>1 DEF ReadCall
<1>2. ASSUME NEW r \in Readers, ReadTry(r) PROVE TypeOK'
  <2>1. received \o data \in Seq(Msgs) /\ <<>> \in Seq(Msgs)
    OBVIOUS
  <2> QED
    BY Zenon, <1>2, <2>1 DEF ReadTry, Done
<1>3. ASSUME NEW r \in Readers, ReadReturn(r) PROVE TypeOK'
  BY <1>3 DEF ReadReturn
<1>4. ASSUME NEW r \in Readers, ReadWake(r) PROVE TypeOK'
  BY Zenon, <1>4 DEF ReadWake, Done
<1>5. ASSUME NEW r \in Readers, ReadError(r) PROVE TypeOK'
  BY Zenon, <1>5 DEF ReadError
<1>6. ASSUME NEW r \in Readers, ReadTimeout(r) PROVE TypeOK'
  BY <1>6 DEF ReadTimeout
<1>7. ASSUME NEW w \in Writers, WriteCall(w) PROVE TypeOK'
  BY <1>7 DEF WriteCall
<1>8. ASSUME NEW w \in Writers, WriteTry(w) PROVE TypeOK'
  <2>1. Message(w) \in Msgs
    BY <1>8, MessageType DEF WriteTry
  <2>2. Append(data, Message(w)) \in Seq(Msgs) /\ Append(accepted, Message(w)) \in Seq(Msgs)
    BY <2>1
  <2> QED
    BY Zenon, <1>8, <2>2 DEF WriteTry, Done
<1>9. ASSUME NEW w \in Writers, WriteReturn(w) PROVE TypeOK'
  BY <1>9 DEF WriteReturn
<1>10. ASSUME NEW w \in Writers, WriteWake(w) PROVE TypeOK'
  BY Zenon, <1>10 DEF WriteWake, Done
<1>11. ASSUME Close PROVE TypeOK'
  BY <1>11 DEF Close
<1>12. ASSUME Interrupt PROVE TypeOK'
  BY <1>12 DEF Interrupt
<1>13. ASSUME ReturnAnError PROVE TypeOK'
  BY <1>13 DEF ReturnAnError
<1>14. ASSUME Recover PROVE TypeOK'
  BY Zenon, <1>14 DEF Recover
<1> HIDE DEF TypeOK
<1> QED
  BY <1>1, <1>2, <1>3, <1>4, <1>5, <1>6, <1>7, <1>8, <1>9, <1>10, <1>11, <1>12,
       <1>13, <1>14
  DEF Next, ReaderStep, WriterStep

\* Every step keeps the count of the writes begun.
LEMMA WrittenInvStep ==
  ASSUME TypeOK, WrittenInv, Next
  PROVE  WrittenInv'
<1> USE PipeAssumption DEF TypeOK, WrittenInv, pipeVars, readerVars, writerVars,
     history
<1>1. ASSUME NEW r \in Readers, NEW op \in {"Read", "ReadTimeout"}, ReadCall(r, op) PROVE WrittenInv'
  BY <1>1 DEF ReadCall
<1>2. ASSUME NEW r \in Readers, ReadTry(r) PROVE WrittenInv'
  BY <1>2 DEF ReadTry, Done
<1>3. ASSUME NEW r \in Readers, ReadReturn(r) PROVE WrittenInv'
  BY <1>3 DEF ReadReturn
<1>4. ASSUME NEW r \in Readers, ReadWake(r) PROVE WrittenInv'
  BY <1>4 DEF ReadWake, Done
<1>5. ASSUME NEW r \in Readers, ReadError(r) PROVE WrittenInv'
  BY <1>5 DEF ReadError
<1>6. ASSUME NEW r \in Readers, ReadTimeout(r) PROVE WrittenInv'
  BY <1>6 DEF ReadTimeout
<1>7. ASSUME NEW w \in Writers, WriteCall(w) PROVE WrittenInv'
  BY <1>7 DEF WriteCall
<1>8. ASSUME NEW w \in Writers, WriteTry(w) PROVE WrittenInv'
  BY <1>8 DEF WriteTry, Done
<1>9. ASSUME NEW w \in Writers, WriteReturn(w) PROVE WrittenInv'
  BY <1>9 DEF WriteReturn
<1>10. ASSUME NEW w \in Writers, WriteWake(w) PROVE WrittenInv'
  BY <1>10 DEF WriteWake, Done
<1>11. ASSUME Close PROVE WrittenInv'
  BY <1>11 DEF Close
<1>12. ASSUME Interrupt PROVE WrittenInv'
  BY <1>12 DEF Interrupt
<1>13. ASSUME ReturnAnError PROVE WrittenInv'
  BY <1>13 DEF ReturnAnError
<1>14. ASSUME Recover PROVE WrittenInv'
  BY <1>14 DEF Recover
<1> HIDE DEF TypeOK
<1> QED
  BY <1>1, <1>2, <1>3, <1>4, <1>5, <1>6, <1>7, <1>8, <1>9, <1>10, <1>11, <1>12,
       <1>13, <1>14
  DEF Next, ReaderStep, WriterStep

\* Every step keeps the messages in order.
LEMMA FifoInvStep ==
  ASSUME TypeOK, WrittenInv, FifoInv, Next
  PROVE  FifoInv'
<1> USE DEF TypeOK, FifoInv, pipeVars, readerVars, writerVars, history
<1>1. ASSUME NEW r \in Readers, NEW op \in {"Read", "ReadTimeout"}, ReadCall(r, op) PROVE FifoInv'
  BY <1>1 DEF ReadCall
<1>2. ASSUME NEW r \in Readers, ReadTry(r) PROVE FifoInv'
  <2>1. CASE state # "errord" /\ data # <<>>
    <3>1. received' = accepted /\ data' = <<>> /\ UNCHANGED <<state, accepted>>
      BY Zenon, <1>2, <2>1 DEF ReadTry
    <3> QED
      BY <3>1, ConcatEmpty
  <2> QED
    BY <1>2, <2>1 DEF ReadTry
<1>3. ASSUME NEW r \in Readers, ReadReturn(r) PROVE FifoInv'
  BY <1>3 DEF ReadReturn
<1>4. ASSUME NEW r \in Readers, ReadWake(r) PROVE FifoInv'
  BY <1>4 DEF ReadWake, Done
<1>5. ASSUME NEW r \in Readers, ReadError(r) PROVE FifoInv'
  BY <1>5 DEF ReadError
<1>6. ASSUME NEW r \in Readers, ReadTimeout(r) PROVE FifoInv'
  BY <1>6 DEF ReadTimeout
<1>7. ASSUME NEW w \in Writers, WriteCall(w) PROVE FifoInv'
  BY <1>7 DEF WriteCall
<1>8. ASSUME NEW w \in Writers, WriteTry(w) PROVE FifoInv'
  <2>1. CASE state = "open" /\ ~IsFull
    <3>1. Message(w) \in Msgs
      BY <1>8, MessageType DEF WriteTry
    <3>2. received \o Append(data, Message(w)) = Append(received \o data, Message(w))
      BY <3>1, ConcatAppend
    <3> QED
      BY Zenon, <1>8, <2>1, <3>2 DEF WriteTry, Done
  <2>2. CASE UNCHANGED <<data, accepted, received, state>>
    BY <2>2
  <2> QED
    BY <1>8, <2>1, <2>2 DEF WriteTry
<1>9. ASSUME NEW w \in Writers, WriteReturn(w) PROVE FifoInv'
  BY <1>9 DEF WriteReturn
<1>10. ASSUME NEW w \in Writers, WriteWake(w) PROVE FifoInv'
  BY <1>10 DEF WriteWake, Done
<1>11. ASSUME Close PROVE FifoInv'
  BY <1>11 DEF Close
<1>12. ASSUME Interrupt PROVE FifoInv'
  <2>1. CASE state' = "errord"
    BY <1>12, <2>1 DEF Interrupt
  <2>2. CASE state' # "errord"
    BY Zenon, <1>12, <2>2 DEF Interrupt
  <2> QED
    BY <2>1, <2>2
<1>13. ASSUME ReturnAnError PROVE FifoInv'
  BY <1>13 DEF ReturnAnError
<1>14. ASSUME Recover PROVE FifoInv'
  BY <1>14 DEF Recover
<1> HIDE DEF TypeOK, FifoInv
<1> QED
  BY <1>1, <1>2, <1>3, <1>4, <1>5, <1>6, <1>7, <1>8, <1>9, <1>10, <1>11, <1>12,
       <1>13, <1>14
  DEF Next, ReaderStep, WriterStep

\* Every step keeps the buffer within one message of the limit.
LEMMA SizeBoundStep ==
  ASSUME TypeOK, WrittenInv, SizeBound, Next
  PROVE  SizeBound'
<1> USE PipeAssumption DEF TypeOK, SizeBound, pipeVars, readerVars, writerVars,
     history
<1>1. ASSUME NEW r \in Readers, NEW op \in {"Read", "ReadTimeout"}, ReadCall(r, op) PROVE SizeBound'
  BY <1>1 DEF ReadCall
<1>2. ASSUME NEW r \in Readers, ReadTry(r) PROVE SizeBound'
  BY <1>2 DEF ReadTry, Done
<1>3. ASSUME NEW r \in Readers, ReadReturn(r) PROVE SizeBound'
  BY <1>3 DEF ReadReturn
<1>4. ASSUME NEW r \in Readers, ReadWake(r) PROVE SizeBound'
  BY <1>4 DEF ReadWake, Done
<1>5. ASSUME NEW r \in Readers, ReadError(r) PROVE SizeBound'
  BY <1>5 DEF ReadError
<1>6. ASSUME NEW r \in Readers, ReadTimeout(r) PROVE SizeBound'
  BY <1>6 DEF ReadTimeout
<1>7. ASSUME NEW w \in Writers, WriteCall(w) PROVE SizeBound'
  BY <1>7 DEF WriteCall
<1>8. ASSUME NEW w \in Writers, WriteTry(w) PROVE SizeBound'
  <2>1. Message(w) \in Msgs
    BY <1>8, MessageType DEF WriteTry
  <2>2. Len(Append(data, Message(w))) = Len(data) + 1
    BY <2>1
  <2> QED
    BY <1>8, <2>2 DEF WriteTry, IsFull
<1>9. ASSUME NEW w \in Writers, WriteReturn(w) PROVE SizeBound'
  BY <1>9 DEF WriteReturn
<1>10. ASSUME NEW w \in Writers, WriteWake(w) PROVE SizeBound'
  BY <1>10 DEF WriteWake, Done
<1>11. ASSUME Close PROVE SizeBound'
  BY <1>11 DEF Close
<1>12. ASSUME Interrupt PROVE SizeBound'
  BY <1>12 DEF Interrupt
<1>13. ASSUME ReturnAnError PROVE SizeBound'
  BY <1>13 DEF ReturnAnError
<1>14. ASSUME Recover PROVE SizeBound'
  BY <1>14 DEF Recover
<1> HIDE DEF TypeOK, SizeBound
<1> QED
  BY <1>1, <1>2, <1>3, <1>4, <1>5, <1>6, <1>7, <1>8, <1>9, <1>10, <1>11, <1>12,
       <1>13, <1>14
  DEF Next, ReaderStep, WriterStep

\* Every step that leaves a reader asleep beside data leaves something that wakes one.
LEMMA ReadWakeupStep ==
  ASSUME TypeOK, NoLostReadWakeup, Next
  PROVE  NoLostReadWakeup'
<1> USE DEF TypeOK, NoLostReadWakeup, Done, pipeVars, readerVars, writerVars,
     history
<1>1. ASSUME NEW r \in Readers, NEW op \in {"Read", "ReadTimeout"}, ReadCall(r, op) PROVE NoLostReadWakeup'
  BY <1>1 DEF ReadCall
<1>2. ASSUME NEW r \in Readers, ReadTry(r) PROVE NoLostReadWakeup'
  BY <1>2 DEF ReadTry, Done
<1>3. ASSUME NEW r \in Readers, ReadReturn(r) PROVE NoLostReadWakeup'
  BY <1>3 DEF ReadReturn
<1>4. ASSUME NEW r \in Readers, ReadWake(r) PROVE NoLostReadWakeup'
  BY <1>4 DEF ReadWake, Done
<1>5. ASSUME NEW r \in Readers, ReadError(r) PROVE NoLostReadWakeup'
  BY <1>5 DEF ReadError
<1>6. ASSUME NEW r \in Readers, ReadTimeout(r) PROVE NoLostReadWakeup'
  BY <1>6 DEF ReadTimeout
<1>7. ASSUME NEW w \in Writers, WriteCall(w) PROVE NoLostReadWakeup'
  BY <1>7 DEF WriteCall
<1>8. ASSUME NEW w \in Writers, WriteTry(w) PROVE NoLostReadWakeup'
  BY <1>8 DEF WriteTry, Done
<1>9. ASSUME NEW w \in Writers, WriteReturn(w) PROVE NoLostReadWakeup'
  BY <1>9 DEF WriteReturn
<1>10. ASSUME NEW w \in Writers, WriteWake(w) PROVE NoLostReadWakeup'
  BY <1>10 DEF WriteWake, Done
<1>11. ASSUME Close PROVE NoLostReadWakeup'
  BY <1>11 DEF Close
<1>12. ASSUME Interrupt PROVE NoLostReadWakeup'
  BY <1>12 DEF Interrupt
<1>13. ASSUME ReturnAnError PROVE NoLostReadWakeup'
  BY <1>13 DEF ReturnAnError
<1>14. ASSUME Recover PROVE NoLostReadWakeup'
  BY <1>14 DEF Recover
<1> HIDE DEF TypeOK, NoLostReadWakeup, Done
<1> QED
  BY <1>1, <1>2, <1>3, <1>4, <1>5, <1>6, <1>7, <1>8, <1>9, <1>10, <1>11, <1>12,
       <1>13, <1>14
  DEF Next, ReaderStep, WriterStep

\* Every step that leaves a writer asleep beside an empty pipe leaves something that wakes one.
LEMMA WriteWakeupStep ==
  ASSUME TypeOK, WrittenInv, NoLostWriteWakeup, Next
  PROVE  NoLostWriteWakeup'
<1> USE DEF TypeOK, NoLostWriteWakeup, Done, pipeVars, readerVars, writerVars,
     history
<1>1. ASSUME NEW r \in Readers, NEW op \in {"Read", "ReadTimeout"}, ReadCall(r, op) PROVE NoLostWriteWakeup'
  BY <1>1 DEF ReadCall
<1>2. ASSUME NEW r \in Readers, ReadTry(r) PROVE NoLostWriteWakeup'
  BY <1>2 DEF ReadTry, Done
<1>3. ASSUME NEW r \in Readers, ReadReturn(r) PROVE NoLostWriteWakeup'
  BY <1>3 DEF ReadReturn
<1>4. ASSUME NEW r \in Readers, ReadWake(r) PROVE NoLostWriteWakeup'
  BY <1>4 DEF ReadWake, Done
<1>5. ASSUME NEW r \in Readers, ReadError(r) PROVE NoLostWriteWakeup'
  BY <1>5 DEF ReadError
<1>6. ASSUME NEW r \in Readers, ReadTimeout(r) PROVE NoLostWriteWakeup'
  BY <1>6 DEF ReadTimeout
<1>7. ASSUME NEW w \in Writers, WriteCall(w) PROVE NoLostWriteWakeup'
  BY <1>7 DEF WriteCall
<1>8. ASSUME NEW w \in Writers, WriteTry(w) PROVE NoLostWriteWakeup'
  <2>1. IsFull => data # <<>>
    BY PipeAssumption DEF IsFull
  <2>2. Message(w) \in Msgs
    BY <1>8, MessageType DEF WriteTry
  <2>3. Append(data, Message(w)) # <<>>
    BY Zenon, <2>2, AppendNotEmpty
  <2> QED
    BY <1>8, <2>1, <2>3 DEF WriteTry
<1>9. ASSUME NEW w \in Writers, WriteReturn(w) PROVE NoLostWriteWakeup'
  BY <1>9 DEF WriteReturn
<1>10. ASSUME NEW w \in Writers, WriteWake(w) PROVE NoLostWriteWakeup'
  BY <1>10 DEF WriteWake, Done
<1>11. ASSUME Close PROVE NoLostWriteWakeup'
  BY <1>11 DEF Close
<1>12. ASSUME Interrupt PROVE NoLostWriteWakeup'
  BY <1>12 DEF Interrupt
<1>13. ASSUME ReturnAnError PROVE NoLostWriteWakeup'
  BY <1>13 DEF ReturnAnError
<1>14. ASSUME Recover PROVE NoLostWriteWakeup'
  BY <1>14 DEF Recover
<1> HIDE DEF TypeOK, NoLostWriteWakeup, Done
<1> QED
  BY <1>1, <1>2, <1>3, <1>4, <1>5, <1>6, <1>7, <1>8, <1>9, <1>10, <1>11, <1>12,
       <1>13, <1>14
  DEF Next, ReaderStep, WriterStep

\* The inductive invariant holds in every behaviour.
LEMMA Inductive == Spec => []IInv
<1>1. Init => IInv
  <2>1. <<>> \in Seq(Msgs) /\ <<>> \o <<>> = <<>> /\ Len(<<>>) = 0
    BY ConcatEmpty
  <2>2. Init => TypeOK
    <3>1. 0 \in 0..MaxWrites
      BY PipeAssumption
    <3>2. Init => written \in [Writers -> 0..MaxWrites]
      BY <3>1 DEF Init
    <3>3. Init => /\ data \in Seq(Msgs) /\ accepted \in Seq(Msgs) /\ received \in Seq(Msgs)
      BY <2>1 DEF Init
    <3>4. Init => /\ rpc \in [Readers -> {"idle", "try", "wait", "signal"}]
                  /\ rop \in [Readers -> {"Read", "ReadTimeout"}]
                  /\ wpc \in [Writers -> {"idle", "try", "wait", "signal"}]
      BY DEF Init
    <3>5. Init => /\ state \in {"open", "closed", "errord"}
                  /\ readSignal \in BOOLEAN /\ writeSignal \in BOOLEAN /\ errChan \in BOOLEAN
      BY Zenon DEF Init
    <3>6. Init => discardOverflow \in BOOLEAN
      BY DEF Init
    <3> QED
      BY <3>2, <3>3, <3>4, <3>5, <3>6 DEF TypeOK
  <2>3. Init => WrittenInv /\ FifoInv /\ SizeBound
    BY PipeAssumption, <2>1 DEF Init, WrittenInv, FifoInv, SizeBound
  <2>4. Init => NoLostReadWakeup /\ NoLostWriteWakeup
    BY DEF Init, NoLostReadWakeup, NoLostWriteWakeup
  <2> QED
    BY <2>2, <2>3, <2>4 DEF IInv
<1>2. IInv /\ Next => IInv'
  BY TypeOKStep, WrittenInvStep, FifoInvStep, SizeBoundStep, ReadWakeupStep,
     WriteWakeupStep DEF IInv
<1>3. IInv /\ UNCHANGED vars => IInv'
  BY DEF vars, pipeVars, readerVars, writerVars, history, IInv, TypeOK, WrittenInv,
         FifoInv, SizeBound, NoLostReadWakeup, NoLostWriteWakeup, Done
<1> QED
  BY <1>1, <1>2, <1>3, PTL DEF Spec

\* The pipe's variables keep their types.
THEOREM TypeCorrect == Spec => []TypeOK
<1>1. IInv => TypeOK
  BY DEF IInv
<1> QED
  BY Inductive, <1>1, PTL

\* The buffer never exceeds the limit by more than one write.
THEOREM SizeBounded == Spec => []SizeBound
<1>1. IInv => SizeBound
  BY DEF IInv
<1> QED
  BY Inductive, <1>1, PTL

\* No reader sleeps beside data, for any number of readers and writers that
\* share the two one-token notifiers.
THEOREM ReadersWoken == Spec => []NoLostReadWakeup
<1>1. IInv => NoLostReadWakeup
  BY DEF IInv
<1> QED
  BY Inductive, <1>1, PTL

\* No writer sleeps beside an empty pipe.
THEOREM WritersWoken == Spec => []NoLostWriteWakeup
<1>1. IInv => NoLostWriteWakeup
  BY DEF IInv
<1> QED
  BY Inductive, <1>1, PTL

\* The wake-ups of both notifiers together: neither a reader nor a writer is
\* left asleep in its select beside what it waits for.
THEOREM NoWakeupIsLost == Spec => []NoLostWakeup
<1>1. NoLostReadWakeup /\ NoLostWriteWakeup => NoLostWakeup
  BY DEF NoLostWakeup
<1> QED
  BY ReadersWoken, WritersWoken, <1>1, PTL

-----------------------------------------------------------------------------
(* Refinement *)

\* Every step of the pipe is a step of the channel or leaves it unchanged.
LEMMA StepRefines ==
  ASSUME IInv, Next
  PROVE  [Fifo!Next]_(Fifo!fifoVars)
<1> USE DEF IInv, TypeOK, Fifo!fifoVars, pipeVars, readerVars, writerVars, history
<1>1. ASSUME NEW r \in Readers, NEW op \in {"Read", "ReadTimeout"}, ReadCall(r, op) PROVE [Fifo!Next]_(Fifo!fifoVars)
  BY <1>1 DEF ReadCall
<1>2. ASSUME NEW r \in Readers, ReadTry(r) PROVE [Fifo!Next]_(Fifo!fifoVars)
  <2>1. CASE state # "errord" /\ data # <<>>
    <3>1. received' = accepted /\ UNCHANGED <<state, accepted>>
      BY Zenon, <1>2, <2>1 DEF ReadTry, FifoInv
    <3>2. received # accepted
      BY <2>1, ConcatGrows DEF FifoInv
    <3> QED
      BY <2>1, <3>1, <3>2 DEF Fifo!Next, Fifo!Get
  <2> QED
    BY <1>2, <2>1 DEF ReadTry
<1>3. ASSUME NEW r \in Readers, ReadReturn(r) PROVE [Fifo!Next]_(Fifo!fifoVars)
  BY <1>3 DEF ReadReturn
<1>4. ASSUME NEW r \in Readers, ReadWake(r) PROVE [Fifo!Next]_(Fifo!fifoVars)
  BY <1>4 DEF ReadWake, Done
<1>5. ASSUME NEW r \in Readers, ReadError(r) PROVE [Fifo!Next]_(Fifo!fifoVars)
  BY <1>5 DEF ReadError
<1>6. ASSUME NEW r \in Readers, ReadTimeout(r) PROVE [Fifo!Next]_(Fifo!fifoVars)
  BY <1>6 DEF ReadTimeout
<1>7. ASSUME NEW w \in Writers, WriteCall(w) PROVE [Fifo!Next]_(Fifo!fifoVars)
  BY <1>7 DEF WriteCall
<1>8. ASSUME NEW w \in Writers, WriteTry(w) PROVE [Fifo!Next]_(Fifo!fifoVars)
  <2>1. CASE state = "open" /\ ~IsFull
    <3>1. Message(w) \in Msgs
      BY <1>8, MessageType DEF WriteTry
    <3>2. Fifo!Put(Message(w))
      BY <1>8, <2>1 DEF WriteTry, Done, Fifo!Put
    <3> QED
      BY <3>1, <3>2 DEF Fifo!Next
  <2> QED
    BY <1>8, <2>1 DEF WriteTry
<1>9. ASSUME NEW w \in Writers, WriteReturn(w) PROVE [Fifo!Next]_(Fifo!fifoVars)
  BY <1>9 DEF WriteReturn
<1>10. ASSUME NEW w \in Writers, WriteWake(w) PROVE [Fifo!Next]_(Fifo!fifoVars)
  BY <1>10 DEF WriteWake, Done
<1>11. ASSUME Close PROVE [Fifo!Next]_(Fifo!fifoVars)
  BY <1>11 DEF Close, Fifo!Next, Fifo!Shut
<1>12. ASSUME Interrupt PROVE [Fifo!Next]_(Fifo!fifoVars)
  BY <1>12 DEF Interrupt, FifoInv, Fifo!Next, Fifo!BreakOff
<1>13. ASSUME ReturnAnError PROVE [Fifo!Next]_(Fifo!fifoVars)
  BY <1>13 DEF ReturnAnError
<1>14. ASSUME Recover PROVE [Fifo!Next]_(Fifo!fifoVars)
  BY <1>14 DEF Recover
<1> HIDE DEF IInv, TypeOK, Fifo!fifoVars
<1> QED
  BY <1>1, <1>2, <1>3, <1>4, <1>5, <1>6, <1>7, <1>8, <1>9, <1>10, <1>11, <1>12,
       <1>13, <1>14
  DEF Next, ReaderStep, WriterStep

\* The pipe implements the FIFO channel: messages are delivered once, in order,
\* also after Close, and nothing is accepted after it.
THEOREM PipeIsFifo == Spec => IsFifo
<1>1. Init => Fifo!Init
  BY DEF Init, Fifo!Init
<1>2. IInv /\ [Next]_vars => [Fifo!Next]_(Fifo!fifoVars)
  <2>1. IInv /\ UNCHANGED vars => UNCHANGED Fifo!fifoVars
    BY DEF vars, pipeVars, history, Fifo!fifoVars
  <2> QED
    BY <2>1, StepRefines
<1> QED
  BY <1>1, <1>2, Inductive, PTL DEF Spec, IsFifo, Fifo!Spec
=============================================================================
