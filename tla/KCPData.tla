------------------------------ MODULE KCPData ------------------------------
(***************************************************************************)
(* transport/internet/kcp, one direction of data on an active connection:  *)
(* a sending worker on one end, a receiving worker on the other, and UDP   *)
(* between them, which loses, duplicates and reorders.                     *)
(*                                                                         *)
(* Message is what is written, cut into the payloads of segments.  Numbers *)
(* are uint32 in the code and are assumed not to wrap (MaxNumber); the     *)
(* list of the sending window is then ascending and is modelled as a       *)
(* function from its numbers to their payloads, as the receiving window    *)
(* is in the code.  Which timers have run out (SendingWindow.Flush,        *)
(* AckList.Flush, the three seconds between pings) is left open, and so is *)
(* the number of segments one flush sends.  Both ends flush again and      *)
(* again: besides the data updater, which may miss a wake-up, the ping     *)
(* updater flushes until the connection is terminated.                     *)
(***************************************************************************)
EXTENDS Naturals, Sequences, FiniteSets

CONSTANTS
  MaxNumber,   \* bound: segments pushed
  Message,     \* the payloads that are written, in their order
  SendWindow,  \* SendingWorker.windowSize
  RecvWindow,  \* ReceivingWorker.windowSize
  Cap          \* bound: segments in the network at a time, more are lost

ASSUME KCPAssumption ==
  /\ MaxNumber \in Nat /\ DOMAIN Message = 1..MaxNumber /\ SendWindow \in Nat
  /\ RecvWindow \in Nat \ {0} /\ Cap \in Nat \ {0}

VARIABLES
  window,               \* the sending window: payloads by number
  firstUnacknowledged,
  nextNumber,           \* of the sending worker
  updated,              \* firstUnacknowledgedUpdated
  cache,                \* the receiving window: payloads by number
  acklist,              \* numbers in the ack list
  dirty,                \* AckList.dirty
  rnext,                \* nextNumber of the receiving worker
  leftOver,             \* payloads read from the window and not yet given out
  delivered,            \* what readers have got
  net                   \* segments in the network

sendVars == <<window, firstUnacknowledged, nextNumber, updated>>
recvVars == <<cache, acklist, dirty, rnext, leftOver, delivered>>
vars == <<sendVars, recvVars, net>>

Numbers == 0..MaxNumber
Payloads == {Message[i] : i \in 1..MaxNumber}
Below(n) == {k \in Numbers : k < n}
unacked == DOMAIN window
received == DOMAIN cache

DataSegment == [type : {"data"}, number : Numbers, payload : Payloads, sendingNext : Numbers]
AckSegment == [type : {"ack"}, receivingNext : Numbers, numbers : SUBSET Numbers]
PingOfSender == [type : {"senderPing"}, sendingNext : Numbers]
PingOfReceiver == [type : {"receiverPing"}, receivingNext : Numbers]
Segment == DataSegment \cup AckSegment \cup PingOfSender \cup PingOfReceiver

Init ==
  /\ window = <<>> /\ firstUnacknowledged = 0 /\ nextNumber = 0 /\ updated = FALSE
  /\ cache = <<>> /\ acklist = {} /\ dirty = FALSE
  /\ rnext = 0 /\ leftOver = <<>> /\ delivered = <<>>
  /\ net = {}

\* The network keeps some of what it holds and is given.
Write(segs) ==
  /\ net' \in SUBSET (net \cup segs)
  /\ Cardinality(net') <= Cap

-----------------------------------------------------------------------------
(* The sending end *)

\* Connection.Write: the next payload gets the next number, unless the window is full.
Push ==
  /\ Cardinality(unacked) <= SendWindow
  /\ nextNumber < MaxNumber
  /\ window' = [k \in unacked \cup {nextNumber} |->
                  IF k = nextNumber THEN Message[nextNumber + 1] ELSE window[k]]
  /\ nextNumber' = nextNumber + 1
  /\ UNCHANGED <<firstUnacknowledged, updated, recvVars, net>>

\* The first number of a window with numbers ns, or the next number of an empty one.
IsFirst(f, ns) ==
  /\ f \in ns \/ (ns = {} /\ f = nextNumber)
  /\ \A k \in ns : f <= k

\* Clear and Remove, and FindFirstUnacknowledged after them.
Acknowledge(numbers) ==
  /\ window' = [k \in unacked \ numbers |-> window[k]]
  /\ firstUnacknowledged' \in Numbers /\ IsFirst(firstUnacknowledged', unacked \ numbers)
  /\ updated' = (updated \/ firstUnacknowledged' # firstUnacknowledged)
  /\ UNCHANGED nextNumber

\* SendingWorker.ProcessSegment
ProcessAck(m) ==
  /\ m.type = "ack"
  /\ Acknowledge(Below(m.receivingNext) \cup m.numbers)
  /\ UNCHANGED <<recvVars, net>>

\* ProcessReceivingNext
ProcessReceiverPing(m) ==
  /\ m.type = "receiverPing"
  /\ Acknowledge(Below(m.receivingNext))
  /\ UNCHANGED <<recvVars, net>>

Data(numbers) ==
  {[type |-> "data", number |-> k, payload |-> window[k], sendingNext |-> firstUnacknowledged] :
     k \in numbers}

SenderPing == [type |-> "senderPing", sendingNext |-> firstUnacknowledged]

\* Mutant: the numbers below nextNumber are announced as acknowledged.
SenderFlushNext(due, ping) ==
  /\ due \subseteq unacked
  /\ Write({[type |-> "data", number |-> k, payload |-> window[k], sendingNext |-> nextNumber] : k \in due}
           \cup IF ping THEN {SenderPing} ELSE {})
  /\ updated' = FALSE
  /\ UNCHANGED <<window, firstUnacknowledged, nextNumber, recvVars>>

\* Mutant: a ping is sent only once for a new first number.
SenderFlushPingsOnce(due, ping) ==
  /\ due \subseteq unacked
  /\ ping <=> (unacked = {} /\ updated)
  /\ Write(Data(due) \cup IF ping THEN {SenderPing} ELSE {})
  /\ updated' = FALSE
  /\ UNCHANGED <<window, firstUnacknowledged, nextNumber, recvVars>>

\* flush: segments whose timeout has passed; with an empty window a ping tells
\* of a new first number; a ping is sent now and then besides.
SenderFlush(due, ping) ==
  /\ due \subseteq unacked
  /\ (unacked = {} /\ updated) => ping
  /\ Write(Data(due) \cup IF ping THEN {SenderPing} ELSE {})
  /\ updated' = FALSE
  /\ UNCHANGED <<window, firstUnacknowledged, nextNumber, recvVars>>

-----------------------------------------------------------------------------
(* The receiving end *)

\* AckList.Clear
Clear(una) ==
  /\ acklist' = acklist \ Below(una)
  /\ dirty' = (dirty \/ acklist' # acklist)

\* ReceivingWorker.ProcessSegment: a segment outside the window is not even
\* acknowledged.
ProcessData(m) ==
  /\ m.type = "data"
  /\ m.number >= rnext /\ m.number < rnext + RecvWindow
  /\ acklist' = (acklist \ Below(m.sendingNext)) \cup {m.number}
  /\ dirty' = TRUE
  /\ cache' = [k \in received \cup {m.number} |-> IF k \in received THEN cache[k] ELSE m.payload]
  /\ UNCHANGED <<rnext, leftOver, delivered, sendVars, net>>

\* ProcessSendingNext
ProcessSenderPing(m) ==
  /\ m.type = "senderPing"
  /\ Clear(m.sendingNext)
  /\ UNCHANGED <<cache, rnext, leftOver, delivered, sendVars, net>>

\* What a read takes is mb, and the reader has room for its first m payloads.
Split(mb, m) ==
  /\ delivered' = delivered \o SubSeq(mb, 1, m)
  /\ leftOver' = SubSeq(mb, m + 1, Len(mb))

\* Mutant: the window is read before what is left over.
ReadMultiBufferAhead(n, m) ==
  /\ n > rnext /\ n \notin received
  /\ \A k \in rnext..(n - 1) : k \in received
  /\ cache' = [k \in received \ Below(n) |-> cache[k]]
  /\ LET mb == [i \in 1..(n - rnext) |-> cache[rnext + i - 1]]
     IN  /\ delivered' = delivered \o SubSeq(mb, 1, m)
         /\ leftOver' = leftOver \o SubSeq(mb, m + 1, Len(mb))
  /\ rnext' = n
  /\ UNCHANGED <<acklist, dirty, sendVars, net>>

\* ReadMultiBuffer, and Read for a reader with less room: everything up to the
\* first gap, number n.
ReadMultiBuffer(n, m) ==
  /\ leftOver = <<>>
  /\ n > rnext /\ n \notin received
  /\ \A k \in rnext..(n - 1) : k \in received
  /\ cache' = [k \in received \ Below(n) |-> cache[k]]
  /\ Split([i \in 1..(n - rnext) |-> cache[rnext + i - 1]], m)
  /\ rnext' = n
  /\ UNCHANGED <<acklist, dirty, sendVars, net>>

\* What an earlier read has left over comes first.
ReadLeftOver(m) ==
  /\ leftOver # <<>>
  /\ Split(leftOver, m)
  /\ UNCHANGED <<cache, rnext, acklist, dirty, sendVars, net>>

Read ==
  \/ \E n \in Numbers : \E m \in 1..(n - rnext) : ReadMultiBuffer(n, m)
  \/ \E m \in 1..Len(leftOver) : ReadLeftOver(m)

Ack == [type |-> "ack", receivingNext |-> rnext, numbers |-> acklist]
ReceiverPing == [type |-> "receiverPing", receivingNext |-> rnext]

\* Mutant: an ack is sent only once.
ReceiverFlushOnce(ack, ping) ==
  /\ ack <=> dirty
  /\ Write((IF ack THEN {Ack} ELSE {}) \cup IF ping THEN {ReceiverPing} ELSE {})
  /\ dirty' = FALSE
  /\ UNCHANGED <<cache, acklist, rnext, leftOver, delivered, sendVars>>

\* flush: when some ack is due, or the list has changed, all of it is sent.
ReceiverFlush(ack, ping) ==
  /\ dirty => ack
  /\ ack => dirty \/ acklist # {}
  /\ Write((IF ack THEN {Ack} ELSE {}) \cup IF ping THEN {ReceiverPing} ELSE {})
  /\ dirty' = FALSE
  /\ UNCHANGED <<cache, acklist, rnext, leftOver, delivered, sendVars>>

-----------------------------------------------------------------------------

\* Input.  The network may deliver a segment again.
Input(m) ==
  \/ ProcessAck(m) \/ ProcessReceiverPing(m)
  \/ ProcessData(m) \/ ProcessSenderPing(m)

Next ==
  \/ Push \/ Read
  \/ \E m \in net : Input(m)
  \/ \E due \in SUBSET unacked, ping \in BOOLEAN : SenderFlush(due, ping)
  \/ \E ack, ping \in BOOLEAN : ReceiverFlush(ack, ping)

Spec == Init /\ [][Next]_vars

\* Both ends flush what is due again and again, and a kind of segment that is
\* sent again and again arrives again and again.
FairSpec ==
  /\ Spec
  /\ WF_vars(Read)
  /\ SF_vars(unacked # {} /\ SenderFlush({firstUnacknowledged}, FALSE) /\ Data({firstUnacknowledged}) \subseteq net')
  /\ SF_vars(\E m \in net : m.type = "data" /\ m.number = firstUnacknowledged /\ ProcessData(m))
  /\ SF_vars(SenderFlush({}, TRUE) /\ SenderPing \in net')
  /\ SF_vars(\E m \in net : ProcessSenderPing(m) /\ m.sendingNext = firstUnacknowledged)
  /\ SF_vars(ReceiverFlush(TRUE, FALSE) /\ Ack \in net')
  /\ SF_vars(\E m \in net : ProcessAck(m) /\ window' # window)

-----------------------------------------------------------------------------
(* Properties *)

\* Types of both ends and of the segments in the network.
TypeOK ==
  /\ unacked \subseteq Numbers /\ window \in [unacked -> Payloads]
  /\ firstUnacknowledged \in Numbers /\ nextNumber \in Numbers /\ updated \in BOOLEAN
  /\ received \subseteq Numbers /\ cache \in [received -> Payloads]
  /\ acklist \subseteq Numbers /\ dirty \in BOOLEAN
  /\ rnext \in Numbers /\ leftOver \in Seq(Payloads) /\ delivered \in Seq(Payloads)
  /\ net \subseteq Segment

Arrived(k) == k < rnext \/ k \in received

\* What readers have got is what was written up to some place: no payload is lost,
\* doubled, exchanged or overtaken, over a network that loses, duplicates and
\* reorders, whatever a reader leaves over (SendingWorker.Push and Flush,
\* ReceivingWorker.ProcessSegment, ReadMultiBuffer and Read).
DeliveredInOrder ==
  /\ Len(delivered) <= nextNumber
  /\ \A i \in 1..Len(delivered) : delivered[i] = Message[i]

\* A payload leaves the sending window only after it has arrived: a late or
\* duplicated ack, or one for a number that is reused as receivingNext, never
\* makes the sender forget one (processAck, SendingWindow.Clear).
NothingForgotten == \A k \in Below(nextNumber) : k \in unacked \/ Arrived(k)

\* What has arrived and is still in the sending window stays in the ack list.
\* ProcessSegment ignores a segment below its window, so that without this a
\* lost ack would never be repeated.
AckIsKept == \A k \in unacked : Arrived(k) => k \in acklist

\* The receiving window holds at most RecvWindow segments, all ahead of the reader.
WithinRecvWindow == \A k \in received : rnext <= k /\ k < rnext + RecvWindow

\* Everything that is pushed is delivered, whatever is lost on the way.
AllDelivered == <>[](Len(delivered) = nextNumber)

=============================================================================
