----------------------------- MODULE KCPProofs ------------------------------
(***************************************************************************)
(* Proofs about mKCP, for all numbers, windows, updaters and networks: it  *)
(* delivers in order and forgets nothing, and a connection takes its peer  *)
(* for closing only when it is.                                            *)
(*                                                                         *)
(* The inductive invariant of the data adds to the properties what the     *)
(* segments on the way may say: a sendingNext is never ahead of            *)
(* firstUnacknowledged, a receivingNext or an acked number only of what    *)
(* has arrived, and a number goes with one payload wherever it is.         *)
(***************************************************************************)
EXTENDS KCPData, KCPConn, TLAPS

\* What the segments in the network say is still true when they arrive.
NetInv ==
  \A m \in net :
    /\ m.type = "data" => /\ m.number < nextNumber /\ m.payload = Message[m.number + 1]
                          /\ m.sendingNext <= firstUnacknowledged
    /\ m.type = "senderPing" => m.sendingNext <= firstUnacknowledged
    /\ m.type = "ack" => m.receivingNext <= rnext /\ \A k \in m.numbers : Arrived(k)
    /\ m.type = "receiverPing" => m.receivingNext <= rnext

\* In both windows a number has its own payload.
PayloadInv ==
  /\ \A k \in unacked : window[k] = Message[k + 1]
  /\ \A k \in received : cache[k] = Message[k + 1]

\* What was taken from the receiving window is with the readers, or left over.
ReadInv ==
  /\ Len(delivered) + Len(leftOver) = rnext
  /\ \A i \in 1..Len(delivered) : delivered[i] = Message[i]
  /\ \A i \in 1..Len(leftOver) : leftOver[i] = Message[Len(delivered) + i]

\* firstUnacknowledged is a lower bound of the sending window.
WindowInv ==
  /\ firstUnacknowledged <= nextNumber
  /\ \A k \in unacked : firstUnacknowledged <= k /\ k < nextNumber

\* Only what was pushed arrives, and only what has arrived is acked.
ArrivedInv ==
  /\ rnext <= nextNumber
  /\ \A k \in received : k < nextNumber
  /\ \A k \in acklist : Arrived(k)

IInv ==
  /\ TypeOK /\ NetInv /\ WindowInv /\ ArrivedInv /\ PayloadInv
  /\ ReadInv /\ NothingForgotten /\ AckIsKept /\ WithinRecvWindow

-----------------------------------------------------------------------------

\* Nothing is pushed, sent or received at first.
LEMMA InitInv == Init => IInv
<1> SUFFICES ASSUME Init PROVE IInv
  OBVIOUS
<1>1. /\ unacked = {} /\ received = {} /\ acklist = {} /\ net = {}
      /\ firstUnacknowledged = 0 /\ nextNumber = 0 /\ rnext = 0 /\ updated = FALSE /\ dirty = FALSE
  BY DEF Init, unacked, received
<1>2. leftOver \in Seq(Payloads) /\ delivered \in Seq(Payloads) /\ Len(leftOver) = 0 /\ Len(delivered) = 0
  BY DEF Init
<1>3. window \in [unacked -> Payloads] /\ cache \in [received -> Payloads]
  BY DEF Init, unacked, received
<1>4. 0 \in Numbers
  BY KCPAssumption DEF Numbers
<1>5. TypeOK
  BY <1>1, <1>2, <1>3, <1>4, Zenon DEF TypeOK
<1>6. NetInv /\ WindowInv /\ PayloadInv
  BY <1>1 DEF NetInv, WindowInv, PayloadInv
<1>7. ArrivedInv /\ NothingForgotten /\ AckIsKept /\ WithinRecvWindow
  BY <1>1, KCPAssumption DEF ArrivedInv, NothingForgotten, AckIsKept, WithinRecvWindow, Arrived, Below, Numbers
<1>8. ReadInv
  BY <1>1, <1>2 DEF ReadInv
<1> QED BY <1>5, <1>6, <1>7, <1>8 DEF IInv

\* The fields of a segment, by its type.
LEMMA SegmentFields ==
  ASSUME TypeOK, NEW m \in net
  PROVE  /\ m.type = "data" => m.number \in Numbers /\ m.payload \in Payloads /\ m.sendingNext \in Numbers
         /\ m.type = "senderPing" => m.sendingNext \in Numbers
         /\ m.type = "ack" => m.receivingNext \in Numbers /\ m.numbers \subseteq Numbers
         /\ m.type = "receiverPing" => m.receivingNext \in Numbers
BY DEF TypeOK, Segment, DataSegment, AckSegment, PingOfSender, PingOfReceiver

\* The sending end only ever raises firstUnacknowledged, and the payloads of what
\* stays in the window stay.
LEMMA AcknowledgeRaises ==
  ASSUME IInv, NEW numbers, Acknowledge(numbers)
  PROVE  /\ firstUnacknowledged <= firstUnacknowledged'
         /\ WindowInv' /\ unacked' = unacked \ numbers /\ nextNumber' = nextNumber
         /\ window' \in [unacked' -> Payloads] /\ \A k \in unacked' : window'[k] = window[k]
         /\ firstUnacknowledged' \in Numbers /\ updated' \in BOOLEAN
<1>1. unacked' = unacked \ numbers
  BY DEF Acknowledge, unacked
<1>2. window' \in [unacked' -> Payloads] /\ \A k \in unacked' : window'[k] = window[k]
  BY <1>1 DEF Acknowledge, IInv, TypeOK
<1>3. updated' \in BOOLEAN
  BY Zenon DEF Acknowledge
<1>4. /\ firstUnacknowledged <= firstUnacknowledged' /\ WindowInv'
      /\ nextNumber' = nextNumber /\ firstUnacknowledged' \in Numbers
  BY <1>1, KCPAssumption DEF IInv, TypeOK, WindowInv, Acknowledge, IsFirst, Numbers
<1> QED BY <1>1, <1>2, <1>3, <1>4

\* The segments that one flush adds are of the right type and true.
LEMMA WriteStep ==
  ASSUME IInv, NEW segs, segs \subseteq Segment, Write(segs),
         UNCHANGED <<firstUnacknowledged, nextNumber, rnext, received>>,
         \A m \in segs :
           /\ m.type = "data" => /\ m.number < nextNumber /\ m.payload = Message[m.number + 1]
                                 /\ m.sendingNext <= firstUnacknowledged
           /\ m.type = "senderPing" => m.sendingNext <= firstUnacknowledged
           /\ m.type = "ack" => m.receivingNext <= rnext /\ \A k \in m.numbers : Arrived(k)
           /\ m.type = "receiverPing" => m.receivingNext <= rnext
  PROVE  NetInv' /\ net' \subseteq Segment
BY DEF IInv, TypeOK, NetInv, Write, Arrived

\* The receiving end keeps its part of the invariant when it stays as it is.
LEMMA ReceiverStays ==
  ASSUME UNCHANGED recvVars
  PROVE  /\ UNCHANGED <<received, cache, acklist, dirty, rnext, leftOver, delivered>>
         /\ (ReadInv => ReadInv') /\ (WithinRecvWindow => WithinRecvWindow')
         /\ \A k : Arrived(k)' <=> Arrived(k)
<1>1. UNCHANGED <<received, cache, acklist, dirty, rnext, leftOver, delivered>>
  BY DEF recvVars, received
<1> QED BY <1>1 DEF ReadInv, WithinRecvWindow, Arrived

\* What was true of a segment stays true when the counters of the sending end grow.
LEMMA NetInvKept ==
  ASSUME IInv, UNCHANGED <<recvVars, net>>, nextNumber' \in Nat, firstUnacknowledged' \in Nat,
         nextNumber <= nextNumber', firstUnacknowledged <= firstUnacknowledged'
  PROVE  NetInv'
<1>1. /\ nextNumber \in Nat /\ firstUnacknowledged \in Nat
      /\ \A m \in net : /\ m.type = "data" => m.number \in Nat /\ m.sendingNext \in Nat
                        /\ m.type = "senderPing" => m.sendingNext \in Nat
  BY SegmentFields DEF IInv, TypeOK, Numbers
<1>2. UNCHANGED <<rnext, net>> /\ \A k : Arrived(k)' <=> Arrived(k)
  BY ReceiverStays
<1>3. SUFFICES ASSUME NEW m \in net
               PROVE  /\ m.type = "data" => /\ m.number < nextNumber' /\ m.payload = Message[m.number + 1]
                                            /\ m.sendingNext <= firstUnacknowledged'
                      /\ m.type = "senderPing" => m.sendingNext <= firstUnacknowledged'
                      /\ m.type = "ack" => m.receivingNext <= rnext /\ \A k \in m.numbers : Arrived(k)
                      /\ m.type = "receiverPing" => m.receivingNext <= rnext
  BY <1>2, Zenon DEF NetInv
<1> QED BY <1>1, <1>3 DEF IInv, NetInv

\* And so does the sending end.
LEMMA SenderStays ==
  ASSUME UNCHANGED sendVars
  PROVE  UNCHANGED <<unacked, window, firstUnacknowledged, nextNumber, updated>> /\ (WindowInv => WindowInv')
BY DEF sendVars, unacked, WindowInv

-----------------------------------------------------------------------------

LEMMA PushStep == ASSUME IInv, Push PROVE IInv'
<1>1. /\ nextNumber \in Nat /\ nextNumber < MaxNumber /\ nextNumber' = nextNumber + 1
      /\ UNCHANGED <<firstUnacknowledged, updated, recvVars, net>>
  BY KCPAssumption DEF Push, IInv, TypeOK, Numbers
<1>2. unacked' = unacked \cup {nextNumber}
  BY DEF Push, unacked
<1>3. Message[nextNumber + 1] \in Payloads /\ nextNumber \in Numbers /\ nextNumber + 1 \in Numbers
  BY <1>1, KCPAssumption DEF Payloads, Numbers
<1>4. \A k \in unacked : k # nextNumber
  BY <1>1 DEF IInv, WindowInv, TypeOK, Numbers
<1>5. /\ window' \in [unacked' -> Payloads] /\ window'[nextNumber] = Message[nextNumber + 1]
      /\ \A k \in unacked : window'[k] = window[k]
  BY <1>2, <1>3, <1>4 DEF Push, IInv, TypeOK
<1>6. TypeOK'
  BY <1>1, <1>2, <1>3, <1>5, ReceiverStays, Zenon DEF IInv, TypeOK
<1>7. NetInv'
  <2>1. firstUnacknowledged \in Nat
    BY DEF IInv, TypeOK, Numbers
  <2> QED BY <1>1, <2>1, NetInvKept
<1>8. PayloadInv'
  BY <1>2, <1>5, <1>1, ReceiverStays DEF IInv, PayloadInv
<1>9. WindowInv' /\ ArrivedInv'
  <2>1. WindowInv'
    BY <1>1, <1>2 DEF IInv, TypeOK, WindowInv, Numbers
  <2>2. UNCHANGED <<received, acklist, rnext>> /\ \A k : Arrived(k)' <=> Arrived(k)
    BY <1>1, ReceiverStays
  <2>3. rnext \in Nat /\ \A k \in received : k \in Nat
    BY DEF IInv, TypeOK, Numbers
  <2> HIDE DEF Arrived
  <2>4. ArrivedInv'
    BY <1>1, <2>2, <2>3 DEF IInv, ArrivedInv
  <2> QED BY <2>1, <2>4
<1>10. NothingForgotten'
  BY <1>1, <1>2, ReceiverStays, KCPAssumption DEF IInv, NothingForgotten, Below, Numbers
<1>11. AckIsKept'
  <2>1. ~Arrived(nextNumber)
    BY <1>1, KCPAssumption DEF IInv, TypeOK, ArrivedInv, Arrived, Numbers
  <2> QED BY <1>1, <1>2, <2>1, ReceiverStays DEF IInv, AckIsKept
<1> QED BY <1>1, <1>6, <1>7, <1>8, <1>9, <1>10, <1>11, ReceiverStays DEF IInv

\* Acks remove from the window only what has arrived.
LEMMA AcknowledgeStep ==
  ASSUME IInv, NEW numbers, Acknowledge(numbers), UNCHANGED <<recvVars, net>>,
         \A k \in numbers : Arrived(k)
  PROVE  IInv'
<1>1. TypeOK'
  BY AcknowledgeRaises, ReceiverStays, Zenon DEF IInv, TypeOK
<1>2. NetInv'
  <2>1. nextNumber' = nextNumber /\ nextNumber \in Nat /\ firstUnacknowledged <= firstUnacknowledged'
    BY AcknowledgeRaises DEF IInv, TypeOK, Numbers
  <2>2. firstUnacknowledged' \in Nat
    BY AcknowledgeRaises DEF Numbers
  <2> QED BY <2>1, <2>2, NetInvKept
<1>3. PayloadInv'
  BY AcknowledgeRaises, ReceiverStays DEF IInv, PayloadInv
<1>4. ArrivedInv' /\ WindowInv'
  BY AcknowledgeRaises, ReceiverStays DEF IInv, ArrivedInv
<1>5. NothingForgotten' /\ AckIsKept'
  BY AcknowledgeRaises, ReceiverStays DEF IInv, NothingForgotten, AckIsKept, Below
<1> QED BY <1>1, <1>2, <1>3, <1>4, <1>5, ReceiverStays DEF IInv

LEMMA ProcessAckStep == ASSUME IInv, NEW m \in net, ProcessAck(m) PROVE IInv'
<1> DEFINE numbers == Below(m.receivingNext) \cup m.numbers
<1>1. \A k \in numbers : Arrived(k)
  BY SegmentFields, KCPAssumption DEF ProcessAck, IInv, NetInv, TypeOK, Arrived, Below, Numbers
<1>2. Acknowledge(numbers) /\ UNCHANGED <<recvVars, net>>
  BY DEF ProcessAck
<1> HIDE DEF numbers
<1> QED BY <1>1, <1>2, AcknowledgeStep

LEMMA ProcessReceiverPingStep == ASSUME IInv, NEW m \in net, ProcessReceiverPing(m) PROVE IInv'
<1> DEFINE numbers == Below(m.receivingNext)
<1>1. \A k \in numbers : Arrived(k)
  BY SegmentFields, KCPAssumption DEF ProcessReceiverPing, IInv, NetInv, TypeOK, Arrived, Below, Numbers
<1>2. Acknowledge(numbers) /\ UNCHANGED <<recvVars, net>>
  BY DEF ProcessReceiverPing
<1> HIDE DEF numbers
<1> QED BY <1>1, <1>2, AcknowledgeStep

\* Nothing but the network and the flags of the flushes changes.
LEMMA FlushKeeps ==
  ASSUME IInv, NetInv', net' \subseteq Segment, updated' \in BOOLEAN, dirty' \in BOOLEAN,
         UNCHANGED <<window, firstUnacknowledged, nextNumber, cache, acklist, rnext, leftOver, delivered>>
  PROVE  IInv'
<1>1. UNCHANGED <<unacked, received>>
  BY DEF unacked, received
<1>2. TypeOK'
  BY <1>1, Zenon DEF IInv, TypeOK
<1>3. WindowInv' /\ PayloadInv' /\ ReadInv'
  BY <1>1 DEF IInv, WindowInv, PayloadInv, ReadInv
<1>4. ArrivedInv' /\ NothingForgotten' /\ AckIsKept' /\ WithinRecvWindow'
  BY <1>1 DEF IInv, ArrivedInv, NothingForgotten, AckIsKept, WithinRecvWindow, Arrived, Below
<1> QED BY <1>2, <1>3, <1>4 DEF IInv

LEMMA SenderFlushStep ==
  ASSUME IInv, NEW due, NEW ping, SenderFlush(due, ping) PROVE IInv'
<1> DEFINE segs == Data(due) \cup IF ping THEN {SenderPing} ELSE {}
<1>0. \A k \in due : k \in Numbers /\ k < nextNumber /\ window[k] \in Payloads /\ window[k] = Message[k + 1]
  BY DEF SenderFlush, IInv, TypeOK, WindowInv, PayloadInv
<1>1. segs \subseteq Segment
  BY <1>0 DEF Data, SenderPing, IInv, TypeOK, Segment, DataSegment, PingOfSender
<1>2. \A m \in segs :
           /\ m.type = "data" => /\ m.number < nextNumber /\ m.payload = Message[m.number + 1]
                                 /\ m.sendingNext <= firstUnacknowledged
           /\ m.type = "senderPing" => m.sendingNext <= firstUnacknowledged
           /\ m.type = "ack" => m.receivingNext <= rnext /\ \A k \in m.numbers : Arrived(k)
           /\ m.type = "receiverPing" => m.receivingNext <= rnext
  BY <1>0, KCPAssumption DEF Data, SenderPing, IInv, TypeOK, Numbers
<1>3. /\ Write(segs) /\ UNCHANGED <<window, firstUnacknowledged, nextNumber, recvVars>>
      /\ updated' = FALSE /\ updated' \in BOOLEAN
  BY DEF SenderFlush
<1> HIDE DEF segs
<1>4. NetInv' /\ net' \subseteq Segment
  BY <1>1, <1>2, <1>3, WriteStep, ReceiverStays
<1>5. dirty' \in BOOLEAN
  BY <1>3, ReceiverStays, Zenon DEF IInv, TypeOK
<1> QED BY <1>3, <1>4, <1>5, FlushKeeps, ReceiverStays

LEMMA ProcessDataStep == ASSUME IInv, NEW m \in net, ProcessData(m) PROVE IInv'
<1>0. /\ m.number \in Numbers /\ m.payload \in Payloads /\ m.sendingNext \in Numbers
      /\ m.number < nextNumber /\ m.payload = Message[m.number + 1] /\ m.sendingNext <= firstUnacknowledged
  BY SegmentFields DEF ProcessData, IInv, NetInv
<1>1. /\ m.number >= rnext /\ m.number < rnext + RecvWindow
      /\ acklist' = (acklist \ Below(m.sendingNext)) \cup {m.number} /\ dirty' \in BOOLEAN
      /\ UNCHANGED <<rnext, leftOver, delivered, net, sendVars>>
  BY DEF ProcessData
<1>2. received' = received \cup {m.number}
  BY DEF ProcessData, received
<1>3. /\ cache' \in [received' -> Payloads]
      /\ \A k \in received' : cache'[k] = IF k \in received THEN cache[k] ELSE m.payload
  BY <1>0, <1>2 DEF ProcessData, IInv, TypeOK
<1>4. TypeOK'
  BY <1>0, <1>1, <1>2, <1>3, SenderStays, Zenon DEF IInv, TypeOK
<1>5. PayloadInv'
  BY <1>0, <1>2, <1>3, <1>1, SenderStays DEF IInv, PayloadInv
<1>6. WindowInv' /\ ArrivedInv'
  BY <1>0, <1>1, <1>2, SenderStays DEF IInv, ArrivedInv, Arrived
<1>7. NetInv'
  BY <1>1, <1>2, SenderStays DEF IInv, NetInv, Arrived
<1>8. ReadInv'
  BY <1>1 DEF IInv, ReadInv
<1>9. WithinRecvWindow'
  BY <1>1, <1>2 DEF IInv, WithinRecvWindow
<1>10. NothingForgotten'
  BY <1>1, <1>2, SenderStays DEF IInv, NothingForgotten, Arrived, Below
<1>11. AckIsKept'
  <2>1. UNCHANGED <<unacked, rnext>> /\ \A k \in unacked : k \in Nat /\ k \notin Below(m.sendingNext)
    BY <1>0, <1>1, SenderStays DEF IInv, TypeOK, WindowInv, Below, Numbers
  <2>2. \A k : Arrived(k)' <=> Arrived(k) \/ k = m.number
    BY <1>1, <1>2, <2>1 DEF Arrived
  <2> QED BY <1>1, <2>1, <2>2 DEF IInv, AckIsKept
<1> QED BY <1>4, <1>5, <1>6, <1>7, <1>8, <1>9, <1>10, <1>11 DEF IInv

LEMMA ProcessSenderPingStep == ASSUME IInv, NEW m \in net, ProcessSenderPing(m) PROVE IInv'
<1>0. m.sendingNext \in Numbers /\ m.sendingNext <= firstUnacknowledged
  BY SegmentFields DEF ProcessSenderPing, IInv, NetInv
<1>1. /\ acklist' = acklist \ Below(m.sendingNext) /\ dirty' \in BOOLEAN
      /\ UNCHANGED <<cache, received, rnext, leftOver, delivered, net, sendVars>>
  BY Zenon DEF ProcessSenderPing, Clear, received
<1>2. TypeOK'
  BY <1>1, SenderStays, Zenon DEF IInv, TypeOK
<1>3. WindowInv' /\ ArrivedInv' /\ NetInv'
  BY <1>1, SenderStays DEF IInv, ArrivedInv, Arrived, NetInv
<1>4. PayloadInv' /\ ReadInv' /\ WithinRecvWindow' /\ NothingForgotten'
  BY <1>1, SenderStays DEF IInv, PayloadInv, ReadInv, WithinRecvWindow, NothingForgotten, Arrived, Below
<1>5. AckIsKept'
  <2>1. UNCHANGED <<unacked, rnext>> /\ \A k \in unacked : k \in Nat /\ k \notin Below(m.sendingNext)
    BY <1>0, <1>1, SenderStays DEF IInv, TypeOK, WindowInv, Below, Numbers
  <2>2. \A k : Arrived(k)' <=> Arrived(k)
    BY <1>1, <2>1 DEF Arrived
  <2> QED BY <1>1, <2>1, <2>2 DEF IInv, AckIsKept
<1> QED BY <1>2, <1>3, <1>4, <1>5 DEF IInv

LEMMA ReceiverFlushStep ==
  ASSUME IInv, NEW ack, NEW ping, ReceiverFlush(ack, ping) PROVE IInv'
<1> DEFINE segs == (IF ack THEN {Ack} ELSE {}) \cup IF ping THEN {ReceiverPing} ELSE {}
<1>1. segs \subseteq Segment
  BY DEF Ack, ReceiverPing, IInv, TypeOK, Segment, AckSegment, PingOfReceiver
<1>2. \A m \in segs :
           /\ m.type = "data" => /\ m.number < nextNumber /\ m.payload = Message[m.number + 1]
                                 /\ m.sendingNext <= firstUnacknowledged
           /\ m.type = "senderPing" => m.sendingNext <= firstUnacknowledged
           /\ m.type = "ack" => m.receivingNext <= rnext /\ \A k \in m.numbers : Arrived(k)
           /\ m.type = "receiverPing" => m.receivingNext <= rnext
  BY KCPAssumption DEF Ack, ReceiverPing, IInv, TypeOK, ArrivedInv, Numbers
<1>3. /\ Write(segs) /\ UNCHANGED <<cache, acklist, rnext, leftOver, delivered, sendVars>>
      /\ dirty' \in BOOLEAN
  BY DEF ReceiverFlush
<1> HIDE DEF segs
<1>4. NetInv' /\ net' \subseteq Segment
  BY <1>1, <1>2, <1>3, WriteStep, SenderStays DEF received
<1>5. updated' \in BOOLEAN
  BY <1>3, SenderStays, Zenon DEF IInv, TypeOK
<1> QED BY <1>3, <1>4, <1>5, FlushKeeps, SenderStays

\* A function of 1..n is a sequence of n elements.
LEMMA FunctionIsSequence ==
  ASSUME NEW S, NEW n \in Nat, NEW f \in [1..n -> S]
  PROVE  f \in Seq(S) /\ Len(f) = n
OBVIOUS

\* The first m payloads of mb, and the rest of it.
LEMMA SplitParts ==
  ASSUME NEW mb \in Seq(Payloads), NEW m \in 1..Len(mb), delivered \in Seq(Payloads), Split(mb, m),
         \A i \in 1..Len(delivered) : delivered[i] = Message[i],
         \A i \in 1..Len(mb) : mb[i] = Message[Len(delivered) + i]
  PROVE  /\ delivered' \in Seq(Payloads) /\ leftOver' \in Seq(Payloads)
         /\ Len(delivered') + Len(leftOver') = Len(delivered) + Len(mb)
         /\ \A i \in 1..Len(delivered') : delivered'[i] = Message[i]
         /\ \A i \in 1..Len(leftOver') : leftOver'[i] = Message[Len(delivered') + i]
<1> DEFINE a == SubSeq(mb, 1, m)
           b == SubSeq(mb, m + 1, Len(mb))
<1>1. /\ a \in Seq(Payloads) /\ Len(a) = m /\ \A i \in 1..m : a[i] = mb[i]
      /\ b \in Seq(Payloads) /\ Len(b) = Len(mb) - m /\ \A i \in 1..(Len(mb) - m) : b[i] = mb[m + i]
  OBVIOUS
<1>2. delivered' = delivered \o a /\ leftOver' = b
  BY DEF Split
<1> HIDE DEF a, b
<1>3. /\ delivered' \in Seq(Payloads) /\ Len(delivered') = Len(delivered) + m
      /\ \A i \in 1..Len(delivered) : delivered'[i] = delivered[i]
      /\ \A i \in 1..m : delivered'[Len(delivered) + i] = a[i]
  BY <1>1, <1>2
<1>4. Len(delivered) \in Nat /\ Len(mb) \in Nat /\ m \in Nat /\ m <= Len(mb)
  OBVIOUS
<1>5. ASSUME NEW i \in 1..Len(delivered') PROVE delivered'[i] = Message[i]
  <2>1. CASE i <= Len(delivered)
    BY <1>3, <2>1
  <2>2. CASE i > Len(delivered)
    <3>1. PICK k \in 1..m : i = Len(delivered) + k
      <4>1. i - Len(delivered) \in 1..m
        BY <1>3, <1>4, <2>2
      <4> QED BY <1>4, <4>1
    <3>2. delivered'[i] = a[k] /\ a[k] = mb[k] /\ k \in 1..Len(mb)
      BY <1>1, <1>3, <1>4, <3>1
    <3> QED BY <3>1, <3>2
  <2> QED BY <1>3, <1>4, <2>1, <2>2
<1>6. ASSUME NEW i \in 1..Len(leftOver') PROVE leftOver'[i] = Message[Len(delivered') + i]
  <2>1. leftOver'[i] = mb[m + i] /\ m + i \in 1..Len(mb)
    BY <1>1, <1>2, <1>4
  <2>2. leftOver'[i] = Message[Len(delivered) + (m + i)]
    BY <2>1
  <2> QED BY <1>2, <1>1, <1>3, <1>4, <2>2
<1>7. Len(delivered') + Len(leftOver') = Len(delivered) + Len(mb)
  <2>1. Len(leftOver') = Len(mb) - m
    BY <1>1, <1>2
  <2> QED BY <1>3, <1>4, <2>1
<1> QED BY <1>1, <1>2, <1>3, <1>5, <1>6, <1>7

LEMMA ReadStep ==
  ASSUME IInv, NEW n \in Numbers, NEW m \in 1..(n - rnext), ReadMultiBuffer(n, m) PROVE IInv'
<1> DEFINE mb == [i \in 1..(n - rnext) |-> cache[rnext + i - 1]]
<1>0. /\ rnext \in Nat /\ n \in Nat /\ n > rnext /\ n - rnext \in Nat /\ leftOver = <<>> /\ rnext' = n
      /\ UNCHANGED <<acklist, dirty, sendVars, net>> /\ Split(mb, m)
      /\ \A k \in rnext..(n - 1) : k \in received
  BY KCPAssumption DEF ReadMultiBuffer, IInv, TypeOK, Numbers
<1>1. \A i \in 1..(n - rnext) : rnext + i - 1 \in received /\ cache[rnext + i - 1] = Message[rnext + i]
  <2>1. \A i \in 1..(n - rnext) : rnext + i - 1 \in rnext..(n - 1) /\ (rnext + i - 1) + 1 = rnext + i
    BY <1>0
  <2> QED BY <1>0, <2>1 DEF IInv, PayloadInv
<1>2. mb \in Seq(Payloads) /\ Len(mb) = n - rnext /\ \A i \in 1..Len(mb) : mb[i] = Message[rnext + i]
  <2>1. \A i \in 1..(n - rnext) : mb[i] \in Payloads /\ mb[i] = Message[rnext + i]
    BY <1>0, <1>1 DEF IInv, TypeOK
  <2>2. mb \in [1..(n - rnext) -> Payloads]
    BY <2>1
  <2> HIDE DEF mb
  <2>3. mb \in Seq(Payloads) /\ Len(mb) = n - rnext
    BY <1>0, <2>2, FunctionIsSequence
  <2> QED BY <2>1, <2>3
<1>3. Len(delivered) = rnext /\ delivered \in Seq(Payloads)
  BY <1>0 DEF IInv, ReadInv, TypeOK
<1> HIDE DEF mb
<1>4. /\ delivered' \in Seq(Payloads) /\ leftOver' \in Seq(Payloads)
      /\ Len(delivered') + Len(leftOver') = Len(delivered) + Len(mb)
      /\ \A i \in 1..Len(delivered') : delivered'[i] = Message[i]
      /\ \A i \in 1..Len(leftOver') : leftOver'[i] = Message[Len(delivered') + i]
  BY <1>0, <1>2, <1>3, SplitParts DEF IInv, ReadInv
<1>5. ReadInv'
  BY <1>0, <1>2, <1>3, <1>4 DEF ReadInv
<1>6. received' = received \ Below(n)
  BY DEF ReadMultiBuffer, received
<1>7. cache' \in [received' -> Payloads] /\ \A k \in received' : cache'[k] = cache[k]
  BY <1>6 DEF ReadMultiBuffer, IInv, TypeOK
<1>8. \A k \in Numbers : Arrived(k)' <=> Arrived(k)
  BY <1>0, <1>6, KCPAssumption DEF Arrived, Below, IInv, TypeOK, Numbers
<1>9. TypeOK'
  BY <1>0, <1>4, <1>6, <1>7, SenderStays, Zenon DEF IInv, TypeOK
<1>10. PayloadInv'
  BY <1>0, <1>6, <1>7, SenderStays DEF IInv, PayloadInv
<1>11. ArrivedInv'
  BY <1>0, <1>6, <1>8, SenderStays, KCPAssumption DEF IInv, TypeOK, ArrivedInv, Numbers
<1>12. NetInv'
  BY <1>0, <1>8, SegmentFields, SenderStays, KCPAssumption DEF IInv, NetInv, Numbers
<1>13. WindowInv' /\ NothingForgotten' /\ AckIsKept'
  BY <1>0, <1>8, SenderStays DEF IInv, TypeOK, NothingForgotten, AckIsKept, Below
<1>14. WithinRecvWindow'
  BY <1>0, <1>6, KCPAssumption DEF IInv, TypeOK, WithinRecvWindow, Below, Numbers
<1> QED BY <1>5, <1>9, <1>10, <1>11, <1>12, <1>13, <1>14 DEF IInv

LEMMA ReadLeftOverStep == ASSUME IInv, NEW m \in 1..Len(leftOver), ReadLeftOver(m) PROVE IInv'
<1>1. Split(leftOver, m) /\ UNCHANGED <<cache, rnext, acklist, dirty, sendVars, net>>
  BY DEF ReadLeftOver
<1>2. /\ delivered' \in Seq(Payloads) /\ leftOver' \in Seq(Payloads)
      /\ Len(delivered') + Len(leftOver') = Len(delivered) + Len(leftOver)
      /\ \A i \in 1..Len(delivered') : delivered'[i] = Message[i]
      /\ \A i \in 1..Len(leftOver') : leftOver'[i] = Message[Len(delivered') + i]
  BY <1>1, SplitParts DEF IInv, TypeOK, ReadInv
<1>3. UNCHANGED <<received, unacked>>
  BY <1>1, SenderStays DEF received
<1>4. TypeOK'
  BY <1>1, <1>2, <1>3, SenderStays, Zenon DEF IInv, TypeOK
<1>5. ReadInv'
  BY <1>1, <1>2 DEF IInv, ReadInv
<1>6. PayloadInv' /\ WindowInv' /\ NetInv'
  BY <1>1, <1>3, SenderStays DEF IInv, PayloadInv, NetInv, Arrived
<1>7. ArrivedInv' /\ NothingForgotten' /\ AckIsKept' /\ WithinRecvWindow'
  BY <1>1, <1>3, SenderStays DEF IInv, ArrivedInv, NothingForgotten, AckIsKept, WithinRecvWindow, Arrived, Below
<1> QED BY <1>4, <1>5, <1>6, <1>7 DEF IInv

-----------------------------------------------------------------------------

LEMMA StepInv == ASSUME IInv, [Next]_vars PROVE IInv'
<1>1. CASE UNCHANGED vars
  <2>1. /\ UNCHANGED <<window, firstUnacknowledged, nextNumber, cache, acklist, rnext, leftOver, delivered>>
        /\ net' \subseteq Segment /\ updated' \in BOOLEAN /\ dirty' \in BOOLEAN
    BY <1>1, Zenon DEF vars, sendVars, recvVars, IInv, TypeOK
  <2>2. NetInv'
    BY <1>1, <2>1 DEF vars, IInv, NetInv, Arrived, received
  <2> QED BY <2>1, <2>2, FlushKeeps
<1>2. CASE Push
  BY <1>2, PushStep
<1>3. CASE Read
  BY <1>3, ReadStep, ReadLeftOverStep DEF Read
<1>4. ASSUME NEW m \in net, Input(m) PROVE IInv'
  BY <1>4, ProcessAckStep, ProcessReceiverPingStep, ProcessDataStep, ProcessSenderPingStep DEF Input
<1>5. ASSUME NEW due, NEW ping, SenderFlush(due, ping) PROVE IInv'
  BY <1>5, SenderFlushStep
<1>6. ASSUME NEW ack, NEW ping, ReceiverFlush(ack, ping) PROVE IInv'
  BY <1>6, ReceiverFlushStep
<1> QED BY <1>1, <1>2, <1>3, <1>4, <1>5, <1>6 DEF Next

LEMMA Inductive == Spec => []IInv
<1>1. Init => IInv
  BY InitInv
<1>2. IInv /\ [Next]_vars => IInv'
  BY StepInv
<1> QED BY <1>1, <1>2, PTL DEF Spec

\* The variables of both ends and the segments keep their types.
THEOREM TypeCorrect == Spec => []TypeOK
<1>1. IInv => TypeOK
  BY DEF IInv
<1> QED BY <1>1, Inductive, PTL

\* Whatever is written, and however the network loses, doubles and reorders the
\* segments: what Connection.Read and ReadMultiBuffer have given out is the
\* beginning of it.
THEOREM InOrder == Spec => []DeliveredInOrder
<1>1. IInv => DeliveredInOrder
  BY DEF IInv, TypeOK, ReadInv, ArrivedInv, DeliveredInOrder, Numbers
<1> QED BY <1>1, Inductive, PTL

\* SendingWindow.Clear and Remove drop a segment only after it has arrived.
THEOREM SenderForgetsNothing == Spec => []NothingForgotten
<1>1. IInv => NothingForgotten
  BY DEF IInv
<1> QED BY <1>1, Inductive, PTL

\* AckList.Clear gives an ack up only when the sender has seen it.
THEOREM AcksAreKept == Spec => []AckIsKept
<1>1. IInv => AckIsKept
  BY DEF IInv
<1> QED BY <1>1, Inductive, PTL

\* The receiving window stays within its size.
THEOREM ReceiverBounded == Spec => []WithinRecvWindow
<1>1. IInv => WithinRecvWindow
  BY DEF IInv
<1> QED BY <1>1, Inductive, PTL

-----------------------------------------------------------------------------
(* PeerHasClosed, for any updaters, network and number of connections *)

ByPeer == {"PeerClosed", "PeerTerminating"}
ByItself == {"ReadyToClose", "Terminating", "Terminated"}
State == {"Active"} \cup ByPeer \cup ByItself

ConnTypeOK ==
  /\ state \in [Ends -> State \cup {Absent}]
  /\ decided \in [Ends -> [Threads -> State \cup {Nothing}]]
  /\ wire \subseteq ConnSegment

\* Whatever speaks of a close of an end, whether its own state, a segment of
\* it on the way, or a decision of its peer that is yet to be stored, is there
\* only after that end has begun to close.
CloseInv ==
  /\ PeerHasClosed
  /\ \A e \in Ends, t \in Threads : decided[e][t] \in ByPeer => Peer(e) \in hasClosed
  /\ \A e \in Ends : state[e] \in ByItself => e \in hasClosed
  /\ \A m \in wire : m.kind = "terminate" \/ m.close => Peer(m.to) \in hasClosed

\* A thread that decides leaves all but its decision as it is.
LEMMA DecideKeeps ==
  ASSUME ConnTypeOK, CloseInv, NEW e \in Ends, NEW t \in Threads, NEW s \in State \cup {Nothing},
         s \in ByPeer => Peer(e) \in hasClosed,
         Decide(e, t, s), UNCHANGED <<state, hasClosed, wire>>
  PROVE  ConnTypeOK' /\ CloseInv'
<1>1. decided' \in [Ends -> [Threads -> State \cup {Nothing}]]
  BY DEF ConnTypeOK, Decide
<1>2. \A f \in Ends, u \in Threads : decided'[f][u] = IF f = e /\ u = t THEN s ELSE decided[f][u]
  BY DEF ConnTypeOK, Decide
<1> QED
  BY <1>1, <1>2 DEF ConnTypeOK, CloseInv, PeerHasClosed

\* Every step keeps the invariant.
LEMMA CloseInvStep ==
  ASSUME ConnTypeOK, CloseInv, [ConnNext]_connVars
  PROVE  ConnTypeOK' /\ CloseInv'
<1>1. ASSUME NEW e \in Ends, NEW t \in Threads, SetState(e, t)
      PROVE  ConnTypeOK' /\ CloseInv'
  <2>1. decided[e][t] \in State
    BY <1>1 DEF SetState, Idle, ConnTypeOK
  <2>2. /\ state' \in [Ends -> State \cup {Absent}]
        /\ \A f \in Ends : state'[f] = IF f = e THEN decided[e][t] ELSE state[f]
    BY <1>1, <2>1 DEF SetState, ConnTypeOK
  <2>3. /\ decided' \in [Ends -> [Threads -> State \cup {Nothing}]]
        /\ \A f \in Ends, u \in Threads : decided'[f][u] \in {Nothing, decided[f][u]}
    BY <1>1 DEF SetState, ConnTypeOK
  <2>4. /\ hasClosed \subseteq hasClosed' /\ wire' = wire
        /\ decided[e][t] \in ByItself => e \in hasClosed'
    BY <1>1 DEF SetState, ByItself
  <2>5. Nothing \notin ByPeer
    BY DEF Nothing, ByPeer
  <2>6. ConnTypeOK'
    BY <2>2, <2>3, <2>4 DEF ConnTypeOK
  <2>7. PeerHasClosed'
    BY <2>2, <2>4 DEF CloseInv, PeerHasClosed, ByPeer
  <2> QED
    BY <2>2, <2>3, <2>4, <2>5, <2>6, <2>7 DEF CloseInv
<1>2. ASSUME NEW e \in Ends, Close(e)
      PROVE  ConnTypeOK' /\ CloseInv'
  <2>1. CloseTo(state[e]) \in State /\ CloseTo(state[e]) \notin ByPeer
    BY <1>2 DEF Close, CloseTo, State, ByItself, ByPeer
  <2> QED
    BY <1>2, <2>1, DecideKeeps DEF Close, Threads
<1>3. ASSUME NEW e \in Ends, Terminate(e)
      PROVE  ConnTypeOK' /\ CloseInv'
  <2>1. /\ state' \in [Ends -> State \cup {Absent}]
        /\ \A f \in Ends : state'[f] \in {Absent, state[f]}
    BY <1>3 DEF Terminate, ConnTypeOK
  <2>2. /\ decided' \in [Ends -> [Threads -> State \cup {Nothing}]]
        /\ \A f \in Ends, u \in Threads : decided'[f][u] \in {Nothing, decided[f][u]}
    BY <1>3 DEF Terminate, ConnTypeOK
  <2>3. hasClosed' = hasClosed /\ wire' = wire
    BY <1>3 DEF Terminate
  <2>4. Nothing \notin ByPeer /\ Absent \notin ByPeer /\ Absent \notin ByItself
    BY DEF Nothing, Absent, ByPeer, ByItself
  <2> QED
    BY <2>1, <2>2, <2>3, <2>4 DEF ConnTypeOK, CloseInv, PeerHasClosed, ByPeer
<1>4. ASSUME NEW e \in Ends, PingStops(e)
      PROVE  ConnTypeOK' /\ CloseInv'
  BY <1>4 DEF PingStops, ConnTypeOK, CloseInv, PeerHasClosed
<1>5. ASSUME NEW e \in Ends, NEW u \in Updaters, FlushDecides(e, u)
      PROVE  ConnTypeOK' /\ CloseInv'
  <2>1. FlushTo(state[e]) \in State /\ FlushTo(state[e]) \notin ByPeer
    BY <1>5 DEF FlushDecides, FlushTo, State, ByItself, ByPeer
  <2> QED
    BY <1>5, <2>1, DecideKeeps DEF FlushDecides, Threads
<1>6. ASSUME NEW e \in Ends, NEW u \in Updaters, FlushSends(e, u)
      PROVE  ConnTypeOK' /\ CloseInv'
  <2> DEFINE seg == Seg(e, IF state[e] = "Terminating" THEN "terminate" ELSE "other")
  <2>1. wire' \subseteq wire \cup {seg}
    BY <1>6 DEF FlushSends, Send
  <2>2. seg \in ConnSegment /\ Peer(seg.to) = e
    BY DEF Seg, ConnSegment, Peer, Ends
  <2>3. seg.kind = "terminate" \/ seg.close => e \in hasClosed
    BY DEF Seg, CloseInv, ByItself
  <2>4. UNCHANGED <<state, decided, hasClosed>>
    BY <1>6 DEF FlushSends
  <2> HIDE DEF seg
  <2> QED
    BY <2>1, <2>2, <2>3, <2>4 DEF ConnTypeOK, CloseInv, PeerHasClosed
<1>7. ASSUME NEW e \in Ends, NEW m \in wire, ConnInput(e, m)
      PROVE  ConnTypeOK' /\ CloseInv'
  <2> DEFINE s == IF m.kind = "terminate" THEN TerminateTo(state[e])
                  ELSE IF m.close THEN PeerClosedTo(state[e]) ELSE Nothing
  <2>1. s \in State \cup {Nothing}
    BY DEF TerminateTo, PeerClosedTo, State, ByPeer, ByItself
  <2>2. s \in ByPeer => Peer(e) \in hasClosed
    BY <1>7 DEF ConnInput, CloseInv, ByPeer, Nothing
  <2>3. Decide(e, "input", s) /\ UNCHANGED <<state, hasClosed, wire>>
    BY <1>7 DEF ConnInput
  <2> HIDE DEF s
  <2> QED
    BY <2>1, <2>2, <2>3, DecideKeeps DEF Threads
<1>8. ASSUME NEW m \in wire, Accept(m)
      PROVE  ConnTypeOK' /\ CloseInv'
  <2>1. /\ state' \in [Ends -> State \cup {Absent}]
        /\ \A f \in Ends : state'[f] \in {"Active", state[f]}
    BY <1>8 DEF Accept, ConnTypeOK, State
  <2>2. PeerClosedTo("Active") = "PeerClosed"
    BY DEF PeerClosedTo
  <2>3. /\ decided' \in [Ends -> [Threads -> State \cup {Nothing}]]
        /\ \A f \in Ends, u \in Threads :
             decided'[f][u] \in {Nothing, decided[f][u]} \/ (f = "listener" /\ m.close)
    BY <1>8, <2>2 DEF Accept, ConnTypeOK, State, ByPeer, Ends
  <2>4. hasClosed' = hasClosed /\ wire' = wire /\ m.to = "listener"
    BY <1>8 DEF Accept
  <2>5. Nothing \notin ByPeer /\ "Active" \notin ByPeer /\ "Active" \notin ByItself
    BY DEF Nothing, ByPeer, ByItself
  <2> QED
    BY <2>1, <2>3, <2>4, <2>5 DEF ConnTypeOK, CloseInv, PeerHasClosed, ByPeer
<1>9. ASSUME CloseListener
      PROVE  ConnTypeOK' /\ CloseInv'
  BY <1>9 DEF CloseListener, ConnTypeOK, CloseInv, PeerHasClosed
<1>10. ASSUME UNCHANGED connVars
       PROVE  ConnTypeOK' /\ CloseInv'
  BY <1>10 DEF connVars, ConnTypeOK, CloseInv, PeerHasClosed
<1> QED
  BY <1>1, <1>2, <1>3, <1>4, <1>5, <1>6, <1>7, <1>8, <1>9, <1>10 DEF ConnNext

\* A connection is closed by its peer only when the peer has begun to close,
\* whatever the network repeats, delays and reorders, whichever goroutines
\* overwrite each other's state, and however many sessions are made anew.
THEOREM PeerClosedFirst == ConnSpec => []PeerHasClosed
<1>1. ConnInit => ConnTypeOK /\ CloseInv
  BY DEF ConnInit, ConnTypeOK, CloseInv, PeerHasClosed, State, Ends, ByPeer, ByItself, Absent, Nothing
<1>2. ConnTypeOK /\ CloseInv /\ [ConnNext]_connVars => (ConnTypeOK /\ CloseInv)'
  BY CloseInvStep
<1>3. CloseInv => PeerHasClosed
  BY DEF CloseInv
<1> QED
  BY <1>1, <1>2, <1>3, PTL DEF ConnSpec
=============================================================================
