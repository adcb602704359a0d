------------------------------ MODULE Streams -------------------------------
(****************************************************************************)
(* Bytes on their way: the buffers, readers and writers of common/buf, and  *)
(* the connections of the stream transports that wrap others.               *)
(****************************************************************************)
EXTENDS Integers, Sequences, SequencesExt, FiniteSetsExt

(***************************************************************************)
(* common/buf: the bytes of one direction of a connection on their way     *)
(* from the underlying io.Reader, through a BufferedReader, the hands of   *)
(* the code between (a MultiBuffer it splits, merges and compacts) and a   *)
(* BufferedWriter, to the underlying writer.                               *)
(*                                                                         *)
(* The stream is the sequence 1..MaxData, so a byte says where it belongs. *)
(* A Buffer is its content and the position end of its content in the      *)
(* array v of Size bytes; a released Buffer is simply gone, and a nil one  *)
(* (what SingleReader returns with an error) is an absent one: every       *)
(* method of Buffer the code calls on nil answers as on an empty one.      *)
(* Counters, the pool and UDP addresses (PacketCodecs) are left out.       *)
(***************************************************************************)

CONSTANTS BufData,      \* bytes of the stream
          Size,         \* of a Buffer (8192)
          MaxAlloc,     \* Buffers of one readv (8)
          Sizes,        \* what callers ask to read or to write at once
          MaxHand       \* Buffers in the caller's hands: a bound

VARIABLES reader,       \* "single" (SingleReader) or "readv" (ReadVReader)
          writer,       \* "bytes" (an io.Writer too) or "multi" (a Writer only)
          unread,         \* what the io.Reader has not delivered
          alloc,        \* ReadVReader.alloc.current
          over,         \* the reader has reported io.EOF
          inside,       \* BufferedReader.Buffer
          hand,         \* what the code between holds
          buffer,       \* BufferedWriter.buffer: <<>> for nil, or <<b>>
          buffered, flushNext,
          sink,         \* what the underlying writer has been given
          dropped,      \* bytes BufferedReader.Read left in an mb with an error
          failed,       \* Write returned ErrBufferFull
          panicked      \* common.Must2 in Compact

bufVars == <<reader, writer, unread, alloc, over, inside, hand, buffer, buffered,
             flushNext, sink, dropped, failed, panicked>>

rvars == <<unread, alloc, over, inside, dropped>>
wvars == <<buffer, buffered, flushNext, sink, failed>>

(* Buffer *)

New == [data |-> <<>>, end |-> 0]

Available(b) == Size - b.end

IsFull(b) == b.end = Size

\* Buffer.Write and Buffer.ReadFrom: as much of s as there is room for.
BufferWrite(b, s) ==
    LET n == Min({Available(b), Len(s)})
    IN  [data |-> b.data \o SubSeq(s, 1, n), end |-> b.end + n]

\* Buffer.Read: a Buffer read to its end starts again from 0.
BufferRead(b, n) ==
    IF n >= Len(b.data) THEN New
                        ELSE [b EXCEPT !.data = SubSeq(@, n + 1, Len(@))]

(* MultiBuffer *)

BufBytes(mb) == FlattenSeq([i \in DOMAIN mb |-> mb[i].data])

\* Whole Buffers of s, the last one with what remains: MergeBytes' loop, and
\* how readv fills the Buffers it is given.
Chunks(s) ==
    [i \in 1 .. (Len(s) + Size - 1) \div Size |->
        BufferWrite(New, SubSeq(s, (i - 1) * Size + 1, Len(s)))]

MergeBytes(dest, src) ==
    IF dest # <<>> /\ ~IsFull(Last(dest))
    THEN LET n == Min({Available(Last(dest)), Len(src)})
         IN  Front(dest) \o <<BufferWrite(Last(dest), src)>>
                         \o Chunks(SubSeq(src, n + 1, Len(src)))
    ELSE dest \o Chunks(src)

MergeMulti(dest, src) == dest \o src

\* Where the n-th byte of mb lies: Buffers before `whole` fit into n bytes.
Before(mb, i) == Len(BufBytes(SubSeq(mb, 1, i)))
Whole(mb, n) == Max({i \in 0..Len(mb) : Before(mb, i) <= n})

\* SplitBytes, when n bytes are asked for: what is left, and the bytes.
SplitBytes(mb, n) ==
    LET k == Whole(mb, n)
        left == SubSeq(mb, k + 1, Len(mb))
    IN  [bytes |-> SubSeq(BufBytes(mb), 1, Min({n, Len(BufBytes(mb))})),
         mb |-> IF left = <<>> THEN <<>>
                ELSE <<BufferRead(Head(left), n - Before(mb, k))>> \o Tail(left)]

SplitSizeForgets(mb, size) ==
    IF mb # <<>> /\ Len(Head(mb).data) > size
    THEN [mb |-> mb, r |-> <<BufferWrite(New, SubSeq(Head(mb).data, 1, size))>>]
    ELSE LET k == Whole(mb, size)
         IN  [mb |-> SubSeq(mb, k + 1, Len(mb)), r |-> SubSeq(mb, 1, k)]

\* A first Buffer that is too long is copied in part and advanced; otherwise
\* only whole Buffers are given.
SplitSize(mb, size) ==
    IF mb # <<>> /\ Len(Head(mb).data) > size
    THEN [mb |-> <<[Head(mb) EXCEPT !.data = SubSeq(@, size + 1, Len(@))]>> \o Tail(mb),
          r  |-> <<BufferWrite(New, SubSeq(Head(mb).data, 1, size))>>]
    ELSE LET k == Whole(mb, size)
         IN  [mb |-> SubSeq(mb, k + 1, Len(mb)), r |-> SubSeq(mb, 1, k)]

\* Each Buffer joins the one before it if it fits as a whole.
Compact(mb) ==
    IF mb = <<>> THEN mb
    ELSE FoldLeft(LAMBDA done, curr :
                    IF Len(curr.data) > Available(Last(done)) THEN Append(done, curr)
                    ELSE Front(done) \o <<BufferWrite(Last(done), curr.data)>>,
                  <<Head(mb)>>, Tail(mb))

\* Compact reads each Buffer it joins and takes io.EOF for impossible.
CompactPanics(mb) == \E i \in 2..Len(mb) : mb[i].data = <<>>

(* the underlying Reader *)

Adjust(n) == Max({1, Min({MaxAlloc, IF n >= alloc THEN 2 * alloc ELSE n})})

\* ReadMultiBuffer of a SingleReader or a ReadVReader.  An io.Reader may
\* report io.EOF with the last bytes (a TLS connection does when the alert
\* has arrived too); a TCP connection, which ReadVReader needs, does not.
Delivered ==
    LET most == Min({Len(unread), IF reader = "readv" THEN alloc * Size ELSE Size})
        mb(k) == Chunks(SubSeq(unread, 1, k))
        grown(k) == CASE reader = "single" -> alloc
                      [] alloc = 1 -> IF k = Size THEN Adjust(1) ELSE alloc
                      [] OTHER -> Adjust(Len(mb(k)))
        ends == Len(unread) = 0 \/ (Len(unread) <= most /\ reader = "single")
    IN  {[mb |-> mb(k), alloc |-> grown(k), rest |-> SubSeq(unread, k + 1, Len(unread)),
          eof |-> FALSE] : k \in 1..most}
        \cup (IF ends THEN {[mb |-> Chunks(unread), alloc |-> alloc, rest |-> <<>>,
                             eof |-> TRUE]} ELSE {})

Pull(d) == /\ unread' = d.rest
           /\ alloc' = d.alloc
           /\ over' = d.eof

(* BufferedReader *)

Holds(mb) == Len(mb) <= MaxHand

\* Read(b) with len(b) = n: an error hides the bytes that came with it.
BufRead(n) ==
    /\ ~over
    /\ UNCHANGED wvars
    /\ \/ /\ inside # <<>>
          /\ LET s == SplitBytes(inside, n)
             IN  /\ hand' = MergeBytes(hand, s.bytes)
                 /\ inside' = s.mb
          /\ UNCHANGED <<unread, alloc, over, dropped>>
       \/ /\ inside = <<>>
          /\ \E d \in Delivered :
               /\ Pull(d)
               /\ LET s == SplitBytes(d.mb, n)
                  IN  /\ hand' = IF d.eof THEN hand ELSE MergeBytes(hand, s.bytes)
                      /\ inside' = IF d.eof THEN <<>> ELSE s.mb
               /\ dropped' = IF d.eof THEN BufBytes(d.mb) ELSE <<>>
    /\ Holds(hand')
    /\ UNCHANGED <<reader, writer, panicked>>

\* ReadMultiBuffer; copyInternal writes the bytes that come with an error.
ReadMultiBuffer ==
    /\ ~over
    /\ UNCHANGED wvars
    /\ \/ /\ inside # <<>>
          /\ hand' = MergeMulti(hand, inside)
          /\ inside' = <<>>
          /\ UNCHANGED <<unread, alloc, over>>
       \/ /\ inside = <<>>
          /\ \E d \in Delivered : Pull(d) /\ hand' = MergeMulti(hand, d.mb)
          /\ UNCHANGED inside
    /\ Holds(hand')
    /\ UNCHANGED <<reader, writer, dropped, panicked>>

\* ReadAtMost(size): an error that comes with bytes is forgotten (the next
\* read reports it again).
ReadAtMost(size) ==
    /\ ~over
    /\ UNCHANGED wvars
    /\ \/ /\ inside # <<>>
          /\ LET s == SplitSize(inside, size)
             IN  inside' = s.mb /\ hand' = MergeMulti(hand, s.r)
          /\ UNCHANGED <<unread, alloc, over>>
       \/ /\ inside = <<>>
          /\ \E d \in Delivered :
               /\ Pull([d EXCEPT !.eof = @ /\ d.mb = <<>>])
               /\ LET s == SplitSize(d.mb, size)
                  IN  inside' = s.mb /\ hand' = MergeMulti(hand, s.r)
    /\ Holds(hand')
    /\ UNCHANGED <<reader, writer, dropped, panicked>>

(* the code between *)

\* tls.Conn and the WebSocket connection compact what they are to write.
CompactHand ==
    /\ Len(hand) > 1
    /\ hand' = Compact(hand)
    /\ panicked' = CompactPanics(hand)
    /\ UNCHANGED <<reader, writer, rvars, wvars>>

(* BufferedWriter *)

\* The writer with its buffer b after flushInternal, if it is to flush.
Flushed(b, flush) ==
    /\ buffer' = IF flush /\ b.data # <<>> THEN <<>> ELSE <<b>>
    /\ sink' = IF flush THEN sink \o b.data ELSE sink

TheBuffer == IF buffer = <<>> THEN New ELSE Head(buffer)

\* Write(b) with the first n bytes the code holds.  The buffer takes what it
\* has room for; when that is not all of b, Buffer.Write's ErrBufferFull is
\* returned at once: the loop never comes to the rest of b.
BufWrite(n) ==
    LET s == SplitBytes(hand, n)
        b == BufferWrite(TheBuffer, s.bytes)
        short == Len(s.bytes) > Available(TheBuffer)
    IN  /\ ~failed /\ hand # <<>>
        /\ IF ~buffered /\ writer = "bytes"
           THEN /\ sink' = sink \o s.bytes
                /\ hand' = s.mb
                /\ UNCHANGED <<buffer, failed>>
           ELSE /\ Flushed(b, ~short /\ (~buffered \/ IsFull(b)))
                /\ hand' = SplitBytes(hand, Min({n, Available(TheBuffer)})).mb
                /\ failed' = short
        /\ UNCHANGED <<reader, writer, rvars, buffered, flushNext, panicked>>

\* WriteMultiBuffer of what SplitSize cuts off: through the buffer, flushed
\* each time it is full; the last one stays unless flushNext was set.
WriteMultiBuffer(size) ==
    LET s == SplitSize(hand, size)
        all == TheBuffer.data \o BufBytes(s.r)
        first == Min({Available(TheBuffer), Len(BufBytes(s.r))})
        more == SubSeq(BufBytes(s.r), first + 1, Len(BufBytes(s.r)))
        tail == SubSeq(more, Len(more) - (Len(more) % Size) + 1, Len(more))
        last == IF more = <<>> /\ first < Available(TheBuffer)
                THEN BufferWrite(TheBuffer, BufBytes(s.r)) ELSE BufferWrite(New, tail)
        out == SubSeq(all, 1, Len(all) - Len(last.data))
    IN  /\ ~failed /\ BufBytes(s.r) # <<>>
        /\ hand' = s.mb
        /\ IF ~buffered
           THEN /\ sink' = sink \o BufBytes(s.r)
                /\ UNCHANGED <<buffer, buffered, flushNext>>
           ELSE /\ sink' = sink \o out \o (IF flushNext THEN last.data ELSE <<>>)
                /\ buffer' = IF flushNext \/ last = New THEN <<>> ELSE <<last>>
                /\ buffered' = ~flushNext
                /\ flushNext' = FALSE
        /\ UNCHANGED <<reader, writer, rvars, failed, panicked>>

Flush ==
    /\ buffer # <<>> /\ Flushed(TheBuffer, TRUE)
    /\ UNCHANGED <<reader, writer, rvars, hand, buffered, flushNext, failed, panicked>>

SetBuffered(f) ==
    /\ ~failed /\ buffered' = f
    /\ IF f \/ buffer = <<>> THEN UNCHANGED <<buffer, sink>> ELSE Flushed(TheBuffer, TRUE)
    /\ UNCHANGED <<reader, writer, rvars, hand, flushNext, failed, panicked>>

SetFlushNext ==
    /\ ~failed /\ flushNext' = TRUE
    /\ UNCHANGED <<reader, writer, rvars, hand, buffer, buffered, sink, failed, panicked>>

BufInit ==
    /\ reader \in {"single", "readv"}
    /\ writer \in {"bytes", "multi"}
    /\ unread = [i \in 1..BufData |-> i]
    /\ alloc = 1
    /\ over = FALSE
    /\ inside = <<>> /\ hand = <<>>
    /\ buffer = <<New>>
    /\ buffered = TRUE /\ flushNext = FALSE
    /\ sink = <<>> /\ dropped = <<>>
    /\ failed = FALSE /\ panicked = FALSE

BufNext ==
    \/ \E n \in Sizes : BufRead(n) \/ ReadAtMost(n) \/ BufWrite(n) \/ WriteMultiBuffer(n)
    \/ ReadMultiBuffer \/ CompactHand \/ Flush \/ SetFlushNext
    \/ \E f \in BOOLEAN : SetBuffered(f)

BufSpec == BufInit /\ [][BufNext]_bufVars

(* Whatever sequence of calls the code makes on the two buffered ends, no   *)
(* byte is lost, doubled or moved: what has been written, what waits in the *)
(* BufferedWriter, in the code's hands and in the BufferedReader and what   *)
(* has not been read are, in this order, the stream.  The one exception is  *)
(* what came together with io.EOF and BufferedReader.Read gave up.  Compact *)
(* never meets an empty Buffer, on which its Must2 would panic.  An         *)
(* unbuffered writer keeps nothing back, unless a Write was cut short with  *)
(* ErrBufferFull.                                                           *)
BytesKept ==
    /\ sink \o TheBuffer.data \o BufBytes(hand) \o BufBytes(inside) \o dropped \o unread
         = [i \in 1..BufData |-> i]
    /\ dropped # <<>> => reader = "single" /\ over
    /\ ~panicked
    /\ ~buffered /\ ~failed => TheBuffer.data = <<>>

-----------------------------------------------------------------------------
(***************************************************************************)
(* The stream transports that put something of their own before the data:  *)
(* RAW with an HTTP header, HTTPUpgrade, WebSocket (with early data in the *)
(* handshake) and gRPC.  A client and a server hold the two ends of one    *)
(* connection; each has a goroutine that writes and one that reads, and    *)
(* the network cuts a byte stream where it likes.                          *)
(*                                                                         *)
(* A byte is an integer.  The data of a writer is 1, 2, 3, ...; the bytes  *)
(* of a header are negative and 0 is a byte that was cleared.  A message   *)
(* transport (WebSocket, gRPC) carries sequences of bytes as messages.     *)
(***************************************************************************)

CONSTANTS Transports,   \* [kind, ed, match] records: early data, and whether the
                        \* request is the one the server expects
          WriteSizes,   \* how much one Write carries
          ReadSizes,    \* how much one Read asks for
          MaxData,      \* how much a side writes in all
          MaxHeader,    \* maxHeaderLength
          MinBufio      \* the least buffer bufio.NewReaderSize makes

VARIABLES t,        \* the transport
          wire,     \* what is on its way to each side
          state,    \* "idle", "dialing", "open", "failed", "closed", "panic"
          mode,     \* what the reader of a side waits for: "header" or "data"
          fresh,    \* the writer of a side has not sent its header yet
          bf,       \* what the reader has taken off the wire and not handed out
          head,     \* headerBuf
          got, put, \* what a side has read, how much it has written
          ended,    \* the sides that have closed their end
          errReason,
          lost      \* bytes that came with the request and were dropped with its reader

connVars == <<t, wire, state, mode, fresh, bf, head, got, put, ended, errReason, lost>>

Sides == {"client", "server"}
Other(x) == IF x = "client" THEN "server" ELSE "client"

\* A header: a first line, a field, and the empty line.  -1 is a byte of the first
\* line, -2 and -3 are CR and LF, and -4, -5, -6 the name, colon and value of a field.
ENDING == <<-2, -3, -2, -3>>
Header == <<-1, -1, -2, -3, -4, -5, -6>> \o ENDING

IndexOf(b, pattern) ==
  LET at == {i \in 1..(Len(b) - Len(pattern) + 1) :
               SubSeq(b, i, i + Len(pattern) - 1) = pattern}
  IN IF at = {} THEN 0 ELSE CHOOSE i \in at : \A j \in at : i <= j

From(b, i) == SubSeq(b, i, Len(b))
Bytes == t.kind \in {"header", "upgrade"}
Piece(x, k) == [i \in 1..k |-> put[x] + i]

\* readRequest on a header that is not complete: a request is only "unexpectedly at
\* its end" when the piece ends behind a line, or in a field behind its colon; a
\* response is never a request.
Parses(x, b) ==
  LET lines == {i \in DOMAIN b : b[i] = -3}
      last == IF lines = {} THEN 0 ELSE CHOOSE i \in lines : \A j \in lines : j <= i
      tail == From(b, last + 1)
  IN x = "server" /\ last > 0 /\ (tail = <<>> \/ -5 \in ToSet(tail))

-----------------------------------------------------------------------------
\* Dial of RAW: the connection is there at once; the server's end when it is accepted.
DialRAW ==
  /\ t.kind = "header"
  /\ state' = [state EXCEPT !["client"] = "open"]
  /\ UNCHANGED wire

\* dialhttpUpgrade sends its request, and without early data it reads the reply before
\* it returns.
DialUpgrade ==
  /\ t.kind = "upgrade"
  /\ wire' = [wire EXCEPT !["server"] = @ \o Header]
  /\ state' = [state EXCEPT !["client"] = IF t.ed = 0 THEN "dialing" ELSE "open"]

\* dialWebSocket returns behind the handshake.  With early data Dial leaves it to the
\* first Write.
DialWS ==
  /\ t.kind = "ws" /\ t.ed = 0
  /\ state' = [x \in Sides |-> "open"]
  /\ UNCHANGED wire

\* dialgRPC: a stream of the client connection, and the server's Tun for it.
DialGRPC ==
  /\ t.kind \in {"grpc", "multi"}
  /\ state' = [x \in Sides |-> "open"]
  /\ UNCHANGED wire

Dial ==
  /\ state["client"] = "idle"
  /\ DialRAW \/ DialUpgrade \/ DialWS \/ DialGRPC
  /\ UNCHANGED <<t, mode, fresh, bf, head, got, put, ended, errReason, lost>>

\* Conn.Write of the HTTP header: the first puts the header in front.
WriteRAW(x, k) == (IF fresh[x] THEN Header ELSE <<>>) \o Piece(x, k)

\* Write of a WebSocket connection: one message.
WriteWS(x, k) == <<Piece(x, k)>>

\* HunkReaderWriter.Write: one hunk.
WriteHunk(x, k) == <<Piece(x, k)>>

\* MultiHunkReaderWriter.WriteMultiBuffer: the buffers of one call in one message.
WriteMulti(x, k) == <<Piece(x, k)>>

Write(x, k) ==
  /\ state[x] = "open" /\ put[x] + k <= MaxData /\ x \notin ended
  /\ put' = [put EXCEPT ![x] = @ + k]
  /\ fresh' = [fresh EXCEPT ![x] = FALSE]
  /\ wire' = [wire EXCEPT ![Other(x)] = @ \o
                CASE t.kind = "header" -> WriteRAW(x, k)
                  [] t.kind = "upgrade" -> Piece(x, k)
                  [] t.kind = "ws" -> WriteWS(x, k)
                  [] t.kind = "grpc" -> WriteHunk(x, k)
                  [] t.kind = "multi" -> WriteMulti(x, k)]
  /\ UNCHANGED <<t, state, mode, bf, head, got, ended, errReason, lost>>

\* delayDialConn.Write, the first: it dials, with the data in the handshake when that
\* is not too long.  The server reads the early data before the first message.
DelayedWrite(k) ==
  /\ t.kind = "ws" /\ t.ed > 0 /\ state["client"] = "idle" /\ k <= MaxData
  /\ \/ /\ state' = [state EXCEPT !["client"] = "open", !["server"] = "open"]
        /\ put' = [put EXCEPT !["client"] = k]
        /\ bf' = [bf EXCEPT !["server"] = IF k <= t.ed THEN Piece("client", k) ELSE <<>>]
        /\ wire' = [wire EXCEPT !["server"] =
                      IF k <= t.ed THEN @ ELSE Append(@, Piece("client", k))]
        /\ UNCHANGED ended
     \/ /\ state' = [state EXCEPT !["client"] = "failed"]
        /\ ended' = ended \cup {"client"}
        /\ UNCHANGED <<put, bf, wire>>
  /\ UNCHANGED <<t, mode, fresh, head, got, errReason, lost>>

\* A header reader that gives up what it read behind the header.
HeaderFoundDrops(x, b, at) ==
  /\ bf' = [bf EXCEPT ![x] = <<>>]
  /\ head' = [head EXCEPT ![x] = <<>>]
  /\ mode' = [mode EXCEPT ![x] = "data"]
  /\ UNCHANGED <<state, errReason>>

\* HeaderReader.Read finds the end of the header; what follows it is data.
HeaderFound(x, b, at) ==
  /\ bf' = [bf EXCEPT ![x] = From(b, at + Len(ENDING))]
  /\ head' = [head EXCEPT ![x] = <<>>]
  /\ mode' = [mode EXCEPT ![x] = "data"]
  /\ UNCHANGED <<state, errReason>>

\* The last bytes are kept for the next round.  Extend clears the room it makes before
\* they are copied into it, and with less than two endings read the two overlap.
Leftover(b) ==
  LET n == Len(ENDING)
      kept == From(b, Len(b) - n + 1)
      from == Len(b) - n
  IN [i \in 1..n |-> IF from + i <= n THEN 0 ELSE kept[i]]

\* HeaderReader.Read, one turn of its loop: what the network has goes into the buffer.
ReadHeader(x, n) ==
  LET b == bf[x] \o SubSeq(wire[x], 1, n)
      at == IndexOf(b, ENDING)
      long == Len(b) >= Len(ENDING)
      seen == head[x] \o SubSeq(b, 1, Len(b) - Len(ENDING))
      fails(reason) ==
        /\ state' = [state EXCEPT ![x] = "failed"]
        /\ errReason' = [errReason EXCEPT ![x] = reason]
        /\ bf' = [bf EXCEPT ![x] = <<>>] /\ head' = [head EXCEPT ![x] = <<>>]
        /\ UNCHANGED mode
  IN /\ t.kind = "header" /\ mode[x] = "header" /\ state[x] = "open"
     /\ n \in 1..Len(wire[x])
     /\ wire' = [wire EXCEPT ![x] = From(@, n + 1)]
     /\ \/ at # 0 /\ (t.match \/ x = "client") /\ HeaderFound(x, b, at)
        \/ at # 0 /\ ~t.match /\ x = "server" /\ fails("mismatch")
        \/ /\ at = 0 /\ ~long
           /\ bf' = [bf EXCEPT ![x] = b]
           /\ UNCHANGED <<head, mode, state, errReason>>
        \/ at = 0 /\ long /\ ~Parses(x, seen) /\ fails("malformed")
        \/ at = 0 /\ long /\ Parses(x, seen) /\ Len(seen) >= MaxHeader /\ fails("too long")
        \/ /\ at = 0 /\ long /\ Parses(x, seen) /\ Len(seen) < MaxHeader
           /\ bf' = [bf EXCEPT ![x] = Leftover(b)]
           /\ head' = [head EXCEPT ![x] = seen]
           /\ UNCHANGED <<mode, state, errReason>>
     /\ UNCHANGED <<t, fresh, got, put, ended, lost>>

\* The server of RAW is handed the connection when it is accepted.
keepAccepting ==
  /\ t.kind = "header" /\ state["server"] = "idle" /\ state["client"] # "idle"
  /\ state' = [state EXCEPT !["server"] = "open"]
  /\ UNCHANGED <<t, wire, mode, fresh, bf, head, got, put, ended, errReason, lost>>

\* server.Handle of HTTPUpgrade: it reads the request through a buffer of its own,
\* answers, and goes on with the bare connection.  A request for another host or
\* path is left without an answer.
Handle(n) ==
  LET b == bf["server"] \o SubSeq(wire["server"], 1, n)
      at == IndexOf(b, ENDING)
  IN /\ t.kind = "upgrade" /\ state["server"] = "idle" /\ n \in 1..Len(wire["server"])
     /\ \/ /\ at = 0
           /\ bf' = [bf EXCEPT !["server"] = b]
           /\ wire' = [wire EXCEPT !["server"] = From(@, n + 1)]
           /\ UNCHANGED <<state, mode, lost>>
        \/ /\ at # 0 /\ ~t.match
           /\ state' = [state EXCEPT !["server"] = "failed"]
           /\ UNCHANGED <<bf, wire, mode, lost>>
        \/ /\ at # 0 /\ t.match
           /\ bf' = [bf EXCEPT !["server"] = <<>>]
           /\ lost' = From(b, at + Len(ENDING))
           /\ wire' = [wire EXCEPT !["server"] = From(@, n + 1), !["client"] = @ \o Header]
           /\ state' = [state EXCEPT !["server"] = "open"]
           /\ mode' = [mode EXCEPT !["server"] = "data"]
     /\ UNCHANGED <<t, fresh, head, got, put, ended, errReason>>

\* ConnRF.Read, the first: the reply is read through a buffer of the size that is asked
\* for (but never less than bufio's least), and the rest of it goes to the caller.  The
\* dialer itself asks for nothing.
ReadReply(want, n) ==
  LET size == IF want < MinBufio THEN MinBufio ELSE want
      b == bf["client"] \o SubSeq(wire["client"], 1, n)
      at == IndexOf(b, ENDING)
      rest == From(b, at + Len(ENDING))
  IN /\ t.kind = "upgrade" /\ mode["client"] = "header"
     /\ \/ state["client"] = "dialing" /\ want = 0
        \/ state["client"] = "open" /\ want \in ReadSizes
     /\ n \in 1..Len(wire["client"]) /\ n <= size
     /\ wire' = [wire EXCEPT !["client"] = From(@, n + 1)]
     /\ \/ /\ at = 0
           /\ bf' = [bf EXCEPT !["client"] = b]
           /\ UNCHANGED <<state, mode, got>>
        \/ /\ at # 0
           /\ bf' = [bf EXCEPT !["client"] = <<>>]
           /\ mode' = [mode EXCEPT !["client"] = "data"]
           /\ got' = [got EXCEPT !["client"] = @ \o rest]
           /\ state' = [state EXCEPT !["client"] = IF Len(rest) > want THEN "panic" ELSE "open"]
     /\ UNCHANGED <<t, fresh, head, put, ended, errReason, lost>>

\* Conn.Read of a byte stream: first what is left of the header's buffer.
ReadBytes(x, n) ==
  /\ Bytes
  /\ \/ /\ bf[x] # <<>>
        /\ LET k == IF n < Len(bf[x]) THEN n ELSE Len(bf[x])
           IN /\ got' = [got EXCEPT ![x] = @ \o SubSeq(bf[x], 1, k)]
              /\ bf' = [bf EXCEPT ![x] = From(@, k + 1)]
        /\ UNCHANGED wire
     \/ /\ bf[x] = <<>> /\ n \in 1..Len(wire[x])
        /\ got' = [got EXCEPT ![x] = @ \o SubSeq(wire[x], 1, n)]
        /\ wire' = [wire EXCEPT ![x] = From(@, n + 1)]
        /\ UNCHANGED bf

\* connection.Read of WebSocket: what is left of the early data or of the last message;
\* a reader that is used up is replaced by that of the next message.
ReadWS(x, n) ==
  /\ t.kind = "ws"
  /\ LET b == IF bf[x] # <<>> \/ wire[x] = <<>> THEN bf[x] ELSE Head(wire[x])
         k == IF n < Len(b) THEN n ELSE Len(b)
     IN /\ b # <<>>
        /\ got' = [got EXCEPT ![x] = @ \o SubSeq(b, 1, k)]
        /\ bf' = [bf EXCEPT ![x] = From(b, k + 1)]
        /\ wire' = [wire EXCEPT ![x] = IF bf[x] # <<>> THEN @ ELSE Tail(@)]

\* HunkReaderWriter.Read: what is left of the last hunk, or the next one.
ReadHunk(x, n) ==
  /\ t.kind = "grpc"
  /\ LET b == IF bf[x] # <<>> \/ wire[x] = <<>> THEN bf[x] ELSE Head(wire[x])
         k == IF n < Len(b) THEN n ELSE Len(b)
     IN /\ b # <<>>
        /\ got' = [got EXCEPT ![x] = @ \o SubSeq(b, 1, k)]
        /\ bf' = [bf EXCEPT ![x] = From(b, k + 1)]
        /\ wire' = [wire EXCEPT ![x] = IF bf[x] # <<>> THEN @ ELSE Tail(@)]

\* MultiHunkReaderWriter.ReadMultiBuffer: a whole message.
ReadMulti(x) ==
  /\ t.kind = "multi" /\ wire[x] # <<>>
  /\ got' = [got EXCEPT ![x] = @ \o Head(wire[x])]
  /\ wire' = [wire EXCEPT ![x] = Tail(@)]
  /\ UNCHANGED bf

Read(x, n) ==
  /\ state[x] = "open" /\ mode[x] = "data"
  /\ ReadBytes(x, n) \/ ReadWS(x, n) \/ ReadHunk(x, n) \/ ReadMulti(x)
  /\ UNCHANGED <<t, state, mode, fresh, head, put, ended, errReason, lost>>

\* Conn.Close of the HTTP header: a server that has not sent its header answers with an
\* error header first.
Farewell(x) == IF t.kind = "header" /\ x = "server" /\ fresh[x] THEN Header ELSE <<>>

Close(x) ==
  /\ state[x] \in {"open", "failed"} /\ x \notin ended
  /\ ended' = ended \cup {x}
  /\ state' = [state EXCEPT ![x] = "closed"]
  /\ fresh' = [fresh EXCEPT ![x] = FALSE]
  /\ wire' = [wire EXCEPT ![Other(x)] = @ \o Farewell(x)]
  /\ UNCHANGED <<t, mode, bf, head, got, put, errReason, lost>>

ConnInit ==
  /\ t \in Transports
  /\ wire = [x \in Sides |-> <<>>] /\ state = [x \in Sides |-> "idle"]
  /\ mode = [x \in Sides |-> IF Bytes THEN "header" ELSE "data"]
  /\ fresh = [x \in Sides |-> TRUE]
  /\ bf = [x \in Sides |-> <<>>] /\ head = [x \in Sides |-> <<>>]
  /\ got = [x \in Sides |-> <<>>] /\ put = [x \in Sides |-> 0]
  /\ ended = {} /\ errReason = [x \in Sides |-> ""] /\ lost = <<>>

ConnNext ==
  \/ Dial \/ keepAccepting
  \/ \E k \in WriteSizes : DelayedWrite(k) \/ \E x \in Sides : Write(x, k)
  \/ \E n \in 1..Len(wire["server"]) : Handle(n)
  \/ \E want \in ReadSizes \cup {0}, n \in 1..Len(wire["client"]) : ReadReply(want, n)
  \/ \E x \in Sides : \/ \E n \in 1..Len(wire[x]) : ReadHeader(x, n)
                      \/ \E n \in ReadSizes : Read(x, n)
                      \/ Close(x)

ConnSpec == ConnInit /\ [][ConnNext]_connVars

-----------------------------------------------------------------------------
\* What a side reads is what the other wrote, from the first byte on and without a
\* gap, however the network cuts the stream and however the header is read; the one
\* exception is early data of HTTPUpgrade that the server's request reader swallowed.
\* When nothing is on its way any more, all of it has been read.
StreamKept ==
  \A x \in Sides :
    LET sent == [i \in 1..put[Other(x)] |-> i]
    IN lost = <<>> \/ x = "client" =>
         /\ IsPrefix(got[x], sent)
         /\ state[x] = "open" /\ mode[x] = "data" /\ wire[x] = <<>> /\ bf[x] = <<>>
              => got[x] = sent

=============================================================================
