----------------------------- MODULE ProxyBody ------------------------------
(****************************************************************************)
(* What follows the headers of a proxied connection: the XTLS Vision flow   *)
(* of VLESS, and the chunked bodies of VMess and Shadowsocks.               *)
(****************************************************************************)
EXTENDS Integers, Sequences, SequencesExt

(***************************************************************************)
(* The XTLS Vision flow (proxy/proxy.go): between the VLESS outbound of a  *)
(* client and the VLESS inbound of a server the payload is first wrapped   *)
(* in padding blocks inside the outer TLS connection; once the payload is  *)
(* seen to be TLS 1.3 itself, the two ends leave the outer TLS at the same *)
(* byte and copy the rest raw, one direction at a time.                    *)
(*                                                                         *)
(* "up" is written by the client and read by the server, "down" the other  *)
(* way round.  The two directions of one end run in two goroutines and     *)
(* share its TrafficState.  The payload is a sequence of cells, each       *)
(* standing for some bytes of a TLS record of the user and the web site:   *)
(*   "CH" a client hello, "S1" the first bytes of a server hello, followed *)
(*   by "S2" (the rest of a TLS 1.3 one), "S8" (of TLS 1.3 with the CCM_8  *)
(*   cipher) or "S3" (of TLS 1.2), "app" the first bytes of an application *)
(*   data record, "mid" the other bytes of one, "x" anything else.         *)
(* A block is the cells <<"cmd", c>>, <<"len", content, padding>>, the     *)
(* content and the padding; the first block has <<"uuid">> in front.       *)
(***************************************************************************)

CONSTANTS Scripts,    \* payloads: [up, down], each a sequence of <<kind, need>>
          Filtered,   \* packets inspected before giving up (8 in the code)
          BufferSize  \* cells of a buffer that leaves no room for a header

VARIABLES script,     \* the payload of this connection
          ts,         \* the TrafficState of each end, without the next two
          rd, wr,     \* the VisionReader and VisionWriter of each direction
          tls,        \* the reading end of each outer TLS connection
          wire,       \* items on the way: an encrypted record or raw cells
          got,        \* cells handed to the user ("down") or the site ("up")
          loop,       \* where the server's response copy is
          canSplice,  \* CanSpliceCopy of the server's inbound
          early       \* history: raw bytes announced wrongly, and by what
visionVars == <<script, ts, rd, wr, tls, wire, got, loop, canSplice, early>>

Directions == {"up", "down"}

WriterOf(d) == IF d = "up" THEN "client" ELSE "server"

ReaderOf(d) == IF d = "up" THEN "server" ELSE "client"

Other(d) == IF d = "up" THEN "down" ELSE "up"

NewTrafficState ==
  [n |-> Filtered, xtls |-> FALSE, tls12 |-> FALSE, tls |-> FALSE,
   cipher |-> "none", hello |-> -1]

NewReader == [within |-> TRUE, direct |-> FALSE,
              rc |-> -1, content |-> -1, padding |-> -1, command |-> 0]

NewWriter == [pc |-> "idle", padding |-> TRUE, direct |-> FALSE, raw |-> FALSE,
              uuid |-> TRUE, mb |-> <<>>, out |-> <<>>, sent |-> 0]

VisionInit ==
  /\ script \in Scripts
  /\ ts = [s \in {"client", "server"} |-> NewTrafficState]
  /\ rd = [d \in Directions |-> NewReader]
  /\ wr = [d \in Directions |-> NewWriter]
  /\ tls = [d \in Directions |->
              [input |-> <<>>, rawInput |-> <<>>, broken |-> FALSE]]
  /\ wire = [d \in Directions |-> <<>>]
  /\ got = [d \in Directions |-> <<>>]
  /\ loop = "check"
  /\ canSplice = 2
  /\ early = "no"

(***************************************************************************)
(* XtlsFilterTls: looks at the first bytes of every buffer for the hellos, *)
(* and through the server hello for the TLS 1.3 extension.  Both           *)
(* directions count down and both may meet the rest of a server hello.     *)
(***************************************************************************)
Hello(t, b) ==
  IF Head(b)[1] = "S1"
  THEN [t EXCEPT !.hello = 2, !.tls12 = TRUE, !.tls = TRUE,
                 !.cipher = IF Len(b) >= 2 THEN b[2][1] ELSE @]
  ELSE [t EXCEPT !.tls = @ \/ Head(b)[1] = "CH"]

FilterBuffer(t, b) ==
  IF b = <<>> \/ t.over THEN t
  ELSE LET h == Hello([t EXCEPT !.n = @ - 1], b)
           end == IF h.hello < Len(b) THEN h.hello ELSE Len(b)
           left == h.hello - Len(b)
           Found == \E k \in 1 .. end : b[k][1] \in {"S2", "S8"}
       IN CASE h.hello <= 0 -> h
            [] h.hello > 0 /\ Found ->
                 [h EXCEPT !.hello = left, !.n = 0, !.over = TRUE,
                           !.xtls = @ \/ h.cipher = "S2"]
            [] h.hello > 0 /\ ~Found /\ left <= 0 ->
                 [h EXCEPT !.hello = left, !.n = 0, !.over = TRUE]
            [] OTHER -> [h EXCEPT !.hello = left]

XtlsFilterTls(t, mb) ==
  IF t.n <= 0 THEN t
  ELSE LET r == FoldLeft(FilterBuffer, t @@ [over |-> FALSE], mb)
       IN [k \in DOMAIN t |-> r[k]]

(***************************************************************************)
(* ReshapeMultiBuffer: a buffer with no room for the header is cut at its  *)
(* last application data record, or in the middle.                         *)
(***************************************************************************)
CutAt(b) ==
  LET starts == {k \in 2 .. Len(b) : b[k][1] = "app"}
  IN IF starts = {} THEN (Len(b) + 1) \div 2
     ELSE (CHOOSE k \in starts : \A j \in starts : j <= k) - 1

Reshape(b) == IF Len(b) < BufferSize THEN <<b>>
              ELSE <<SubSeq(b, 1, CutAt(b)), SubSeq(b, CutAt(b) + 1, Len(b))>>

ReshapeMultiBuffer(mb) == FlattenSeq([k \in DOMAIN mb |-> Reshape(mb[k])])

\* XtlsPadding: one block, the user's id in front of the first one.
XtlsPadding(b, command, uuid, pad) ==
  (IF uuid THEN <<<<"uuid">>>> ELSE <<>>)
  \o <<<<"cmd", command>>, <<"len", Len(b), pad>>>> \o b
  \o [k \in 1 .. pad |-> <<"pad">>]

(***************************************************************************)
(* XtlsUnpadding, one buffer.  The state between two blocks of a stream    *)
(* that goes on is rc = 2; after the last block all three are -1 and any   *)
(* further bytes are payload.                                              *)
(***************************************************************************)
AfterCell(u) ==
  IF u.rc > 0 \/ u.content > 0 \/ u.padding > 0 THEN u
  ELSE IF u.command = 0 THEN [u EXCEPT !.rc = 2]
  ELSE [u EXCEPT !.rc = -1, !.content = -1, !.padding = -1, !.over = TRUE]

UnpadCell(u, cell) ==
  CASE u.over -> [u EXCEPT !.out = Append(@, cell)]
    [] ~u.over /\ u.rc = 2 ->
         AfterCell([u EXCEPT !.rc = 1,
                             !.command = IF cell[1] = "cmd" THEN cell[2] ELSE 9])
    [] ~u.over /\ u.rc = 1 ->
         AfterCell([u EXCEPT !.rc = 0,
                             !.content = IF cell[1] = "len" THEN cell[2] ELSE 1,
                             !.padding = IF cell[1] = "len" THEN cell[3] ELSE 0])
    [] ~u.over /\ u.rc <= 0 /\ u.content > 0 ->
         AfterCell([u EXCEPT !.content = @ - 1, !.out = Append(@, cell)])
    [] OTHER -> AfterCell([u EXCEPT !.padding = @ - 1])

XtlsUnpadding(r, b) ==
  LET first == r.rc = -1 /\ r.content = -1 /\ r.padding = -1
      start == first /\ Len(b) >= 3 /\ b[1] = <<"uuid">>
      u == r @@ [out |-> <<>>, over |-> FALSE]
  IN CASE start -> FoldLeft(UnpadCell, [u EXCEPT !.rc = 2], Tail(b))
       [] first /\ ~start -> [u EXCEPT !.out = b]
       [] ~first -> FoldLeft(UnpadCell, u, b)

\* CanSpliceCopy goes from 2 to 1, never back.
SpliceAllowed(set) == IF set /\ canSplice = 2 THEN 1 ELSE canSplice

(***************************************************************************)
(* VisionWriter.WriteMultiBuffer.  Begin applies the switch the previous   *)
(* write decided and filters; a writer that no longer pads writes at once. *)
(* The padding loop looks at one buffer per step and reads EnableXtls      *)
(* twice for an application data record: the reader of the same end may    *)
(* set it in between.                                                      *)
(***************************************************************************)
\* The items of a write: a record per buffer, which TLS may cut further, or
\* raw bytes.
Records(b) ==
  {<<b>>} \cup {<<SubSeq(b, 1, k), SubSeq(b, k + 1, Len(b))>> :
                  k \in {j \in 3 .. Len(b) - 1 : b[1] = <<"uuid">> \/ b[1][1] = "cmd"}}

Items(raw, seqs) == [k \in DOMAIN seqs |-> [raw |-> raw, cells |-> seqs[k]]]

WriteBegin(d, mb) ==
  LET w == wr[d]
      s == WriterOf(d)
      raw == w.raw \/ w.direct
      t == XtlsFilterTls(ts[s], mb)
  IN /\ w.pc = "idle"
     /\ canSplice' = SpliceAllowed(d = "down" /\ w.direct)
     /\ ts' = [ts EXCEPT ![s] = t]
     /\ IF w.padding
        THEN /\ wr' = [wr EXCEPT ![d] =
                        [@ EXCEPT !.pc = "pad", !.raw = raw, !.direct = FALSE,
                                  !.mb = ReshapeMultiBuffer(mb),
                                  !.sent = @ + Len(FlattenSeq(mb))]]
             /\ UNCHANGED wire
        ELSE /\ wr' = [wr EXCEPT ![d] =
                        [@ EXCEPT !.raw = raw, !.direct = FALSE,
                                  !.sent = @ + Len(FlattenSeq(mb))]]
             /\ wire' = [wire EXCEPT ![d] = @ \o Items(raw, mb)]

\* The cells of a direction the program has to send: what it waited for came.
Pending(d) ==
  LET all == script[d]
      ready == {k \in (wr[d].sent + 1) .. Len(all) :
                  \A j \in (wr[d].sent + 1) .. k : all[j][2] <= Len(got[Other(d)])}
  IN [k \in 1 .. (IF ready = {} THEN 0
                  ELSE (CHOOSE m \in ready : \A j \in ready : j <= m) - wr[d].sent)
        |-> <<all[wr[d].sent + k][1], wr[d].sent + k>>]

\* What one read of the payload returns: a part of it, in one buffer or two.
Reads(cells) ==
  {<<SubSeq(cells, 1, k)>> : k \in 1 .. Len(cells)}
  \cup {<<SubSeq(cells, 1, k), SubSeq(cells, k + 1, m)>> :
          k \in 1 .. Len(cells) - 1, m \in {Len(cells)}}

Command(xtls, last) == IF ~last THEN 0 ELSE IF xtls THEN 2 ELSE 1

\* One padded buffer joins the ones before it; the last one sends them all.
Padded(d, w, cells, more, records) ==
  IF more
  THEN /\ wr' = [wr EXCEPT ![d] = [w EXCEPT !.pc = "pad", !.uuid = FALSE,
                                            !.mb = Tail(@), !.out = @ \o <<cells>>]]
       /\ UNCHANGED wire
  ELSE /\ wr' = [wr EXCEPT ![d] = [w EXCEPT !.pc = "idle", !.uuid = FALSE,
                                            !.mb = <<>>, !.out = <<>>]]
       /\ wire' = [wire EXCEPT ![d] = @ \o Items(w.raw, w.out \o records)]

Pad(d) ==
  LET w == wr[d]
      t == ts[WriterOf(d)]
      b == Head(w.mb)
      last == Len(w.mb) = 1
      IsApp == t.tls /\ b # <<>> /\ b[1][1] = "app"
      GivesUp == ~t.tls12 /\ t.n <= 1
  IN /\ w.pc = "pad"
     /\ \/ /\ IsApp                       \* first read of EnableXtls
           /\ wr' = [wr EXCEPT ![d].pc = "app", ![d].direct = @ \/ t.xtls]
           /\ UNCHANGED <<wire, early>>
        \/ /\ ~IsApp
           /\ GivesUp /\ b # <<>>
           /\ \E pad \in 0 .. 1 :
                LET block == XtlsPadding(b, 1, w.uuid, pad)
                IN \E rs \in Records(block) :
                     Padded(d, [w EXCEPT !.padding = FALSE], block, FALSE,
                            rs \o Tail(w.mb))
           /\ UNCHANGED early
        \/ /\ ~IsApp
           /\ ~GivesUp \/ b = <<>>
           /\ LET command == IF last /\ ~w.padding THEN Command(t.xtls, TRUE) ELSE 0
              IN /\ \E pad \in 0 .. 1 :
                      LET block == XtlsPadding(b, command, w.uuid, pad)
                      IN \E rs \in Records(block) : Padded(d, w, block, ~last, rs)
                 /\ early' = IF command = 2 /\ ~w.direct THEN "torn" ELSE early
     /\ UNCHANGED ts

PadApp(d) ==
  LET w == wr[d]
      last == Len(w.mb) = 1
      command == Command(ts[WriterOf(d)].xtls, last)
  IN /\ w.pc = "app"
     /\ \E pad \in 0 .. 1 :
          LET block == XtlsPadding(Head(w.mb), command, w.uuid, pad)
          IN \E rs \in Records(block) :
               Padded(d, [w EXCEPT !.padding = FALSE], block, ~last, rs)
     /\ early' = IF last /\ (command = 2) # w.direct THEN "torn" ELSE early
     /\ UNCHANGED ts

(***************************************************************************)
(* The outer TLS connection (crypto/tls): Read fetches as much ciphertext  *)
(* as has arrived, decrypts one record and returns it or a part of it.     *)
(* Raw bytes met where a record is expected break the connection.          *)
(***************************************************************************)
\* How many cells a Read may return; a block's header comes in one piece.
ReadSizes(input) ==
  {k \in 1 .. Len(input) :
     k = Len(input) \/ (IF input[1][1] \in {"uuid", "cmd"} THEN k >= 3 ELSE k >= 1)}

(***************************************************************************)
(* VisionReader.ReadMultiBuffer after a Read of the buffer b that left the *)
(* TLS connection as c: unpad, filter, and after the last block of a       *)
(* direct one take over what TLS had read ahead and go on without it.      *)
(***************************************************************************)
Taken(items) == FlattenSeq([k \in DOMAIN items |-> items[k].cells])

TakesOver(d, b, c, ahead) ==
  LET r == rd[d]
      s == ReaderOf(d)
      looks == r.within \/ ts[s].n > 0
      u == IF looks THEN XtlsUnpadding(r, b) ELSE r @@ [out |-> b, over |-> FALSE]
      open == u.content > 0 \/ u.padding > 0 \/ u.command = 0
      direct == looks /\ ~open /\ u.command = 2
      after == [k \in DOMAIN r |-> u[k]]
  IN /\ ts' = [ts EXCEPT ![s] = XtlsFilterTls(@, <<u.out>>)]
     /\ rd' = [rd EXCEPT ![d] =
                 [after EXCEPT !.within = IF ~looks THEN @
                                          ELSE IF open THEN TRUE
                                          ELSE IF u.command \in {1, 2} THEN FALSE ELSE @,
                               !.direct = direct]]
     /\ got' = [got EXCEPT ![d] =
                  @ \o u.out \o IF direct THEN c.input \o Taken(ahead) ELSE <<>>]
     /\ tls' = [tls EXCEPT ![d] =
                  IF direct
                  THEN [input |-> <<>>, rawInput |-> <<>>,
                        broken |-> \E k \in DOMAIN ahead : ~ahead[k].raw]
                  ELSE c]
     /\ canSplice' = SpliceAllowed(d = "up" /\ direct)

\* A reader that forgets the ciphertext TLS had fetched ahead.
UnderstandsForgets(d, b, c) == TakesOver(d, b, c, <<>>)

Understands(d, b, c) == TakesOver(d, b, c, c.rawInput)

Read(d) ==
  LET c == tls[d]
  IN /\ ~rd[d].direct /\ ~c.broken
     /\ \/ /\ c.input # <<>>
           /\ \E k \in ReadSizes(c.input) :
                Understands(d, SubSeq(c.input, 1, k),
                            [c EXCEPT !.input = SubSeq(@, k + 1, Len(@))])
           /\ UNCHANGED wire
        \/ /\ c.input = <<>>
           /\ \E m \in 0 .. Len(wire[d]) :
                LET raw == c.rawInput \o SubSeq(wire[d], 1, m)
                IN /\ raw # <<>> /\ (c.rawInput # <<>> => m = 0)
                   /\ wire' = [wire EXCEPT ![d] = SubSeq(@, m + 1, Len(@))]
                   /\ IF Head(raw).raw
                      THEN /\ tls' = [tls EXCEPT ![d].broken = TRUE]
                           /\ UNCHANGED <<ts, rd, got, canSplice>>
                      ELSE \E k \in ReadSizes(Head(raw).cells) :
                             Understands(d, SubSeq(Head(raw).cells, 1, k),
                               [c EXCEPT !.rawInput = Tail(raw),
                                         !.input = SubSeq(Head(raw).cells, k + 1,
                                                          Len(Head(raw).cells))])

\* After the switch the reader takes the bytes of the raw connection as they are.
ReadDirect(d) ==
  /\ rd[d].direct /\ ~tls[d].broken
  /\ wire[d] # <<>>
  /\ wire' = [wire EXCEPT ![d] = Tail(@)]
  /\ IF Head(wire[d]).raw
     THEN /\ got' = [got EXCEPT ![d] = @ \o Head(wire[d]).cells]
          /\ UNCHANGED tls
     ELSE /\ tls' = [tls EXCEPT ![d].broken = TRUE]
          /\ UNCHANGED got
  /\ UNCHANGED <<ts, rd, canSplice>>

(***************************************************************************)
(* The programs around the flow.  The client's outbound copies the user's  *)
(* payload to its VisionWriter, or sends one empty block if none came in   *)
(* time.  The server's freedom outbound copies the site's answer in        *)
(* CopyRawConnIfExist, which looks at CanSpliceCopy before every read and  *)
(* from then on moves the bytes to the raw connection itself.              *)
(***************************************************************************)
ClientWrites ==
  /\ \/ \E mb \in Reads(Pending("up")) : WriteBegin("up", mb)
     \/ wr["up"].uuid /\ wr["up"].sent = 0 /\ WriteBegin("up", <<<<>>>>)
  /\ UNCHANGED <<script, rd, tls, got, loop, early>>

CopyChecks ==
  /\ loop = "check" /\ wr["down"].pc = "idle"
  /\ loop' = IF canSplice = 1 THEN "splice" ELSE "read"
  /\ early' = IF canSplice = 1 /\ rd["down"].command # 2
                 /\ ~(wr["down"].direct \/ wr["down"].raw)
              THEN "splice" ELSE early
  /\ UNCHANGED <<script, ts, rd, wr, tls, wire, got, canSplice>>

CopyReads ==
  /\ loop = "read"
  /\ \E mb \in Reads(Pending("down")) : WriteBegin("down", mb)
  /\ loop' = "check"
  /\ UNCHANGED <<script, rd, tls, got, early>>

Splices ==
  /\ loop = "splice"
  /\ Pending("down") # <<>>
  /\ wire' = [wire EXCEPT !["down"] = Append(@, [raw |-> TRUE, cells |-> Pending("down")])]
  /\ wr' = [wr EXCEPT !["down"].sent = @ + Len(Pending("down"))]
  /\ UNCHANGED <<script, ts, rd, tls, got, loop, canSplice, early>>

VisionNext ==
  \/ ClientWrites \/ CopyChecks \/ CopyReads \/ Splices
  \/ \E d \in Directions :
       \/ (Pad(d) \/ PadApp(d)) /\ UNCHANGED <<script, rd, tls, got, loop, canSplice>>
       \/ (Read(d) \/ ReadDirect(d)) /\ UNCHANGED <<script, wr, loop, early>>

VisionSpec == VisionInit /\ [][VisionNext]_visionVars

-----------------------------------------------------------------------------
Whole(d) == [k \in DOMAIN script[d] |-> <<script[d][k][1], k>>]

\* Neither end ever takes a byte of one layer for a byte of the other, and what
\* arrives is what was sent, in order.
Carried == \A d \in Directions :
             /\ ~tls[d].broken
             /\ IsPrefix(got[d], Whole(d))

\* The flow is transparent: whatever the padding, the records and the reads
\* cut the payload into, and at whatever byte a direction leaves the outer TLS,
\* the payload arrives unchanged.  Two interleavings are excepted, both marked
\* by "early": the copy loop splices before this direction announced it, and
\* EnableXtls changes between the reads of one write (early data only).
Transparent == early = "no" => Carried

-----------------------------------------------------------------------------
(***************************************************************************)
(* The bodies of VMess and of Shadowsocks: a stream or a series of packets *)
(* cut into chunks, each behind its size (common/crypto auth.go and        *)
(* chunk.go, proxy/vmess/encoding).  Writer and reader never exchange more *)
(* than the chunks: each keeps its own counters for the nonces, for the    *)
(* masks of the sizes and for the lengths of the padding, and the two stay *)
(* in step only if both draw from them in the same order.                  *)
(*                                                                         *)
(* The unit is a cell: a size takes one, a tag one, and so does each byte  *)
(* of data or padding.  A masked or sealed cell carries what is needed to  *)
(* read it; with another counter it reads as garbage.                      *)
(***************************************************************************)

CONSTANTS Securities,  \* of the accounts: "aes" (and ChaCha20 alike), "none", "zero"
          Foreign,     \* what other programs' requests ask for: [sec, opts, cmd]
          Writes,      \* the multi-buffers written: sequences of lengths
          MaxData,     \* bound on the bytes written
          BufSize,     \* buf.Size, in cells
          ReadSize,    \* chunks one ReadMultiBuffer returns at most
          NonceSpace   \* the values of the 16-bit chunk counter

VARIABLES layers,  \* how writer and reader are set up
          bw, br,    \* their counters, and the reader's state
          bodyWire,    \* cells on the way
          buffered,\* cells in the BufferedReader
          bodySent, bodyGot, count,
          givenUp  \* history: a packet was, after its padding was drawn
bodyVars == <<layers, bw, br, bodyWire, buffered, bodySent, bodyGot, count, givenUp>>

(***************************************************************************)
(* The functions that set a body up read the same options on both sides.   *)
(* The sizes are sealed under the request's key in both directions.        *)
(***************************************************************************)
Invalid(q) == "padding" \in q.opts /\ "masking" \notin q.opts

Body(q, way) ==
  LET packet == q.cmd = "udp"
      size == IF "masking" \in q.opts THEN "shake" ELSE "plain"
      pad == "padding" \in q.opts
  IN IF q.sec = "none" /\ "stream" \notin q.opts
     THEN [kind |-> "raw", size |-> "none", padding |-> FALSE, packet |-> FALSE,
           overhead |-> 0, key |-> way, lenkey |-> way]
     ELSE IF q.sec = "none"
     THEN [kind |-> IF packet THEN "auth" ELSE "chunk", size |-> size,
           padding |-> pad /\ packet, packet |-> packet, overhead |-> 0,
           key |-> way, lenkey |-> way]
     ELSE [kind |-> "auth", size |-> IF "authlen" \in q.opts THEN "aead" ELSE size,
           padding |-> pad, packet |-> packet, overhead |-> 1,
           key |-> way, lenkey |-> "request"]

EncodeRequestBody(q) == Body(q, "request")

DecodeRequestBody(q) == Body(q, "request")

EncodeResponseBody(q) == Body(q, "response")

DecodeResponseBody(q) == Body(q, "response")

\* Shadowsocks: one AEADAuthenticator seals the sizes and the payload.
NewEncryptionWriter == [kind |-> "auth", size |-> "shared", padding |-> FALSE,
                        packet |-> FALSE, overhead |-> 1, key |-> "ss", lenkey |-> "ss"]

NewDecryptionReader == NewEncryptionWriter

\* shouldEnablePadding and the options the outbound sets for an account.
OutboundOptions(security, authlen) ==
  LET masked == IF security \in {"aes", "none"} THEN {"masking"} ELSE {}
      padded == IF security = "aes" THEN {"padding"} ELSE {}
      extra == IF authlen THEN {"authlen"} ELSE {}
  IN IF security = "zero" THEN extra ELSE {"stream"} \cup masked \cup padded \cup extra

OutboundRequests ==
  Foreign \cup {[sec |-> IF s = "zero" THEN "none" ELSE s, cmd |-> c, opts |-> OutboundOptions(s, a)] :
                s \in Securities, c \in {"tcp", "udp"}, a \in BOOLEAN}

Counters == [shake |-> 0, nonce |-> 0, lnonce |-> 0]

Sessions == {[w |-> EncodeRequestBody(q), r |-> DecodeRequestBody(q)] :
                q \in {q \in OutboundRequests : ~Invalid(q)}}
            \cup {[w |-> EncodeResponseBody(q), r |-> DecodeResponseBody(q)] :
                    q \in {q \in OutboundRequests : ~Invalid(q)}}
            \cup {[w |-> NewEncryptionWriter, r |-> NewDecryptionReader]}

BodyInit ==
  /\ layers \in Sessions
  /\ bw = Counters
  /\ br = [shake |-> 0, nonce |-> 0, lnonce |-> 0,
           pending |-> <<>>, left |-> 0, state |-> "open"]
  /\ bodyWire = <<>> /\ buffered = <<>>
  /\ bodySent = <<>> /\ bodyGot = <<>> /\ count = 0
  /\ givenUp = FALSE

(***************************************************************************)
(* The counters: ShakeSizeParser.next gives masks and padding lengths from *)
(* one stream; GenerateChunkNonce counts in 16 bits.                       *)
(***************************************************************************)
NextShake(c) == [c EXCEPT !.shake = @ + 1]

PaddingAt(k) == k % 2

NextPaddingLen(l, c) == IF l.padding THEN PaddingAt(c.shake + 1) ELSE 0

DrawPadding(l, c) == IF l.padding THEN NextShake(c) ELSE c

MaxPaddingLen(l) == IF l.padding THEN 1 ELSE 0

NextNonce(l, k) == IF l.size = "shared" THEN k + 1 ELSE (k + 1) % NonceSpace

\* The size cell Encode makes, and what Decode must be holding to read it.
SizeCell(l, c, size) ==
  [kind |-> "size", n |-> size,
   key |-> CASE l.size = "plain"  -> <<>>
             [] l.size = "shake"  -> <<l.key, c.shake + 1>>
             [] l.size = "aead"   -> <<l.lenkey, c.lnonce>>
             [] l.size = "shared" -> <<l.key, c.nonce>>]

AfterSize(l, c) ==
  CASE l.size = "plain"  -> c
    [] l.size = "shake"  -> NextShake(c)
    [] l.size = "aead"   -> [c EXCEPT !.lnonce = NextNonce(l, @)]
    [] l.size = "shared" -> [c EXCEPT !.nonce = NextNonce(l, @)]

DataCell(l, c, d) == [kind |-> "data", n |-> d,
                      key |-> IF l.overhead = 0 THEN <<>> ELSE <<l.key, c.nonce>>]
TagCell(l, c) == [kind |-> "tag", n |-> 0, key |-> <<l.key, c.nonce>>]
PadCell == [kind |-> "pad", n |-> 0, key |-> <<>>]

AfterSeal(l, c) == IF l.overhead = 0 THEN c ELSE [c EXCEPT !.nonce = NextNonce(l, @)]

(***************************************************************************)
(* AuthenticationWriter.seal: the padding is drawn before it is known that *)
(* the chunk fits a buffer.                                                *)
(***************************************************************************)
seal(l, c, data) ==
  LET size == Len(data) + l.overhead
      pad == NextPaddingLen(l, c)
      c1 == DrawPadding(l, c)
      c2 == AfterSize(l, c1)
      fits == 1 + size + pad <= BufSize
  IN [ok |-> fits,
      c |-> IF fits THEN AfterSeal(l, c2) ELSE c1,
      out |-> IF ~fits THEN <<>>
              ELSE <<SizeCell(l, c1, size + pad)>>
                   \o [i \in DOMAIN data |-> DataCell(l, c2, data[i])]
                   \o [i \in 1 .. l.overhead |-> TagCell(l, c2)]
                   \o [i \in 1 .. pad |-> PadCell]]

\* The pieces of a stream, each as much as fits a buffer.
Pieces(data, size) ==
  LET many == (Len(data) + size - 1) \div size
  IN [i \in 1 .. many |->
        SubSeq(data, (i - 1) * size + 1,
               IF i * size < Len(data) THEN i * size ELSE Len(data))]

SealAll(l, c, pieces) ==
  FoldLeft(LAMBDA acc, p :
             LET s == seal(l, acc.c, p)
             IN [c |-> s.c, out |-> acc.out \o s.out,
                 kept |-> IF s.ok THEN Append(acc.kept, p) ELSE acc.kept],
           [c |-> c, out |-> <<>>, kept |-> <<>>], pieces)

writeStream(l, c, mb) ==
  SealAll(l, c, Pieces(FlattenSeq(mb), BufSize - l.overhead - 1 - MaxPaddingLen(l)))

writePacket(l, c, mb) == SealAll(l, c, SelectSeq(mb, LAMBDA p : p # <<>>))

\* ChunkStreamWriter: slices of whole buffers, of at most a buffer's size.
ChunkStreamWrite(l, c, mb) ==
  LET slices == FoldLeft(LAMBDA acc, b :
                           IF acc # <<>> /\ Len(Last(acc)) + Len(b) <= BufSize
                           THEN [acc EXCEPT ![Len(acc)] = @ \o b] ELSE Append(acc, b),
                         <<>>, mb)
  IN FoldLeft(LAMBDA acc, s :
                [c |-> AfterSize(l, acc.c), kept |-> mb,
                 out |-> acc.out \o <<SizeCell(l, acc.c, Len(s))>>
                         \o [i \in DOMAIN s |-> DataCell(l, acc.c, s[i])]],
              [c |-> c, out |-> <<>>, kept |-> mb],
              IF mb = <<>> THEN <<<<>>>> ELSE slices)

\* Buffers of consecutive bytes, of the given lengths.
Buffers(lens, from) ==
  [i \in DOMAIN lens |->
     [j \in 1 .. lens[i] |-> from + j + FoldLeft(LAMBDA a, b : a + b, 0, SubSeq(lens, 1, i - 1))]]

WriteMultiBuffer(l, c, mb) ==
  IF l.kind = "raw" THEN [c |-> c, kept |-> mb,
                          out |-> [i \in DOMAIN FlattenSeq(mb) |->
                                     DataCell(l, c, FlattenSeq(mb)[i])]]
  ELSE IF l.kind = "chunk" THEN ChunkStreamWrite(l, c, mb)
  ELSE IF mb = <<>> THEN SealAll(l, c, <<<<>>>>)
  ELSE IF l.packet THEN writePacket(l, c, mb)
  ELSE writeStream(l, c, mb)

Ended == bodySent # <<>> /\ Last(bodySent) = <<0>>

\* What a write adds to the record: its packets, or its bytes one by one.
Entries(l, mb) == IF l.packet THEN SelectSeq(mb, LAMBDA p : p # <<>>)
                  ELSE [i \in DOMAIN FlattenSeq(mb) |-> <<FlattenSeq(mb)[i]>>]

Write ==
  /\ ~Ended
  /\ \E lens \in Writes :
       LET mb == Buffers(lens, count)
           res == WriteMultiBuffer(layers.w, bw, mb)
           total == Len(FlattenSeq(mb))
       IN /\ count + total <= MaxData
          /\ count' = count + total
          /\ bw' = res.c
          /\ bodyWire' = bodyWire \o res.out
          /\ givenUp' = (givenUp \/ (layers.w.padding /\ FlattenSeq(res.kept) # FlattenSeq(mb)))
          /\ bodySent' = bodySent \o Entries(layers.w, res.kept)
          /\ UNCHANGED <<layers, br, buffered, bodyGot>>

\* The end of the body: an empty multi-buffer is sealed as an empty chunk.
WriteEnd ==
  /\ ~Ended
  /\ LET res == WriteMultiBuffer(layers.w, bw, <<>>)
     IN /\ bw' = res.c
        /\ bodyWire' = bodyWire \o res.out
  /\ bodySent' = Append(bodySent, <<0>>)
  /\ UNCHANGED <<layers, br, buffered, bodyGot, count, givenUp>>

\* The BufferedReader takes what the connection has for it.
Arrive ==
  /\ bodyWire # <<>>
  /\ \E k \in 1 .. Len(bodyWire) :
       /\ buffered' = buffered \o SubSeq(bodyWire, 1, k)
       /\ bodyWire' = SubSeq(bodyWire, k + 1, Len(bodyWire))
  /\ UNCHANGED <<layers, bw, br, bodySent, bodyGot, count, givenUp>>

(***************************************************************************)
(* AuthenticationReader.  A size that was read while the rest of its chunk *)
(* had not come is kept for the next call.                                 *)
(***************************************************************************)
Readable(l, c, cell) == cell.kind = "size" /\ cell.key = SizeCell(l, c, 0).key

\* Decode before the padding is drawn.
readSizeMaskFirst(l, s, b) ==
  IF s.pending # <<>> THEN [ok |-> TRUE, s |-> [s EXCEPT !.pending = <<>>],
                            size |-> s.pending[1], padding |-> s.pending[2], rest |-> b]
  ELSE LET c == AfterSize(l, s)
       IN [ok |-> Readable(l, s, Head(b)), s |-> DrawPadding(l, c),
           size |-> Head(b).n, padding |-> NextPaddingLen(l, c), rest |-> Tail(b)]

readSize(l, s, b) ==
  IF s.pending # <<>> THEN [ok |-> TRUE, s |-> [s EXCEPT !.pending = <<>>],
                            size |-> s.pending[1], padding |-> s.pending[2], rest |-> b]
  ELSE LET c == DrawPadding(l, s)
       IN [ok |-> Readable(l, c, Head(b)), s |-> AfterSize(l, c),
           size |-> Head(b).n, padding |-> NextPaddingLen(l, s), rest |-> Tail(b)]

\* The payload under its tag, or a failure to open it.
Opens(l, s, cells) ==
  \A i \in DOMAIN cells :
    /\ cells[i].kind = (IF i > Len(cells) - l.overhead THEN "tag" ELSE "data")
    /\ l.overhead = 1 => cells[i].key = <<l.key, s.nonce>>

Result(s, b, out, err) == [s |-> s, b |-> b, out |-> out, err |-> err]

\* "wait" stands for a read that blocks until more has come.
readInternal(l, s, b, soft) ==
  IF soft /\ b = <<>> THEN Result(s, b, <<>>, "soft")
  ELSE IF s.state = "done" THEN Result(s, b, <<>>, "eof")
  ELSE IF s.pending = <<>> /\ b = <<>> THEN Result(s, b, <<>>, "wait")
  ELSE LET z == readSize(l, s, b)
           cells == SubSeq(z.rest, 1, z.size - z.padding)
       IN CASE ~z.ok -> Result(z.s, z.rest, <<>>, "bad")
            [] z.ok /\ z.size = l.overhead + z.padding ->
                 Result([z.s EXCEPT !.state = "done"], z.rest, <<>>, "eof")
            [] z.ok /\ z.size # l.overhead + z.padding /\ z.size > Len(z.rest) ->
                 IF soft THEN Result([z.s EXCEPT !.pending = <<z.size, z.padding>>],
                                     z.rest, <<>>, "soft")
                 ELSE Result(s, b, <<>>, "wait")
            [] OTHER ->
                 IF Opens(l, z.s, cells)
                 THEN Result(AfterSeal(l, z.s), SubSeq(z.rest, z.size + 1, Len(z.rest)),
                             <<[i \in 1 .. Len(cells) - l.overhead |-> cells[i].n]>>, "")
                 ELSE Result(z.s, z.rest, <<>>, "bad")

AuthRead(l, s, b) ==
  LET first == readInternal(l, s, b, FALSE)
      more == FoldLeft(LAMBDA acc, i :
                         IF acc.err # "" THEN acc
                         ELSE LET x == readInternal(l, acc.s, acc.b, TRUE)
                              IN Result(x.s, x.b, acc.out \o x.out, x.err),
                       first, [i \in 1 .. ReadSize - 1 |-> i])
  IN IF first.err # "" THEN first
     ELSE IF more.err = "bad" THEN Result(more.s, more.b, <<>>, "bad")
     ELSE Result(more.s, more.b, more.out, "")

\* ChunkStreamReader: at most the rest of the chunk, as far as it is buffered.
ChunkRead(l, s, b) ==
  IF b = <<>> THEN Result(s, b, <<>>, "wait")
  ELSE LET fresh == s.left = 0
           s1 == IF fresh THEN AfterSize(l, s) ELSE s
           size == IF fresh THEN Head(b).n ELSE s.left
           rest == IF fresh THEN Tail(b) ELSE b
           k == IF size < Len(rest) THEN size ELSE Len(rest)
       IN IF fresh /\ ~Readable(l, s, Head(b)) THEN Result(s1, rest, <<>>, "bad")
          ELSE IF size = 0 THEN Result([s1 EXCEPT !.state = "done"], rest, <<>>, "eof")
          ELSE IF k = 0 THEN Result(s, b, <<>>, "wait")
          ELSE Result([s1 EXCEPT !.left = size - k], SubSeq(rest, k + 1, Len(rest)),
                      <<[i \in 1 .. k |-> rest[i].n]>>, "")

RawRead(s, b) == IF b = <<>> THEN Result(s, b, <<>>, "wait")
                 ELSE Result(s, <<>>, <<[i \in DOMAIN b |-> b[i].n]>>, "")

BodyRead ==
  LET l == layers.r
      x == CASE l.kind = "raw" -> RawRead(br, buffered)
             [] l.kind = "chunk" -> ChunkRead(l, br, buffered)
             [] OTHER -> AuthRead(l, br, buffered)
  IN /\ br.state # "bad" /\ ~(bodyGot # <<>> /\ Last(bodyGot) = <<0>>)
     /\ x.err # "wait"
     /\ br' = IF x.err = "bad" THEN [x.s EXCEPT !.state = "bad"] ELSE x.s
     /\ buffered' = x.b
     /\ bodyGot' = bodyGot \o Entries(l, x.out) \o (IF x.err = "eof" THEN <<<<0>>>> ELSE <<>>)
     /\ UNCHANGED <<layers, bw, bodyWire, bodySent, count, givenUp>>

BodyNext == Write \/ WriteEnd \/ Arrive \/ BodyRead

BodySpec == BodyInit /\ [][BodyNext]_bodyVars

-----------------------------------------------------------------------------
\* What the reader returns is what was written, in order, packet by packet for
\* UDP, and the end only after all of it: however the bytes arrive, however many
\* chunks a read finds, and past the wrap of the 16-bit nonce.  A packet too large
\* for a chunk is dropped, and when seal has drawn a padding for it the two ends
\* are out of step from then on: the reader may fail, or take a short chunk for
\* the end, but even then it never returns anything that was not written there.
BodyIntact ==
  /\ IsPrefix(SelectSeq(bodyGot, LAMBDA p : p # <<0>>), bodySent)
  /\ ~givenUp => br.state # "bad" /\ IsPrefix(bodyGot, bodySent)
=============================================================================
