------------------------------ MODULE Dispatch ------------------------------
(****************************************************************************)
(* app/dispatcher: the sniffers, which tell from its first bytes what a     *)
(* connection is for, and the dispatcher, which runs them and routes.       *)
(****************************************************************************)
EXTENDS Naturals, Sequences, SequencesExt, FiniteSetsExt, FiniteSets

(***************************************************************************)
(* The content sniffers of app/dispatcher (HTTP, TLS, BitTorrent, QUIC and *)
(* uTP) on a message that arrives piece by piece.  Each round of Sniff     *)
(* sees all that has arrived; a sniffer without a clue stays for the next  *)
(* round, one that refuses never sees the message again.                   *)
(*                                                                         *)
(* A message is a sequence of pieces [t, n]: what the n bytes are.  The    *)
(* lengths are those the code compares; the bytes themselves are not       *)
(* modelled.  Dispatch decides when a round takes place; here it may after *)
(* any piece.                                                              *)
(***************************************************************************)

CONSTANTS Messages      \* [network, pieces, hello]

VARIABLES
  message, arrived,
  sniffersLeft,     \* Sniffer.sniffer
  sniffed,
  attributes,       \* Content.Attributes, a function of names
  early             \* history: a round has seen a Host line, and not all there is of them

sniffersVars == <<message, arrived, sniffersLeft, sniffed, attributes, early>>

NoClue == <<"noclue">>
More == <<"more">>
Refused == <<"no">>
Yes(proto, name) == <<"yes", proto, name>>

Size(s) == FoldLeft(LAMBDA sum, p : sum + p.n, 0, s)

Starts(s, ts) == Len(s) >= Len(ts) /\ \A i \in DOMAIN ts : s[i].t = ts[i]

(* http.SniffHTTP *)

\* Mutant: what is too short for a method is refused.
beginWithHTTPMethodEager(s) ==
    IF Starts(s, <<"met", "hod">>) THEN <<"begins">> ELSE Refused

\* Nothing shorter than the longest method (7 bytes) is refused.
beginWithHTTPMethod(s) ==
    CASE Starts(s, <<"met", "hod">>) -> <<"begins">>
      [] Size(s) < 7 -> NoClue
      [] OTHER -> Refused

\* The header lines: from the second line to the first empty one, or to the end of what
\* has arrived.  A line that holds a carriage return is not empty: in a request with CRLF
\* the lines of the body count too.
Headers(s) ==
    LET lines == FoldLeft(LAMBDA ls, p : IF p.t = "nl" THEN Append(ls, <<>>)
                                         ELSE [ls EXCEPT ![Len(ls)] = Append(@, p.t)],
                          <<<<>>>>, s)
        empty == {i \in 2 .. Len(lines) : lines[i] = <<>>}
    IN  SelectSeq(SubSeq(lines, 2, Min(empty \cup {Len(lines) + 1}) - 1),
                  LAMBDA l : Head(l) \in {"host:", "key:"})

Hosts(s) == LET hosts == SelectSeq(Headers(s), LAMBDA l : Head(l) = "host:")
            IN  [i \in DOMAIN hosts |-> Tail(hosts[i])]

\* ParseHost: a bracket that is not closed and a port that is no number are errors.
Parses(value) == /\ "[" \in ToSet(value) => "]" \in ToSet(value)
                 /\ ":bad" \notin ToSet(value)

Domain(value) == SelectSeq(value, LAMBDA t : t # ":80")

\* The last host counts, as far as it is there.
SniffHTTP(s) ==
    CASE beginWithHTTPMethod(s) # <<"begins">> -> beginWithHTTPMethod(s)
      [] \E i \in DOMAIN Hosts(s) : ~Parses(Hosts(s)[i]) -> Refused
      [] Hosts(s) = <<>> \/ (Hosts(s) # <<>> /\ Last(Hosts(s)) = <<>>) -> NoClue
      [] OTHER -> Yes("http1", Domain(Last(Hosts(s))))

\* The attributes that SniffHTTP sets: the headers up to a host that does not parse,
\* and without one the method and the path of a request line with all its parts.
NoAttributes == <<>>

AttributesOf(s) ==
    LET headers == Headers(s)
        bad == {i \in DOMAIN headers : Head(headers[i]) = "host:" /\ ~Parses(Tail(headers[i]))}
        seen == SubSeq(headers, 1, Min(bad \cup {Len(headers)}))
        line == IF bad = {} /\ Starts(s, <<"met", "hod", "path", "version">>)
                  THEN ":method" :> <<"met", "hod">> @@ ":path" :> <<"path">> ELSE NoAttributes
    IN  FoldLeft(LAMBDA f, l : (Head(l) :> Tail(l)) @@ f, line, seen)

\* Mutant: attributes are set whoever has set some before.
SetAttributesAgain(s) ==
    IF Head(sniffersLeft) = "http" /\ beginWithHTTPMethod(s) = <<"begins">>
      THEN AttributesOf(s) @@ attributes ELSE attributes

\* Only a round that finds no attributes sets any: those of the plain HTTP inbound stay,
\* and so do those of an earlier round.
SetAttributes(s) ==
    IF Head(sniffersLeft) = "http" /\ beginWithHTTPMethod(s) = <<"begins">> /\ attributes = NoAttributes
      THEN AttributesOf(s) ELSE attributes

(* tls.SniffTLS *)

\* ReadClientHello on h: the checks in their order.  h.exts are the extensions
\* as [name, fits, sni]; a zero byte in the server name is a gap of QUIC.
ReadClientHello(h) ==
    LET sni == SelectSeq(h.exts, LAMBDA e : e.sni \/ ~e.fits)
    IN  CASE h.size < 42 \/ h.sid > 32 \/ h.size < 39 + h.sid + 2 -> NoClue
          [] h.suites % 2 = 1 \/ h.size < 41 + h.sid + h.suites -> Refused
          [] h.size < 42 + h.sid + h.suites + h.comp -> NoClue
          [] h.size # 44 + h.sid + h.suites + h.comp + h.extsLength -> Refused
          [] sni = <<>> -> Refused
          [] ~Head(sni).fits -> Refused
          [] Head(sni).gap -> More
          [] Head(sni).dot -> Refused
          [] OTHER -> Yes("tls", Head(sni).name)

SniffTLS(s) ==
    CASE Size(s) < 5 -> NoClue
      [] ~Starts(s, <<"rec", "ord">>) -> Refused
      [] Size(s) < 5 + message.hello.record -> NoClue
      [] OTHER -> ReadClientHello(message.hello)

(* bittorrent.SniffBittorrent, SniffUTP *)

SniffBittorrent(s) ==
    CASE Size(s) < 20 -> NoClue
      [] Starts(s, <<"torrent">>) -> Yes("bittorrent", <<>>)
      [] OTHER -> Refused

\* The difference of the time in microseconds and a 32-bit timestamp is
\* compared with a day in nanoseconds: since 1972 it is always larger.
SniffUTP(s) == IF Size(s) < 20 \/ Starts(s, <<"utp-part">>) THEN NoClue ELSE Refused

(* quic.SniffQUIC *)

\* A packet is [t, n, whole, opens, frames]: t is "initial", "long" (another
\* long header) or anything else; a frame [t, part] carries a part of the
\* ClientHello, a set of positions.  The name lies at the position NamePart
\* and the end of the hello at LastPart; parts not received are zero bytes.
NamePart == 2
LastPart == 4

Frames(s) == UNION {ToSet(s[i].frames) : i \in {j \in DOMAIN s : s[j].t = "initial"}}
Parts(s) == UNION {f.part : f \in {g \in Frames(s) : g.t = "crypto"}}

\* What ReadClientHello makes of the crypto data: it fails when its beginning
\* or its end is missing, and finds zero bytes in a name that is.
HelloOf(s) == IF (1..NamePart) \cup {LastPart} \subseteq Parts(s)
              THEN ReadClientHello(message.hello) ELSE More

\* The packets before the first that settles the matter, and that one.
SniffQUIC(s) ==
    LET bad(i) == \/ s[i].t \notin {"initial", "long"}
                  \/ s[i].t = "initial" /\ (~s[i].opens \/ \E f \in ToSet(s[i].frames) :
                                                  f.t \notin {"crypto", "padding", "ping", "ack", "close"})
        found(i) == s[i].t = "initial" /\ HelloOf(SubSeq(s, 1, i))[1] = "yes"
        settled == {i \in DOMAIN s : bad(i) \/ ~s[i].whole \/ found(i)}
        i == Min(settled)
    IN  CASE s = <<>> -> NoClue
          [] settled = {} -> More
          [] bad(i) -> Refused
          [] ~s[i].whole -> NoClue
          [] OTHER -> Yes("quic", HelloOf(SubSeq(s, 1, i))[3])

(* dispatcher.Sniffer *)

\* NewSniffer's order; the metadata sniffers of the fake DNS are Dispatch's.
SnifferOrder == <<"http", "tls", "bittorrent", "quic", "utp">>
NetworkOf(x) == IF x \in {"http", "tls", "bittorrent"} THEN "tcp" ELSE "udp"

Says(x, s) == CASE x = "http" -> SniffHTTP(s)
                [] x = "tls" -> SniffTLS(s)
                [] x = "bittorrent" -> SniffBittorrent(s)
                [] x = "quic" -> SniffQUIC(s)
                [] x = "utp" -> SniffUTP(s)

\* One round over all that has arrived: the first that knows, or asks for more
\* and is alone from now on, ends it; otherwise those without a clue stay.
SniffMessage(s) ==
  LET asked == SelectSeq(sniffersLeft, LAMBDA x : NetworkOf(x) = message.network)
      ends == {i \in DOMAIN asked : Says(asked[i], s)[1] \in {"yes", "more"}}
      first == asked[Min(ends)]
      pending == SelectSeq(asked, LAMBDA x : Says(x, s) = NoClue)
  IN  IF ends # {}
      THEN /\ sniffersLeft' = IF Says(first, s) = More THEN <<first>> ELSE sniffersLeft
           /\ sniffed' = Says(first, s)
      ELSE /\ sniffersLeft' = IF pending = <<>> THEN sniffersLeft ELSE pending
           /\ sniffed' = IF pending = <<>> THEN Refused ELSE NoClue

\* What the plain HTTP inbound has set of the request it forwards.
Given == "key:" :> <<"given">>

SniffersInit ==
  /\ message \in Messages
  /\ arrived = 0
  /\ sniffersLeft = SnifferOrder
  /\ sniffed = NoClue
  /\ attributes \in {NoAttributes} \cup {Given : t \in {Head(message.pieces).t} \cap {"met"}}
  /\ early = FALSE

\* More of the message has arrived: a round.
Round ==
    /\ sniffed \in {NoClue, More}
    /\ \E k \in arrived + 1 .. Len(message.pieces) :
         LET s == SubSeq(message.pieces, 1, k)
         IN  /\ arrived' = k
             /\ SniffMessage(s)
             /\ attributes' = SetAttributes(s)
             /\ early' = (early \/ (Hosts(s) # <<>> /\ Hosts(s) # Hosts(message.pieces)))
    /\ UNCHANGED message

SniffersNext == Round

SniffersSpec == SniffersInit /\ [][SniffersNext]_sniffersVars

\* What the sniffers make of the message when it comes as a whole.
Whole == {Says(x, message.pieces) : x \in {y \in ToSet(SnifferOrder) : NetworkOf(y) = message.network}}

(* However a message is cut into pieces, sniffing it in rounds comes to the *)
(* verdict on the whole message: a sniffer that would know it is never      *)
(* dropped on the way for having seen too little, and a name is never       *)
(* reported in part.  The exception is an HTTP request of which a round saw *)
(* a Host line and not yet all of them: SniffHTTP takes the line for        *)
(* complete, and reports a part of the name, or gives up when that part is  *)
(* no host, or misses a line that would have come later.                    *)
PiecesDoNotMatter ==
    early \/
    /\ sniffed[1] = "yes" => sniffed \in Whole
    /\ sniffed = Refused => \A v \in Whole : v[1] # "yes"
    /\ sniffed \in {NoClue, More} /\ arrived = Len(message.pieces)
          => \A v \in Whole : v[1] # "yes"

(* The attributes that routing rules look at are those of the inbound that  *)
(* has read the request, or those of one look at the first bytes, never a   *)
(* mixture.  (It is the first look that shows any, and it may have come too *)
(* early for some of them.)                                                 *)
AttributesOfOneLook ==
    \/ attributes \in {NoAttributes, Given}
    \/ \E k \in 1 .. arrived : attributes = AttributesOf(SubSeq(message.pieces, 1, k))

-----------------------------------------------------------------------------
(***************************************************************************)
(* app/dispatcher, DefaultDispatcher: a connection comes in, its first     *)
(* bytes are looked at (sniffing), its destination may be replaced by the  *)
(* domain they name or that the fake DNS has given the address for, and an *)
(* outbound handler is chosen, which reads the connection from its start.  *)
(*                                                                         *)
(* Dispatch reads a pipe; DispatchLink reads the connection itself, by way *)
(* of a TimeoutWrapperReader, whose reading goroutine may outlive a        *)
(* timeout.  What the client sends are numbered chunks; what a sniffer     *)
(* says of them is left open.  Time counts in parts of the 200 ms there    *)
(* are for sniffing.                                                       *)
(***************************************************************************)

CONSTANTS
  Requests,   \* the sniffing settings of inbounds
  MaxChunks,  \* bound: chunks the client sends
  Deadline    \* the time for sniffing, in parts

Protocols == <<"http1", "tls", "bittorrent">>   \* the sniffers, in their order
Order(p) == CHOOSE i \in 1..3 : Protocols[i] = p

VARIABLES
  kind,       \* "Dispatch" or "DispatchLink"
  request,    \* the sniffing request of the inbound
  fake,       \* the address of the destination: "no", "known" or "forgotten" by the fake DNS
  sent,       \* chunks the client has sent so far
  queue,      \* those that nobody has read
  closed,     \* the client has closed
  wrapper,    \* TimeoutWrapperReader: none, reading, done
  mb, err,    \* what its goroutine has read
  cache,      \* cachedReader.cache
  phase,      \* meta, cache, sniff, route, dispatched, refused
  left,       \* cacheDeadline
  attempts,   \* totalAttempt
  sniffers,   \* Sniffer.sniffer
  result,     \* of sniffing: protocol, domain, and the protocol of the domain
  target,     \* ob.Target: "ip" or a domain
  routed,     \* ob.RouteTarget, or what PickRoute sees
  delivered,  \* chunks the outbound handler has read
  lost        \* history: a chunk came with an error, or Interrupt has dropped chunks

readVars == <<sent, queue, closed, wrapper, mb, err, cache, delivered, lost>>
inputs == <<kind, request, fake>>
sniffVars == <<phase, left, attempts, sniffers, result, target, routed>>
vars == <<readVars, inputs, sniffVars>>

NoResult == [protocol |-> "", domain |-> "", domainProtocol |-> ""]

Init ==
  /\ kind \in {"Dispatch", "DispatchLink"}
  /\ request \in Requests
  /\ fake \in {"no", "known", "forgotten"}
  /\ sent = 0 /\ queue = <<>> /\ closed = FALSE
  /\ wrapper = "none" /\ mb = <<>> /\ err = FALSE /\ cache = <<>>
  /\ phase = IF request.enabled THEN "meta" ELSE "route"
  /\ left = Deadline /\ attempts = 0
  /\ sniffers = {Protocols[i] : i \in 1..3}
  /\ result = NoResult /\ target = "ip" /\ routed = "ip"
  /\ delivered = <<>> /\ lost = FALSE

-----------------------------------------------------------------------------
(* The client *)

Send ==
  /\ sent < MaxChunks /\ ~closed
  /\ sent' = sent + 1 /\ queue' = Append(queue, sent + 1)
  /\ UNCHANGED <<closed, wrapper, mb, err, cache, delivered, lost, inputs, sniffVars>>

CloseSend ==
  /\ ~closed /\ closed' = TRUE
  /\ UNCHANGED <<sent, queue, wrapper, mb, err, cache, delivered, lost, inputs, sniffVars>>

-----------------------------------------------------------------------------
(* Reading *)

\* The goroutine of the wrapper reads the connection: what is there, possibly
\* together with the end of it.
WrapperReads ==
  /\ kind = "DispatchLink" /\ wrapper = "reading"
  /\ queue # <<>> \/ closed
  /\ wrapper' = "done"
  /\ mb' = queue /\ queue' = <<>>
  /\ err' \in IF queue = <<>> THEN {TRUE} ELSE {FALSE, closed}
  /\ UNCHANGED <<sent, closed, cache, delivered, lost, inputs, sniffVars>>

\* Mutant: what was cached before is dropped.
CachesLast(data) == cache' = IF data = <<>> THEN cache ELSE data

\* The merge of what was read with the cache.
Caches(data) == cache' = cache \o data

Elapsed(t) == left' = left - t

\* Sniffing ends without a result of the content.
GiveUp == phase' = "override" /\ UNCHANGED <<attempts, sniffers, result, target, routed>>

Cached(t) == phase' = "sniff" /\ Elapsed(t) /\ UNCHANGED <<attempts, sniffers, result, target, routed>>

\* Cache over a pipe: an empty pipe at its end and a timeout are errors.
CachePipe(t) ==
  /\ phase = "cache" /\ kind = "Dispatch"
  /\ \/ queue # <<>> /\ Caches(queue) /\ queue' = <<>> /\ Cached(t)
     \/ queue = <<>> /\ (closed \/ t = left) /\ GiveUp /\ UNCHANGED <<queue, cache, left>>
  /\ UNCHANGED <<sent, closed, wrapper, mb, err, delivered, lost, inputs>>

\* Cache over the wrapper, the first half: the goroutine is started.
CacheStarts ==
  /\ phase = "cache" /\ kind = "DispatchLink" /\ wrapper = "none"
  /\ wrapper' = "reading"
  /\ UNCHANGED <<sent, queue, closed, mb, err, cache, delivered, lost, inputs, sniffVars>>

\* The second half: it is done, or the time is over, which is no error.
CacheWrapper(t) ==
  /\ phase = "cache" /\ kind = "DispatchLink"
  /\ \/ /\ wrapper = "done" /\ ~err /\ Caches(mb) /\ Cached(t)
        /\ wrapper' = "none" /\ mb' = <<>> /\ UNCHANGED <<err, lost>>
     \/ /\ wrapper = "done" /\ err /\ GiveUp
        /\ wrapper' = "none" /\ mb' = <<>> /\ err' = FALSE /\ lost' = (lost \/ mb # <<>>)
        /\ UNCHANGED <<cache, left>>
     \/ /\ wrapper = "reading" /\ t = left /\ Cached(t)
        /\ UNCHANGED <<wrapper, mb, err, cache, lost>>
  /\ UNCHANGED <<sent, queue, closed, delivered, inputs>>

\* The outbound handler reads: the cache, then the reader below it.
HandlerReads ==
  /\ phase = "dispatched"
  /\ \/ /\ cache # <<>>
        /\ delivered' = delivered \o cache /\ cache' = <<>>
        /\ UNCHANGED <<queue, wrapper, mb>>
     \/ /\ cache = <<>> /\ wrapper = "done"
        /\ delivered' = delivered \o mb /\ mb' = <<>> /\ wrapper' = "none"
        /\ UNCHANGED <<queue, cache>>
     \/ /\ cache = <<>> /\ wrapper = "none" /\ queue # <<>>
        /\ delivered' = delivered \o queue /\ queue' = <<>>
        /\ UNCHANGED <<wrapper, mb, cache>>
  /\ UNCHANGED <<sent, closed, err, lost, inputs, sniffVars>>

\* The outbound handler ends, or fails: Interrupt of the reader.
Interrupt ==
  /\ phase = "dispatched" /\ cache # <<>>
  /\ cache' = <<>> /\ lost' = TRUE
  /\ UNCHANGED <<sent, queue, closed, wrapper, mb, err, delivered, inputs, sniffVars>>

-----------------------------------------------------------------------------
(* Sniffing *)

\* SniffMetadata: the fake DNS knows the domain, or there is no clue.
SniffMetadata ==
  /\ phase = "meta"
  /\ result' = IF fake = "known"
               THEN [protocol |-> "fakedns", domain |-> "known", domainProtocol |-> "fakedns"]
               ELSE NoResult
  /\ phase' = IF request.metadataOnly THEN "override" ELSE "cache"
  /\ UNCHANGED <<readVars, inputs, left, attempts, sniffers, target, routed>>

\* CompositeResult: the domain of the metadata, the protocol of the content.
Composite(p, domain) ==
  IF result = NoResult THEN [protocol |-> p, domain |-> domain, domainProtocol |-> p]
  ELSE [result EXCEPT !.protocol = p]

\* The end of a round: another one, unless there were two without a clue or the
\* time is over.
NextRound(n) ==
  /\ attempts' = n
  /\ phase' = IF n >= 2 \/ left = 0 THEN "override" ELSE "cache"

\* Mutant: only the attempts count.
SniffForEver(says) ==
  LET decisive == {p \in sniffers : says[p] \in {"more", "yes"}}
      first == CHOOSE p \in decisive : \A q \in decisive : Order(p) <= Order(q)
      pending == {p \in sniffers : says[p] = "noclue"}
  IN
  /\ phase = "sniff"
  /\ IF cache = <<>> THEN NextRound(attempts + 1) /\ UNCHANGED <<sniffers, result>>
     ELSE IF decisive # {} THEN
       IF says[first] = "more"
       THEN sniffers' = {first} /\ phase' = "cache" /\ UNCHANGED <<result, attempts>>
       ELSE /\ result' \in {Composite(first, d) : d \in {"", "sniffed"}}
            /\ phase' = "override" /\ UNCHANGED <<sniffers, attempts>>
     ELSE IF pending # {} THEN sniffers' = pending /\ NextRound(attempts + 1) /\ UNCHANGED result
     ELSE phase' = "override" /\ UNCHANGED <<attempts, sniffers, result>>
  /\ UNCHANGED <<readVars, inputs, left, target, routed>>

\* A round of sniffer after Cache, with Sniffer.Sniff: says is what each sniffer
\* says, in their order the first that is sure or wants more data decides.
Sniff(says) ==
  LET decisive == {p \in sniffers : says[p] \in {"more", "yes"}}
      first == CHOOSE p \in decisive : \A q \in decisive : Order(p) <= Order(q)
      pending == {p \in sniffers : says[p] = "noclue"}
  IN
  /\ phase = "sniff"
  /\ IF cache = <<>> THEN NextRound(attempts + 1) /\ UNCHANGED <<sniffers, result>>
     ELSE IF decisive # {} THEN
       IF says[first] = "more"
       THEN sniffers' = {first} /\ NextRound(attempts) /\ UNCHANGED result
       ELSE /\ result' \in {Composite(first, d) : d \in {"", "sniffed"}}
            /\ phase' = "override" /\ UNCHANGED <<sniffers, attempts>>
     ELSE IF pending # {} THEN sniffers' = pending /\ NextRound(attempts + 1) /\ UNCHANGED result
     ELSE phase' = "override" /\ UNCHANGED <<attempts, sniffers, result>>
  /\ UNCHANGED <<readVars, inputs, left, target, routed>>

\* shouldOverride: "http1" matches "http", and any protocol but bittorrent makes
\* up for a fake address that the fake DNS has forgotten.
ShouldOverride ==
  /\ result.domain # "" /\ ~request.excluded
  /\ \/ "http" \in request.override /\ result.domainProtocol = "http1"
     \/ /\ "fakedns" \in request.override
        /\ \/ result.domainProtocol = "fakedns"
           \/ result.domainProtocol # "bittorrent" /\ fake # "no"

\* Mutant: with RouteOnly the target is never replaced.
OverrideRouteOnly ==
  /\ phase = "override" /\ phase' = "route"
  /\ target' = IF ShouldOverride /\ ~request.routeOnly THEN result.domain ELSE target
  /\ routed' = IF ShouldOverride THEN result.domain ELSE routed
  /\ left' = 0 /\ attempts' = 0 /\ sniffers' = {} /\ result' = NoResult
  /\ UNCHANGED <<readVars, inputs>>

\* Dispatch and DispatchLink, after sniffing.  A fake address is replaced even with
\* RouteOnly.  What sniffing kept is forgotten.
Override ==
  LET routeOnly == request.routeOnly /\ result.domainProtocol # "fakedns" /\ fake = "no" IN
  /\ phase = "override" /\ phase' = "route"
  /\ target' = IF ShouldOverride /\ ~routeOnly THEN result.domain ELSE target
  /\ routed' = IF ShouldOverride THEN result.domain ELSE routed
  /\ left' = 0 /\ attempts' = 0 /\ sniffers' = {} /\ result' = NoResult
  /\ UNCHANGED <<readVars, inputs>>

\* routedDispatch: a handler is found, or both ends of the link are closed: a
\* forced or routed tag without a handler never falls back to the default.
RoutedDispatch(forced, route, hasDefault) ==
  LET found == IF forced # "none" THEN forced = "exists"
               ELSE IF route # "none" THEN route = "exists" ELSE hasDefault
  IN
  /\ phase = "route"
  /\ phase' = IF found THEN "dispatched" ELSE "refused"
  /\ UNCHANGED <<readVars, inputs, left, attempts, sniffers, result, target, routed>>

SnifferNext ==
  \/ SniffMetadata \/ CacheStarts \/ Override
  \/ \E t \in 0..left : CachePipe(t) \/ CacheWrapper(t)
  \/ \E says \in [sniffers -> {"noclue", "more", "yes", "no"}] : Sniff(says)
  \/ \E f, r \in {"none", "exists", "missing"}, d \in BOOLEAN : RoutedDispatch(f, r, d)

Next == Send \/ CloseSend \/ WrapperReads \/ HandlerReads \/ Interrupt \/ SnifferNext

Spec == Init /\ [][Next]_vars

\* The goroutine that sniffs runs.
FairSpec == Spec /\ WF_vars(SnifferNext)

-----------------------------------------------------------------------------
(* Properties *)

\* Sniffing takes nothing away: what the handler has read, what is cached, what a
\* late goroutine of the wrapper holds and what nobody has read are together what
\* the client has sent, in its order; only a handler that ends, and a chunk that
\* came together with the end of the connection, lose any (cachedReader).
SniffingKeepsData == lost \/ delivered \o cache \o mb \o queue = [i \in 1..sent |-> i]

\* No connection leaves for a fake address whose domain is known, when the inbound
\* asks for fakedns, whatever the content looks like and with RouteOnly, too; the
\* exception is a domain that is excluded.
NoFakeTarget ==
  phase = "dispatched" /\ request.enabled /\ "fakedns" \in request.override /\ ~request.excluded
  /\ fake = "known" => target = "known"
=============================================================================
