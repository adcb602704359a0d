---------------------------- MODULE ProxyHeaders ----------------------------
(****************************************************************************)
(* What proxies write on a connection: addresses (common/protocol), the     *)
(* requests and answers at its start, and the packets of UDP sessions.      *)
(****************************************************************************)
EXTENDS Integers, Sequences, Functions, FiniteSets

(***************************************************************************)
(* common/protocol: how the proxy protocols write a target, as an address  *)
(* and a port.  They differ in the byte for each family of addresses and   *)
(* in whether the port goes first.                                         *)
(*                                                                         *)
(* A message is a sequence of bytes.  An IPv4 address has two of them here *)
(* and an IPv6 address four; a length is one byte that holds the values    *)
(* below LenSpace (256 in the code), so a length of LenSpace is written as *)
(* 0.  Letters and digits are the bytes below 20, digits those below 10.   *)
(***************************************************************************)

CONSTANT LenSpace

Letters == 0..19
Digits == 0..9
Octets(family) == IF family = "v4" THEN 2 ELSE 4

\* The protocols that write the port first, and the byte for each family.
PortFirst == {"vless", "vmess", "mux"}

AddressFamilyByte(p) ==
  IF p \in PortFirst THEN [v4 |-> 1, domain |-> 2, v6 |-> 3]
  ELSE [v4 |-> 1, domain |-> 3, v6 |-> 4]

Error == [ok |-> FALSE]
Ok(value, rest) == [ok |-> TRUE, v |-> value, rest |-> rest]

\* What comes after a read that went well.
Then(read, F(_)) == IF read.ok THEN F(read) ELSE Error

\* ReadFullFrom: n bytes, or an error at the end of the stream.
ReadFull(s, n) ==
  IF n > Len(s) THEN Error ELSE Ok(SubSeq(s, 1, n), SubSeq(s, n + 1, Len(s)))

\* A domain that looks like an address becomes one.
ParseAddress(d) ==
  IF Len(d) = Octets("v4") /\ \A i \in DOMAIN d : d[i] \in Digits
    THEN [family |-> "v4", b |-> d] ELSE [family |-> "domain", b |-> d]

\* The type of an address, by the table of the protocol; Shadowsocks looks at the lower
\* half of the byte only.
Family(p, b) ==
  LET code == IF p = "ss" THEN b % 16 ELSE b
  IN {f \in {"v4", "v6", "domain"} : AddressFamilyByte(p)[f] = code}

\* A domain is read as an IP address when it looks like one.  An empty one is an error:
\* the bytes before it, which then count as its text, are not those of a name.
readAddress(p, s) ==
  Then(ReadFull(s, 1), LAMBDA kind :
    LET f == Family(p, kind.v[1]) IN
    IF f = {} THEN Error
    ELSE IF "domain" \notin f
      THEN Then(ReadFull(kind.rest, IF "v4" \in f THEN Octets("v4") ELSE Octets("v6")), LAMBDA raw :
             Ok([family |-> IF "v4" \in f THEN "v4" ELSE "v6", b |-> raw.v], raw.rest))
    ELSE Then(ReadFull(kind.rest, 1), LAMBDA size :
         Then(ReadFull(size.rest, size.v[1]), LAMBDA raw :
           IF raw.v = <<>> \/ \E i \in DOMAIN raw.v : raw.v[i] \notin Letters THEN Error
           ELSE Ok(ParseAddress(raw.v), raw.rest))))

\* A domain longer than LenSpace is refused; one of exactly that length is not.
writeAddress(p, a) ==
  IF a.family # "domain" THEN <<AddressFamilyByte(p)[a.family]>> \o a.b
  ELSE <<AddressFamilyByte(p).domain, Len(a.b) % LenSpace>> \o a.b

isDomainTooLong(a) == a.family = "domain" /\ Len(a.b) > LenSpace

ReadAddressPort(p, s) ==
  IF p \in PortFirst
    THEN Then(ReadFull(s, 2), LAMBDA port :
         Then(readAddress(p, port.rest), LAMBDA addr :
           Ok([addr |-> addr.v, port |-> port.v], addr.rest)))
    ELSE Then(readAddress(p, s), LAMBDA addr :
         Then(ReadFull(addr.rest, 2), LAMBDA port :
           Ok([addr |-> addr.v, port |-> port.v], port.rest)))

WriteAddressPort(p, a, port) ==
  IF p \in PortFirst THEN port \o writeAddress(p, a) ELSE writeAddress(p, a) \o port

-----------------------------------------------------------------------------
(***************************************************************************)
(* The requests of the proxy protocols: what an outbound writes before the *)
(* data of a connection, what the inbound at the other end makes of it,    *)
(* and the answers.  SOCKS exchanges several messages; VLESS and VMess     *)
(* answer a request; Trojan and Shadowsocks do not.  A message may be cut  *)
(* short by a connection that ends, and the same bytes may come once more  *)
(* on a connection of their own, within the time that the server remembers *)
(* what it has seen.                                                       *)
(*                                                                         *)
(* The AEAD ciphers are a tag that depends on the key and on the text.     *)
(***************************************************************************)

CONSTANTS Setups,     \* [proto, req, cfg] records: protocol, request, the server
          Payload,    \* the data behind the request
          Accounts,   \* the users that the server knows
          FirstRead, MaxSkew

VARIABLES setup,
          phase,      \* what client and server do next
          msg,        \* the message on its way, and to whom
          cut,        \* the connection ended in the middle of a message
          got,        \* what the server has understood, as a 0- or 1-sequence
          left,       \* what the server has behind the request
          answer,     \* what the client has understood of the answer
          firstLen,   \* the bytes of the server's first read
          seen,       \* ids, sessions and salts that the server remembers
          repeated    \* "no", or what the server made of the same bytes before

headerVars == <<setup, phase, msg, cut, got, left, answer, firstLen, seen, repeated>>
memory == <<firstLen, seen, repeated>>

proto == setup.proto
req == setup.req
cfg == setup.cfg

CommandByte == [tcp |-> 1, udp |-> 2, mux |-> 3, rvs |-> 4]
Commands(b) == {c \in DOMAIN CommandByte : CommandByte[c] = b}

MuxAddress == [addr |-> [family |-> "domain", b |-> <<18>>], port |-> <<0, 0>>]
RvsAddress == [addr |-> [family |-> "domain", b |-> <<19>>], port |-> <<0, 0>>]

-----------------------------------------------------------------------------
\* VLESS.  The addons are a length and, with a flow, the flow.
HeaderAddons(flow) == IF flow = 0 THEN <<0>> ELSE <<1, flow>>

EncodeVLess ==
  <<0, req.user>> \o HeaderAddons(req.flow) \o <<CommandByte[req.cmd]>>
    \o IF req.cmd \in {"mux", "rvs"} THEN <<>> ELSE WriteAddressPort("vless", req.addr, req.port)

\* The target that belongs to a command.
VLessTarget(command, s) ==
  IF command = {"mux"} THEN Ok(MuxAddress, s)
  ELSE IF command = {"rvs"} THEN Ok(RvsAddress, s)
  ELSE IF command = {} THEN Error ELSE ReadAddressPort("vless", s)

DecodeVLess(s) ==
  Then(ReadFull(s, 2), LAMBDA start :
    IF start.v[1] # 0 \/ start.v[2] \notin Accounts THEN Error
    ELSE Then(ReadFull(start.rest, 1), LAMBDA size :
         Then(ReadFull(size.rest, size.v[1]), LAMBDA addons :
         Then(ReadFull(addons.rest, 1), LAMBDA code :
         Then(VLessTarget(Commands(code.v[1]), code.rest), LAMBDA target :
           Ok([user |-> start.v[2], flow |-> IF addons.v = <<>> THEN 0 ELSE addons.v[1],
               cmd |-> CHOOSE c \in Commands(code.v[1]) : TRUE,
               addr |-> target.v.addr, port |-> target.v.port], target.rest))))))

VLessResponse == <<0>> \o HeaderAddons(0)

\* Trojan: the hash of the password, a command and the target; a command that is not UDP
\* is TCP.
EncodeTrojan ==
  <<req.user, 13, 10, IF req.cmd = "udp" THEN 3 ELSE 1>>
    \o WriteAddressPort("trojan", req.addr, req.port) \o <<13, 10>>

\* Process looks at the first read alone: the hash and the line end behind it must be in
\* it.  The other line ends are not looked at.
HashLine == 3

DecodeTrojan(s, n) ==
  IF n < HashLine \/ s[2] # 13 THEN Error
  ELSE Then(ReadFull(s, 4), LAMBDA start :
    IF start.v[1] \notin Accounts THEN Error
    ELSE Then(ReadAddressPort("trojan", start.rest), LAMBDA target :
         Then(ReadFull(target.rest, 2), LAMBDA ending :
           Ok([user |-> start.v[1], flow |-> 0, cmd |-> IF start.v[4] = 3 THEN "udp" ELSE "tcp",
               addr |-> target.v.addr, port |-> target.v.port], ending.rest))))

Checksum(b) == FoldFunction(+, 0, b) % 251

\* An AEAD cipher: what it seals can be opened with the same key only.
Seal(key, b) == b \o <<(key + Checksum(b)) % 251>>
Open(key, b) ==
  IF b = <<>> \/ Seal(key, SubSeq(b, 1, Len(b) - 1)) # b THEN Error
  ELSE Ok(SubSeq(b, 1, Len(b) - 1), <<>>)

\* Shadowsocks: a salt and the sealed length and target, or the bare target with the
\* cipher "none".
EncodeShadowsocks ==
  LET target == WriteAddressPort("ss", req.addr, req.port)
  IN IF cfg.cipher = "none" THEN target
     ELSE <<0>> \o Seal(req.user, <<Len(target)>>) \o Seal(req.user, target)

\* The request that a target makes.
Session(user, target, rest) ==
  Ok([user |-> user, flow |-> 0, cmd |-> "tcp", addr |-> target.addr, port |-> target.port], rest)

\* Validator.Get: the users whose key opens the length.
Opens(size) == {u \in Accounts : Open(u, SubSeq(size, 2, 3)).ok}

\* ReadTCPSession first waits for FirstRead bytes, more than a bare target has; CheckIV
\* refuses a salt that it has seen, if the account says so.
DecodeShadowsocks(s) ==
  IF Len(s) < FirstRead THEN Error
  ELSE IF cfg.cipher = "none"
    THEN Then(ReadAddressPort("ss", s), LAMBDA bare : Session(req.user, bare.v, bare.rest))
  ELSE Then(ReadFull(s, 3), LAMBDA size :
         LET users == Opens(size.v) IN
         IF users = {} \/ \E u \in users : <<"salt", u, s[1]>> \in seen THEN Error
         ELSE Then(ReadFull(size.rest, size.v[2] + 1), LAMBDA chunk :
              Then(Open(CHOOSE u \in users : TRUE, chunk.v), LAMBDA text :
              Then(ReadAddressPort("ss", text.v), LAMBDA target :
                Session(CHOOSE u \in users : TRUE, target.v, chunk.rest)))))

\* VMess: the id says when and for whom it was made; the header is sealed, and has a
\* padding and a checksum of its own.
SealVMessHeader(key, b) == <<key, 0>> \o Seal(key, <<Len(b)>>) \o Seal(key, b)

EncodeVMess ==
  LET b == <<1, 77, req.response, req.option, req.padding, req.security, CommandByte[req.cmd]>>
           \o (IF req.cmd = "mux" THEN <<>> ELSE WriteAddressPort("vmess", req.addr, req.port))
           \o [i \in 1..req.padding |-> 5]
  IN SealVMessHeader(req.user, Append(b, Checksum(b)))

\* AuthIDDecoderHolder.Match: a user whose key fits, a time that is near enough, and an
\* id that was not seen before.
Match(s) == IF s[1] \in Accounts /\ cfg.skew <= MaxSkew /\ <<"id", s>> \notin seen THEN {s[1]} ELSE {}

\* OpenVMessAEADHeader.
OpenVMessHeader(user, s) ==
  Then(ReadFull(s, 2), LAMBDA size :
  Then(Open(user, size.v), LAMBDA length :
  Then(ReadFull(size.rest, length.v[1] + 1), LAMBDA chunk :
  Then(Open(user, chunk.v), LAMBDA text : Ok(text.v, chunk.rest)))))

VMessTarget(command, s) ==
  IF command = {"mux"} THEN Ok(MuxAddress, s)
  ELSE IF command \in {{"tcp"}, {"udp"}} THEN ReadAddressPort("vmess", s) ELSE Error

\* The checksum of what comes before it in b.
VMessChecked(b, start, target, s) ==
  Then(ReadFull(s, 1), LAMBDA end :
    IF Checksum(SubSeq(b, 1, Len(b) - Len(end.rest) - 1)) # end.v[1] THEN Error
    ELSE Ok([cmd |-> CHOOSE c \in Commands(start[7]) : TRUE, response |-> start[3],
             security |-> start[6], option |-> start[4],
             addr |-> target.addr, port |-> target.port], end.rest))

\* A header whose padding is taken for the checksum.
VMessHeaderNoPadding(b) ==
  Then(ReadFull(b, 7), LAMBDA start :
  Then(VMessTarget(Commands(start.v[7]), start.rest), LAMBDA target :
    VMessChecked(b, start.v, target.v, target.rest)))

\* The fields of the opened header, up to the checksum.
VMessHeader(b) ==
  Then(ReadFull(b, 7), LAMBDA start :
  Then(VMessTarget(Commands(start.v[7]), start.rest), LAMBDA target :
  Then(ReadFull(target.rest, start.v[5]), LAMBDA padding :
    VMessChecked(b, start.v, target.v, padding.rest))))

\* parseSecurityType: the types the server accepts (UNKNOWN and AUTO are not).
SecurityKnown(b) == b \in {3, 4, 5, 6}

\* sessionID: the user and the key of the body.
SessionID(user, b) == <<"session", user, b[2]>>

DecodeVMess(s) ==
  Then(ReadFull(s, 2), LAMBDA id :
    IF Match(id.v) = {} THEN Error
    ELSE Then(OpenVMessHeader(id.v[1], id.rest), LAMBDA opened :
         Then(VMessHeader(opened.v), LAMBDA h :
           IF SessionID(id.v[1], opened.v) \in seen \/ ~SecurityKnown(h.v.security) THEN Error
           ELSE Ok([user |-> id.v[1], flow |-> 0, cmd |-> h.v.cmd, addr |-> h.v.addr,
                    port |-> h.v.port], opened.rest))))

VMessResponse ==
  LET b == <<req.response, 0, 0, 0>> IN Seal(77, <<Len(b)>>) \o Seal(77, b)

\* DecodeResponseHeader: the answer to this request and to no other.
VMessAnswered(s) ==
  Then(OpenVMessHeader(77, s), LAMBDA text : [ok |-> text.v[1] = req.response]).ok

-----------------------------------------------------------------------------
\* SOCKS4 and 4a, which this program only serves: the port, an address that starts with
\* 0 when a name follows, and a user name; both names end with a zero.
EncodeSocks4 ==
  <<4, IF req.cmd = "tcp" THEN 1 ELSE 2>> \o req.port
    \o (IF req.addr.family = "domain" THEN <<0, 1>> ELSE req.addr.b) \o req.name \o <<0>>
    \o IF req.addr.family = "domain" THEN req.addr.b \o <<0>> ELSE <<>>

ReadUntilNull(s) ==
  LET ends == {i \in DOMAIN s : s[i] = 0}
      end == CHOOSE i \in ends : \A j \in ends : i <= j
  IN IF ends = {} THEN Error ELSE Ok(SubSeq(s, 1, end - 1), SubSeq(s, end + 1, Len(s)))

handshake4(s) ==
  Then(ReadFull(s, 4 + Octets("v4")), LAMBDA start :
  Then(ReadUntilNull(start.rest), LAMBDA name :
    LET ip == SubSeq(start.v, 5, 6)
        found(a, rest) == Ok([user |-> 0, flow |-> 0, cmd |-> "tcp", addr |-> a,
                              port |-> SubSeq(start.v, 3, 4)], rest)
    IN IF cfg.auth \/ start.v[1] # 4 \/ start.v[2] # 1 THEN Error
       ELSE IF ip[1] # 0 THEN found([family |-> "v4", b |-> ip], name.rest)
       ELSE Then(ReadUntilNull(name.rest), LAMBDA domain :
              found(ParseAddress(domain.v), domain.rest))))

\* One message, and the request it holds.
Encode ==
  CASE proto = "vless" -> EncodeVLess
    [] proto = "trojan" -> EncodeTrojan
    [] proto = "ss" -> EncodeShadowsocks
    [] proto = "vmess" -> EncodeVMess
    [] proto = "socks4" -> EncodeSocks4

Decode(s, n) ==
  CASE proto = "vless" -> DecodeVLess(s)
    [] proto = "trojan" -> DecodeTrojan(s, n)
    [] proto = "ss" -> DecodeShadowsocks(s)
    [] proto = "vmess" -> DecodeVMess(s)
    [] proto = "socks4" -> handshake4(s)

\* What the server adds to its memory when it reads s: the replay filter and the session
\* history of VMess, the salts of a Shadowsocks account with an IV check.
Noted(s) ==
  CASE proto = "vmess" ->
         IF Len(s) < 2 \/ Match(SubSeq(s, 1, 2)) = {} THEN {}
         ELSE LET opened == OpenVMessHeader(s[1], SubSeq(s, 3, Len(s))) IN
              {<<"id", SubSeq(s, 1, 2)>>} \cup IF opened.ok THEN {SessionID(s[1], opened.v)} ELSE {}
    [] proto = "ss" /\ cfg.cipher # "none" /\ cfg.ivCheck ->
         IF Len(s) < FirstRead THEN {} ELSE {<<"salt", u, s[1]>> : u \in Opens(SubSeq(s, 1, 3))}
    [] OTHER -> {}

\* What the client says first: its request and the data it has, or its methods.
ClientHello ==
  /\ phase = "start"
  /\ IF proto = "socks"
       THEN /\ msg' = <<5, 1, IF req.user = 0 THEN 0 ELSE 2>>
            /\ phase' = "methods"
       ELSE IF proto # "socks4" /\ isDomainTooLong(req.addr) THEN phase' = "refused" /\ UNCHANGED msg
       ELSE msg' = Encode \o Payload /\ phase' = "request"
  /\ UNCHANGED <<setup, cut, got, left, answer, memory>>

\* The connection ends before the whole message has come.
Cut(n) ==
  /\ phase \in {"methods", "login", "request", "socks", "chosen", "checked", "answered", "answered5"}
  /\ ~cut /\ n < Len(msg)
  /\ cut' = TRUE /\ msg' = SubSeq(msg, 1, n)
  /\ UNCHANGED <<setup, phase, got, left, answer, memory>>

\* DecodeRequestHeader of VLESS and VMess, ParseHeader of Trojan, ReadTCPSession of
\* Shadowsocks; the answer follows.
Serves(r) ==
  /\ IF r.ok
       THEN /\ got' = <<r.v>> /\ left' = r.rest
            /\ msg' = CASE proto = "vless" -> VLessResponse
                        [] proto = "vmess" -> VMessResponse
                        [] OTHER -> <<>>
            /\ phase' = IF proto \in {"vless", "vmess"} THEN "answered" ELSE "served"
       ELSE phase' = "failed" /\ UNCHANGED <<got, left, msg>>
  /\ UNCHANGED <<setup, cut, answer>>

ServerDecodes ==
  /\ phase = "request" /\ msg # <<>>
  /\ \E n \in IF proto = "trojan" THEN 1..Len(msg) ELSE {Len(msg)} :
       firstLen' = n /\ Serves(Decode(msg, n))
  /\ seen' = seen \cup Noted(msg)
  /\ UNCHANGED repeated

\* A connection that ends before its first byte.
ServerReadsNothing ==
  /\ phase = "request" /\ msg = <<>>
  /\ phase' = "failed"
  /\ UNCHANGED <<setup, msg, cut, got, left, answer, firstLen, seen, repeated>>

\* The same bytes come on another connection.
Repeat ==
  /\ phase \in {"served", "failed"} /\ proto \notin {"socks", "socks4"} /\ repeated = "no"
  /\ repeated' = IF got # <<>> THEN "understood" ELSE "refused"
  /\ msg' = Encode \o Payload /\ phase' = "request"
  /\ cut' = FALSE /\ got' = <<>> /\ left' = <<>> /\ firstLen' = 0
  /\ UNCHANGED <<setup, answer, seen>>

\* DecodeResponseHeader.
ClientDecodes ==
  /\ phase = "answered"
  /\ LET ok == IF proto = "vmess" THEN VMessAnswered(msg)
               ELSE Len(msg) >= 2 /\ msg[1] = 0
     IN phase' = IF ok THEN "served" ELSE "failed"
  /\ UNCHANGED <<setup, msg, cut, got, left, answer, memory>>

-----------------------------------------------------------------------------
\* SOCKS.  Handshake and auth5 of the server: the method that the settings ask for.
ServerMethods ==
  LET wanted == IF cfg.auth THEN 2 ELSE 0
      methods == Then(ReadFull(msg, 2), LAMBDA head :
                   IF head.v[1] # 5 THEN Error ELSE ReadFull(head.rest, head.v[2]))
  IN /\ phase = "methods"
     /\ IF ~methods.ok THEN phase' = "failed" /\ UNCHANGED msg
        ELSE /\ msg' = <<5, IF \E i \in DOMAIN methods.v : methods.v[i] = wanted
                              THEN wanted ELSE 255>>
             /\ phase' = "chosen"
     /\ UNCHANGED <<setup, cut, got, left, answer, memory>>

\* The target of a request, or the empty address of UDP ASSOCIATE.  This client never
\* sends BIND or the RESOLVE of Tor; others do.
SocksCommand == [tcp |-> 1, bind |-> 2, udp |-> 3, resolve |-> 240]
SocksRequest ==
  IF req.cmd = "udp" THEN <<5, 3, 0, 1>> \o [i \in 1..Octets("v4") |-> 0] \o <<0, 0>>
  ELSE <<5, SocksCommand[req.cmd], 0>> \o WriteAddressPort("socks", req.addr, req.port)

\* ClientHandshake goes on: the password, or the request.
ClientSends(next) ==
  IF next = "login"
    THEN /\ msg' = <<1, Len(req.name) % LenSpace>> \o req.name \o <<Len(req.name) % LenSpace>>
                     \o req.name
         /\ phase' = "login"
    ELSE IF req.cmd # "udp" /\ isDomainTooLong(req.addr)
           THEN phase' = "refused" /\ UNCHANGED msg
           ELSE msg' = SocksRequest /\ phase' = "socks"

ClientChosen ==
  /\ phase = "chosen"
  /\ IF Len(msg) < 2 \/ msg[1] # 5 \/ msg[2] # (IF req.user = 0 THEN 0 ELSE 2)
       THEN phase' = "failed" /\ UNCHANGED msg
       ELSE ClientSends(IF req.user = 0 THEN "request" ELSE "login")
  /\ UNCHANGED <<setup, cut, got, left, answer, memory>>

\* ReadUsernamePassword, and the accounts.
ReadUsernamePassword(s) ==
  Then(ReadFull(s, 2), LAMBDA size :
  Then(ReadFull(size.rest, size.v[2]), LAMBDA name :
  Then(ReadFull(name.rest, 1), LAMBDA psize :
  Then(ReadFull(psize.rest, psize.v[1]), LAMBDA password :
    Ok(<<name.v, password.v>>, password.rest)))))

ServerLogin ==
  LET login == ReadUsernamePassword(msg)
  IN /\ phase = "login"
     /\ IF ~login.ok THEN phase' = "failed" /\ UNCHANGED msg
        ELSE /\ msg' = <<1, IF login.v[1] \in cfg.names /\ login.v[1] = login.v[2] THEN 0 ELSE 255>>
             /\ phase' = "checked"
     /\ UNCHANGED <<setup, cut, got, left, answer, memory>>

ClientChecked ==
  /\ phase = "checked"
  /\ IF Len(msg) < 2 \/ msg[2] # 0 THEN phase' = "failed" /\ UNCHANGED msg
     ELSE ClientSends("request")
  /\ UNCHANGED <<setup, cut, got, left, answer, memory>>

\* handshake5 behind the authentication: the command and the target, and where UDP
\* packets are to go.  The commands of Tor count as CONNECT.
Request5(s) ==
  Then(ReadFull(s, 3), LAMBDA start :
    IF start.v[2] \notin {1, 240, 241} \cup (IF cfg.udp THEN {3} ELSE {}) THEN Error
    ELSE Then(ReadAddressPort("socks", start.rest), LAMBDA target :
           Ok([user |-> req.user, flow |-> 0, cmd |-> IF start.v[2] = 3 THEN "udp" ELSE "tcp",
               addr |-> target.v.addr, port |-> target.v.port], target.rest)))

Serves5(r) ==
  /\ IF ~r.ok THEN phase' = "failed" /\ UNCHANGED <<got, msg>>
     ELSE /\ got' = <<r.v>>
          /\ msg' = <<5, 0, 0>> \o WriteAddressPort("socks", cfg.here, <<0, 9>>)
          /\ phase' = "answered5"
  /\ UNCHANGED <<setup, cut, left, answer, memory>>

handshake5 == phase = "socks" /\ Serves5(Request5(msg))

\* The end of ClientHandshake.
Answer5(s) ==
  Then(ReadFull(s, 3), LAMBDA start :
    IF start.v[2] # 0 THEN Error ELSE ReadAddressPort("socks", start.rest))

TakesAnswer(r) ==
  /\ IF r.ok THEN phase' = "served" /\ answer' = <<r.v>> ELSE phase' = "failed" /\ UNCHANGED answer
  /\ UNCHANGED <<setup, msg, cut, got, left, memory>>

ClientAnswered == phase = "answered5" /\ TakesAnswer(Answer5(msg))

HeaderInit ==
  /\ setup \in Setups /\ phase = "start" /\ msg = <<>> /\ cut = FALSE
  /\ got = <<>> /\ left = <<>> /\ answer = <<>>
  /\ firstLen = 0 /\ seen = {} /\ repeated = "no"

HeaderNext ==
  \/ ClientHello \/ ServerDecodes \/ ServerReadsNothing \/ ClientDecodes \/ Repeat
  \/ \E n \in 0..(Len(msg) - 1) : Cut(n)
  \/ ServerMethods \/ ClientChosen \/ ServerLogin \/ ClientChecked
  \/ handshake5 \/ ClientAnswered

HeaderSpec == HeaderInit /\ [][HeaderNext]_headerVars

-----------------------------------------------------------------------------
\* The request as the server must understand it.
Meant ==
  [user |-> req.user, flow |-> IF proto = "vless" THEN req.flow ELSE 0,
   cmd |-> IF proto = "ss" \/ req.cmd = "resolve" THEN "tcp" ELSE req.cmd,
   addr |-> IF req.cmd = "mux" THEN MuxAddress.addr
            ELSE IF req.cmd = "rvs" THEN RvsAddress.addr
            ELSE IF proto = "socks" /\ req.cmd = "udp"
                   THEN [family |-> "v4", b |-> [i \in 1..Octets("v4") |-> 0]]
            ELSE IF req.addr.family = "domain" THEN ParseAddress(req.addr.b) ELSE req.addr,
   port |-> IF req.cmd \in {"mux", "rvs"} \/ (proto = "socks" /\ req.cmd = "udp")
              THEN <<0, 0>> ELSE req.port]

\* The servers that remember what they have seen.
Remembers == proto = "vmess" \/ (proto = "ss" /\ cfg.cipher # "none" /\ cfg.ivCheck)

\* A request that the server has reason to refuse, or cannot understand: an unknown
\* user, a clock that is off, a name that is none or that has just the length that does
\* not fit its byte, UDP where it is off, BIND, a Shadowsocks request without a cipher
\* that is shorter than the first read, a Trojan request of which the first read does
\* not give the line of the hash, and what was seen before.
Refusable ==
  \/ cut
  \/ Remembers /\ repeated # "no" /\ seen # {}
  \/ proto = "trojan" /\ firstLen < HashLine
  \/ proto \in {"vless", "trojan", "vmess"} /\ req.user \notin Accounts
  \/ proto = "ss" /\ cfg.cipher # "none" /\ req.user \notin Accounts
  \/ proto = "socks4" /\ (cfg.auth \/ req.cmd # "tcp")
  \/ proto = "socks" /\ \/ cfg.auth # (req.user # 0)
                        \/ cfg.auth /\ (req.name \notin cfg.names \/ Len(req.name) >= LenSpace)
                        \/ req.cmd = "udp" /\ ~cfg.udp
                        \/ req.cmd = "bind"
  \/ proto = "vmess" /\ (cfg.skew > MaxSkew \/ ~SecurityKnown(req.security))
  \/ /\ proto # "socks4" /\ req.addr.family = "domain" /\ req.cmd \in {"tcp", "udp", "resolve"}
     /\ \/ Len(req.addr.b) = LenSpace \/ req.addr.b = <<>>
        \/ \E i \in DOMAIN req.addr.b : req.addr.b[i] \notin Letters
  \/ proto = "ss" /\ cfg.cipher = "none" /\ Len(EncodeShadowsocks \o Payload) < FirstRead

\* Whatever the protocol, the server either understands just the request that was made,
\* with the data behind it untouched, or refuses it; it refuses a whole request only
\* for a reason; a client that gets its answer has a server that understood it; and
\* where the server remembers requests it understands the same bytes only once.
RequestUnderstood ==
  /\ got # <<>> => /\ got[1] = Meant
                   /\ \/ left = Payload \/ proto = "socks"
                      \/ cut /\ left = SubSeq(Payload, 1, Len(left))
  /\ phase = "failed" => Refusable
  /\ phase = "served" => got # <<>>
  /\ Remembers /\ repeated = "understood" => got = <<>>
  /\ answer # <<>> => answer[1] = [addr |-> cfg.here, port |-> <<0, 9>>]

-----------------------------------------------------------------------------
(***************************************************************************)
(* UDP packets inside the proxy protocols.  SOCKS and Shadowsocks send     *)
(* every packet as a datagram of its own, which may be lost or overtaken;  *)
(* Trojan, VLESS, XUDP and mux sessions put them into a stream, one behind *)
(* the other, so that a reader must find where each one ends.  A packet    *)
(* that does not fit a buffer together with its header is dropped, cut or  *)
(* makes the writer fail, as the protocol has it.                          *)
(*                                                                         *)
(* The k-th packet that is written consists of bytes k.  A length of two   *)
(* bytes is one number here.  BufSize is buf.Size, and Room the space that *)
(* XUDP keeps free for its header (666 in the code).                       *)
(***************************************************************************)

CONSTANTS Formats,     \* the protocols
          Target,      \* the target of the session
          Targets,     \* the targets that a packet may name, as 0- or 1-sequences
          Sizes,       \* the sizes of packets
          MaxPackets,  \* the packets of a behaviour
          BufSize, Room

VARIABLES format,
          sent,        \* the packets given to the writer: [to, size]
          fresh,       \* the writer has not yet told the session's target
          wire,        \* what is on its way: the bytes of a stream, or datagrams
          skipped,     \* packets that the writer dropped
          gotPackets,         \* the packets that the reader returned: [to, b]
          writer,      \* "open", or how it ended: "error", "panic"
          reader       \* "open" or "error"

packetVars == <<format, sent, fresh, wire, skipped, gotPackets, writer, reader>>

Datagrams == {"socks", "ss", "ssnone"}
Body(k, n) == [i \in 1..n |-> k]
Of(to) == IF to = <<>> THEN Target ELSE to[1]
AddressPort(p, to) == WriteAddressPort(p, to.addr, to.port)

-----------------------------------------------------------------------------
\* What each writer makes of packet k of n bytes to `to`: the bytes, whether the packet
\* was dropped, and how the writer ends.
Written(b) == [b |-> b, skip |-> FALSE, ends |-> "open"]
Dropped == [b |-> <<>>, skip |-> TRUE, ends |-> "open"]
Ended(how) == [b |-> <<>>, skip |-> FALSE, ends |-> how]

\* EncodeUDPPacket of SOCKS insists that the data fit.
WriteSocks(k, n, to) ==
  LET b == <<0, 0, 0>> \o AddressPort("socks", Of(to)) \o Body(k, n)
  IN IF Len(b) > BufSize THEN Ended("panic") ELSE Written(b)

\* EncodeUDPPacket of Shadowsocks keeps what fits; EncodePacket has no room for the tag
\* of a packet that fills the buffer.
WriteShadowsocks(k, n, to) ==
  LET b == <<0>> \o AddressPort("ss", Of(to)) \o Body(k, n)
  IN IF Len(b) + 1 > BufSize THEN Ended("panic") ELSE Written(Append(b, 1))

WriteShadowsocksNone(k, n, to) ==
  LET b == AddressPort("ss", Of(to)) \o Body(k, n)
  IN Written(SubSeq(b, 1, IF Len(b) > BufSize THEN BufSize ELSE Len(b)))

\* writePacket of Trojan.
WriteTrojan(k, n, to) ==
  LET b == AddressPort("trojan", Of(to)) \o <<n, 13, 10>> \o Body(k, n)
  IN IF Len(b) > BufSize THEN Ended("error") ELSE Written(b)

\* MultiLengthPacketWriter of VLESS names no target.
WriteVLess(k, n) ==
  IF n = 0 \/ n + 1 > BufSize THEN Dropped ELSE Written(<<n>> \o Body(k, n))

\* The header of XUDP: New with the target of the session and the global id, or Keep
\* with the target of the packet.
XudpMeta(to) ==
  IF fresh THEN <<0, 1, 1, 2>> \o AddressPort("mux", Target) \o IF to = <<>> THEN <<>> ELSE <<9>>
  ELSE <<0, 2, 1>> \o IF to = <<>> THEN <<>> ELSE <<2>> \o AddressPort("mux", to[1])

\* An XUDP writer that does not mind the size of its header.
WriteXudpAny(k, n, to) ==
  LET b == <<Len(XudpMeta(to))>> \o XudpMeta(to) \o <<n>> \o Body(k, n)
  IN IF n = 0 THEN Dropped
     ELSE Written(SubSeq(b, 1, IF Len(b) > BufSize THEN BufSize ELSE Len(b)))

\* PacketWriter of XUDP.
WriteXudp(k, n, to) ==
  IF n = 0 \/ n + Room > BufSize THEN Dropped
  ELSE Written(<<Len(XudpMeta(to))>> \o XudpMeta(to) \o <<n>> \o Body(k, n))

\* Writer of a mux session: its data has a buffer of its own.  A packet without data is
\* a frame without data.
WriteMux(k, n, to) ==
  Written(<<Len(XudpMeta(to))>> \o (IF n = 0 THEN [XudpMeta(to) EXCEPT ![3] = 0] ELSE XudpMeta(to))
            \o IF n = 0 THEN <<>> ELSE <<n>> \o Body(k, n))

Writes(k, n, to) ==
  CASE format = "socks" -> WriteSocks(k, n, to)
    [] format = "ss" -> WriteShadowsocks(k, n, to)
    [] format = "ssnone" -> WriteShadowsocksNone(k, n, to)
    [] format = "trojan" -> WriteTrojan(k, n, to)
    [] format = "vless" -> WriteVLess(k, n)
    [] format = "xudp" -> WriteXudp(k, n, to)
    [] format \in {"mux", "answer"} -> WriteMux(k, n, to)

\* WriteMultiBuffer with one packet.
Write(n, to) ==
  LET k == Len(sent) + 1
      w == Writes(k, n, to)
  IN /\ writer = "open" /\ Len(sent) < MaxPackets
     /\ sent' = Append(sent, [to |-> IF format = "vless" THEN <<>>
                                     ELSE IF fresh /\ format \in {"xudp", "mux"} THEN <<Target>>
                                     ELSE to, size |-> n])
     /\ writer' = w.ends
     /\ skipped' = IF w.skip THEN skipped \cup {k} ELSE skipped
     /\ fresh' = (fresh /\ (w.skip \/ w.ends # "open"))
     /\ wire' = IF w.skip \/ w.ends # "open" THEN wire
                ELSE IF format \in Datagrams THEN Append(wire, w.b) ELSE wire \o w.b
     /\ UNCHANGED <<format, gotPackets, reader>>

\* A mux server may keep the session alive, with or without data in the frame.
KeepAlive(n) ==
  /\ format = "answer" /\ writer = "open" /\ wire = <<>>
  /\ wire' = <<3, 0, 4, IF n = 0 THEN 0 ELSE 1>> \o IF n = 0 THEN <<>> ELSE <<n>> \o Body(0, n)
  /\ UNCHANGED <<format, sent, fresh, skipped, gotPackets, writer, reader>>

-----------------------------------------------------------------------------
\* The packets that a reader makes of the front of s, and what is behind them.
Packet(to, b) == [to |-> to, b |-> b]

ReadSocks(s) ==
  LET target == ReadAddressPort("socks", SubSeq(s, 4, Len(s)))
  IN IF Len(s) < 5 \/ s[3] # 0 \/ ~target.ok THEN Error
     ELSE Ok(<<Packet(<<target.v>>, target.rest)>>, <<>>)

ReadShadowsocks(s) ==
  LET text == IF format = "ss" THEN SubSeq(s, 2, Len(s) - 1) ELSE s
      target == ReadAddressPort("ss", text)
  IN IF target.ok THEN Ok(<<Packet(<<target.v>>, target.rest)>>, <<>>) ELSE Error

\* PacketReader of Trojan.
ReadTrojan(s) ==
  LET target == ReadAddressPort("trojan", s)
      size == ReadFull(target.rest, 3)
      b == ReadFull(size.rest, size.v[1])
  IN IF ~target.ok \/ ~size.ok \/ size.v[1] > BufSize \/ ~b.ok THEN Error
     ELSE Ok(IF b.v = <<>> THEN <<>> ELSE <<Packet(<<target.v>>, b.v)>>, b.rest)

\* LengthPacketReader of VLESS.
ReadVLess(s) ==
  LET size == ReadFull(s, 1)
      b == ReadFull(size.rest, size.v[1])
  IN IF size.ok /\ b.ok THEN Ok(<<Packet(<<>>, b.v)>>, b.rest) ELSE Error

\* UnmarshalFromBuffer: the target of a frame, if it names one.
FrameTarget(meta) ==
  LET target == ReadAddressPort("mux", SubSeq(meta, 5, Len(meta)))
  IN IF meta[2] = 1 \/ (meta[2] = 2 /\ Len(meta) > 3 /\ meta[4] = 2)
       THEN IF target.ok THEN Ok(<<target.v>>, <<>>) ELSE Error
     ELSE Ok(<<>>, <<>>)

\* Unmarshal and the PacketReader of mux; XUDP packets come to the same server.
ReadMux(s) ==
  LET size == ReadFull(s, 1)
      meta == ReadFull(size.rest, size.v[1])
      to == FrameTarget(meta.v)
      length == ReadFull(meta.rest, 1)
      b == ReadFull(length.rest, length.v[1])
  IN IF ~size.ok \/ size.v[1] < 3 \/ ~meta.ok \/ ~to.ok THEN Error
     ELSE IF meta.v[3] = 0 THEN Ok(<<>>, meta.rest)
     ELSE IF ~length.ok \/ length.v[1] > BufSize \/ ~b.ok THEN Error
     ELSE Ok(<<Packet(to.v, b.v)>>, b.rest)

\* PacketReader of XUDP reads what a mux server answers: frames that go on with the
\* session, and frames that keep it alive, whose data is thrown away.
ReadXudp(s) ==
  LET size == ReadFull(s, 1)
      meta == ReadFull(size.rest, size.v[1])
      to == FrameTarget(meta.v)
      length == ReadFull(meta.rest, 1)
      b == ReadFull(length.rest, length.v[1])
  IN IF ~size.ok \/ size.v[1] < 3 \/ ~meta.ok \/ meta.v[2] \notin {2, 4} \/ ~to.ok THEN Error
     ELSE IF meta.v[3] # 1 THEN Ok(<<>>, meta.rest)
     ELSE IF ~length.ok \/ length.v[1] > BufSize \/ ~b.ok THEN Error
     ELSE Ok(IF b.v = <<>> \/ meta.v[2] = 4 THEN <<>> ELSE <<Packet(to.v, b.v)>>, b.rest)

Read(s) ==
  CASE format = "socks" -> ReadSocks(s)
    [] format \in {"ss", "ssnone"} -> ReadShadowsocks(s)
    [] format = "trojan" -> ReadTrojan(s)
    [] format = "vless" -> ReadVLess(s)
    [] format \in {"xudp", "mux"} -> ReadMux(s)
    [] format = "answer" -> ReadXudp(s)

Deliver(r) ==
  IF r.ok THEN gotPackets' = gotPackets \o r.v /\ UNCHANGED reader
  ELSE reader' = "error" /\ UNCHANGED gotPackets

ReadStream ==
  LET r == Read(wire)
  IN /\ format \notin Datagrams /\ reader = "open" /\ wire # <<>>
     /\ Deliver(r)
     /\ wire' = IF r.ok THEN r.rest ELSE <<>>
     /\ UNCHANGED <<format, sent, fresh, skipped, writer>>

Without(i) == SubSeq(wire, 1, i - 1) \o SubSeq(wire, i + 1, Len(wire))

\* Datagrams arrive in any order.
ReadDatagram(i) ==
  /\ format \in Datagrams /\ reader = "open"
  /\ Deliver(Read(wire[i]))
  /\ wire' = Without(i)
  /\ UNCHANGED <<format, sent, fresh, skipped, writer>>

Lose(i) ==
  /\ format \in Datagrams
  /\ wire' = Without(i)
  /\ UNCHANGED <<format, sent, fresh, skipped, gotPackets, writer, reader>>

PacketInit ==
  /\ format \in Formats
  /\ sent = <<>> /\ fresh = (format # "answer") /\ wire = <<>> /\ skipped = {} /\ gotPackets = <<>>
  /\ writer = "open" /\ reader = "open"

PacketNext ==
  \/ \E n \in Sizes, to \in Targets : Write(n, to)
  \/ \E n \in Sizes : KeepAlive(n)
  \/ ReadStream
  \/ format \in Datagrams /\ \E i \in DOMAIN wire : ReadDatagram(i) \/ Lose(i)

PacketSpec == PacketInit /\ [][PacketNext]_packetVars

-----------------------------------------------------------------------------
\* The packet that was sent as the k-th, as the reader must return it: to the target it
\* names or, where the protocol tells no target for a packet, to that of the session.
Expected(k) ==
  Packet(IF sent[k].to # <<>> THEN sent[k].to
         ELSE IF format \notin Datagrams \cup {"trojan"} THEN <<>> ELSE <<Target>>,
         Body(k, sent[k].size))

\* A packet that is as large as a buffer allows, or larger with its header: only then
\* may a writer fail, and only Shadowsocks without a cipher cuts the packet.
FillsBuffer(k) ==
  sent[k].size + Len(AddressPort("socks", Of(sent[k].to))) + 3 > BufSize

\* A name that looks like an address comes out as that address.
Same(p, q) ==
  /\ p.b = q.b /\ Len(p.to) = Len(q.to)
  /\ p.to # <<>> => /\ p.to[1].port = q.to[1].port
                    /\ p.to[1].addr = IF q.to[1].addr.family = "domain"
                                        THEN ParseAddress(q.to[1].addr.b) ELSE q.to[1].addr

\* Packet boundaries and targets survive every encoding: each packet that comes out is
\* one that went in, whole and for the same target, none twice; a stream gives them in
\* the order in which they went in and loses none but those the writer dropped; and
\* neither end fails, except a writer on a packet that fills its buffer.
PacketsKept ==
  LET cutted(p) == format = "ssnone" /\ \E k \in DOMAIN sent :
                     /\ FillsBuffer(k) /\ Len(p.b) < sent[k].size
                     /\ p.b = Body(k, Len(p.b)) /\ p.b # <<>>
      carried == {k \in DOMAIN sent : k \notin skipped /\ sent[k].size > 0}
      nth(i) == CHOOSE k \in carried : Cardinality({j \in carried : j <= k}) = i
      data == SelectSeq(gotPackets, LAMBDA p : p.b # <<>>)
  IN /\ reader = "open"
     /\ writer # "open" => FillsBuffer(Len(sent))
     /\ \A i \in DOMAIN data :
          IF format \in Datagrams
            THEN \/ Same(data[i], Expected(data[i].b[1])) \/ cutted(data[i])
            ELSE Same(data[i], Expected(nth(i)))
     /\ format \in Datagrams =>
          \A i, j \in DOMAIN data : i # j => data[i].b[1] # data[j].b[1]
     /\ format \notin Datagrams /\ wire = <<>> /\ writer = "open" =>
          Len(data) = Cardinality(carried)
=============================================================================
