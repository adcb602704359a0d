----------------------------- MODULE ConfBuild ------------------------------
(****************************************************************************)
(* What infra/conf makes of a JSON configuration: the stream settings, the  *)
(* inbounds and outbounds, and the sections that become features.           *)
(****************************************************************************)
EXTENDS Integers, Sequences, FiniteSets, TLC

(***************************************************************************)
(* The "streamSettings" of a JSON configuration                            *)
(* (infra/conf/transport_internet.go, grpc.go and                          *)
(* transport_authenticators.go): what Build makes of them, and what it     *)
(* refuses.                                                                *)
(*                                                                         *)
(* A JSON object is a function whose domain is the set of keys that are    *)
(* present.  A Build function returns <<>> for an error and <<x>> for the  *)
(* configuration x, of which the fields are kept that later steps read.    *)
(* The text of a key, a path or a short id is opaque; Malformed holds the  *)
(* pairs <<kind, text>> whose text does not decode as the kind, and        *)
(* EarlyData gives the paths that carry an "ed" parameter.                 *)
(***************************************************************************)

CONSTANTS Malformed, EarlyData

Has(o, k) == k \in DOMAIN o
Field(o, k, default) == IF k \in DOMAIN o THEN o[k] ELSE default
Text(o, k) == Field(o, k, "")
Object(o, k) == Field(o, k, <<>>)
Decodes(kind, t) == <<kind, t>> \notin Malformed
Built(r) == r # <<>>
Error == <<>>

-----------------------------------------------------------------------------
(* Headers and transports *)

\* A JSON null in a list of header values is an error.
AuthenticatorBuild(h) ==
  IF \E part \in {"request", "response"} : Has(h, part) /\ Field(h[part], "nullHeader", FALSE) THEN Error
  ELSE <<[uri |-> IF Field(Object(h, "request"), "path", <<>>) = <<>> THEN <<"/">> ELSE h.request.path,
          host |-> IF Object(Object(h, "request"), "headers") = <<>> THEN "www.baidu.com" ELSE h.request.headers]>>

\* JSONConfigLoader.Load: the "type" of the object names the creator.
HeaderLoad(h, known) == IF Text(h, "type") \in known THEN <<h.type>> ELSE Error

KCPHeaders == {"none", "srtp", "utp", "wechat-video", "dtls", "wireguard", "dns"}

KCPBuild(c) ==
  IF \/ Has(c, "mtu") /\ c.mtu \notin 576..1460
     \/ Has(c, "tti") /\ c.tti \notin 10..100
     \/ Has(c, "header") /\ ~Built(HeaderLoad(c.header, KCPHeaders))
  THEN Error
  ELSE <<[seed |-> Text(c, "seed"), header |-> Text(Object(c, "header"), "type")]>>

TCPBuild(c) ==
  IF ~Has(c, "header") THEN <<[header |-> "", http |-> <<>>]>>
  ELSE IF ~Built(HeaderLoad(c.header, {"none", "http"})) THEN Error
  ELSE IF c.header.type = "none" THEN <<[header |-> "none", http |-> <<>>]>>
  ELSE IF ~Built(AuthenticatorBuild(c.header)) THEN Error
  ELSE <<[header |-> "http", http |-> AuthenticatorBuild(c.header)]>>

GRPCBuild(g) == <<[serviceName |-> Text(g, "serviceName"), multi |-> Field(g, "multiMode", FALSE)]>>

PathOf(c) == IF Text(c, "path") \in DOMAIN EarlyData THEN EarlyData[c.path] ELSE [path |-> Text(c, "path"), ed |-> 0]

\* "host" has priority over the header of that name, which is then removed.
WebSocketBuild(c) ==
  <<[path |-> PathOf(c).path, ed |-> PathOf(c).ed,
     host |-> IF Text(c, "host") # "" THEN c.host ELSE Text(Object(c, "headers"), "Host")]>>

HttpUpgradeBuild(c) ==
  IF Has(Object(c, "headers"), "Host") THEN Error
  ELSE <<[path |-> PathOf(c).path, ed |-> PathOf(c).ed, host |-> Text(c, "host")]>>

RECURSIVE StreamBuild(_)

NoRange == [from |-> 0, to |-> 0]

\* "extra" replaces everything but host, path and mode.
SplitHTTPBuild(o) ==
  LET keep == {"host", "path", "mode"}
      c == IF Has(o, "extra") THEN [k \in DOMAIN o \cap keep |-> o[k]] @@ [k \in DOMAIN o.extra \ keep |-> o.extra[k]]
           ELSE o
      mode == IF Text(c, "mode") = "" THEN "auto" ELSE c.mode
      padding == Field(c, "xPaddingBytes", NoRange)
      xmux == Object(c, "xmux") IN
  IF \/ mode \notin {"auto", "packet-up", "stream-up", "stream-one"}
     \/ Has(Object(c, "headers"), "Host")
     \/ padding # NoRange /\ (padding.from <= 0 \/ padding.to <= 0)
     \/ Field(xmux, "maxConnections", NoRange).to > 0 /\ Field(xmux, "maxConcurrency", NoRange).to > 0
     \/ Has(c, "downloadSettings") /\ (mode = "stream-one" \/ ~Built(StreamBuild(c.downloadSettings)))
  THEN Error
  ELSE <<[mode |-> mode, path |-> Text(c, "path"), host |-> Text(c, "host"),
          maxConcurrency |-> IF xmux = <<>> THEN [from |-> 16, to |-> 32] ELSE Field(xmux, "maxConcurrency", NoRange)]>>

TransportProtocol(p) ==
  CASE p \in {"raw", "tcp"} -> <<"tcp">>
    [] p \in {"xhttp", "splithttp"} -> <<"splithttp">>
    [] p \in {"kcp", "mkcp"} -> <<"mkcp">>
    [] p \in {"ws", "websocket"} -> <<"websocket">>
    [] p \in {"grpc", "httpupgrade"} -> <<p>>
    [] OTHER -> Error                        \* h2, h3, http and quic are removed

-----------------------------------------------------------------------------
(* TLS and REALITY *)

Fingerprints == {"", "chrome", "firefox", "safari", "ios", "android", "edge", "360", "qq", "random",
                 "randomized", "randomizednoalpn", "unsafe", "hellogolang"}

\* A certificate is given in a file or in lines, and so is the key, if there is one.
CertBuild(c) ==
  LET given(file, lines) == Text(c, file) # "" \/ Field(c, lines, <<>>) # <<>> IN
  IF ~given("certificateFile", "certificate") THEN Error
  ELSE <<[usage |-> IF Text(c, "usage") \in {"verify", "issue"} THEN c.usage ELSE "encipherment",
          oneTime |-> \/ Text(c, "certificateFile") = "" /\ Text(c, "keyFile") = ""
                      \/ Field(c, "oneTimeLoading", FALSE)]>>

RECURSIVE SocketBuild(_)

TLSBuild(c) ==
  LET certs == Field(c, "certificates", <<>>)
      alpn == Field(c, "alpn", <<>>)
      pins == Field(c, "pinnedPeerCertificateChainSha256", {}) \cup Field(c, "pinnedPeerCertificatePublicKeySha256", {}) IN
  IF \/ \E i \in DOMAIN certs : ~Built(CertBuild(certs[i]))
     \/ Len(alpn) > 1 /\ \E i \in DOMAIN alpn : alpn[i] = "fromMitm"
     \/ Text(c, "fingerprint") \notin Fingerprints
     \/ \E p \in pins : ~Decodes("base64", p)
     \/ Text(c, "serverNameToVerify") # ""
     \/ ~Decodes("base64", Text(c, "echServerKeys"))
     \/ Text(c, "echForceQuery") \notin {"", "none", "half", "full"}
     \/ Has(c, "echSockopt") /\ ~Built(SocketBuild(c.echSockopt))
  THEN Error
  ELSE <<[serverName |-> Text(c, "serverName"), alpn |-> alpn, fingerprint |-> Text(c, "fingerprint"),
          insecure |-> Field(c, "allowInsecure", FALSE)]>>

\* With a "target" (or "dest") the settings are a server's.
REALITYServer(c, dest) ==
  IF \/ Text(c, "type") = "" /\ ~Decodes("hostport", dest)
     \/ Field(c, "xver", 0) > 2
     \/ Field(c, "serverNames", <<>>) = <<>>
     \/ Text(c, "privateKey") = "" \/ ~Decodes("key", c.privateKey)
     \/ \E k \in {"minClientVer", "maxClientVer"} : ~Decodes("version", Text(c, k))
     \/ Field(c, "shortIds", <<>>) = <<>>
     \/ \E i \in DOMAIN c.shortIds : ~Decodes("hex", c.shortIds[i])
     \/ Text(c, "mldsa65Seed") # "" /\ (c.mldsa65Seed = c.privateKey \/ ~Decodes("key", c.mldsa65Seed))
  THEN Error ELSE <<[server |-> TRUE, serverName |-> c.serverNames[1], key |-> c.privateKey, shortId |-> c.shortIds[1]]>>

REALITYClient(c) ==
  LET key == IF Text(c, "password") # "" THEN c.password ELSE Text(c, "publicKey") IN
  IF \/ Text(c, "fingerprint") \notin Fingerprints \ {"unsafe", "hellogolang"}
     \/ Field(c, "serverNames", <<>>) # <<>> \/ Field(c, "shortIds", <<>>) # <<>>
     \/ key = "" \/ ~Decodes("key", key)
     \/ ~Decodes("hex", Text(c, "shortId"))
     \/ ~Decodes("key", Text(c, "mldsa65Verify"))
     \/ ~Decodes("path", Text(c, "spiderX"))
  THEN Error ELSE <<[server |-> FALSE, serverName |-> Text(c, "serverName"), key |-> key, shortId |-> Text(c, "shortId")]>>

REALITYBuild(c) ==
  IF Has(c, "target") THEN REALITYServer(c, c.target)
  ELSE IF Has(c, "dest") THEN REALITYServer(c, c.dest)
  ELSE REALITYClient(c)

-----------------------------------------------------------------------------
(* Socket options, the whole stream, and the chain to another outbound *)

DomainStrategies == {"", "asis", "useip", "useipv4", "useipv6", "useipv4v6", "useipv6v4",
                     "forceip", "forceipv4", "forceipv6", "forceipv4v6", "forceipv6v4"}

SocketBuild(c) ==
  IF \/ Field(c, "tcpFastOpen", "bool") \notin {"bool", "number"}
     \/ Text(c, "domainStrategy") \notin DomainStrategies
     \/ Text(c, "addressPortStrategy") \notin {"", "none", "srvportonly", "srvaddressonly", "srvportandaddress",
                                               "txtportonly", "txtaddressonly", "txtportandaddress"}
  THEN Error
  ELSE <<[dialerProxy |-> Text(c, "dialerProxy"),
          tries |-> Field(Object(c, "happyEyeballs"), "maxConcurrentTry", 4)]>>

SecurityBuild(c, protocol) ==
  LET s == Text(c, "security") IN
  CASE s \in {"", "none"} -> <<<<>>>>
    [] s = "tls" -> TLSBuild(Object(c, "tlsSettings"))
    [] s = "reality" /\ protocol \in {"tcp", "splithttp", "grpc"} /\ Has(c, "realitySettings") ->
         REALITYBuild(c.realitySettings)
    [] OTHER -> Error                        \* REALITY elsewhere, xtls, unknown

\* The settings of every transport that is given are built, used or not.
TransportSettings(c) ==
  LET of(keys, Build(_)) == LET k == {i \in DOMAIN keys : Has(c, keys[i])} IN
        IF k = {} THEN <<<<>>>> ELSE Build(c[keys[CHOOSE i \in k : \A j \in k : i <= j]]) IN
  [tcp |-> of(<<"rawSettings", "tcpSettings">>, TCPBuild),
   splithttp |-> of(<<"xhttpSettings", "splithttpSettings">>, SplitHTTPBuild),
   mkcp |-> of(<<"kcpSettings">>, KCPBuild),
   grpc |-> of(<<"grpcSettings">>, GRPCBuild),
   websocket |-> of(<<"wsSettings">>, WebSocketBuild),
   httpupgrade |-> of(<<"httpupgradeSettings">>, HttpUpgradeBuild)]

StreamBuild(c) ==
  LET p == IF Has(c, "network") THEN TransportProtocol(c.network) ELSE <<"tcp">>
      t == TransportSettings(c)
      sock == IF Has(c, "sockopt") THEN SocketBuild(c.sockopt) ELSE <<[dialerProxy |-> "", tries |-> 4]>> IN
  IF p = Error THEN Error
  ELSE IF SecurityBuild(c, p[1]) = Error \/ sock = Error \/ \E k \in DOMAIN t : t[k] = Error THEN Error
  ELSE <<[protocol |-> p[1], security |-> IF Text(c, "security") = "none" THEN "" ELSE Text(c, "security"),
          secure |-> SecurityBuild(c, p[1])[1], transport |-> t[p[1]][1], dialerProxy |-> sock[1].dialerProxy]>>

ProxyBuild(v) == IF Text(v, "tag") = "" THEN Error ELSE <<[tag |-> v.tag, transportLayer |-> Field(v, "transportLayer", FALSE)]>>

-----------------------------------------------------------------------------
(***************************************************************************)
(* The inbounds and outbounds of a JSON configuration: the settings of     *)
(* every proxy protocol (infra/conf/vless.go, vmess.go, trojan.go,         *)
(* shadowsocks.go, socks.go, http.go, freedom.go, dokodemo.go,             *)
(* blackhole.go, loopback.go, dns_proxy.go, wireguard.go) and the detour   *)
(* around them (xray.go).  Conventions as above; a list is a               *)
(* sequence and an address that is not set is an absent key.               *)
(***************************************************************************)

Ok == <<<<>>>>

-----------------------------------------------------------------------------
(* Parts common to several protocols *)

\* uuid.ParseString: 32 to 36 characters are hexadecimal; a shorter text,
\* unless it is empty or has 31 characters, is hashed.
UUIDParses(id) == id # "" /\ Decodes("uuid", id)

\* A client is configured flat, or by a list of which one member is allowed.
Targets(c, list) == IF Has(c, "address") THEN <<c>> ELSE Field(c, list, <<>>)

\* The type of a fallback is found from its destination when it is not given.
FallbackType(fb) ==
  CASE Text(fb, "type") # "" -> fb.type
    [] Text(fb, "dest") = "" -> ""
    [] fb.dest = "serve-ws-none" -> "serve"
    [] ~Decodes("unix", fb.dest) /\ ~Decodes("hostport", fb.dest) -> ""
    [] Decodes("unix", fb.dest) -> "unix"
    [] OTHER -> "tcp"

FallbacksBuild(fbs) ==
  \A i \in DOMAIN fbs : /\ Text(fbs[i], "path") = "" \/ Decodes("path", fbs[i].path)
                        /\ FallbackType(fbs[i]) # ""
                        /\ Field(fbs[i], "xver", 0) <= 2

\* "mlkem768x25519plus.<mode>.<round trips>.<paddings and keys>", split at the dots.
EncryptionBuilds(parts, times) ==
  /\ Len(parts) >= 4 /\ parts[1] = "mlkem768x25519plus"
  /\ parts[2] \in {"native", "xorpub", "random"}
  /\ parts[3] \in times
  /\ \A i \in 4..Len(parts) : Decodes("mlkem", parts[i])

Seconds == {"0s", "600s", "100-500s"}

-----------------------------------------------------------------------------
(* Servers *)

VLESSFlow == "xtls-rprx-vision"

VLessInboundBuild(c) ==
  LET clients == Field(c, "clients", <<>>)
      decryption == Field(c, "decryption", <<"">>) IN
  IF \/ Text(c, "flow") \notin {"", "none", VLESSFlow}
     \/ \E i \in DOMAIN clients : LET u == clients[i] IN
          \/ ~UUIDParses(Text(u, "id"))
          \/ Text(u, "flow") \notin {"", "none", VLESSFlow}
          \/ Has(u, "encryption")
          \/ Has(u, "reverse") /\ u.reverse = ""
     \/ decryption # <<"none">> /\ ~EncryptionBuilds(decryption, Seconds)
     \/ decryption # <<"none">> /\ Has(c, "fallbacks")
     \/ ~FallbacksBuild(Field(c, "fallbacks", <<>>))
  THEN Error
  ELSE <<[flows |-> [i \in DOMAIN clients |->
            CASE Text(clients[i], "flow") = "" -> IF Text(c, "flow") = "none" THEN "" ELSE Text(c, "flow")
              [] clients[i].flow = "none" -> ""
              [] OTHER -> VLESSFlow]]>>

VMessInboundBuild(c) ==
  LET users == Field(c, "clients", <<>>) IN
  IF \E i \in DOMAIN users : ~UUIDParses(Text(users[i], "id")) THEN Error ELSE Ok

TrojanServerBuild(c) ==
  LET users == Field(c, "clients", <<>>) IN
  IF \/ \E i \in DOMAIN users : Text(users[i], "flow") # ""
     \/ ~FallbacksBuild(Field(c, "fallbacks", <<>>)) THEN Error ELSE Ok

AEADCiphers == {"aes-128-gcm", "aes-256-gcm", "chacha20-poly1305", "xchacha20-poly1305"}
Ciphers2022 == {"2022-blake3-aes-128-gcm", "2022-blake3-aes-256-gcm", "2022-blake3-chacha20-poly1305"}

Shadowsocks2022Build(v) ==
  LET users == Field(v, "clients", <<>>) IN
  IF users = <<>> THEN <<"single">>
  ELSE IF v.method = "2022-blake3-chacha20-poly1305" \/ \E i \in DOMAIN users : Has(users[i], "method") THEN Error
  ELSE IF ~Has(users[1], "address") THEN <<"multi">>
  ELSE IF \E i \in DOMAIN users : ~Has(users[i], "address") THEN Error
  ELSE <<"relay">>

ShadowsocksServerBuild(v) ==
  IF Text(v, "method") \in Ciphers2022 THEN Shadowsocks2022Build(v)
  ELSE IF Has(v, "clients")
       THEN IF \A i \in DOMAIN v.clients : /\ Text(v.clients[i], "password") # ""
                                           /\ Text(v.clients[i], "method") \in AEADCiphers
            THEN <<"aead">> ELSE Error
  ELSE IF Text(v, "password") # "" /\ Text(v, "method") \in AEADCiphers \cup {"none"} THEN <<"aead">> ELSE Error

DokodemoBuild(v) ==
  LET map == Field(v, "portMap", {}) IN
  IF \E d \in map : ~Decodes("hostport", d) THEN Error ELSE <<[follow |-> Field(v, "followRedirect", FALSE)]>>

ParseWireGuardKey(k) == k # "" /\ Decodes("wgkey", k)

WireGuardBuild(c) ==
  LET peers == Field(c, "peers", <<>>) IN
  IF \/ ~ParseWireGuardKey(Text(c, "secretKey"))
     \/ \E i \in DOMAIN peers, k \in {"publicKey", "preSharedKey"} :
          Text(peers[i], k) # "" /\ ~ParseWireGuardKey(peers[i][k])
     \/ Len(Field(c, "reserved", <<>>)) \notin {0, 3}
     \/ Text(c, "domainStrategy") \notin {"", "forceip", "forceipv4", "forceipv6", "forceipv4v6", "forceipv6v4"}
  THEN Error ELSE Ok

-----------------------------------------------------------------------------
(* Clients.  The endpoint kept is what the outbound dials. *)

Endpoint(s, id, flow) == <<[address |-> s.address, port |-> Field(s, "port", 0), id |-> id, flow |-> flow]>>

VLessOutboundBuild(c) ==
  LET ts == Targets(c, "vnext") IN
  IF Len(ts) # 1 THEN Error
  ELSE LET t == ts[1]
           us == IF Has(c, "address") THEN <<c>> ELSE Field(t, "users", <<>>) IN
       IF ~Has(t, "address") \/ Len(us) # 1 THEN Error
       ELSE LET u == us[1]
                encryption == Field(u, "encryption", <<"">>) IN
            IF \/ ~UUIDParses(Text(u, "id"))
               \/ Text(u, "flow") \notin {"", VLESSFlow, "xtls-rprx-vision-udp443"}
               \/ encryption # <<"none">> /\ ~EncryptionBuilds(encryption, {"1rtt", "0rtt"})
               \/ Has(u, "reverse") /\ u.reverse = ""
            THEN Error ELSE Endpoint(t, u.id, Text(u, "flow"))

VMessOutboundBuild(c) ==
  LET ts == Targets(c, "vnext") IN
  IF Len(ts) # 1 THEN Error
  ELSE LET us == IF Has(c, "address") THEN <<c>> ELSE Field(ts[1], "users", <<>>) IN
       IF Len(us) # 1 \/ ~Has(ts[1], "address") THEN Error
       ELSE IF ~UUIDParses(Text(us[1], "id")) THEN Error
       ELSE Endpoint(ts[1], us[1].id, "")

\* One server with an address, a port and a secret.
SecretServer(c) ==
  LET ts == Targets(c, "servers") IN
  Len(ts) = 1 /\ Has(ts[1], "address") /\ Field(ts[1], "port", 0) # 0 /\ Text(ts[1], "password") # ""

TrojanClientBuild(c) ==
  IF ~SecretServer(c) THEN Error
  ELSE LET s == Targets(c, "servers")[1] IN
       IF Text(s, "flow") # "" THEN Error ELSE Endpoint(s, s.password, "")

ShadowsocksClientBuild(v) ==
  IF ~SecretServer(v) THEN Error
  ELSE LET s == Targets(v, "servers")[1] IN
       IF Text(s, "method") \notin AEADCiphers \cup {"none"} \cup Ciphers2022 THEN Error
       ELSE Endpoint(s, s.password, "")

\* SOCKS and HTTP: at most one user; an address that is not set is
\* dereferenced, which no accepted configuration does.
SocksClientBuild(v) ==
  LET ts == Targets(v, "servers") IN
  IF Len(ts) # 1 THEN Error
  ELSE IF ~Has(ts[1], "address") \/ Len(Field(ts[1], "users", <<>>)) > 1 THEN Error
  ELSE Endpoint(ts[1], Text(v, "user"), "")

HTTPClientBuild(v) ==
  LET ts == Targets(v, "servers") IN
  IF Len(ts) # 1 THEN Error
  ELSE IF ~Has(ts[1], "address") \/ Len(Field(ts[1], "users", <<>>)) > 1 THEN Error
  ELSE Endpoint(ts[1], Text(v, "user"), "")

ParseNoise(n) ==
  /\ CASE Text(n, "type") = "rand" -> Decodes("range", Text(n, "packet"))
       [] Text(n, "type") = "str" -> TRUE
       [] Text(n, "type") = "hex" -> Decodes("hex", Text(n, "packet"))
       [] Text(n, "type") = "base64" -> Decodes("base64", Text(n, "packet"))
       [] OTHER -> FALSE
  /\ Text(n, "applyTo") \in {"", "ip", "all", "ipv4", "ipv6"}

FragmentBuilds(f) ==
  /\ Text(f, "packets") \in {"", "tlshello"} \/ Decodes("range", f.packets)
  /\ Field(f, "length", NoRange).from # 0
  /\ Has(f, "interval")

FreedomBuild(c) ==
  LET strategy == IF Text(c, "targetStrategy") # "" THEN c.targetStrategy ELSE Text(c, "domainStrategy")
      noises == Field(c, "noises", <<>>) IN
  IF \/ strategy \notin DomainStrategies
     \/ Has(c, "fragment") /\ ~FragmentBuilds(c.fragment)
     \/ Has(c, "noise")
     \/ \E i \in DOMAIN noises : ~ParseNoise(noises[i])
     \/ Text(c, "redirect") # "" /\ ~Decodes("hostport", c.redirect)
  THEN Error ELSE Ok

BlackholeBuild(v) ==
  IF Has(v, "response") /\ ~Built(HeaderLoad(v.response, {"none", "http"})) THEN Error ELSE Ok

DNSOutboundBuild(c) == IF Text(c, "nonIPQuery") \in {"", "reject", "drop", "skip"} THEN Ok ELSE Error

-----------------------------------------------------------------------------
(* Detours *)

InboundSettings(protocol, s) ==
  CASE protocol \in {"tunnel", "dokodemo-door"} -> DokodemoBuild(s)
    [] protocol \in {"http", "mixed", "socks"} -> Ok
    [] protocol = "shadowsocks" -> ShadowsocksServerBuild(s)
    [] protocol = "vless" -> VLessInboundBuild(s)
    [] protocol = "vmess" -> VMessInboundBuild(s)
    [] protocol = "trojan" -> TrojanServerBuild(s)
    [] protocol = "wireguard" -> WireGuardBuild(s)
    [] OTHER -> Error

OutboundSettings(protocol, s) ==
  CASE protocol \in {"block", "blackhole"} -> BlackholeBuild(s)
    [] protocol = "loopback" -> Ok
    [] protocol \in {"direct", "freedom"} -> FreedomBuild(s)
    [] protocol = "http" -> HTTPClientBuild(s)
    [] protocol = "shadowsocks" -> ShadowsocksClientBuild(s)
    [] protocol = "socks" -> SocksClientBuild(s)
    [] protocol = "vless" -> VLessOutboundBuild(s)
    [] protocol = "vmess" -> VMessOutboundBuild(s)
    [] protocol = "trojan" -> TrojanClientBuild(s)
    [] protocol = "dns" -> DNSOutboundBuild(s)
    [] protocol = "wireguard" -> WireGuardBuild(s)
    [] OTHER -> Error

SniffingBuild(c) ==
  LET known == [http |-> "http", tls |-> "tls", https |-> "tls", ssl |-> "tls", quic |-> "quic", fakedns |-> "fakedns"]
               @@ ("fakedns+others" :> "fakedns")
      over == Field(c, "destOverride", <<>>) IN
  IF \E i \in DOMAIN over : over[i] \notin DOMAIN known THEN Error
  ELSE <<[enabled |-> Field(c, "enabled", FALSE), override |-> [i \in DOMAIN over |-> known[over[i]]]]>>

\* On a port of an address, or on a socket in the file system.
ListenBuilds(c) ==
  CASE ~Has(c, "listen") -> Has(c, "port")
    [] Decodes("ip", Text(c, "listen")) \/ Text(c, "listen") = "localhost" -> Has(c, "port")
    [] OTHER -> Decodes("unix", c.listen)

InboundBuild(c) ==
  IF \/ ~ListenBuilds(c)
     \/ Has(c, "streamSettings") /\ ~Built(StreamBuild(c.streamSettings))
     \/ Has(c, "sniffing") /\ ~Built(SniffingBuild(c.sniffing))
     \/ ~Built(InboundSettings(Text(c, "protocol"), Object(c, "settings")))
  THEN Error ELSE <<[tag |-> Text(c, "tag"), protocol |-> c.protocol]>>

MuxBuild(m) == Text(m, "xudpProxyUDP443") \in {"", "reject", "allow", "skip"}

checkChainProxyConfig(c) ==
  Text(Object(c, "proxySettings"), "tag") = "" \/ Text(Object(Object(c, "streamSettings"), "sockopt"), "dialerProxy") = ""

\* A CIDR is not looked at further.
SendThroughBuilds(t) == Decodes("cidr", t) \/ Decodes("ip", t) \/ t \in {"origin", "srcip"}

NoStream == [protocol |-> "tcp", security |-> "", secure |-> <<>>, transport |-> <<>>, dialerProxy |-> ""]

\* "transportLayer" makes the tag of proxySettings the dialer of the stream.
OutboundBuild(c) ==
  LET stream == IF Has(c, "streamSettings") THEN StreamBuild(c.streamSettings) ELSE <<NoStream>>
      proxy == IF Has(c, "proxySettings") THEN ProxyBuild(c.proxySettings) ELSE <<[tag |-> "", transportLayer |-> FALSE]>>
      settings == OutboundSettings(Text(c, "protocol"), Object(c, "settings")) IN
  IF \/ Text(c, "targetStrategy") \notin DomainStrategies
     \/ ~checkChainProxyConfig(c)
     \/ Has(c, "sendThrough") /\ ~SendThroughBuilds(c.sendThrough)
     \/ ~Built(stream) \/ ~Built(proxy)
     \/ ~MuxBuild(Object(c, "mux"))
     \/ ~Built(settings)
  THEN Error
  ELSE <<[tag |-> Text(c, "tag"), protocol |-> c.protocol, server |-> settings[1],
          stream |-> IF proxy[1].transportLayer THEN [stream[1] EXCEPT !.dialerProxy = proxy[1].tag] ELSE stream[1],
          proxy |-> IF proxy[1].transportLayer THEN "" ELSE proxy[1].tag]>>

-----------------------------------------------------------------------------
(***************************************************************************)
(* The sections of a JSON configuration that become features: routing      *)
(* (infra/conf/router.go, router_strategy.go), name resolution (dns.go,    *)
(* fakedns.go), and the small ones (policy.go, api.go, metrics.go, log.go, *)
(* reverse.go, observatory.go, version.go).                                *)
(*                                                                         *)
(* Assets[dir][file] is the set of codes of a geo file in an asset         *)
(* directory.  A domain or IP rule is a record of its prefix, its value    *)
(* and, for an external list, its file.                                    *)
(***************************************************************************)

CONSTANT Assets

-----------------------------------------------------------------------------
(* Lists of domains and addresses *)

\* loadFile, find: nothing is cached, an empty code is never found.
loadSite(dir, file, code) == code # "" /\ code \in Field(Assets[dir], file, {})

parseDomainRule(r, dir) ==
  CASE r.type = "geosite" -> loadSite(dir, "geosite.dat", r.value)
    [] r.type = "ext" -> loadSite(dir, r.file, r.value)
    [] r.type = "dotless" -> Decodes("dotless", r.value)
    [] OTHER -> TRUE                    \* regexp, domain, full, keyword and plain

ParseIP(t) == Decodes("cidr", t)

\* A rule is <<>> for an error; "*" is taken out before.
ToCidrList(ips, dir) ==
  \A i \in DOMAIN ips :
    CASE ips[i].type = "geoip" -> loadSite(dir, "geoip.dat", ips[i].value)
      [] ips[i].type = "ext" -> loadSite(dir, ips[i].file, ips[i].value)
      [] OTHER -> ParseIP(ips[i].value)

-----------------------------------------------------------------------------
(* Routing *)

\* The outbound tag hides the balancer tag; "source" stands in for "sourceIP".
ParseRule(r, dir) ==
  LET ips(k) == Field(r, k, <<>>)
      names == Field(r, "domain", <<>>) \o Field(r, "domains", <<>>) IN
  IF \/ Text(r, "outboundTag") = "" /\ Text(r, "balancerTag") = ""
     \/ \E i \in DOMAIN names : ~parseDomainRule(names[i], dir)
     \/ ~ToCidrList(ips("ip"), dir) \/ ~ToCidrList(ips("localIP"), dir)
     \/ ~ToCidrList(IF Has(r, "sourceIP") THEN ips("sourceIP") ELSE ips("source"), dir)
  THEN Error
  ELSE IF Text(r, "outboundTag") # "" THEN <<[kind |-> "outbound", tag |-> r.outboundTag]>>
  ELSE <<[kind |-> "balancer", tag |-> r.balancerTag]>>

AtLeast0(n) == IF n < 0 THEN 0 ELSE n

\* The tolerance is a percentage here.
LeastLoadBuild(s) ==
  [expected |-> AtLeast0(Field(s, "expected", 0)), maxRTT |-> AtLeast0(Field(s, "maxRTT", 0)),
   tolerance |-> LET t == AtLeast0(Field(s, "tolerance", 0)) IN IF t > 100 THEN 100 ELSE t]

BalancingRuleBuild(r) ==
  LET strategy == IF Text(r, "strategy") = "" THEN "random" ELSE r.strategy IN
  IF \/ Text(r, "tag") = "" \/ Field(r, "selector", <<>>) = <<>>
     \/ strategy \notin {"random", "leastload", "leastping", "roundrobin"}
  THEN Error
  ELSE <<[tag |-> r.tag, strategy |-> strategy,
          settings |-> IF strategy = "leastload" THEN <<LeastLoadBuild(Object(r, "settings"))>> ELSE <<>>]>>

getDomainStrategy(c) ==
  CASE Text(c, "domainStrategy") = "alwaysip" -> "UseIp"
    [] Text(c, "domainStrategy") = "ipifnonmatch" -> "IpIfNonMatch"
    [] Text(c, "domainStrategy") = "ipondemand" -> "IpOnDemand"
    [] OTHER -> "AsIs"

RouterBuild(c, dir) ==
  LET rules == Field(c, "rules", <<>>)
      balancers == Field(c, "balancers", <<>>) IN
  IF \/ \E i \in DOMAIN rules : ~Built(ParseRule(rules[i], dir))
     \/ \E i \in DOMAIN balancers : ~Built(BalancingRuleBuild(balancers[i]))
  THEN Error
  ELSE <<[strategy |-> getDomainStrategy(c), rules |-> [i \in DOMAIN rules |-> ParseRule(rules[i], dir)[1]],
          balancers |-> [i \in DOMAIN balancers |-> BalancingRuleBuild(balancers[i])[1]]]>>

-----------------------------------------------------------------------------
(* Name resolution *)

resolveQueryStrategy(t) ==
  CASE t \in {"useip4", "useipv4"} -> "USE_IP4"
    [] t \in {"useip6", "useipv6"} -> "USE_IP6"
    [] t \in {"usesys", "usesystem"} -> "USE_SYS"
    [] OTHER -> "USE_IP"

\* "*" asks for a preference rather than a filter.
WithoutStar(ips) == SelectSeq(ips, LAMBDA r : r.value # "*")

NameServerBuild(s, dir) ==
  LET expected == IF Field(s, "expectedIPs", <<>>) = <<>> THEN Field(s, "expectIPs", <<>>) ELSE s.expectedIPs
      domains == Field(s, "domains", <<>>) IN
  IF \/ ~Has(s, "address")
     \/ \E i \in DOMAIN domains : ~parseDomainRule(domains[i], dir)
     \/ ~ToCidrList(WithoutStar(expected), dir)
     \/ ~ToCidrList(WithoutStar(Field(s, "unexpectedIPs", <<>>)), dir)
     \/ Has(s, "clientIp") /\ ~Decodes("ip", s.clientIp)
  THEN Error
  ELSE <<[address |-> s.address, strategy |-> resolveQueryStrategy(Text(s, "queryStrategy")),
          actPrior |-> Len(WithoutStar(expected)) < Len(expected)]>>

\* A domain of "hosts" with a prefix needs a value behind it.
HostsBuild(hosts, dir) ==
  \A i \in DOMAIN hosts : /\ parseDomainRule(hosts[i], dir)
                          /\ hosts[i].type \in {"domain", "regexp", "keyword", "full"} => hosts[i].value # ""

DNSBuild(c, dir) ==
  LET servers == Field(c, "servers", <<>>) IN
  IF \/ Has(c, "clientIp") /\ ~Decodes("ip", c.clientIp)
     \/ \E i \in DOMAIN servers : ~Built(NameServerBuild(servers[i], dir))
     \/ ~HostsBuild(Field(c, "hosts", <<>>), dir)
  THEN Error
  ELSE <<[servers |-> [i \in DOMAIN servers |-> NameServerBuild(servers[i], dir)[1]],
          strategy |-> resolveQueryStrategy(Text(c, "queryStrategy"))]>>

\* FakeDNSPostProcessingStage.Process: default pools for a server named
\* "fakedns".  A server without an address is dereferenced: <<>>.
IPv4 == [ipPool |-> "198.18.0.0/15", lruSize |-> 32768]
IPv6 == [ipPool |-> "fc00::/18", lruSize |-> 32768]

DefaultPools(strategy) ==
  CASE strategy = "USE_IP4" -> <<[IPv4 EXCEPT !.lruSize = 65535]>>
    [] strategy = "USE_IP6" -> <<[IPv6 EXCEPT !.lruSize = 65535]>>
    [] OTHER -> <<IPv4, IPv6>>

Process(c) ==
  LET dns == Object(c, "dns")
      servers == Field(dns, "servers", <<>>) IN
  IF \E i \in DOMAIN servers : ~Has(servers[i], "address") THEN Error
  ELSE IF (\E i \in DOMAIN servers : servers[i].address = "fakedns") /\ ~Has(c, "fakeDns")
  THEN <<("fakeDns" :> DefaultPools(resolveQueryStrategy(Text(dns, "queryStrategy")))) @@ c>>
  ELSE <<c>>

\* A pool or a list of pools; UnmarshalJSON leaves neither for null.
FakeDNSBuild(pools) == pools

-----------------------------------------------------------------------------
(* The small sections *)

APIServices == {"reflectionservice", "handlerservice", "loggerservice", "statsservice", "observatoryservice", "routingservice"}

\* A service that is not known is left out without an error.
APIBuild(c) == IF Text(c, "tag") = "" THEN Error ELSE <<[tag |-> c.tag, services |-> Field(c, "services", {}) \cap APIServices]>>

MetricsBuild(c) ==
  IF Text(c, "listen") = "" /\ Text(c, "tag") = "" THEN Error
  ELSE <<[tag |-> IF Text(c, "tag") = "" THEN "Metrics" ELSE c.tag]>>

DefaultLogConfig == <<[access |-> "none", error |-> "console", level |-> "warning"]>>

LogBuild(v) ==
  LET type(k) == IF Text(v, k) = "none" \/ Text(v, "loglevel") = "none" THEN "none"
                 ELSE IF Text(v, k) # "" THEN "file" ELSE "console" IN
  <<[access |-> type("access"), error |-> type("error"),
     level |-> IF Text(v, "loglevel") \in {"debug", "info", "error"} THEN v.loglevel ELSE "warning"]>>

\* A negative buffer is unlimited (-1), any other is in KiB.
PolicyBuild(c) == <<[buffer |-> LET b == Field(c, "bufferSize", 0) IN IF b < 0 THEN -1 ELSE b * 1024]>>

ReverseBuild(c) == <<[bridges |-> Field(c, "bridges", <<>>), portals |-> Field(c, "portals", <<>>)]>>
ObservatoryBuild(o) == <<[selector |-> Field(o, "subjectSelector", <<>>)]>>
BurstBuild(b) == IF Has(b, "pingConfig") THEN <<[selector |-> Field(b, "subjectSelector", <<>>)]>> ELSE Error
-----------------------------------------------------------------------------
(* Config.Build after the post-processing *)

List(c, k) == Field(c, k, <<>>)

App(c, key, name) == IF Has(c, key) THEN <<name>> ELSE <<>>

Apps(c) ==
  App(c, "fakeDns", "fakedns")                          \* put in front last
  \o <<"log", "dispatcher", "inbound", "outbound">>
  \o App(c, "api", "api") \o App(c, "metrics", "metrics") \o App(c, "stats", "stats")
  \o App(c, "routing", "router") \o App(c, "dns", "dns") \o App(c, "policy", "policy") \o App(c, "reverse", "reverse")
  \o App(c, "observatory", "observatory") \o App(c, "burstObservatory", "burst") \o App(c, "version", "version")

SectionsBuild(c, dir) ==
  /\ Has(c, "api") => Built(APIBuild(c.api))
  /\ Has(c, "metrics") => Built(MetricsBuild(c.metrics))
  /\ Has(c, "routing") => Built(RouterBuild(c.routing, dir))
  /\ Has(c, "dns") => Built(DNSBuild(c.dns, dir))
  /\ Has(c, "fakeDns") => Built(FakeDNSBuild(c.fakeDns))
  /\ Has(c, "burstObservatory") => Built(BurstBuild(c.burstObservatory))
  /\ Object(c, "transport") = <<>>

HandlersBuild(c) ==
  /\ \A i \in DOMAIN List(c, "inbounds") : Built(InboundBuild(c.inbounds[i]))
  /\ \A i \in DOMAIN List(c, "outbounds") : Built(OutboundBuild(c.outbounds[i]))

\* The sections that are built without an error.
Settings(c) ==
  [log |-> IF Has(c, "log") THEN LogBuild(c.log) ELSE DefaultLogConfig,
   policy |-> PolicyBuild(Object(c, "policy")), reverse |-> ReverseBuild(Object(c, "reverse")),
   observatory |-> ObservatoryBuild(Object(c, "observatory"))]

BuildConfig(c, dir) ==
  IF ~SectionsBuild(c, dir) \/ ~HandlersBuild(c) THEN Error
  ELSE <<[app |-> Apps(c), settings |-> Settings(c),
          inbound |-> [i \in DOMAIN List(c, "inbounds") |-> InboundBuild(c.inbounds[i])[1]],
          outbound |-> [i \in DOMAIN List(c, "outbounds") |-> OutboundBuild(c.outbounds[i])[1]]]>>
=============================================================================
