----------------------------- MODULE ShareLink ------------------------------
(****************************************************************************)
(* Share links (v2root/parser.go), and what the core makes of the           *)
(* configuration they are turned into.                                      *)
(****************************************************************************)
EXTENDS Integers, Sequences, FiniteSets, TLC

(***************************************************************************)
(* The link parser of the C library (v2root/parser.go): Parse and the four *)
(* exports for one protocol turn a share link into a JSON configuration,   *)
(* and JSONToConfigString turns a configuration back into a link.          *)
(*                                                                         *)
(* A link is what url.Parse and url.Query (or base64 and json, for VMess)  *)
(* hand to the parser; a JSON object is a function whose domain is the set *)
(* of keys that are present.  Texts are opaque, except that                *)
(*   - Lists gives the parts of the texts that contain commas,             *)
(*   - ReadBack gives what url.Parse reads back from a user name written raw    *)
(*     (buildVlessURI and buildTrojanURI do not escape it), "" when the    *)
(*     name ends the authority of the URL,                                 *)
(*   - Mixed is the set of Shadowsocks passwords whose URL-safe base64     *)
(*     form has both padding and a '-' or '_',                             *)
(*   - a remark is -1 when it is empty, 0 when it has no percent sign, and *)
(*     k > 0 when its percent signs are escaped k - 1 times.               *)
(***************************************************************************)

CONSTANTS Links, Options, Files, Lists, ReadBack, Mixed, MaxTrips

VARIABLES uri,     \* the link the application holds, NoLink for ""
          json,    \* <<configuration>> or <<>> for ""
          asset,   \* the file whose directory is in XRAY_LOCATION_ASSET, "" if unset
          proxy,   \* the outbound of the last Parse before sharing, or <<>>
          trips    \* how many times the configuration was shared

vars == <<uri, json, asset, proxy, trips>>

Nothing == <<>>
Get(o, k) == IF k \in DOMAIN o THEN o[k] ELSE ""
When(c, k, v) == IF c THEN k :> v ELSE Nothing
IfSet(k, v) == When(v # "", k, v)

Split(t) == IF t \in DOMAIN Lists THEN Lists[t] ELSE <<t>>
SplitSet(t) == IF t = "" THEN <<>> ELSE Split(t)
Join(ts) == IF Len(ts) > 1 THEN CHOOSE t \in DOMAIN Lists : Lists[t] = ts
            ELSE IF ts = <<>> THEN "" ELSE ts[1]

PathEscape(r) == IF r > 0 THEN r + 1 ELSE r
PathUnescape(r) == IF r > 1 THEN r - 1 ELSE IF r = 1 THEN -1 ELSE r

NoAuth == [method |-> "", password |-> "", coding |-> "bare"]
NoPlugin == [name |-> "", tls |-> FALSE, host |-> "", path |-> ""]
NoLink == [scheme |-> "", user |-> "", auth |-> NoAuth, host |-> "", port |-> 0, query |-> Nothing,
           plugin |-> NoPlugin, data |-> Nothing, remark |-> -1]

-----------------------------------------------------------------------------
(* The parts every parser puts into the configuration *)

createDefaultInbounds(http, socks, sniffing) ==
  <<[port |-> http, protocol |-> "http", sniffing |-> sniffing, tag |-> ""],
    [port |-> socks, protocol |-> "socks", sniffing |-> sniffing, tag |-> ""]>>

getOutboundTag(action, custom) ==
  IF custom # "" THEN custom
  ELSE CASE action \in {"block", "reject"} -> "Reject" [] action = "direct" -> "Direct" [] OTHER -> "Proxy"

buildRoutingConfig(sites, ips, mode) ==
  [i \in DOMAIN sites |-> [field |-> "geosite", value |-> sites[i].name,
                           tag |-> getOutboundTag(sites[i].action, sites[i].tag)]]
  \o [i \in DOMAIN ips |-> [field |-> "geoip", value |-> ips[i].name,
                            tag |-> getOutboundTag(ips[i].action, ips[i].tag)]]
  \o (IF mode = "" THEN <<>>
      ELSE <<[field |-> "port", value |-> "0-65535", tag |-> getOutboundTag(mode, "")]>>)

\* custom is <<>> or <<server list>>; site is <<>> or <<server of the geosite rule>>.
defaultDNSConfigWithCustom(file, custom, site) ==
  IF custom = <<>> /\ site = <<>> THEN <<>>
  ELSE <<(IF file \in Files THEN site ELSE <<>>) \o (IF custom = <<>> THEN <<>> ELSE custom[1])>>

Outbounds(main) == <<main, [tag |-> "Direct", protocol |-> "freedom"], [tag |-> "Reject", protocol |-> "blackhole"]>>

\* The file that sets XRAY_LOCATION_ASSET: GeositeFile if it is given, else GeositePath.
AssetFile(o) == IF o.file # "" THEN o.file ELSE o.path
Asset(o) == IF AssetFile(o) \in Files THEN AssetFile(o) ELSE asset

\* The file that the DNS rule looks for: GeositePath also when GeositeFile is missing.
SiteFile(o) == IF o.file \in Files THEN o.file ELSE o.path

\* A port of the options is an int of C, cast to uint16.
Port16(p, default) == IF p > 0 THEN p % 65536 ELSE default

mustParsePort(p) == IF p = -1 THEN 443 ELSE p

-----------------------------------------------------------------------------
(* parseVless and parseTrojan: one query string, two sets of defaults *)

transportSettings(q, net, httpPath) ==
  LET header == Get(q, "headerType") IN
  CASE net = "tcp" /\ header = "http" ->
         "tcpSettings" :> [header |-> "http", path |-> httpPath,
                           host |-> IF Get(q, "host") = "" THEN <<>> ELSE <<Get(q, "host")>>]
    [] net = "ws" -> "wsSettings" :> [path |-> Get(q, "path"), host |-> Get(q, "host")]
    [] net = "http" -> "httpSettings" :> [path |-> Get(q, "path"), host |-> SplitSet(Get(q, "host"))]
    [] net = "quic" -> "quicSettings" :> [security |-> Get(q, "quicSecurity"), key |-> Get(q, "key"),
                                          header |-> <<header>>]
    [] net = "kcp" -> "kcpSettings" :> [seed |-> Get(q, "seed"), header |-> <<header>>]
    [] net = "grpc" -> "grpcSettings" :> [serviceName |-> Get(q, "serviceName"), multi |-> Get(q, "mode") = "multi"]
    [] OTHER -> Nothing

tlsSettings(q, security) ==
  When(security \in {"tls", "reality"}, "tlsSettings",
       [sni |-> Get(q, "sni"), alpn |-> SplitSet(Get(q, "alpn")), fp |-> Get(q, "fp"),
        insecure |-> Get(q, "allowInsecure") = "1"])

realitySettings(q, security) ==
  When(security = "reality", "realitySettings",
       [sni |-> Get(q, "sni"), fp |-> Get(q, "fp"), pbk |-> Get(q, "pbk"), sid |-> Get(q, "sid"), spx |-> Get(q, "spx")])

Or(t, default) == IF t = "" THEN default ELSE t

streamSettings(q, defaultSecurity, httpPath) ==
  LET net == Or(Get(q, "type"), "tcp")
      security == Or(Get(q, "security"), defaultSecurity) IN
  ("network" :> net) @@ ("security" :> security) @@ transportSettings(q, net, httpPath)
  @@ tlsSettings(q, security) @@ realitySettings(q, security)

\* url.Parse fails on a fragment with a bare percent sign, ParseUint on a missing port.
BadURL(l) == l.remark = 1 \/ l.port = -1

NeedsKeyNever(l) == FALSE

NeedsKey(l) == Get(l.query, "security") = "reality" /\ Get(l.query, "pbk") = ""

\* url.Parse unescapes the fragment, and the parser does so once more.
remark(l) == PathUnescape(PathUnescape(l.remark))

parseVless(l) ==
  LET q == l.query IN
  IF BadURL(l) \/ Get(q, "encryption") \notin {"", "none"} \/ (l.user # "" /\ NeedsKey(l)) THEN <<>>
  ELSE IF l.user = "" THEN <<<<>>>>
  ELSE <<Outbounds([tag |-> "Proxy", protocol |-> "vless", remark |-> remark(l),
                    server |-> [address |-> l.host, port |-> l.port, id |-> l.user,
                                method |-> "none", flow |-> Get(q, "flow"), aid |-> 0],
                    stream |-> streamSettings(q, "none", SplitSet(Get(q, "path")))])>>

parseTrojan(l) ==
  LET q == l.query IN
  IF BadURL(l) \/ NeedsKey(l) THEN <<>>
  ELSE <<Outbounds([tag |-> "Proxy", protocol |-> "trojan", remark |-> remark(l),
                    server |-> [address |-> l.host, port |-> l.port, id |-> l.user,
                                method |-> "", flow |-> Get(q, "flow"), aid |-> 0],
                    stream |-> streamSettings(q, "tls", Split(Get(q, "path")))])>>

-----------------------------------------------------------------------------
(* parseVmess: the base64 JSON object; a key may be absent or empty *)

vmessTransport(d, net) ==
  LET type == Get(d, "type")
      header == IF type = "" THEN <<>> ELSE <<type>> IN
  CASE net = "tcp" /\ type = "http" ->
         "tcpSettings" :> [header |-> "http", path |-> IF "path" \in DOMAIN d THEN Split(d["path"]) ELSE <<>>,
                           host |-> IF "host" \in DOMAIN d THEN <<d["host"]>> ELSE <<>>]
    [] net = "ws" -> "wsSettings" :> [path |-> Get(d, "path"), host |-> Get(d, "host")]
    [] net = "http" -> "httpSettings" :> [path |-> Get(d, "path"),
                                          host |-> IF "host" \in DOMAIN d THEN Split(d["host"]) ELSE <<>>]
    [] net = "quic" -> "quicSettings" :> [security |-> Get(d, "host"), key |-> Get(d, "path"), header |-> header]
    [] net = "kcp" -> "kcpSettings" :> [seed |-> Get(d, "path"), header |-> header]
    [] net = "grpc" -> "grpcSettings" :> [serviceName |-> Get(d, "path"), multi |-> type = "multi"]
    [] OTHER -> Nothing

parseVmess(l) ==
  LET d == l.data
      net == Or(Get(d, "net"), "tcp")
      tls == Get(d, "tls") = "tls" IN
  IF ~ {"add", "id"} \subseteq DOMAIN d \/ l.port = -1 THEN <<>>
  ELSE <<Outbounds([tag |-> "Proxy", protocol |-> "vmess", remark |-> l.remark,
                    server |-> [address |-> d["add"], port |-> l.port, id |-> d["id"],
                                method |-> IF "scy" \in DOMAIN d THEN d["scy"] ELSE "auto", flow |-> "",
                                aid |-> IF "aid" \in DOMAIN d /\ d["aid"] >= 0 THEN d["aid"] ELSE 0],
                    stream |-> ("network" :> net) @@ ("security" :> IF tls THEN "tls" ELSE "")
                      @@ When(tls, "tlsSettings", [sni |-> Get(d, "sni"), alpn |-> SplitSet(Get(d, "alpn")),
                                                   fp |-> Get(d, "fp"), insecure |-> FALSE])
                      @@ vmessTransport(d, net)])>>

-----------------------------------------------------------------------------
(* parseShadowsocks and parseShadowsocksPlugin *)

\* RawURLEncoding first, StdEncoding second: neither takes padding together with
\* '-' or '_' ("mixed"); a text without a colon ("bare") has no method.
Decodes(auth) == auth.coding \in {"raw", "std"}

ssOutbound(l, stream) ==
  [tag |-> "Proxy", protocol |-> "shadowsocks", remark |-> remark(l),
   server |-> [address |-> l.host, port |-> mustParsePort(l.port), id |-> l.auth.password,
               method |-> l.auth.method, flow |-> "", aid |-> 0],
   stream |-> stream]

parseShadowsocksPlugin(l) ==
  LET p == l.plugin
      q == l.query
      tls == p.tls \/ Get(q, "security") = "tls" IN
  IF l.remark = 1 \/ ~Decodes(l.auth) \/ "" \in {l.auth.method, l.auth.password} THEN <<>>
  ELSE <<Outbounds(ssOutbound(l,
         IF p.name # "v2ray-plugin" THEN ("network" :> "tcp") @@ ("security" :> "")
         ELSE ("network" :> "ws") @@ ("security" :> IF tls THEN "tls" ELSE "")
              @@ ("wsSettings" :> [path |-> Or(Get(q, "path"), p.path), host |-> Or(Get(q, "host"), p.host)])
              @@ When(tls, "tlsSettings", [sni |-> Get(q, "sni"), alpn |-> <<>>, fp |-> Get(q, "fp"),
                                           insecure |-> FALSE])))>>

parseShadowsocks(l) ==
  IF l.plugin # NoPlugin THEN parseShadowsocksPlugin(l)
  ELSE IF l.remark = 1 \/ ~Decodes(l.auth) THEN <<>>
  ELSE <<Outbounds(ssOutbound(l, ("network" :> "tcp") @@ ("security" :> "")))>>

-----------------------------------------------------------------------------
(* The exports *)

ParserOf(l) == CASE l.scheme = "vless" -> parseVless(l)
                 [] l.scheme = "trojan" -> parseTrojan(l)
                 [] l.scheme = "vmess" -> parseVmess(l)
                 [] l.scheme = "ss" -> parseShadowsocks(l)
                 [] OTHER -> <<>>

validateOutbound(ob) ==
  ob.protocol \in {"vless", "vmess", "trojan", "shadowsocks"} =>
    /\ ob.server.address # ""
    /\ ob.server.port # 0
    /\ ob.server.id # ""
    /\ ob.protocol = "shadowsocks" => ob.server.method # ""

Config(l, o, mode) ==
  LET obs == ParserOf(l) IN
  IF obs = <<>> THEN <<>>
  ELSE <<[inbounds |-> createDefaultInbounds(Port16(o.http, 10809), Port16(o.socks, 10808), l.scheme # "ss"),
          outbounds |-> obs[1],
          dns |-> defaultDNSConfigWithCustom(SiteFile(o), o.dns, o.siteDNS),
          rules |-> buildRoutingConfig(o.sites, o.ips, mode),
          shape |-> "typed"]>>

\* Parse picks the parser by the scheme, defaults the routing mode, and validates every outbound.
ParseResult(l, o) ==
  LET c == Config(l, o, Or(o.mode, "proxy")) IN
  IF c # <<>> /\ \E i \in DOMAIN c[1].outbounds : ~validateOutbound(c[1].outbounds[i]) THEN <<>> ELSE c

ProxyOf(c) == IF c = <<>> \/ c[1].outbounds = <<>> THEN <<>> ELSE <<c[1].outbounds[1]>>

Parse(o) ==
  /\ json = <<>> /\ uri.scheme # ""
  /\ json' = ParseResult(uri, o)
  /\ asset' = Asset(o)
  /\ proxy' = IF trips = 0 THEN ProxyOf(json') ELSE proxy
  /\ uri' = NoLink
  /\ UNCHANGED trips

\* ParseVless, ParseTrojan, ParseVmess and ParseShadowsocks: no default mode, no validation.
ParseOne(o) ==
  /\ json = <<>> /\ uri.scheme # "" /\ trips = 0
  /\ json' = Config(uri, o, o.mode)
  /\ asset' = Asset(o)
  /\ proxy' = ProxyOf(json')
  /\ uri' = NoLink
  /\ UNCHANGED trips

-----------------------------------------------------------------------------
(* JSONToConfigString *)

transportQuery(s) ==
  LET tcp == IF "tcpSettings" \in DOMAIN s
             THEN ("headerType" :> s["tcpSettings"].header)
                  @@ When(s["tcpSettings"].path # <<>>, "path", Join(s["tcpSettings"].path))
                  @@ When(s["tcpSettings"].host # <<>>, "host", Join(s["tcpSettings"].host))
             ELSE Nothing
      ws == IF "wsSettings" \in DOMAIN s
            THEN IfSet("path", s["wsSettings"].path) @@ IfSet("host", s["wsSettings"].host) ELSE Nothing
      http == IF "httpSettings" \in DOMAIN s
              THEN IfSet("path", s["httpSettings"].path)
                   @@ When(s["httpSettings"].host # <<>>, "host", Join(s["httpSettings"].host)) ELSE Nothing
      quic == IF "quicSettings" \in DOMAIN s
              THEN IfSet("quicSecurity", s["quicSettings"].security) @@ IfSet("key", s["quicSettings"].key) ELSE Nothing
      kcp == IF "kcpSettings" \in DOMAIN s
             THEN IfSet("seed", s["kcpSettings"].seed) @@ IfSet("headerType", Join(s["kcpSettings"].header)) ELSE Nothing
      grpc == IF "grpcSettings" \in DOMAIN s
              THEN IfSet("serviceName", s["grpcSettings"].serviceName)
                   @@ When(s["grpcSettings"].multi, "mode", "multi") ELSE Nothing IN
  grpc @@ kcp @@ quic @@ http @@ ws @@ tcp

securityQuery(s) ==
  LET tls == IF "tlsSettings" \in DOMAIN s
             THEN IfSet("sni", s["tlsSettings"].sni) @@ IfSet("fp", s["tlsSettings"].fp)
                  @@ When(s["tlsSettings"].alpn # <<>>, "alpn", Join(s["tlsSettings"].alpn)) ELSE Nothing
      reality == IF s["security"] = "reality" /\ "realitySettings" \in DOMAIN s
                 THEN LET r == s["realitySettings"] IN
                      IfSet("sni", r.sni) @@ IfSet("fp", r.fp) @@ IfSet("pbk", r.pbk)
                      @@ IfSet("sid", r.sid) @@ IfSet("spx", r.spx) ELSE Nothing IN
  reality @@ tls

\* The user name is written raw: url.Parse may read another one, or no host and port at all.
WithUser(l, id) ==
  IF id \notin DOMAIN ReadBack THEN [l EXCEPT !.user = id]
  ELSE IF ReadBack[id] = "" THEN [l EXCEPT !.port = -1] ELSE [l EXCEPT !.user = ReadBack[id]]

URL(scheme, ob, query) ==
  WithUser([NoLink EXCEPT !.scheme = scheme, !.host = ob.server.address, !.port = ob.server.port,
                          !.query = query, !.remark = PathEscape(ob.remark)], ob.server.id)

buildVlessURI(ob) ==
  LET s == ob.stream IN
  URL("vless", ob, securityQuery(s) @@ transportQuery(s)
                   @@ When(ob.server.method \notin {"", "none"}, "encryption", ob.server.method)
                   @@ IfSet("flow", ob.server.flow)
                   @@ When(s["network"] \notin {"", "tcp"}, "type", s["network"])
                   @@ When(s["security"] \notin {"", "none"}, "security", s["security"]))

\* A trojan link without a security parameter means TLS, so "none" has to be written.
buildTrojanURIQuiet(ob) ==
  LET s == ob.stream IN
  URL("trojan", ob, transportQuery(s) @@ securityQuery(s) @@ IfSet("flow", ob.server.flow)
                    @@ When(s["network"] \notin {"", "tcp"}, "type", s["network"])
                    @@ When(s["security"] \notin {"", "none"}, "security", s["security"]))
buildTrojanURI(ob) ==
  LET s == ob.stream IN
  URL("trojan", ob, transportQuery(s) @@ securityQuery(s) @@ IfSet("flow", ob.server.flow)
                    @@ When(s["network"] \notin {"", "tcp"}, "type", s["network"])
                    @@ IfSet("security", s["security"]))

vmessData(s) ==
  LET net == s["network"]
      tcp == IF "tcpSettings" \in DOMAIN s
             THEN ("type" :> "http")
                  @@ When(s["tcpSettings"].path # <<>>, "path", Join(s["tcpSettings"].path))
                  @@ When(s["tcpSettings"].host # <<>>, "host", Join(s["tcpSettings"].host)) ELSE Nothing
      own == CASE net = "ws" /\ "wsSettings" \in DOMAIN s ->
                    ("path" :> s["wsSettings"].path) @@ IfSet("host", s["wsSettings"].host)
               [] net = "http" /\ "httpSettings" \in DOMAIN s ->
                    ("path" :> s["httpSettings"].path)
                    @@ When(s["httpSettings"].host # <<>>, "host", Join(s["httpSettings"].host))
               [] net = "quic" /\ "quicSettings" \in DOMAIN s ->
                    ("host" :> s["quicSettings"].security) @@ ("path" :> s["quicSettings"].key)
                    @@ When(s["quicSettings"].header # <<>>, "type", Join(s["quicSettings"].header))
               [] net = "kcp" /\ "kcpSettings" \in DOMAIN s ->
                    ("path" :> s["kcpSettings"].seed)
                    @@ When(s["kcpSettings"].header # <<>>, "type", Join(s["kcpSettings"].header))
               [] net = "grpc" /\ "grpcSettings" \in DOMAIN s ->
                    ("path" :> s["grpcSettings"].serviceName) @@ When(s["grpcSettings"].multi, "type", "multi")
               [] OTHER -> Nothing
      tls == IF s["security"] # "tls" THEN Nothing
             ELSE ("tls" :> "tls") @@ securityQuery(s) IN
  own @@ tcp @@ tls

buildVmessURI(ob) ==
  [NoLink EXCEPT !.scheme = "vmess", !.port = ob.server.port, !.remark = ob.remark,
     !.data = vmessData(ob.stream) @@ [add |-> ob.server.address, id |-> ob.server.id, aid |-> ob.server.aid,
                                       scy |-> ob.server.method, net |-> ob.stream["network"], type |-> "none"]]

getPluginInfo(ob) ==
  LET s == ob.stream IN
  IF s["network"] # "ws" THEN NoPlugin
  ELSE [name |-> "v2ray-plugin", tls |-> s["security"] = "tls",
        host |-> IF "wsSettings" \in DOMAIN s THEN s["wsSettings"].host ELSE "",
        path |-> IF "wsSettings" \in DOMAIN s THEN s["wsSettings"].path ELSE ""]

\* base64.URLEncoding writes padding; without '-' and '_' that is the standard form.
buildShadowsocksURI(ob) ==
  [NoLink EXCEPT !.scheme = "ss", !.host = ob.server.address, !.port = ob.server.port,
     !.auth = [method |-> ob.server.method, password |-> ob.server.id,
               coding |-> IF ob.server.id \in Mixed THEN "mixed" ELSE "std"],
     !.plugin = getPluginInfo(ob), !.remark = PathEscape(ob.remark)]

\* The first outbound that is neither Direct nor Reject, else the first of all.
firstOutbound(obs) ==
  LET S == {i \in DOMAIN obs : obs[i].tag \notin {"Direct", "Reject"}} IN
  IF S = {} THEN obs[1] ELSE obs[CHOOSE i \in S : \A j \in S : i <= j]

WithStream(ob) == IF "stream" \in DOMAIN ob THEN ob
                  ELSE ob @@ ("stream" :> (("network" :> "tcp") @@ ("security" :> "none")))

JSONToConfigString(c) ==
  IF c.shape = "broken" \/ c.outbounds = <<>> THEN NoLink
  ELSE LET ob == WithStream(firstOutbound(c.outbounds)) IN
       CASE ob.protocol = "vless" -> buildVlessURI(ob)
         [] ob.protocol = "trojan" -> buildTrojanURI(ob)
         [] ob.protocol = "vmess" -> buildVmessURI(ob)
         [] ob.protocol = "shadowsocks" -> buildShadowsocksURI(ob)
         [] OTHER -> NoLink

Share ==
  /\ json # <<>> /\ trips < MaxTrips
  /\ uri' = JSONToConfigString(json[1])
  /\ json' = <<>>
  /\ trips' = trips + 1
  /\ UNCHANGED <<asset, proxy>>

\* The application edits the configuration before it shares it: an outbound in
\* front, or a "dnsConfig" or a section that does not fit OutputConfig.
Edit(ob) ==
  /\ json # <<>> /\ trips = 0 /\ json[1].shape = "typed" /\ Len(json[1].outbounds) \in {0, 3}
  /\ \E shape \in {"typed", "loose", "broken"}, at \in {0, Len(json[1].outbounds)} :
       json' = <<[json[1] EXCEPT !.shape = shape,
                    !.outbounds = SubSeq(@, 1, at) \o <<ob>> \o SubSeq(@, at + 1, Len(@))]>>
  /\ proxy' = IF json'[1].shape = "broken" THEN <<>> ELSE <<WithStream(firstOutbound(json'[1].outbounds))>>
  /\ UNCHANGED <<uri, asset, trips>>

Others == {[tag |-> "dns-out", protocol |-> "dns"], [tag |-> "Direct", protocol |-> "freedom"],
           [tag |-> "", protocol |-> "trojan", remark |-> -1,
            server |-> [address |-> "c", port |-> 443, id |-> "p", method |-> "", flow |-> "", aid |-> 0]]}

Init ==
  /\ uri \in Links
  /\ json = <<>> /\ asset = "" /\ proxy = <<>> /\ trips = 0

Next ==
  \/ \E o \in Options : Parse(o) \/ ParseOne(o)
  \/ Share
  \/ \E ob \in Others : Edit(ob)

Spec == Init /\ [][Next]_vars

-----------------------------------------------------------------------------
(***************************************************************************)
(* What a link can carry of an outbound: everything but allowInsecure, the *)
(* header of VLESS and Trojan QUIC, and, for Shadowsocks, the server name  *)
(* and the fingerprint of TLS; VMess adds the header "none" to mKCP and    *)
(* QUIC.  A user name that ReadBack changes, a Mixed password, a remark with a  *)
(* percent sign, an empty address or user and the port 0 are not carried.  *)
(***************************************************************************)
Portable(ob) ==
  /\ ob.protocol \in {"vless", "vmess", "trojan", "shadowsocks"}
  /\ ob.server.id \notin DOMAIN ReadBack \cup Mixed
  /\ ob.protocol = "vmess" \/ ob.remark <= 0
  /\ validateOutbound(ob)
  /\ ob.protocol = "shadowsocks" => ob.stream["network"] \in {"tcp", "ws"}

Carried(ob) ==
  LET s == ob.stream
      url == ob.protocol \in {"vless", "trojan"}
      defaultType(h) == IF h = <<>> THEN <<"none">> ELSE h
      ss == ob.protocol = "shadowsocks" IN
  [ob EXCEPT !.tag = "Proxy", !.stream = [k \in DOMAIN s |->
     CASE k = "tlsSettings" -> [s[k] EXCEPT !.insecure = FALSE,
                                            !.sni = IF ss THEN "" ELSE @, !.fp = IF ss THEN "" ELSE @]
       [] k = "quicSettings" -> [s[k] EXCEPT !.header = IF url THEN <<"">> ELSE defaultType(@)]
       [] k = "kcpSettings" -> [s[k] EXCEPT !.header = IF url THEN @ ELSE defaultType(@)]
       [] OTHER -> s[k]]]

\* A configuration that Parse made and JSONToConfigString shared comes back from
\* Parse with the same server, user, transport and security, on every further trip.
RoundTrip ==
  (trips > 0 /\ proxy # <<>> /\ (json # <<>> \/ uri = NoLink)) =>
    (Portable(proxy[1]) => json # <<>> /\ ProxyOf(json) = <<Carried(proxy[1])>>)

-----------------------------------------------------------------------------
(***************************************************************************)
(* From a share link to the core: the configuration Parse writes is loaded *)
(* by the same library (StartV2Ray calls core.StartInstance, which decodes *)
(* and builds it).  ShareLink says what is written, ConfBuild what the core  *)
(* makes of it; this module adds the JSON keys between them, the struct    *)
(* tags of v2root/parser.go.                                               *)
(***************************************************************************)

CONSTANTS Malformed, EarlyData, Assets

VARIABLES core,  \* "none", "refused", or what the core built, in a tuple
          link   \* the link that the application was given

Conf == INSTANCE ConfBuild

linkVars == <<uri, json, asset, proxy, trips, core, link>>

-----------------------------------------------------------------------------
(* The struct tags *)

toTLS(t) == IfSet("serverName", t.sni) @@ IfSet("fingerprint", t.fp)
            @@ When(t.alpn # <<>>, "alpn", t.alpn) @@ When(t.insecure, "allowInsecure", TRUE)

toReality(r) == ("publicKey" :> r.pbk) @@ IfSet("serverName", r.sni) @@ IfSet("fingerprint", r.fp)
                @@ IfSet("shortId", r.sid) @@ IfSet("spiderX", r.spx)

toHeader(h) == IF h = <<>> THEN Nothing ELSE "header" :> [type |-> h[1]]

toSettings(k, s) ==
  CASE k = "tlsSettings" -> toTLS(s)
    [] k = "realitySettings" -> toReality(s)
    [] k = "tcpSettings" -> [header |-> [type |-> s.header, request |-> [path |-> s.path, headers |-> s.host]]]
    [] k = "wsSettings" -> IfSet("path", s.path) @@ When(s.host # "", "headers", "Host" :> s.host)
    [] k = "kcpSettings" -> IfSet("seed", s.seed) @@ toHeader(s.header)
    [] k = "grpcSettings" -> IfSet("serviceName", s.serviceName) @@ When(s.multi, "multiMode", TRUE)
    [] OTHER -> Nothing                              \* httpSettings, quicSettings: unknown to the core

toStream(st) == [k \in DOMAIN st |-> IF k \in {"network", "security"} THEN st[k] ELSE toSettings(k, st[k])]

toServer(s, secret) == ("address" :> s.address) @@ ("port" :> s.port) @@ secret

toServers(ob) ==
  LET s == ob.server IN
  CASE ob.protocol = "vless" ->
         "vnext" :> <<toServer(s, "users" :> <<("id" :> s.id) @@ ("encryption" :> <<s.method>>) @@ IfSet("flow", s.flow)>>)>>
    [] ob.protocol = "vmess" -> "vnext" :> <<toServer(s, "users" :> <<[id |-> s.id, security |-> s.method]>>)>>
    [] ob.protocol = "trojan" -> "servers" :> <<toServer(s, ("password" :> s.id) @@ IfSet("flow", s.flow))>>
    [] ob.protocol = "shadowsocks" -> "servers" :> <<toServer(s, [method |-> s.method, password |-> s.id])>>
    [] OTHER -> Nothing

toOutbound(ob) ==
  ("tag" :> ob.tag) @@ ("protocol" :> ob.protocol)
  @@ (IF "server" \in DOMAIN ob THEN "settings" :> toServers(ob) ELSE Nothing)
  @@ (IF "stream" \in DOMAIN ob THEN "streamSettings" :> toStream(ob.stream) ELSE Nothing)

toRule(r) == ("outboundTag" :> r.tag)
             @@ (IF r.field = "geosite" THEN "domain" :> <<[type |-> "geosite", value |-> r.value]>>
                 ELSE IF r.field = "geoip" THEN "ip" :> <<[type |-> "geoip", value |-> r.value]>>
                 ELSE "port" :> r.value)

toNameServer(t) ==
  ("address" :> t) @@ (IF t = "geosite:cn" THEN "domains" :> <<[type |-> "geosite", value |-> "cn"]>> ELSE Nothing)

toInbound(i) == ("protocol" :> i.protocol) @@ When(i.port # 0, "port", i.port)
                @@ When(i.sniffing, "sniffing", [enabled |-> TRUE, destOverride |-> <<"http", "tls", "quic">>])

toJSON(c) ==
  ("inbounds" :> [i \in DOMAIN c.inbounds |-> toInbound(c.inbounds[i])])
  @@ ("outbounds" :> [i \in DOMAIN c.outbounds |-> toOutbound(c.outbounds[i])])
  @@ ("routing" :> [rules |-> [i \in DOMAIN c.rules |-> toRule(c.rules[i])]])
  @@ (IF c.dns = <<>> THEN Nothing
      ELSE "dns" :> [servers |-> [i \in DOMAIN c.dns[1] |-> toNameServer(c.dns[1][i])]])

-----------------------------------------------------------------------------

\* core.StartInstance up to the built configuration.
LoadJSONConfig ==
  /\ json # <<>> /\ trips = 0 /\ json[1].shape = "typed" /\ core = <<"none">>
  /\ LET c == Conf!Process(toJSON(json[1])) IN
     core' = IF c = <<>> THEN <<"refused">>
             ELSE LET b == Conf!BuildConfig(c[1], asset) IN IF b = <<>> THEN <<"refused">> ELSE <<"built", b[1]>>
  /\ UNCHANGED <<vars, link>>

LinkInit == Init /\ core = <<"none">> /\ link = uri

LinkNext == \/ LoadJSONConfig
            \/ core = <<"none">> /\ Next /\ UNCHANGED <<core, link>>

LinkSpec == LinkInit /\ [][LinkNext]_linkVars

-----------------------------------------------------------------------------
(* Properties *)

\* What a link names, whatever becomes of it.
Keys(l) == IF l.scheme = "vmess" THEN l.data ELSE l.query
Plugin(l) == l.plugin.name = "v2ray-plugin"

NamedServer(l) ==
  CASE l.scheme = "vmess" -> [address |-> l.data["add"], port |-> l.port, id |-> l.data["id"], flow |-> ""]
    [] l.scheme = "ss" -> [address |-> l.host, port |-> mustParsePort(l.port), id |-> l.auth.password, flow |-> ""]
    [] OTHER -> [address |-> l.host, port |-> l.port, id |-> l.user, flow |-> Get(l.query, "flow")]

NamedNetwork(l) ==
  CASE l.scheme = "vmess" -> Or(Get(l.data, "net"), "tcp")
    [] l.scheme = "ss" -> IF Plugin(l) THEN "ws" ELSE "tcp"
    [] OTHER -> Or(Get(l.query, "type"), "tcp")

NamedSecurity(l) ==
  LET s == CASE l.scheme = "vmess" -> Get(l.data, "tls")
             [] l.scheme = "ss" -> IF Plugin(l) /\ (l.plugin.tls \/ Get(l.query, "security") = "tls") THEN "tls" ELSE ""
             [] l.scheme = "trojan" -> Or(Get(l.query, "security"), "tls")
             [] OTHER -> Get(l.query, "security") IN
  IF s = "none" THEN "" ELSE s

\* What a link can name that this core no longer has, or never had.
NotInCore(l) ==
  LET net == NamedNetwork(l)
      flow == NamedServer(l).flow IN
  \/ ~Conf!Built(Conf!TransportProtocol(net))
  \/ NamedSecurity(l) = "reality" /\ net \notin {"tcp", "raw", "grpc", "xhttp", "splithttp"}
  \/ l.scheme = "trojan" /\ flow # ""
  \/ l.scheme = "vless" /\ flow \notin {"", "xtls-rprx-vision", "xtls-rprx-vision-udp443"}
  \/ l.scheme = "ss" /\ l.auth.method \notin Conf!AEADCiphers \cup Conf!Ciphers2022 \cup {"none"}

\* parseVless and parseTrojan write the header {"type": ""} for an mKCP link
\* without a headerType, and the core knows no header of that name.
HeaderOfNoType(l) ==
  l.scheme \in {"vless", "trojan"} /\ NamedNetwork(l) = "kcp" /\ Get(l.query, "headerType") = ""

\* The parsers have no case for these: the core is told the transport and none of
\* its settings, so the path and the host that the link names are lost.
SettingsLost == {"xhttp", "splithttp", "httpupgrade", "raw", "websocket", "mkcp"}

SecuredAsNamed(l, secure) ==
  LET k == Keys(l) IN
  /\ secure # <<>> => secure.serverName = Get(k, "sni")
  /\ NamedSecurity(l) = "tls" => /\ secure.fingerprint = Get(k, "fp")
                                 /\ l.scheme # "ss" => secure.alpn = SplitSet(Get(k, "alpn"))
                                 /\ secure.insecure = (l.scheme # "vmess" /\ Get(k, "allowInsecure") = "1")
  /\ NamedSecurity(l) = "reality" => secure.key = Get(k, "pbk") /\ secure.shortId = Get(k, "sid")

TransportAsNamed(l, t) ==
  LET k == Keys(l)
      net == NamedNetwork(l)
      vmess == l.scheme = "vmess"
      path == Or(Get(k, "path"), l.plugin.path)
      header == Get(k, IF vmess THEN "type" ELSE "headerType") IN
  CASE net \in SettingsLost -> t = <<>>
    [] net = "tcp" -> IF header # "http" THEN t = <<>>
                      ELSE /\ t.header = "http"
                           /\ path # "" => t.http[1].uri = Split(path)
                           /\ Get(k, "host") # "" => t.http[1].host = <<Get(k, "host")>>
    [] net = "ws" -> /\ t.path = Conf!PathOf("path" :> path).path
                     /\ t.host = Or(Get(k, "host"), l.plugin.host)
    [] net = "kcp" -> t.seed = Get(k, IF vmess THEN "path" ELSE "seed") /\ t.header = header
    [] net = "grpc" -> /\ t.serviceName = Get(k, IF vmess THEN "path" ELSE "serviceName")
                       /\ t.multi = (Get(k, IF vmess THEN "type" ELSE "mode") = "multi")

GeoListsMissing(c) ==
  \/ \E i \in DOMAIN c.rules : /\ c.rules[i].field \in {"geosite", "geoip"}
                               /\ ~Conf!loadSite(asset, c.rules[i].field \o ".dat", c.rules[i].value)
  \/ c.dns # <<>> /\ (\E i \in DOMAIN c.dns[1] : c.dns[1][i] = "geosite:cn") /\ ~Conf!loadSite(asset, "geosite.dat", "cn")

\* The core refuses the configuration Parse writes exactly when the link names
\* what the core has not, or mKCP without a header; otherwise its first outbound
\* dials the server, as the user, with the security and through the transport
\* that the link names, and with the settings of that transport unless the parser
\* has no case for it.  A plugin other than v2ray-plugin is left out of all this.
LinkReachesCore ==
  (core # <<"none">> /\ Len(json[1].outbounds) = 3 /\ validateOutbound(json[1].outbounds[1])
   /\ ~GeoListsMissing(json[1])) =>
    IF NotInCore(link) \/ HeaderOfNoType(link) THEN core = <<"refused">>
    ELSE /\ core # <<"refused">>
         /\ LET dialed == core[2].outbound[1] IN
            /\ dialed.server = NamedServer(link)
            /\ dialed.stream.protocol = Conf!TransportProtocol(NamedNetwork(link))[1]
            /\ dialed.stream.security = NamedSecurity(link)
            /\ SecuredAsNamed(link, dialed.stream.secure)
            /\ TransportAsNamed(link, dialed.stream.transport)
=============================================================================
