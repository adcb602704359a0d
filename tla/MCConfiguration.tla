-------------------------- MODULE MCConfiguration ---------------------------
(***************************************************************************)
(* The configuration side of the system on small instances: a behaviour is *)
(* that of one component.                                                  *)
(*   link      a share link, the configuration written for it, the core    *)
(*   load      the files of the command line, merged and built             *)
(*   features  an instance put together from its apps                      *)
(*   matcher   the domain matchers that rules compile to                   *)
(*   ranges    ports, port lists and integer ranges                        *)
(***************************************************************************)
EXTENDS ShareLink

VARIABLES component, args, phase, next, merged, config, apps, handler,
          features, pendingResolutions, pendingOptionalResolutions, called,
          failed, added, nextApp, dialer, status, rules, group, ac, ruleMap,
          table, built, kind, value, first

-----------------------------------------------------------------------------
(* Links: every scheme, transport and security, and links that lack something *)

MCLists == ("h2,h1" :> <<"h2", "h1">>) @@ ("/a,/b" :> <<"/a", "/b">>) @@ ("x,y" :> <<"x", "y">>)
MCReadBack == ("u:v" :> "u") @@ ("u/v" :> "")
MCMixed == {"pw?"}
MCFiles == {"/g/geosite.dat"}
MCMalformed == {<<"hex", "no">>}
MCEarlyData == "/a" :> [path |-> "/a", ed |-> 0]
MCAssets == ("" :> <<>>) @@ ("/g/geosite.dat" :> (("geosite.dat" :> {"cn"}) @@ ("geoip.dat" :> {"ir"})))

Base == [NoLink EXCEPT !.host = "c", !.port = 443, !.user = "u", !.remark = 0]

\* Values of the query: every transport with its own keys, every security with its own keys.
Transports ==
  {Nothing,
   [headerType |-> "http", path |-> "/a,/b", host |-> "x,y"], [headerType |-> "http"],
   [type |-> "ws", path |-> "/a", host |-> "x"], [type |-> "ws"],
   [type |-> "http", path |-> "/a", host |-> "x,y"],
   [type |-> "quic", quicSecurity |-> "none", key |-> "k", headerType |-> "srtp"],
   [type |-> "kcp", seed |-> "s", headerType |-> "srtp"], [type |-> "kcp"],
   [type |-> "grpc", serviceName |-> "g", mode |-> "multi"],
   [type |-> "xhttp", path |-> "/a", host |-> "x"], [type |-> "httpupgrade", path |-> "/a"]}

Securities ==
  {Nothing, [security |-> "none"],
   [security |-> "tls", sni |-> "s", alpn |-> "h2,h1", fp |-> "chrome", allowInsecure |-> "1"],
   [security |-> "reality", sni |-> "s", fp |-> "chrome", pbk |-> "k", sid |-> "i", spx |-> "/"],
   [security |-> "reality", sni |-> "s", fp |-> "chrome"]}

URLs == {[Base EXCEPT !.scheme = p, !.query = t @@ s] : p \in {"vless", "trojan"}, t \in Transports, s \in Securities}

Odd == {[Base EXCEPT !.scheme = p, !.user = u, !.remark = r] :
          p \in {"vless", "trojan"}, u \in {"", "u", "u:v", "u/v"}, r \in {-1, 1, 3}}
  \cup {[Base EXCEPT !.scheme = p, !.port = n] : p \in {"vless", "trojan", "ss", "vmess"}, n \in {-1, 0}}
  \cup {[Base EXCEPT !.scheme = "vless", !.query = ("encryption" :> "aes") @@ ("flow" :> "xtls-rprx-vision")],
        [Base EXCEPT !.scheme = "socks"]}

VmessKeys == [add |-> "c", id |-> "u"]
Vmess == {[Base EXCEPT !.scheme = "vmess", !.remark = r, !.data = VmessKeys @@ t @@ s] :
  r \in {-1, 1},
  t \in {Nothing, [net |-> "tcp", type |-> "http", path |-> "/a,/b", host |-> "x"], [net |-> "tcp", type |-> "http"],
         [net |-> "ws", path |-> "/a", host |-> "x"], [net |-> "ws"], [net |-> "http", path |-> "/a", host |-> "x,y"],
         [net |-> "quic", host |-> "none", path |-> "k", type |-> "srtp"], [net |-> "quic"],
         [net |-> "kcp", path |-> "s", type |-> "srtp"], [net |-> "kcp"],
         [net |-> "grpc", path |-> "g", type |-> "multi"], [net |-> "grpc"]},
  s \in {("scy" :> "zero") @@ ("aid" :> 64), [tls |-> "tls", sni |-> "s", alpn |-> "h2,h1", fp |-> "chrome"]}}
  \cup {[Base EXCEPT !.scheme = "vmess", !.data = ("add" :> "c")]}

Auths == {[method |-> "aes-128-gcm", password |-> "pw", coding |-> "raw"], [method |-> "aes-128-gcm", password |-> "pw?", coding |-> "raw"],
          [method |-> "aes-128-gcm", password |-> "", coding |-> "std"], [method |-> "", password |-> "pw", coding |-> "std"],
          [method |-> "aes-128-gcm", password |-> "pw?", coding |-> "mixed"], NoAuth}
Shadowsocks == {[Base EXCEPT !.scheme = "ss", !.auth = a, !.plugin = p, !.query = q] :
  a \in Auths,
  p \in {NoPlugin, [name |-> "obfs", tls |-> FALSE, host |-> "", path |-> ""],
         [name |-> "v2ray-plugin", tls |-> TRUE, host |-> "x", path |-> "/a"],
         [name |-> "v2ray-plugin", tls |-> FALSE, host |-> "", path |-> ""]},
  q \in {Nothing, [security |-> "tls", sni |-> "s", fp |-> "chrome", path |-> "/b", host |-> "y"]}}

MCLinks == URLs \cup Odd \cup Vmess \cup Shadowsocks

MCOptions ==
  {[file |-> "", path |-> "", http |-> 0, socks |-> 65537, mode |-> "", dns |-> <<>>, siteDNS |-> <<>>, sites |-> <<>>, ips |-> <<>>],
   [file |-> "/none", path |-> "/g/geosite.dat", http |-> 8080, socks |-> 0, mode |-> "direct",
    dns |-> <<<<"1.1.1.1">>>>, siteDNS |-> <<"geosite:cn">>,
    sites |-> <<[name |-> "cn", action |-> "block", tag |-> ""]>>, ips |-> <<[name |-> "ir", action |-> "proxy", tag |-> "other"]>>],
   [file |-> "/g/geosite.dat", path |-> "", http |-> 0, socks |-> 0, mode |-> "",
    dns |-> <<>>, siteDNS |-> <<"geosite:cn">>, sites |-> <<>>, ips |-> <<>>]}

-----------------------------------------------------------------------------
(* Files *)

In(tag, protocol) == [tag |-> tag, protocol |-> protocol, port |-> 1, sniffing |-> [enabled |-> TRUE, destOverride |-> <<"fakedns">>]]
Free(tag) == [tag |-> tag, protocol |-> "freedom"]
Hole(tag) == [tag |-> tag, protocol |-> "blackhole", settings |-> [response |-> [type |-> "http"]]]
Chain(tag) == [tag |-> tag, protocol |-> "freedom", proxySettings |-> [tag |-> "a", transportLayer |-> TRUE],
               streamSettings |-> [network |-> "ws", wsSettings |-> [path |-> "/a?ed=8"]]]
Conflict == [Chain("b") EXCEPT !.streamSettings = [sockopt |-> [dialerProxy |-> "a"]]]

Dns(server, strategy) == [dns |-> [servers |-> <<server>>, queryStrategy |-> strategy]]
Fake == [address |-> "fakedns"]

Holds(c) == [ext |-> "json", tail |-> FALSE, decodes |-> TRUE, config |-> c]

ConfFiles == {
  Holds([inbounds |-> <<In("a", "socks"), In("", "http")>>, outbounds |-> <<Free("a"), Hole("b")>>, routing |-> [rules |-> <<>>]]),
  Holds([outbounds |-> <<Hole("a")>>, log |-> [loglevel |-> "none"]]),
  Holds([outbounds |-> <<Chain("c"), Free("b")>>, inbounds |-> <<In("", "socks"), In("", "http")>>]),
  [Holds([outbounds |-> <<Free("d"), Hole("c")>>]) EXCEPT !.tail = TRUE, !.ext = "yml"],
  Holds([outbounds |-> <<Conflict>>]),
  Holds(Dns(Fake, "useipv4")), Holds(Dns(Fake, "") @@ [stats |-> <<>>]),
  Holds(Dns([address |-> "1.1.1.1", domains |-> <<[type |-> "geosite", value |-> "cn"]>>], "useipv6") @@ [api |-> [tag |-> "x"]]),
  Holds([fakeDns |-> <<Conf!IPv4>>, metrics |-> [listen |-> "x"]]),
  Holds(Dns([domains |-> <<>>], "")),
  Holds([routing |-> [rules |-> <<[domain |-> <<[type |-> "geosite", value |-> "no"]>>, outboundTag |-> "a"]>>]]),
  [Holds(<<>>) EXCEPT !.decodes = FALSE], [Holds(<<>>) EXCEPT !.ext = "pb"], [Holds(<<>>) EXCEPT !.ext = "txt"]}

Load == INSTANCE ConfLoad WITH
  Malformed <- {<<"ip", "fakedns">>, <<"hex", "zz">>},
  EarlyData <- "/a?ed=8" :> [path |-> "/a", ed |-> 8],
  Assets <- "" :> [f \in {"geosite.dat"} |-> {"cn"}],
  Files <- ConfFiles, MaxFiles <- 3,
  Types <- {"dns", "dispatcher", "router"}, Essential <- {"dns"},
  MaxApps <- 2, MaxDeps <- 2

-----------------------------------------------------------------------------
(* Rules and numbers *)

Rules(ss) == [i \in DOMAIN ss |-> [s |-> ss[i], t |-> "domain"]]

Token(k, v) == [k |-> k, v |-> v]
Tokens == {Token("n", v) : v \in {0, 1, 3, 4}} \cup {Token(k, 0) : k \in {"-", ",", "env", " "}}

\* Patterns that end in one another, hold one another, and have dots.
Match == INSTANCE Matchers WITH
  Chars <- {1, 2, 3}, Dot <- 3,
  Patterns <- {<<2>>, <<1, 2>>, <<2, 1>>, <<1, 2, 1>>, <<2, 3, 1>>, <<1, 3, 2>>},
  Lists <- {<<>>, Rules(<<<<1>>, <<2>>, <<1, 1>>, <<2, 2>>>>)},
  Inputs <- UNION {[1 .. k -> {1, 2, 3}] : k \in 0 .. 4},
  MaxRules <- 2, PrimeRK <- 3, HashSpace <- 16,
  MaxPort <- 3, MaxInt <- 3, Kinds <- {"range", "list", "int"},
  Numbers <- {-4, -3, -1, 0, 1, 3, 4},
  Texts <- UNION {[1 .. n -> Tokens] : n \in 0 .. 4},
  EnvValue <- <<Token("n", 1), Token("-", 0), Token("n", 2)>>

-----------------------------------------------------------------------------
allVars == <<component, uri, json, asset, proxy, trips, core, link, args,
             phase, next, merged, config, apps, handler, features,
             pendingResolutions, pendingOptionalResolutions, called, failed,
             added, nextApp, dialer, status, rules, group, ac, ruleMap, table,
             built, kind, value, first>>

AtLink ==
  /\ component = "link"
  /\ UNCHANGED <<component, args, phase, next, merged, config, apps, handler,
                 features, pendingResolutions, pendingOptionalResolutions,
                 called, failed, added, nextApp, dialer, status, rules, group,
                 ac, ruleMap, table, built, kind, value, first>>

AtLoad ==
  /\ component = "load"
  /\ UNCHANGED <<component, uri, json, asset, proxy, trips, core, link, apps,
                 handler, features, pendingResolutions,
                 pendingOptionalResolutions, called, failed, added, nextApp,
                 dialer, status, rules, group, ac, ruleMap, table, built, kind,
                 value, first>>

AtFeatures ==
  /\ component = "features"
  /\ UNCHANGED <<component, uri, json, asset, proxy, trips, core, link, args,
                 phase, next, merged, config, rules, group, ac, ruleMap, table,
                 built, kind, value, first>>

AtMatcher ==
  /\ component = "matcher"
  /\ UNCHANGED <<component, uri, json, asset, proxy, trips, core, link, args,
                 phase, next, merged, config, apps, handler, features,
                 pendingResolutions, pendingOptionalResolutions, called,
                 failed, added, nextApp, dialer, status, kind, value, first>>

AtRanges ==
  /\ component = "ranges"
  /\ UNCHANGED <<component, uri, asset, proxy, core, link, args, phase, next,
                 merged, config, apps, handler, features, pendingResolutions,
                 pendingOptionalResolutions, called, failed, added, nextApp,
                 dialer, status, rules, group, ac, ruleMap, table, built>>

AllInit ==
  \/ /\ component = "link"
     /\ LinkInit
     /\ args = 0 /\ phase = 0 /\ next = 0 /\ merged = 0 /\ config = 0
     /\ apps = 0 /\ handler = 0 /\ features = 0 /\ pendingResolutions = 0
     /\ pendingOptionalResolutions = 0 /\ called = 0 /\ failed = 0
     /\ added = 0 /\ nextApp = 0 /\ dialer = 0 /\ status = 0 /\ rules = 0
     /\ group = 0 /\ ac = 0 /\ ruleMap = 0 /\ table = 0 /\ built = 0
     /\ kind = 0 /\ value = 0 /\ first = 0
  \/ /\ component = "load"
     /\ Load!Init
     /\ uri = 0 /\ json = 0 /\ asset = 0 /\ proxy = 0 /\ trips = 0 /\ core = 0
     /\ link = 0 /\ apps = 0 /\ handler = 0 /\ features = 0
     /\ pendingResolutions = 0 /\ pendingOptionalResolutions = 0 /\ called = 0
     /\ failed = 0 /\ added = 0 /\ nextApp = 0 /\ dialer = 0 /\ status = 0
     /\ rules = 0 /\ group = 0 /\ ac = 0 /\ ruleMap = 0 /\ table = 0
     /\ built = 0 /\ kind = 0 /\ value = 0 /\ first = 0
  \/ /\ component = "features"
     /\ Load!CoreInit
     /\ uri = 0 /\ json = 0 /\ asset = 0 /\ proxy = 0 /\ trips = 0 /\ core = 0
     /\ link = 0 /\ args = 0 /\ phase = 0 /\ next = 0 /\ merged = 0
     /\ config = 0 /\ rules = 0 /\ group = 0 /\ ac = 0 /\ ruleMap = 0
     /\ table = 0 /\ built = 0 /\ kind = 0 /\ value = 0 /\ first = 0
  \/ /\ component = "matcher"
     /\ Match!MatchInit
     /\ uri = 0 /\ json = 0 /\ asset = 0 /\ proxy = 0 /\ trips = 0 /\ core = 0
     /\ link = 0 /\ args = 0 /\ phase = 0 /\ next = 0 /\ merged = 0
     /\ config = 0 /\ apps = 0 /\ handler = 0 /\ features = 0
     /\ pendingResolutions = 0 /\ pendingOptionalResolutions = 0 /\ called = 0
     /\ failed = 0 /\ added = 0 /\ nextApp = 0 /\ dialer = 0 /\ status = 0
     /\ kind = 0 /\ value = 0 /\ first = 0
  \/ /\ component = "ranges"
     /\ Match!RangeInit
     /\ uri = 0 /\ asset = 0 /\ proxy = 0 /\ core = 0 /\ link = 0 /\ args = 0
     /\ phase = 0 /\ next = 0 /\ merged = 0 /\ config = 0 /\ apps = 0
     /\ handler = 0 /\ features = 0 /\ pendingResolutions = 0
     /\ pendingOptionalResolutions = 0 /\ called = 0 /\ failed = 0
     /\ added = 0 /\ nextApp = 0 /\ dialer = 0 /\ status = 0 /\ rules = 0
     /\ group = 0 /\ ac = 0 /\ ruleMap = 0 /\ table = 0 /\ built = 0

AllNext ==
  \/ AtLink /\ LinkNext
  \/ AtLoad /\ Load!Next
  \/ AtFeatures /\ Load!CoreNext
  \/ AtMatcher /\ Match!MatchNext
  \/ AtRanges /\ Match!RangeNext

ConfigurationSpec == AllInit /\ [][AllNext]_allVars

-----------------------------------------------------------------------------
(* Properties *)

\* What a link says survives being written as a configuration and shared again,
\* and reaches the core, but for the settings of the transports that the parser has
\* no case for and for mKCP without a header: v2root/parser.go, then infra/conf.
LinksReachTheCore == component = "link" => RoundTrip /\ LinkReachesCore

\* Files merge so that the last one that says something wins, and a fakedns
\* server always has its pools: infra/conf Config.Override, PostProcess, Build.
FilesMerge == component = "load" => Load!LastFileWins /\ Load!FakeDNSReady

\* Each callback that waits for features is called once and in time, whatever
\* the order of the apps: core.Instance RequireFeatures, AddFeature, Start.
FeaturesResolve ==
  component = "features" => Load!CalledOnce /\ Load!NothingReadyPends /\ Load!ReadyIsResolved

\* The two groups of matchers answer what the matchers answer one by one, but for the
\* keywords (common/strmatcher MatcherGroup, MphMatcherGroup); a port, list or range that
\* was read, written and read again is the same (infra/conf PortRange, PortList, Int32Range).
RulesKeepMeaning ==
  /\ component = "matcher" => Match!GroupFindsAll /\ Match!TableIsExact
  /\ component = "ranges" => Match!RangesKept

\* Every keyword that is in the domain is found: "Substr is the type of matcher that the
\* input string must contain the pattern as a sub-string" (strmatcher.go).
KeywordsAreFound == component = "matcher" => Match!KeywordsAreFound
=============================================================================
