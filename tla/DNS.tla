-------------------------------- MODULE DNS ---------------------------------
(****************************************************************************)
(* Names: the DNS app, which chooses the servers and the answers            *)
(* (app/dns), its fake addresses, and the outbound that answers queries     *)
(* (proxy/dns).                                                             *)
(****************************************************************************)
EXTENDS Naturals, SequencesExt, Sequences, FiniteSets

(***************************************************************************)
(* app/dns, the DNS app above its name servers: which names come from the   *)
(* static hosts, which name servers are asked and in what order, and which  *)
(* of their addresses are kept.                                              *)
(*                                                                         *)
(* A rule is the set of names it matches.  An address is a record of its    *)
(* family and the address lists it is on.  What a name server answers is    *)
(* open.  The dispatcher may be registered after the DNS app, and then the   *)
(* name servers are made after New has returned (core.RequireFeatures).      *)
(***************************************************************************)

CONSTANTS
  Settings,     \* configurations of the app
  Names,        \* domain names
  Addresses     \* addresses name servers may return: [fam, lists]

Families == {4, 6}
MaxDepth == 5   \* StaticHosts.Lookup

VARIABLES
  conf,         \* the configuration
  late,         \* is the dispatcher registered after New?
  family,       \* the families the caller wants
  fake,         \* option.FakeEnable
  asking,       \* indices of the clients still to be asked
  asked,        \* indices of the clients asked so far
  name,         \* the name being looked up, after replacement
  errs,         \* errors of the clients so far
  result        \* none, or what LookupIP returned: [kind, ips]

lookupVars == <<conf, late, family, fake, asking, asked, name, errs, result>>

None == [kind |-> "none", ips |-> {}]
Empty == [kind |-> "empty", ips |-> {}]
Error == [kind |-> "error", ips |-> {}]
Answer(ips) == [kind |-> "ips", ips |-> ips]

-----------------------------------------------------------------------------
(* New and NewClient *)

\* ResolveIpOptionOverride: the families a name server may be asked for.
ResolveIpOptionOverride(strategy, fams) ==
  CASE strategy = "UseIP4" -> fams \cap {4}
    [] strategy = "UseIP6" -> fams \cap {6}
    [] OTHER -> fams

\* The families of the app's own strategy (New).
AppFamilies(c) == ResolveIpOptionOverride(c.strategy, Families)

\* A server of the system's resolver also matches names of the local network.
ClientRules(ns) == IF ns.server = "localhost" THEN Append(ns.rules, {"lan"}) ELSE ns.rules

\* The rules of all clients in the order of their indices in domainMatcher.
AllRules(c) ==
  FlattenSeq([i \in DOMAIN c.clients |->
    [k \in DOMAIN ClientRules(c.clients[i]) |->
       [client |-> i, names |-> ClientRules(c.clients[i])[k]]]])

\* New fails for a name server without a family.
NewSucceeds(c) ==
  \A i \in DOMAIN c.clients :
    ResolveIpOptionOverride(c.clients[i].strategy, AppFamilies(c)) # {}

-----------------------------------------------------------------------------
(* Static hosts *)

\* lookup: replacements are followed MaxDepth times; a found list of addresses is
\* filtered.  Results are NotThere, Empty, Error, Answer or a name.
NotThere == [kind |-> "absent", ips |-> {}]
Replaced(d) == [kind |-> "name", ips |-> {}, name |-> d]

HostsLookup(c, domain, fams) ==
  LET lookup[n \in 0..MaxDepth, d \in Names] ==
        LET h == c.hosts[d]
        IN  CASE h.kind = "none" -> NotThere
              [] h.kind = "rcode" -> IF h.code = 0 THEN Empty ELSE Error
              [] h.kind = "ips" ->
                   IF {a \in h.ips : a.fam \in fams} = {} THEN Empty
                   ELSE Answer({a \in h.ips : a.fam \in fams})
              [] h.kind = "domain" ->
                   IF n = 0 \/ lookup[n - 1, h.name] = NotThere
                   THEN Replaced(h.name)
                   ELSE lookup[n - 1, h.name]
  IN  lookup[MaxDepth, domain]

-----------------------------------------------------------------------------
(* sortClients *)

Matched(c, d) == {m \in DOMAIN AllRules(c) : d \in AllRules(c)[m].names}

\* The clients with a matching rule, by their first one.
Prioritized(c, d) ==
  LET client(m) == AllRules(c)[m].client
      first == {m \in Matched(c, d) : \A n \in Matched(c, d) : client(n) = client(m) => m <= n}
  IN  [i \in 1..Cardinality(first) |->
         client(SetToSortSeq(first, LAMBDA a, b : a < b)[i])]

\* Mutant: a client that was matched is asked once more as a fallback.
SortClientsTwice(c, d) ==
  LET matched == Prioritized(c, d)
      others == SelectSeq([i \in DOMAIN c.clients |-> i], LAMBDA i : ~c.clients[i].skipFallback)
  IN  matched \o (IF c.disableFallback \/ (c.disableFallbackIfMatch /\ matched # <<>>)
                  THEN <<>> ELSE others)

\* The matching clients, then the others unless fallback is disabled, and the
\* first one when there is nobody else.
SortClients(c, d) ==
  LET matched == Prioritized(c, d)
      others == SelectSeq([i \in DOMAIN c.clients |-> i],
                  LAMBDA i : i \notin Range(matched) /\ ~c.clients[i].skipFallback)
      order == matched \o (IF c.disableFallback \/ (c.disableFallbackIfMatch /\ matched # <<>>)
                           THEN <<>> ELSE others)
  IN  IF order = <<>> THEN <<1>> ELSE order

-----------------------------------------------------------------------------
(* Client.QueryIP *)

Kept(list, ips, reverse) == {a \in ips : (a.lists \cap list # {}) # reverse}

\* Mutant: addresses on an excluded list are kept when there are no others.
FilterSoft(ns, ips) ==
  LET expected == IF ns.expected # {} /\ ~ns.actPrior THEN Kept(ns.expected, ips, FALSE) ELSE ips
      allowed == Kept(ns.unexpected, expected, TRUE)
  IN  IF ns.unexpected # {} /\ allowed # {} THEN allowed ELSE expected

\* What is left of a server's addresses: the required lists first, then those
\* that only give preference, which never leave nothing.
Filter(ns, ips) ==
  LET expected == IF ns.expected # {} /\ ~ns.actPrior THEN Kept(ns.expected, ips, FALSE) ELSE ips
      allowed == IF ns.unexpected # {} /\ ~ns.actUnprior
                 THEN Kept(ns.unexpected, expected, TRUE) ELSE expected
      prior == Kept(ns.expected, allowed, FALSE)
      preferred == IF ns.expected # {} /\ ns.actPrior /\ prior # {} THEN prior ELSE allowed
      unprior == Kept(ns.unexpected, preferred, TRUE)
  IN  IF ns.unexpected # {} /\ ns.actUnprior /\ unprior # {} THEN unprior ELSE preferred

\* The families a client asks its server for.
Asks(c, i) == family \cap AppFamilies(c) \cap ResolveIpOptionOverride(c.clients[i].strategy, AppFamilies(c))

-----------------------------------------------------------------------------
(* LookupIP *)

LookupInit ==
  /\ conf \in {c \in Settings : NewSucceeds(c)}
  /\ late \in BOOLEAN
  /\ name = CHOOSE n \in Names : TRUE
  /\ family = {} /\ fake = FALSE
  /\ asking = <<>> /\ asked = <<>> /\ errs = {} /\ result = Empty

\* A lookup starts: the strategy and the static hosts may already decide.
LookupIP(d, fams, fk) ==
  LET enabled == fams \cap AppFamilies(conf)
      host == HostsLookup(conf, d, enabled)
      target == IF host.kind = "name" THEN host.name ELSE d
  IN  /\ result # None
      /\ family' = fams /\ fake' = fk
      /\ asked' = <<>> /\ errs' = {}
      /\ name' = target
      /\ IF enabled = {} \/ host.kind \in {"empty", "error", "ips"}
         THEN /\ result' = IF enabled = {} THEN Empty ELSE host
              /\ asking' = <<>>
         ELSE result' = None /\ asking' = SortClients(conf, target)
      /\ UNCHANGED <<conf, late>>

\* A client is passed over: FakeDNS is asked only when the caller wants it.
Skip ==
  /\ result = None /\ asking # <<>>
  /\ conf.clients[Head(asking)].server = "fakedns" /\ ~fake
  /\ asking' = Tail(asking)
  /\ UNCHANGED <<conf, late, family, fake, asked, name, errs, result>>

\* A client is asked and its server answers with ips, or fails.
Ask(ips, fails) ==
  LET i == Head(asking)
      ns == conf.clients[i]
      got == IF fails \/ Asks(conf, i) = {} THEN {} ELSE Filter(ns, {a \in ips : a.fam \in Asks(conf, i)})
  IN  /\ result = None /\ asking # <<>>
      /\ ns.server = "fakedns" => fake
      /\ asked' = Append(asked, i)
      /\ \/ got # {} /\ result' = Answer(got) /\ asking' = <<>> /\ UNCHANGED errs
         \/ /\ got = {}
            /\ errs' = errs \cup {IF fails /\ Asks(conf, i) # {} THEN "error" ELSE "empty"}
            /\ asking' = IF ns.finalQuery THEN <<>> ELSE Tail(asking)
            /\ UNCHANGED result
      /\ UNCHANGED <<conf, late, family, fake, name>>

\* Nobody is left: an empty answer if that was the only complaint, or an error.
GiveUp ==
  /\ result = None /\ asking = <<>>
  /\ result' = IF errs \subseteq {"empty"} THEN Empty ELSE Error
  /\ UNCHANGED <<conf, late, family, fake, asking, asked, name, errs>>

LookupNext ==
  \/ \E d \in Names, fams \in SUBSET Families, fk \in BOOLEAN : LookupIP(d, fams, fk)
  \/ Skip \/ GiveUp
  \/ \E ips \in SUBSET Addresses, fails \in BOOLEAN : Ask(ips, fails)

LookupSpec == LookupInit /\ [][LookupNext]_lookupVars

-----------------------------------------------------------------------------
(* Properties *)

\* No server is asked twice for one lookup, and a client whose rules do not match
\* is asked only after all whose rules do, never with skipFallback unless it is
\* the only one (sortClients).
AskedInOrder ==
  /\ IsInjective(asked)
  /\ \A i \in DOMAIN asked :
       LET matches(k) == \E m \in Matched(conf, name) : AllRules(conf)[m].client = asked[k]
       IN  ~matches(i) => /\ \A j \in i..Len(asked) : ~matches(j)
                          /\ conf.clients[asked[i]].skipFallback => Len(asked) = 1

\* The addresses a lookup returns from a server are of families that the caller,
\* the app and the client's strategy allow, are on no list the client excludes
\* and on one it requires (Client.QueryIP, ResolveIpOptionOverride).
AnswerIsWanted ==
  result.kind = "ips" /\ asked # <<>> =>
    LET ns == conf.clients[Last(asked)]
    IN  \A a \in result.ips :
          /\ a.fam \in Asks(conf, Last(asked))
          /\ ns.expected # {} /\ ~ns.actPrior => a.lists \cap ns.expected # {}
          /\ ns.unexpected # {} /\ ~ns.actUnprior => a.lists \cap ns.unexpected = {}

-----------------------------------------------------------------------------
(***************************************************************************)
(* app/dns/fakedns: a domain gets an address of a pool, and a connection   *)
(* to that address is taken for one to the domain.  Both directions are    *)
(* kept in a cache of limited size (common/cache, lru), which forgets what *)
(* has not been used for longest.  Several pools, for IPv4 and IPv6, each  *)
(* have a Holder of their own (HolderMulti).                               *)
(*                                                                         *)
(* GetFakeIPForDomain holds the mutex of the Holder while it searches a    *)
(* free address, from one that depends on the time; GetDomainFromFakeDNS   *)
(* runs beside it.  The operations of lru are atomic.                      *)
(***************************************************************************)

CONSTANTS
  Domains,
  Rooms,     \* [Pools -> number of host bits of ipRange]
  LruSizes,  \* values of LruSize in configurations
  Callers    \* goroutines that call GetFakeIPForDomain

Pools == DOMAIN Rooms
FakeAddresses(p) == 0..(2^Rooms[p] - 1)
Nobody == <<>>

VARIABLES
  lruSize,   \* of each Holder, 0 before Start
  lru,       \* [Pools -> doubleLinkedlist], the front is used last
  fakeAsking,    \* [Callers -> <<pool, domain>> with the Holder's mutex held, or Nobody]
  unknown     \* history: [Pools -> [Domains -> the domains used since its last use, itself included]]

fakeVars == <<lruSize, lru, fakeAsking, unknown>>

FakeInit ==
  /\ lruSize = [p \in Pools |-> 0]
  /\ lru = [p \in Pools |-> <<>>]
  /\ fakeAsking = [c \in Callers |-> Nobody]
  /\ unknown = [p \in Pools |-> [d \in Domains |-> {}]]

-----------------------------------------------------------------------------
(* lru *)

\* keyToElement and valueToElement
KeyAt(p, d) == {i \in DOMAIN lru[p] : lru[p][i].key = d}
ValueAt(p, a) == {i \in DOMAIN lru[p] : lru[p][i].value = a}

\* MoveToFront of the element at i
ToFront(p, i) == lru' = [lru EXCEPT ![p] = <<@[i]>> \o RemoveAt(@, i)]

\* Mutant: what was put first is forgotten first.
PutFifo(p, d, a) ==
  LET l == lru[p] IN
  lru' = [lru EXCEPT ![p] = (IF Len(l) = lruSize[p] THEN Tail(l) ELSE l) \o <<[key |-> d, value |-> a]>>]

\* Put of a key that is not there.
Put(p, d, a) ==
  LET l == <<[key |-> d, value |-> a]>> \o lru[p] IN
  lru' = [lru EXCEPT ![p] = IF Len(l) > lruSize[p] THEN Front(l) ELSE l]

\* History: d is used.
Used(p, d) ==
  unknown' = [unknown EXCEPT ![p] = [e \in Domains |->
     IF e = d THEN {d} ELSE IF @[e] = {} THEN {} ELSE @[e] \cup {d}]]

-----------------------------------------------------------------------------
(* Holder *)

\* initialize: math.Log2(lruSize) >= rooms is refused, and so is a size of 0.
Fits(p, n) == n # 0 /\ n < 2^Rooms[p]

Start(p) ==
  /\ lruSize[p] = 0
  /\ \E n \in LruSizes : Fits(p, n) /\ lruSize' = [lruSize EXCEPT ![p] = n]
  /\ UNCHANGED <<lru, fakeAsking, unknown>>

Locked(p) == \E c \in Callers : fakeAsking[c] # Nobody /\ fakeAsking[c][1] = p

\* GetFakeIPForDomain: a domain that has an address keeps it ...
GetFakeIPFound(p, d) ==
  /\ lruSize[p] # 0 /\ ~Locked(p)
  /\ \E i \in KeyAt(p, d) : ToFront(p, i)
  /\ Used(p, d)
  /\ UNCHANGED <<lruSize, fakeAsking>>

\* ... another one ...
GetFakeIPMisses(c, p, d) ==
  /\ lruSize[p] # 0 /\ ~Locked(p) /\ fakeAsking[c] = Nobody
  /\ KeyAt(p, d) = {}
  /\ fakeAsking' = [fakeAsking EXCEPT ![c] = <<p, d>>]
  /\ UNCHANGED <<lruSize, lru, unknown>>

\* Mutant: the search does not look whether an address is in use.
FreeFromAny(p, a, b) == b = a

\* The search from a: b is the first address that has no domain.
FreeFrom(p, a, b) ==
  /\ ValueAt(p, b) = {}
  /\ \A n \in 0..(((b + 2^Rooms[p] - a) % 2^Rooms[p]) - 1) : ValueAt(p, (a + n) % 2^Rooms[p]) # {}

\* ... gets the first free address, from an arbitrary one on.
GetFakeIPPuts(c) ==
  LET p == fakeAsking[c][1]  d == fakeAsking[c][2] IN
  /\ fakeAsking[c] # Nobody
  /\ \E a, b \in FakeAddresses(p) : FreeFrom(p, a, b) /\ Put(p, d, b)
  /\ Used(p, d)
  /\ fakeAsking' = [fakeAsking EXCEPT ![c] = Nobody]
  /\ UNCHANGED lruSize

\* GetDomainFromFakeDNS
GetDomain(p, a) ==
  /\ lruSize[p] # 0
  /\ \E i \in ValueAt(p, a) : ToFront(p, i) /\ Used(p, lru[p][i].key)
  /\ UNCHANGED <<lruSize, fakeAsking>>

FakeNext ==
  \/ \E p \in Pools :
       \/ Start(p)
       \/ \E d \in Domains : GetFakeIPFound(p, d) \/ \E c \in Callers : GetFakeIPMisses(c, p, d)
       \/ \E a \in FakeAddresses(p) : GetDomain(p, a)
  \/ \E c \in Callers : GetFakeIPPuts(c)

FakeSpec == FakeInit /\ [][FakeNext]_fakeVars

-----------------------------------------------------------------------------
(* Properties *)

\* A client that was given an address reaches the domain it asked for: the address
\* stays the domain's, and no other domain gets it, until as many other domains
\* as the cache holds have been used since.
AddressKeepsDomain ==
  \A p \in Pools, d \in Domains :
    unknown[p][d] # {} /\ Cardinality(unknown[p][d]) <= lruSize[p] => KeyAt(p, d) # {}

\* No address stands for two domains, and the search for a free one always ends:
\* "if we run for a long time, we may go back to beginning and start seeing the IP
\* in use" (GetFakeIPForDomain).
OneDomainPerAddress ==
  /\ \A p \in Pools, a \in UNION {FakeAddresses(q) : q \in Pools} : Cardinality(ValueAt(p, a)) <= 1
  /\ \A c \in Callers : fakeAsking[c] # Nobody =>
       \E a \in FakeAddresses(fakeAsking[c][1]) : ValueAt(fakeAsking[c][1], a) = {}

-----------------------------------------------------------------------------
(***************************************************************************)
(* proxy/dns: the outbound that answers DNS questions.  A question for an  *)
(* address is answered by the DNS client of the core, each in a goroutine  *)
(* of its own; other questions are refused, dropped, or sent on to a       *)
(* server over a connection that the first of them opens.  The loops for   *)
(* the two directions and the timer share that connection.                 *)
(***************************************************************************)

CONSTANTS Questions,   \* the questions of a session: sequences of their types
          OutboundSettings     \* [nonIP, block, own]: nonIPQuery, blockTypes, isOwnLink

VARIABLES
  setting, questions,
  next,       \* the question the request loop reads next
  dnsClient,     \* the link: "open", "closed" by the client, "ended" by the dispatcher
  request,    \* the request loop: "read", "write", "dial", "end", "close", "done"
  response,   \* the response loop: "read", "ready", "conn", "end", "close", "done"
  failed,     \* the loops that returned an error
  ipLookup,     \* handleIPQuery for a question: "none", "runs", "done"
  lock,       \* outboundConn.access is held across the dial
  conn,       \* outboundConn.conn: "none", "open", "closed"
  closed,     \* outboundConn.closed
  ready,      \* tokens in outboundConn.connReady
  finished,   \* the timer has fired or was set to zero
  checker,    \* the timer's own call of terminate: "idle", "close", "done"
  upstream,   \* the questions the server has got and not answered
  answers,    \* how often a question was answered
  returned,   \* Process has returned
  panicked    \* connReady was used after it was closed

loopVars == <<request, response, failed>>
connVars == <<lock, conn, closed, ready>>
outboundVars == <<setting, questions, next, dnsClient, loopVars, ipLookup, connVars, finished, checker,
                  upstream, answers, returned, panicked>>

Indices == DOMAIN questions
IsIPQuery(q) == q \in {"A", "AAAA"}

\* What the request loop does with a question.
Verdict(q) ==
  IF setting.own THEN "forward"
  ELSE IF q \in setting.block THEN IF setting.nonIP = "reject" THEN "refuse, end" ELSE "end"
  ELSE IF IsIPQuery(q) THEN "look up"
  ELSE IF setting.nonIP = "drop" THEN "drop"
  ELSE IF setting.nonIP = "reject" THEN "refuse"
  ELSE "forward"

Answered(i) == answers' = [answers EXCEPT ![i] = @ + 1]
Fails(loop) == failed' = failed \cup {loop}

-----------------------------------------------------------------------------
\* The request loop reads a question.
Question ==
  LET q == questions[next]
      v == Verdict(q)
      refuses == v \in {"refuse", "refuse, end"}
  IN /\ request = "read" /\ next <= Len(questions) /\ dnsClient = "open"
     /\ next' = next + 1
     /\ request' = IF v = "forward" THEN "write"
                   ELSE IF v \in {"end", "refuse, end"} THEN "end" ELSE "read"
     /\ IF refuses THEN Answered(next) ELSE UNCHANGED answers
     /\ ipLookup' = IF v = "look up" THEN [ipLookup EXCEPT ![next] = "runs"] ELSE ipLookup
     /\ UNCHANGED <<setting, questions, dnsClient, response, failed, connVars, finished,
                    checker, upstream, returned, panicked>>

\* The client is done, or the dispatcher has interrupted the link.
RequestEnds ==
  /\ request = "read" /\ dnsClient # "open"
  /\ request' = "end"
  /\ IF dnsClient = "ended" THEN Fails("request") ELSE UNCHANGED failed
  /\ UNCHANGED <<setting, questions, next, dnsClient, response, ipLookup, connVars, finished,
                 checker, upstream, answers, returned, panicked>>

\* handleIPQuery: an error without a code is not answered at all.
Lookup(i) ==
  /\ ipLookup[i] = "runs"
  /\ ipLookup' = [ipLookup EXCEPT ![i] = "done"]
  /\ \/ dnsClient = "open" /\ ~returned /\ Answered(i)
     \/ UNCHANGED answers
  /\ UNCHANGED <<setting, questions, next, dnsClient, loopVars, connVars, finished, checker,
                 upstream, returned, panicked>>

-----------------------------------------------------------------------------
\* outboundConn.Write opens the connection, with the lock held.  One that forgets to
\* look whether the connection was closed:
WriteAnyway ==
  /\ request = "write" /\ ~lock
  /\ IF conn = "none"
       THEN request' = "dial" /\ lock' = TRUE /\ UNCHANGED <<failed, upstream>>
       ELSE /\ request' = "read" /\ upstream' = upstream \cup {next - 1}
            /\ UNCHANGED <<lock, failed>>
  /\ UNCHANGED <<setting, questions, next, dnsClient, response, ipLookup, conn, closed, ready,
                 finished, checker, answers, returned, panicked>>

Write ==
  /\ request = "write" /\ ~lock
  /\ IF closed THEN request' = "end" /\ Fails("request") /\ UNCHANGED <<lock, upstream>>
     ELSE IF conn = "none"
       THEN request' = "dial" /\ lock' = TRUE /\ UNCHANGED <<failed, upstream>>
     ELSE /\ request' = "read" /\ upstream' = upstream \cup {next - 1}
          /\ UNCHANGED <<lock, failed>>
  /\ UNCHANGED <<setting, questions, next, dnsClient, response, ipLookup, conn, closed, ready,
                 finished, checker, answers, returned, panicked>>

Dial(ok) ==
  /\ request = "dial"
  /\ lock' = FALSE
  /\ IF ok
       THEN /\ conn' = "open" /\ ready' = ready + 1 /\ request' = "read"
            /\ upstream' = upstream \cup {next - 1}
            /\ panicked' = (panicked \/ closed)
            /\ UNCHANGED failed
       ELSE /\ request' = "end" /\ Fails("request")
            /\ UNCHANGED <<conn, ready, upstream, panicked>>
  /\ UNCHANGED <<setting, questions, next, dnsClient, response, ipLookup, closed, finished,
                 checker, answers, returned>>

\* outboundConn.Read: before the connection is there, it waits for it or for Close.
Read ==
  /\ response = "read" /\ ~lock
  /\ response' = IF closed THEN "end" ELSE IF conn = "none" THEN "ready" ELSE "conn"
  /\ UNCHANGED <<setting, questions, next, dnsClient, request, failed, ipLookup, connVars,
                 finished, checker, upstream, answers, returned, panicked>>

Ready ==
  /\ response = "ready" /\ (ready > 0 \/ closed)
  /\ IF ready > 0 THEN ready' = ready - 1 /\ response' = "conn"
     ELSE response' = "end" /\ UNCHANGED ready
  /\ UNCHANGED <<setting, questions, next, dnsClient, request, failed, ipLookup, lock, conn,
                 closed, finished, checker, upstream, answers, returned, panicked>>

\* A message from the server, or the end of the connection.
Response(i) ==
  /\ response = "conn" /\ conn = "open" /\ i \in upstream
  /\ upstream' = upstream \ {i}
  /\ IF dnsClient = "open" THEN response' = "read" /\ Answered(i) /\ UNCHANGED failed
     ELSE response' = "end" /\ Fails("response") /\ UNCHANGED answers
  /\ UNCHANGED <<setting, questions, next, dnsClient, request, ipLookup, connVars, finished,
                 checker, returned, panicked>>

ResponseEnds(err) ==
  /\ response = "conn" /\ (conn = "closed" => err)
  /\ response' = "end"
  /\ IF err THEN Fails("response") ELSE UNCHANGED failed
  /\ UNCHANGED <<setting, questions, next, dnsClient, request, ipLookup, connVars, finished,
                 checker, upstream, answers, returned, panicked>>

-----------------------------------------------------------------------------
\* timer.SetTimeout(0) as a loop ends, and again as Process returns: the first to come
\* runs terminate.
EndRequest ==
  /\ request = "end"
  /\ request' = IF finished THEN "done" ELSE "close"
  /\ finished' = TRUE
  /\ UNCHANGED <<setting, questions, next, dnsClient, response, failed, ipLookup, connVars,
                 checker, upstream, answers, returned, panicked>>

EndResponse ==
  /\ response = "end"
  /\ response' = IF finished THEN "done" ELSE "close"
  /\ finished' = TRUE
  /\ UNCHANGED <<setting, questions, next, dnsClient, request, failed, ipLookup, connVars,
                 checker, upstream, answers, returned, panicked>>

\* The session has been idle.
Timeout ==
  /\ ~finished /\ finished' = TRUE /\ checker' = "close"
  /\ UNCHANGED <<setting, questions, next, dnsClient, loopVars, ipLookup, connVars, upstream,
                 answers, returned, panicked>>

\* outboundConn.Close.
Close ==
  /\ ~lock
  /\ \/ request = "close" /\ request' = "done" /\ UNCHANGED <<response, checker>>
     \/ response = "close" /\ response' = "done" /\ UNCHANGED <<request, checker>>
     \/ checker = "close" /\ checker' = "done" /\ UNCHANGED <<request, response>>
  /\ panicked' = (panicked \/ closed)
  /\ closed' = TRUE
  /\ conn' = IF conn = "open" THEN "closed" ELSE conn
  /\ UNCHANGED <<setting, questions, next, dnsClient, failed, ipLookup, lock, ready, finished,
                 upstream, answers, returned>>

\* task.Run: both loops are done, one has failed, or terminate has cancelled the context.
\* The dispatcher then closes the link.
Return ==
  /\ ~returned
  /\ \/ request = "done" /\ response = "done"
     \/ request = "done" /\ "request" \in failed
     \/ response = "done" /\ "response" \in failed
     \/ finished
  /\ returned' = TRUE /\ dnsClient' = "ended"
  /\ IF finished THEN UNCHANGED <<finished, checker>>
     ELSE finished' = TRUE /\ checker' = "close"
  /\ UNCHANGED <<setting, questions, next, loopVars, ipLookup, connVars, upstream, answers,
                 panicked>>

ClientCloses ==
  /\ dnsClient = "open" /\ dnsClient' = "closed"
  /\ UNCHANGED <<setting, questions, next, loopVars, ipLookup, connVars, finished, checker,
                 upstream, answers, returned, panicked>>

OutboundInit ==
  /\ setting \in OutboundSettings /\ questions \in Questions
  /\ next = 1 /\ dnsClient = "open" /\ request = "read" /\ response = "read" /\ failed = {}
  /\ ipLookup = [i \in Indices |-> "none"] /\ lock = FALSE /\ conn = "none"
  /\ closed = FALSE /\ ready = 0 /\ finished = FALSE /\ checker = "idle"
  /\ upstream = {} /\ answers = [i \in Indices |-> 0]
  /\ returned = FALSE /\ panicked = FALSE

Loops ==
  \/ RequestEnds \/ Write \/ Dial(TRUE) \/ Dial(FALSE) \/ Read \/ Ready
  \/ (conn = "closed" /\ ResponseEnds(TRUE)) \/ EndRequest \/ EndResponse \/ Close \/ Return

OutboundNext ==
  \/ Question \/ Loops \/ ResponseEnds(TRUE) \/ ResponseEnds(FALSE)
  \/ \E i \in Indices : Lookup(i) \/ Response(i)
  \/ Timeout \/ ClientCloses

\* The loops go on where they can; a session that is idle for long enough times out.
Fairness == WF_outboundVars(Loops) /\ WF_outboundVars(Timeout)

OutboundSpec == OutboundInit /\ [][OutboundNext]_outboundVars
OutboundFairSpec == OutboundSpec /\ Fairness

-----------------------------------------------------------------------------
\* connReady is closed once and never used afterwards, no question is answered twice, and
\* once all has come to rest the connection that was opened is closed.
ReleasedOnce ==
  /\ ~panicked
  /\ \A i \in Indices : answers[i] <= 1
  /\ closed /\ ~lock => conn # "open"

=============================================================================
