------------------------------- MODULE Router -------------------------------
(***************************************************************************)
(* app/router: the rules, the balancers they use, and the choice of an      *)
(* outbound for a connection.                                                *)
(*                                                                         *)
(* A rule is a function from the names of its fields to sets of what they   *)
(* accept (an empty set is an absent field), a context one from the same    *)
(* names to sets of what the connection has; patterns are the sets of names  *)
(* they match.  Balancers are objects: rules keep a pointer to one.  The    *)
(* rules are read by PickRoute and changed by the API's calls.              *)
(***************************************************************************)
EXTENDS Integers, SequencesExt

CONSTANTS
  Configs,       \* router configurations: the initial ones and those of AddRule
  Contexts,      \* connections to route
  Observations,  \* what the observatory may report: [tag -> [reported, alive, delay, cost, fail, all]]
  Handlers,      \* tags of the outbounds the selectors of balancers choose from
  Resolve,       \* [domain -> set of addresses], the DNS client
  MaxRules,      \* bound: rules
  MaxBalancers   \* bound: balancers built

Untagged == 0          \* tags and country codes are numbers; this is the empty one
Manual == 99
NoBalancer == 0
Dead == 99999999   \* leastPing's start, and the delay of a dead outbound

\* The fields of a rule, in the order BuildCondition looks at them.
Fields == {"domain", "user", "vlessRoute", "inboundTag", "port", "sourcePort", "localPort",
           "network", "geoip", "sourceGeoip", "localGeoip", "protocol", "attributes"}

VARIABLES
  domainStrategy, \* AsIs, IpIfNonMatch, IpOnDemand
  rules,          \* sequence of [cond, tag, ruleTag, balancer]
  balancers,      \* [tags of balancers -> index into objects], a partial map
  objects,        \* sequence of [rule, override, index]
  geoips,         \* GlobalGeoIPContainer.matchers
  picked          \* the last route: [tag, looked, skip], the context's skipDNSResolve

vars == <<domainStrategy, rules, balancers, objects, geoips, picked>>

NoPick == [tag |-> Untagged, looked |-> FALSE, skip |-> FALSE]

-----------------------------------------------------------------------------
(* Conditions *)

\* GeoIPMatcher.Match: a matcher may be reversed.
Match(m, ip) == (ip \in m.cidr) # m.reverse

\* MatchIPs: the addresses that some matcher has, or that none has.
MatchIPs(matchers, ips, reverse) ==
  {ip \in ips : (\E m \in matchers : Match(m, ip)) # reverse}

\* GeoIPMatcherContainer.Add: one matcher per country code and direction.
GeoIPAdd(container, geoip) ==
  LET same == {m \in container : /\ m.code # Untagged
                                 /\ m.code = geoip.code /\ m.reverse = geoip.reverse}
  IN  IF same # {} THEN CHOOSE m \in same : TRUE ELSE geoip

\* BuildCondition: the fields that are there; the matchers of addresses come from
\* the container.
BuildCondition(rr, container) ==
  [f \in {g \in Fields : rr.fields[g] # {}} |->
     IF f \in {"geoip", "sourceGeoip", "localGeoip"}
     THEN {GeoIPAdd(container, g) : g \in rr.fields[f]}
     ELSE rr.fields[f]]

\* The matchers a rule leaves in the container.
GeoIPKept(rr, container) ==
  container \cup {g \in rr.fields["geoip"] \cup rr.fields["sourceGeoip"] \cup rr.fields["localGeoip"] :
                    g.code # Untagged /\ GeoIPAdd(container, g) = g}

\* DomainMatcher, UserMatcher, InboundTagMatcher, PortMatcher, NetworkMatcher,
\* ProtocolMatcher: what the connection has is among what the field lists.
FieldApply(list, has) == has \cap list # {}

\* MultiGeoIPMatcher.Apply: some address has some matcher, so no address matches nothing.
GeoIPApply(matchers, ips) == MatchIPs(matchers, ips, FALSE) # {}

\* AttributeMatcher.Match: every configured key is there with a value that matches.
AttributeApply(keys, attributes) ==
  /\ attributes # {}
  /\ \A k \in keys : \E a \in attributes : a.key = k.key /\ a.value \in k.values

\* ConditionChan.Apply
Apply(cond, ctx) ==
  \A f \in DOMAIN cond :
    CASE f \in {"geoip", "sourceGeoip", "localGeoip"} -> GeoIPApply(cond[f], ctx[f])
      [] f = "attributes" -> AttributeApply(cond[f], ctx[f])
      [] OTHER -> FieldApply(cond[f], ctx[f])

-----------------------------------------------------------------------------
(* Balancing strategies *)

\* The strategies take the observatory's report o.
Reported(o) == {t \in DOMAIN o : o[t].reported}

\* RoundRobinStrategy and RandomStrategy ask the observatory when there is a
\* fallback; an outbound without a report counts as alive.
AliveTags(o, br, tags) ==
  IF br.fallbackTag = Untagged THEN tags
  ELSE SelectSeq(tags, LAMBDA t : t \notin Reported(o) \/ o[t].alive)

\* LeastPingStrategy.PickOutbound: the first with the smallest delay.
LeastPing(o, tags) ==
  LET fit == {t \in Range(tags) : t \in Reported(o) /\ o[t].alive /\ o[t].delay < Dead}
  IN  {t \in fit : \A u \in fit : o[t].delay <= o[u].delay}

\* leastloadSort: by cost, average, failures, then the most checks, then the tag.
LoadLess(o, t, u) ==
  LET key(x) == <<o[x].cost, o[x].delay, o[x].fail, 0 - o[x].all, x>>
  IN  \E i \in 1..5 : key(t)[i] < key(u)[i] /\ \A j \in 1..(i - 1) : key(t)[j] = key(u)[j]

\* getNodes: the reported candidates that are alive and fast enough, sorted.
GetNodes(o, br, tags) ==
  SetToSortSeq({t \in Range(tags) : /\ t \in Reported(o) /\ o[t].alive
                                    /\ o[t].delay < br.maxRTT \/ br.maxRTT = 0},
               LAMBDA t, u : LoadLess(o, t, u))

\* Mutant: a baseline is enough when it finds one outbound.
SelectLeastLoadAny(o, br, nodes) ==
  LET n == Len(nodes)
      below == {i \in 1..n : br.baselines # <<>> /\ o[nodes[i]].cost < Last(br.baselines)}
  IN  IF br.expected > n THEN nodes
      ELSE SubSeq(nodes, 1, IF br.baselines = <<>> THEN (IF br.expected > 0 THEN br.expected ELSE 1)
                            ELSE Cardinality(below))

\* selectLeastLoad.  The loop over the baselines counts the nodes below one after
\* the other and stops at the first that has enough.
SelectLeastLoad(o, br, nodes) ==
  LET n == Len(nodes)
      expected == IF br.expected <= 0 THEN 1 ELSE br.expected
      below(b) == Cardinality({i \in 1..n : \A j \in 1..i : o[nodes[j]].cost < b})
      reach(k) == Max({0} \cup {below(br.baselines[j]) : j \in 1..k})
      enough == {k \in 1..Len(br.baselines) : reach(k) >= expected}
      count == reach(IF enough = {} THEN Len(br.baselines) ELSE Min(enough))
  IN  CASE n = 0 -> <<>>
        [] n # 0 /\ br.expected > n -> nodes
        [] n # 0 /\ br.expected <= n /\ br.baselines = <<>> -> SubSeq(nodes, 1, expected)
        [] OTHER -> SubSeq(nodes, 1, IF br.expected > 0 /\ count < expected
                                     THEN expected ELSE count)

\* The tags a strategy may pick: dice.Roll chooses among several.
StrategyPicks(o, b, tags) ==
  LET br == objects[b].rule
      alive == AliveTags(o, br, tags)
  IN  CASE br.strategy = "random" -> Range(alive)
        [] br.strategy = "roundrobin" ->
             IF alive = <<>> THEN {} ELSE {alive[(objects[b].index % Len(alive)) + 1]}
        [] br.strategy = "leastping" -> LeastPing(o, tags)
        [] br.strategy = "leastload" -> Range(SelectLeastLoad(o, br, GetNodes(o, br, tags)))

\* Balancer.SelectOutbounds: the handlers its selectors choose, sorted.
SelectOutbounds(br) == SetToSortSeq(br.selectors \cap Handlers, LAMBDA a, b : a < b)

\* Balancer.PickOutbound: the override, or the strategy's choice, or the fallback.
PickOutbound(o, b) ==
  LET br == objects[b].rule
      picks == StrategyPicks(o, b, SelectOutbounds(br))
  IN  IF objects[b].override # Untagged THEN {objects[b].override}
      ELSE IF picks # {} THEN picks
      ELSE {br.fallbackTag}

\* The round robin's index moves when its strategy is asked and has outbounds.
Advance(o, b) ==
  LET br == objects[b].rule
      n == Len(AliveTags(o, br, SelectOutbounds(br)))
  IN  IF br.strategy = "roundrobin" /\ objects[b].override = Untagged /\ n > 0
      THEN [objects EXCEPT ![b].index = (@ + 1) % n]
      ELSE objects

-----------------------------------------------------------------------------
(* The tables *)

\* BalancingRule.Build
BuildBalancer(br) == [rule |-> br, override |-> Untagged, index |-> 0]

Buildable(br) == br.strategy \in {"random", "roundrobin", "leastping", "leastload"}

RuleExists(rs, tag) == tag # Untagged /\ \E i \in DOMAIN rs : rs[i].ruleTag = tag

\* The tables while ReloadRules goes through its configuration.
Tables == [rules |-> rules, balancers |-> balancers, objects |-> objects,
           geoips |-> geoips, ok |-> TRUE]

\* Mutant: a second balancer with the same tag replaces the first.
AddBalancerOver(t, br) ==
  IF ~t.ok \/ ~Buildable(br) THEN [t EXCEPT !.ok = FALSE]
  ELSE [t EXCEPT !.objects = Append(@, BuildBalancer(br)),
                 !.balancers = (br.tag :> Len(t.objects) + 1) @@ @]

\* One balancer of the configuration.
AddBalancer(t, br) ==
  IF ~t.ok \/ br.tag \in DOMAIN t.balancers \/ ~Buildable(br)
  THEN [t EXCEPT !.ok = FALSE]
  ELSE [t EXCEPT !.objects = Append(@, BuildBalancer(br)),
                 !.balancers = (br.tag :> Len(t.objects) + 1) @@ @]

\* One rule of the configuration: its balancer has to be known by then.
AddRule(t, rr) ==
  LET cond == BuildCondition(rr, t.geoips)
      kept == GeoIPKept(rr, t.geoips)
  IN  IF ~t.ok \/ RuleExists(t.rules, rr.ruleTag) \/ DOMAIN cond = {}
      THEN [t EXCEPT !.ok = FALSE]
      ELSE IF rr.balancingTag # Untagged /\ rr.balancingTag \notin DOMAIN t.balancers
      THEN [t EXCEPT !.ok = FALSE, !.geoips = kept]
      ELSE [t EXCEPT !.geoips = kept,
                     !.rules = Append(@, [cond |-> cond, tag |-> rr.tag, ruleTag |-> rr.ruleTag,
                       balancer |-> IF rr.balancingTag = Untagged THEN NoBalancer
                                    ELSE t.balancers[rr.balancingTag]])]

Loaded(t, config) == FoldLeft(AddRule, FoldLeft(AddBalancer, t, config.balancers), config.rules)

\* The tables, with an error when the configuration could not be loaded entirely:
\* what was loaded before the error stays.
Keep(t) ==
  /\ rules' = t.rules /\ balancers' = t.balancers /\ objects' = t.objects
  /\ geoips' = t.geoips

\* Nobody points to the old balancers any more.
Emptied(t) == [t EXCEPT !.rules = <<>>, !.balancers = <<>>, !.objects = <<>>]

\* Router.Init: the same loops; rules and balancers of one configuration do not
\* share tags here (Init does not look).
Init ==
  /\ domainStrategy \in {"AsIs", "IpIfNonMatch", "IpOnDemand"}
  /\ picked = NoPick
  /\ \E config \in Configs :
       LET t == Loaded([rules |-> <<>>, balancers |-> <<>>, objects |-> <<>>,
                        geoips |-> {}, ok |-> TRUE], config)
       IN  /\ t.ok
           /\ rules = t.rules /\ balancers = t.balancers /\ objects = t.objects
           /\ geoips = t.geoips

\* ReloadRules
ReloadRules(config, shouldAppend) ==
  /\ shouldAppend => /\ Len(objects) + Len(config.balancers) <= MaxBalancers
                     /\ Len(rules) + Len(config.rules) <= MaxRules
  /\ Keep(Loaded(IF shouldAppend THEN Tables ELSE Emptied(Tables), config))
  /\ UNCHANGED <<domainStrategy, picked>>

\* RemoveRule
RemoveRule(tag) ==
  /\ tag # Untagged
  /\ rules' = SelectSeq(rules, LAMBDA r : r.ruleTag # tag)
  /\ UNCHANGED <<domainStrategy, balancers, objects, geoips, picked>>

\* SetOverrideTarget and OverrideBalancer; an empty target clears it.
SetOverrideTarget(tag, target) ==
  /\ tag \in DOMAIN balancers
  /\ objects' = [objects EXCEPT ![balancers[tag]].override = target]
  /\ UNCHANGED <<domainStrategy, rules, balancers, geoips, picked>>

-----------------------------------------------------------------------------
(* Routing *)

\* A context whose target addresses come from the DNS client.
Resolved(ctx) ==
  [ctx EXCEPT !["geoip"] = IF @ # {} THEN @ ELSE UNION {Resolve[d] : d \in ctx["domain"]}]

Matching(ctx) == {i \in DOMAIN rules : Apply(rules[i].cond, ctx)}

\* Mutant: the rules are tried with addresses a second time whatever the context says.
RoutesAlways(ctx) ==
  LET first == IF domainStrategy = "IpOnDemand" THEN Resolved(ctx) ELSE ctx
  IN  IF Matching(first) # {}
      THEN {[rule |-> Min(Matching(first)), looked |-> domainStrategy = "IpOnDemand"]}
      ELSE IF domainStrategy # "IpIfNonMatch" THEN {}
      ELSE {[rule |-> i, looked |-> TRUE] : i \in {Min(Matching(Resolved(ctx)) \cup {Len(rules) + 1})} \cap DOMAIN rules}

\* pickRouteInternal: the rule for a context, and whether the DNS client was at
\* hand; at most one.
Routes(ctx) ==
  LET onDemand == domainStrategy = "IpOnDemand" /\ ~ctx["skipDNSResolve"]
      first == IF onDemand THEN Resolved(ctx) ELSE ctx
      second == Matching(Resolved(ctx))
  IN  IF Matching(first) # {}
      THEN {[rule |-> Min(Matching(first)), looked |-> onDemand]}
      ELSE IF domainStrategy # "IpIfNonMatch" \/ ctx["domain"] = {} \/ ctx["skipDNSResolve"] \/ second = {}
      THEN {}
      ELSE {[rule |-> Min(second), looked |-> TRUE]}

\* PickRoute: the rule's tag, or its balancer's.  A balancer that picks nothing
\* and has no fallback is an error.
PickRoute(o, ctx) ==
  \E r \in Routes(ctx) :
    LET rule == rules[r.rule]
    IN  \/ /\ rule.balancer = NoBalancer
           /\ picked' = [tag |-> rule.tag, looked |-> r.looked, skip |-> ctx["skipDNSResolve"]]
                    /\ UNCHANGED objects
        \/ /\ rule.balancer # NoBalancer
           /\ objects' = Advance(o, rule.balancer)
           /\ \E tag \in PickOutbound(o, rule.balancer) :
                /\ picked' = [tag |-> tag, looked |-> r.looked, skip |-> ctx["skipDNSResolve"]]

PickRouteStep(o, ctx) ==
  /\ PickRoute(o, ctx)
  /\ UNCHANGED <<domainStrategy, rules, balancers, geoips>>

RuleTags == {rules[i].ruleTag : i \in DOMAIN rules}

Next ==
  \/ \E config \in Configs, shouldAppend \in BOOLEAN : ReloadRules(config, shouldAppend)
  \/ \E tag \in RuleTags : RemoveRule(tag)
  \/ \E tag \in DOMAIN balancers, target \in {Untagged, Manual} : SetOverrideTarget(tag, target)
  \/ \E o \in Observations, ctx \in Contexts : PickRouteStep(o, ctx)

Spec == Init /\ [][Next]_vars

-----------------------------------------------------------------------------
(* Properties *)

\* The balancer a rule picks from is the one its tag names: a target that
\* SetOverrideTarget sets holds for every rule, after any sequence of reloads,
\* appended rules, failed loads and removals (ReloadRules, OverrideBalancer).
OverrideReachesRules ==
  \A i \in DOMAIN rules :
    LET b == rules[i].balancer
    IN  b # NoBalancer => objects[b].rule.tag \in DOMAIN balancers /\ balancers[objects[b].rule.tag] = b

\* A route picked by addresses of the DNS client belongs to a connection that may
\* ask it: "this prevents cycle resolving dead loop" (pickRouteInternal).
NoResolvingLoop == picked.looked => ~picked.skip

\* The modes of leastload, as its comment lists them: with an expected count at
\* least that many outbounds are selected if there are as many, without one the
\* baselines decide, and without both it is one; the selected are the best ones.
LeastLoadModes ==
  \A b \in DOMAIN objects, o \in Observations :
    LET br == objects[b].rule
        nodes == GetNodes(o, br, SelectOutbounds(br))
        chosen == SelectLeastLoad(o, br, nodes)
    IN  br.strategy = "leastload" =>
          /\ IsPrefix(chosen, nodes)
          /\ br.expected > 0 => Len(chosen) >= Min({br.expected, Len(nodes)})
          /\ br.expected > 0 /\ br.baselines = <<>> => Len(chosen) = Min({br.expected, Len(nodes)})
          /\ br.expected <= 0 /\ br.baselines = <<>> => Len(chosen) = Min({1, Len(nodes)})
          /\ br.expected <= 0 /\ br.baselines # <<>> /\ chosen # <<>> =>
               \E k \in DOMAIN br.baselines :
                 /\ Range(chosen) = {t \in Range(nodes) : o[t].cost < br.baselines[k]}
                 /\ \A j \in 1..(k - 1) : o[nodes[1]].cost >= br.baselines[j]
=============================================================================
