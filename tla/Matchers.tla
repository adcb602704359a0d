------------------------------ MODULE Matchers ------------------------------
(****************************************************************************)
(* Pure algorithms of the configuration: the string matchers                *)
(* (common/strmatcher), and the ranges of infra/conf and common/net.        *)
(****************************************************************************)
EXTENDS Sequences, FiniteSets, SequencesExt, FiniteSetsExt, Integers

(***************************************************************************)
(* The domain matchers (common/strmatcher): one at a time they are simple, *)
(* but rules are matched by the thousand.  The DNS server uses a           *)
(* MatcherGroup, which returns the index of every rule that matches, the   *)
(* router a MphMatcherGroup, which answers whether one does with a rolling *)
(* hash over a minimal perfect hash table and an Aho-Corasick automaton.   *)
(* Both are checked against the matchers taken one by one.                 *)
(*                                                                         *)
(* A string is a sequence of characters; a character is a number, and one  *)
(* of them is the dot.                                                     *)
(***************************************************************************)

CONSTANTS Chars,       \* the characters, Dot among them
          Dot,
          Patterns,    \* the patterns rules are made of
          Inputs,      \* the domains asked for
          Lists,       \* the lists of rules loaded before others are added
          MaxRules,
          PrimeRK, HashSpace  \* the rolling hash counts modulo HashSpace

VARIABLES rules,  \* the rules added, in order: records s and t
          group,  \* the MatcherGroup
          ac,     \* the ACAutomaton: trie, fail and exists by node, and count
          ruleMap,\* the full and domain rules of the MphMatcherGroup, hashed
          table,  \* its hash table: level0 and level1
          built
matchVars == <<rules, group, ac, ruleMap, table, built>>

Types == {"full", "substr", "domain"}

-----------------------------------------------------------------------------
\* The matchers of matchers.go.
HasSuffix(s, p) == Len(p) <= Len(s) /\ SubSeq(s, Len(s) - Len(p) + 1, Len(s)) = p

ContainsStr(s, p) == \E i \in 0 .. Len(s) - Len(p) : SubSeq(s, i + 1, i + Len(p)) = p

MatchOne(m, s) ==
  CASE m.t = "full"   -> s = m.s
    [] m.t = "substr" -> ContainsStr(s, m.s)
    [] m.t = "domain" -> /\ HasSuffix(s, m.s)
                         /\ Len(s) = Len(m.s) \/ s[Len(s) - Len(m.s)] = Dot

(***************************************************************************)
(* MatcherGroup.  The domain rules are in a tree of labels, from the last  *)
(* label on; a node is the path to it.                                     *)
(***************************************************************************)
breakDomain(s) ==
  FoldLeft(LAMBDA acc, c : IF c = Dot THEN Append(acc, <<>>)
                           ELSE [acc EXCEPT ![Len(acc)] = Append(@, c)], <<<<>>>>, s)

\* The nodes on the way to a domain, the root not included.
Paths(s) == LET labels == Reverse(breakDomain(s))
            IN [i \in DOMAIN labels |-> SubSeq(labels, 1, i)]

AddDomain(tree, s, id) ==
  LET way == Paths(s)
      old == DOMAIN tree
  IN [p \in old \cup Range(way) |->
        (IF p \in old THEN tree[p] ELSE <<>>) \o (IF p = Last(way) THEN <<id>> ELSE <<>>)]

\* Shorter matches first.
MatchDomainForward(tree, s) ==
  LET way == Paths(s)
      known == {i \in DOMAIN way : \A j \in 1 .. i : way[j] \in DOMAIN tree}
  IN FlattenSeq([i \in 1 .. Cardinality(known) |-> tree[way[i]]])

\* Nodes are followed until one is missing; longer matches come first.
MatchDomain(tree, s) ==
  LET way == Paths(s)
      known == {i \in DOMAIN way : \A j \in 1 .. i : way[j] \in DOMAIN tree}
  IN IF s = <<>> THEN <<>>
     ELSE FlattenSeq(Reverse([i \in 1 .. Cardinality(known) |-> tree[way[i]]]))

NewGroup == [count |-> 0, full |-> <<>>, tree |-> <<>>, other |-> <<>>]

AddMatcher(g, m) ==
  LET id == g.count + 1
  IN CASE m.t = "full"   -> [g EXCEPT !.count = id, !.full = Append(@, <<m.s, id>>)]
       [] m.t = "domain" -> [g EXCEPT !.count = id, !.tree = AddDomain(@, m.s, id)]
       [] OTHER          -> [g EXCEPT !.count = id, !.other = Append(@, <<m, id>>)]

MatchFull(full, s) ==
  LET hits == SelectSeq(full, LAMBDA e : e[1] = s) IN [i \in DOMAIN hits |-> hits[i][2]]

MatchGroup(g, s) ==
  LET others == SelectSeq(g.other, LAMBDA e : MatchOne(e[1], s))
  IN MatchFull(g.full, s) \o MatchDomain(g.tree, s) \o [i \in DOMAIN others |-> others[i][2]]

(***************************************************************************)
(* ACAutomaton.  Patterns are entered backwards; an edge says whether it   *)
(* is one of the trie or one added for the case that the trie ends.        *)
(***************************************************************************)
NewNode == [c \in Chars |-> [trie |-> FALSE, next |-> 0]]

NewACAutomaton == [count |-> 0, trie |-> [n \in {0} |-> NewNode],
                   fail |-> [n \in {0} |-> 0], exists |-> [n \in {0} |-> "none"]]

With(f, n, v) == [m \in DOMAIN f \cup {n} |-> IF m = n THEN v ELSE f[m]]

\* One more character: the node behind it is made if it is not there.
Follow(a, n, c) ==
  IF a.trie[n][c].next # 0 THEN [a |-> a, n |-> a.trie[n][c].next]
  ELSE LET new == a.count + 1
           edge == [a.trie EXCEPT ![n][c] = [trie |-> TRUE, next |-> new]]
       IN [a |-> [count |-> new, trie |-> With(edge, new, NewNode),
                  fail |-> With(a.fail, new, 0), exists |-> With(a.exists, new, "none")],
           n |-> new]

ACAdd(a, s, t) ==
  LET end == FoldRight(LAMBDA c, acc : Follow(acc.a, acc.n, c), s, [a |-> a, n |-> 0])
      marked == [end.a EXCEPT !.exists[end.n] = IF t = "domain" THEN "full" ELSE t]
      dot == Follow(marked, end.n, Dot)
  IN IF t = "domain" THEN [dot.a EXCEPT !.exists[dot.n] = t] ELSE marked

\* One node of Build: its children get their fail links and join the queue, its
\* missing edges are those of its own fail link.
Visit(a, n) ==
  LET f == a.fail[n]
      kids == {c \in Chars : a.trie[n][c].next # 0}
  IN [a EXCEPT !.trie[n] = [c \in Chars |->
                  IF c \in kids THEN @[c] ELSE [trie |-> FALSE, next |-> a.trie[f][c].next]],
               !.fail = [m \in DOMAIN @ |->
                  LET cs == {c \in kids : a.trie[n][c].next = m}
                  IN IF cs = {} THEN @[m] ELSE a.trie[f][CHOOSE c \in cs : TRUE].next]]

Kids(a, n) == LET cs == {c \in Chars : a.trie[n][c].next # 0}
                  order == SetToSortSeq(cs, LAMBDA x, y : x < y)
              IN [i \in DOMAIN order |-> a.trie[n][order[i]].next]

ACBuild(a) ==
  FoldLeft(LAMBDA acc, i :
             IF acc.queue = <<>> THEN acc
             ELSE LET n == Head(acc.queue)
                  IN [a |-> Visit(acc.a, n), queue |-> Tail(acc.queue) \o Kids(acc.a, n)],
           [a |-> a, queue |-> Kids(a, 0)], [i \in 1 .. a.count |-> i]).a

ACMatch(a, s) ==
  LET end == FoldRight(
        LAMBDA c, acc :
          IF acc.hit THEN acc
          ELSE LET e == a.trie[acc.n][c]
                   whole == acc.whole /\ e.trie
               IN [n |-> e.next, whole |-> whole,
                   hit |-> \/ a.exists[e.next] = "substr"
                           \/ a.exists[e.next] = "domain" /\ whole],
        s, [n |-> 0, whole |-> TRUE, hit |-> FALSE])
  IN end.hit \/ (end.whole /\ a.exists[end.n] # "none")

(***************************************************************************)
(* MphMatcherGroup: every full rule is in the table as it is, a domain     *)
(* rule also with a dot before it.  Strhash stands for memhashFallback, of *)
(* which only matters that another seed gives another spread.              *)
(***************************************************************************)
RollStep(h, c) == (h * PrimeRK + c) % HashSpace

RollingHash(s) == FoldRight(LAMBDA c, h : RollStep(h, c), s, 0)

\* The hash of the dotted form taken in the wrong order.
AddFullOrDomainPatternDotted(m, p) ==
  LET plain == With(m, p.s, RollingHash(p.s))
  IN IF p.t = "domain" THEN With(plain, <<Dot>> \o p.s, RollingHash(p.s \o <<Dot>>)) ELSE plain

AddFullOrDomainPattern(m, p) ==
  LET h == RollingHash(p.s)
      plain == With(m, p.s, h)
  IN IF p.t = "domain" THEN With(plain, <<Dot>> \o p.s, RollStep(h, Dot)) ELSE plain

NextPow2(v) == IF v <= 1 THEN 1 ELSE Min({2^k : k \in 1 .. 8} \cap {x \in 1 .. 256 : x > v})

Strhash(s, seed) == FoldLeft(LAMBDA h, c : (h * (2 * seed + 3) + c) % 251, seed + Len(s), s)

MaxSeed == 60

\* A bucket gets the first seed that sends its rules to free, distinct slots.
Place(t, mask, n, bucket) ==
  LET slot(s, seed) == Strhash(s, seed) % mask
      good(seed) == /\ \A s \in bucket : t.level1[slot(s, seed)] = {}
                    /\ \A s1, s2 \in bucket : slot(s1, seed) = slot(s2, seed) => s1 = s2
      seed == Min({k \in 0 .. MaxSeed : good(k)})
  IN [level0 |-> [t.level0 EXCEPT ![n] = seed],
      level1 |-> [i \in DOMAIN t.level1 |->
                    t.level1[i] \cup {s \in bucket : slot(s, seed) = i}]]

MphBuild(m) ==
  LET keys == DOMAIN m
      size0 == NextPow2(Cardinality(keys) \div 4)
      size1 == NextPow2(Cardinality(keys))
      bucket(n) == {s \in keys : m[s] % size0 = n}
      order == SetToSortSeq({n \in 0 .. size0 - 1 : bucket(n) # {}},
                 LAMBDA x, y : \/ Cardinality(bucket(x)) > Cardinality(bucket(y))
                               \/ Cardinality(bucket(x)) = Cardinality(bucket(y)) /\ x < y)
  IN FoldLeft(LAMBDA t, n : Place(t, size1, n, bucket(n)),
              [level0 |-> [n \in 0 .. size0 - 1 |-> 0],
               level1 |-> [i \in 0 .. size1 - 1 |-> {}]], order)

Lookup(t, h, s) ==
  LET seed == t.level0[h % Cardinality(DOMAIN t.level0)]
  IN s \in t.level1[Strhash(s, seed) % Cardinality(DOMAIN t.level1)]

MatchMph(t, a, s) ==
  \/ \E i \in DOMAIN s :
       s[i] = Dot /\ Lookup(t, RollingHash(SubSeq(s, i, Len(s))), SubSeq(s, i, Len(s)))
  \/ Lookup(t, RollingHash(s), s)
  \/ ACMatch(a, s)

-----------------------------------------------------------------------------
\* MatcherGroup.Add and MphMatcherGroup.AddPattern of one rule.
AddTo(st, m) ==
  [group |-> AddMatcher(st.group, m),
   ac |-> IF m.t = "substr" THEN ACAdd(st.ac, m.s, m.t) ELSE st.ac,
   ruleMap |-> IF m.t = "substr" THEN st.ruleMap ELSE AddFullOrDomainPattern(st.ruleMap, m)]

MatchInit ==
  /\ rules \in Lists
  /\ LET st == FoldLeft(AddTo, [group |-> NewGroup, ac |-> NewACAutomaton, ruleMap |-> <<>>],
                        rules)
     IN group = st.group /\ ac = st.ac /\ ruleMap = st.ruleMap
  /\ table = <<>>
  /\ built = FALSE

AddPattern ==
  /\ ~built /\ Len(rules) < MaxRules
  /\ \E p \in Patterns, t \in Types :
       LET m == [s |-> p, t |-> t]
           st == AddTo([group |-> group, ac |-> ac, ruleMap |-> ruleMap], m)
       IN /\ rules' = Append(rules, m)
          /\ group' = st.group /\ ac' = st.ac /\ ruleMap' = st.ruleMap
  /\ UNCHANGED <<table, built>>

Build ==
  /\ ~built
  /\ built' = TRUE
  /\ ac' = ACBuild(ac)
  /\ table' = MphBuild(IF ruleMap = <<>> THEN [s \in {<<>>} |-> 0] ELSE ruleMap)
  /\ ruleMap' = <<>>
  /\ UNCHANGED <<rules, group>>

MatchNext == AddPattern \/ Build

MatchSpec == MatchInit /\ [][MatchNext]_matchVars

-----------------------------------------------------------------------------
\* The rules of a type that match a domain, taken one by one.
Matching(s, t) == {i \in DOMAIN rules : rules[i].t = t /\ MatchOne(rules[i], s)}

\* MatcherGroup.Match returns exactly the rules that match, exact rules before
\* domains, a longer domain before a shorter one, and equals as they were added.
GroupFindsAll ==
  \A s \in Inputs \ {<<>>} :
    LET found == MatchGroup(group, s)
        rank(i) == CASE rules[i].t = "full" -> 0
                     [] rules[i].t = "domain" -> 1 + (9 - Len(rules[i].s))
                     [] OTHER -> 99
    IN /\ Range(found) = UNION {Matching(s, t) : t \in Types}
       /\ \A i, j \in DOMAIN found : i < j =>
            \/ rank(found[i]) < rank(found[j])
            \/ rank(found[i]) = rank(found[j]) /\ found[i] < found[j]

\* The hash table and the automaton say yes to a domain that an exact or a domain
\* rule matches, and to no domain that no rule matches, whatever the hashes.
TableIsExact ==
  built => \A s \in Inputs \ {<<>>} :
    /\ MatchMph(table, ac, s) => \E i \in DOMAIN rules : MatchOne(rules[i], s)
    /\ Matching(s, "full") \cup Matching(s, "domain") # {} => MatchMph(table, ac, s)

\* "Substr is the type of matcher that the input string must contain the pattern
\* as a sub-string": the automaton finds every keyword a domain contains.
KeywordsAreFound ==
  built => \A s \in Inputs : Matching(s, "substr") # {} => ACMatch(ac, s)

-----------------------------------------------------------------------------
(***************************************************************************)
(* infra/conf/common.go: how ports, lists of ports and integer ranges are  *)
(* read from a configuration and written back to one.                      *)
(*                                                                         *)
(* A value of the configuration is a JSON number or a JSON string; a       *)
(* string is a sequence of tokens [k, v]: a number without sign ("n"), a   *)
(* dash, a comma, a blank or the name of a variable after "env:".          *)
(* MaxPort stands for 65535, MaxInt for the largest int32.                 *)
(***************************************************************************)

CONSTANTS MaxPort, MaxInt, Kinds, Numbers, Texts,
          EnvValue      \* what the environment variable holds

VARIABLES kind,         \* "range" (PortRange), "list" (PortList), "int" (Int32Range)
          json,         \* the value to be read
          value,        \* <<v>>: what was read; <<>>: an error, or nothing yet
          first,        \* the first value that was read
          trips         \* times it was read

rangeVars == <<kind, json, value, first, trips>>

N(v) == [k |-> "n", v |-> v]
Dash == [k |-> "-", v |-> 0]
Comma == [k |-> ",", v |-> 0]

Number(v) == [str |-> FALSE, num |-> v, text |-> <<>>]
String(t) == [str |-> TRUE, num |-> 0, text |-> t]

\* strings.SplitN(s, sep, 2), and where the first sep is.
Places(s, sep) == {i \in DOMAIN s : s[i] = sep}
Cut(s, i) == <<SubSeq(s, 1, i - 1), SubSeq(s, i + 1, Len(s))>>

TrimSpace(s) ==
    LET ink == {i \in DOMAIN s : s[i].k # " "}
    IN  IF ink = {} THEN <<>> ELSE SubSeq(s, Min(ink), Max(ink))

(* net.Port *)

PortFromInt(n) == IF n > MaxPort \/ n < 0 THEN <<>> ELSE <<n>>
PortFromString(s) == IF Len(s) = 1 /\ s[1].k = "n" THEN PortFromInt(s[1].v) ELSE <<>>

(* PortRange *)

parseStringPort(text) ==
    LET s == IF text # <<>> /\ Head(text).k = "env" THEN EnvValue ELSE text
        pair == IF Places(s, Dash) = {} THEN <<s, s>> ELSE Cut(s, Min(Places(s, Dash)))
        from == PortFromString(pair[1])
        to == PortFromString(pair[2])
    IN  IF from = <<>> \/ to = <<>> THEN <<>> ELSE <<[from |-> from[1], to |-> to[1]]>>

UnmarshalPortRange(j) ==
    LET int == IF j.str THEN <<>> ELSE PortFromInt(j.num)
        pair == IF j.str THEN parseStringPort(j.text) ELSE <<>>
    IN  IF int # <<>> THEN <<[from |-> int[1], to |-> int[1]]>>
        ELSE IF pair # <<>> /\ pair[1].from <= pair[1].to THEN pair ELSE <<>>

PortRangeString(r) == IF r.from = r.to THEN <<N(r.from)>> ELSE <<N(r.from), Dash, N(r.to)>>

(* PortList *)

\* strings.Split(s, ",")
Split(s) ==
    LET cuts == SetToSortSeq(Places(s, Comma), <)
        from(i) == IF i = 1 THEN 1 ELSE cuts[i - 1] + 1
        to(i) == IF i > Len(cuts) THEN Len(s) ELSE cuts[i] - 1
    IN  [i \in 1 .. Len(cuts) + 1 |-> SubSeq(s, from(i), to(i))]

\* One entry of the list: a plain number is read as one, without a range.
Entry(s) ==
    IF Places(s, Dash) # {} \/ \E i \in DOMAIN s : s[i].k = "env" THEN parseStringPort(s)
    ELSE LET p == PortFromString(s)
         IN  IF p = <<>> THEN <<>> ELSE <<[from |-> p[1], to |-> p[1]]>>

\* A JSON number is taken as it is, unless it is 0; PortFromInt is not asked.
UnmarshalPortList(j) ==
    LET trimmed == [i \in DOMAIN Split(j.text) |-> TrimSpace(Split(j.text)[i])]
        entries == SelectSeq(trimmed, LAMBDA s : s # <<>>)
        read == [i \in DOMAIN entries |-> Entry(entries[i])]
    IN  IF ~j.str THEN IF j.num < 0 THEN <<>>
                       ELSE IF j.num = 0 THEN <<<<>>>>
                       ELSE <<<<[from |-> j.num, to |-> j.num]>>>>
        ELSE IF \E i \in DOMAIN read : read[i] = <<>> THEN <<>>
        ELSE <<[i \in DOMAIN read |-> read[i][1]]>>

PortListString(list) ==
    FlattenSeq([i \in DOMAIN list |->
        (IF i = 1 THEN <<>> ELSE <<Comma>>) \o PortRangeString(list[i])])

\* A list that prints as one number is marshalled as that number.
MarshalPortList(list) ==
    LET s == PortListString(list)
    IN  IF Len(s) = 1 THEN Number(s[1].v) ELSE String(s)

(* Int32Range *)

\* strconv.Atoi
Atoi(s) == CASE Len(s) = 1 /\ s[1].k = "n" -> <<s[1].v>>
             [] Len(s) = 2 /\ s[1] = Dash /\ s[2].k = "n" -> <<-s[2].v>>
             [] OTHER -> <<>>

splitFromFirstDash(s) == IF Places(s, Dash) = {} THEN <<s>> ELSE Cut(s, Min(Places(s, Dash)))

splitFromSecondDash(s) ==
    LET second == Places(s, Dash) \ {1}
    IN  IF second = {} THEN <<s>> ELSE Cut(s, Min(second))

ParseRangeString(s) ==
    LET pair == IF s # <<>> /\ Head(s) = Dash THEN splitFromSecondDash(s)
                                              ELSE splitFromFirstDash(s)
        left == Atoi(pair[1])
        right == Atoi(pair[2])
    IN  IF Atoi(s) # <<>> THEN <<[left |-> Atoi(s)[1], right |-> Atoi(s)[1]]>>
        ELSE IF s = <<>> THEN <<[left |-> 0, right |-> 0]>>
        ELSE IF Len(pair) = 2 /\ left # <<>> /\ right # <<>>
        THEN <<[left |-> left[1], right |-> right[1]]>>
        ELSE <<>>

\* int32(n): what does not fit wraps around.
Int32(n) == ((n + MaxInt + 1) % (2 * MaxInt + 2)) - MaxInt - 1

ensureOrder(l, r) == [left |-> l, right |-> r, from |-> Min({l, r}), to |-> Max({l, r})]

UnmarshalInt32Range(j) ==
    LET read == IF j.str THEN ParseRangeString(j.text)
                ELSE IF Int32(j.num) = j.num THEN <<[left |-> j.num, right |-> j.num]>> ELSE <<>>
    IN  IF read = <<>> THEN <<>>
        ELSE <<ensureOrder(Int32(read[1].left), Int32(read[1].right))>>

Signed(n) == IF n < 0 THEN <<Dash, N(-n)>> ELSE <<N(n)>>

Int32RangeString(v) ==
    IF v.left = v.right THEN Signed(v.left) ELSE Signed(v.left) \o <<Dash>> \o Signed(v.right)

Unmarshal == CASE kind = "range" -> UnmarshalPortRange(json)
               [] kind = "list" -> UnmarshalPortList(json)
               [] kind = "int" -> UnmarshalInt32Range(json)

Marshal(v) == CASE kind = "range" -> String(PortRangeString(v))
                [] kind = "list" -> MarshalPortList(v)
                [] kind = "int" -> String(Int32RangeString(v))

RangeInit ==
  /\ kind \in Kinds
  /\ json \in {Number(n) : n \in Numbers} \cup {String(t) : t \in Texts}
  /\ value = <<>> /\ first = <<>>
  /\ trips = 0

\* The configuration is read.
Load ==
    /\ trips < 3 /\ (trips = 0 \/ value # <<>>)
    /\ value' = Unmarshal
    /\ first' = IF trips = 0 THEN Unmarshal ELSE first
    /\ trips' = trips + 1
    /\ UNCHANGED <<kind, json>>

\* What was read is written, to be read again.
Save ==
    /\ value # <<>> /\ json # Marshal(value[1])
    /\ json' = Marshal(value[1])
    /\ UNCHANGED <<kind, value, first, trips>>

RangeNext == Load \/ Save

RangeSpec == RangeInit /\ [][RangeNext]_rangeVars

(* What was read from a configuration, written and read again is the same:  *)
(* also ranges with negative ends and in descending order.  The exception   *)
(* is a PortList of port 0 alone, which is written as the number 0 and read *)
(* as no port.  An Int32Range is in order whatever order it was written in, *)
(* and no port exceeds MaxPort unless a PortList was given it as a JSON     *)
(* number.                                                                  *)
RangesKept ==
    /\ trips > 1 => \/ value = first
                    \/ kind = "list" /\ first = <<<<[from |-> 0, to |-> 0]>>>>
    /\ value # <<>> =>
        CASE kind = "int" -> /\ value[1].from <= value[1].to
                             /\ {value[1].from, value[1].to} = {value[1].left, value[1].right}
          [] kind = "range" -> value[1].from <= value[1].to /\ value[1].to <= MaxPort
          [] kind = "list" -> \A i \in DOMAIN value[1] :
                                 value[1][i].to > MaxPort => ~json.str
=============================================================================
