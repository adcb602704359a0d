--------------------------- MODULE OutboundProofs ---------------------------
(***************************************************************************)
(* Proofs about the handlers, and about the mux client that an outbound    *)
(* handler owns: for any number of handlers, tags, selectors and callers   *)
(* of Select, of dispatchers and workers, and any strategy.                *)
(***************************************************************************)
EXTENDS Handlers, MuxClient, FiniteSetTheorems, TLAPS

-----------------------------------------------------------------------------
(* The inbound manager *)

\* Every operation of the inbound manager keeps its listeners listed.
LEMMA ListenerIsListedStep ==
  ASSUME ListenerIsListed, [InboundNext]_inboundVars
  PROVE  ListenerIsListed'
<1> USE DEF ListenerIsListed
<1>1. ASSUME NEW t, NEW ws, InboundAddHandler(t, ws)
      PROVE  ListenerIsListed'
  <2>1. CASE inRunning
    <3>1. PICK up \in SUBSET ws : listening' = listening \cup ({inMade + 1} \X up)
      BY <1>1, <2>1, Zenon DEF InboundAddHandler, Started
    <3> QED
      BY <1>1, <3>1, Zenon DEF InboundAddHandler
  <2>2. CASE ~inRunning
    BY <1>1, <2>2, Zenon DEF InboundAddHandler
  <2> QED
    BY <2>1, <2>2, Zenon
<1>2. ASSUME NEW h \in InboundHandler, InboundRemoveHandler(h)
      PROVE  ListenerIsListed'
  BY <1>2, Zenon DEF InboundRemoveHandler
<1>3. ASSUME Start
      PROVE  ListenerIsListed'
  <2>1. PICK up \in SUBSET UNION {{h} \X inWorkers[h] : h \in inbounds} :
          listening' = listening \cup up
    BY <1>3, Zenon DEF Start
  <2>2. \A l \in up : l[1] \in inbounds
    BY <2>1
  <2> QED
    BY <1>3, <2>1, <2>2, Zenon DEF Start
<1>4. ASSUME Close
      PROVE  ListenerIsListed'
  BY <1>4, Zenon DEF Close
<1>5. ASSUME UNCHANGED inboundVars
      PROVE  ListenerIsListed'
  BY <1>5, Zenon DEF inboundVars
<1> QED
  BY <1>1, <1>2, <1>3, <1>4, <1>5, Zenon DEF InboundNext

\* A worker that listens belongs to a handler of the manager, whatever workers
\* failed to start (AddHandler keeps a handler whose Start fails).
THEOREM ListenersListed == InboundSpec => []ListenerIsListed
<1>1. InboundInit => ListenerIsListed
  BY Zenon DEF InboundInit, ListenerIsListed
<1> QED
  BY <1>1, ListenerIsListedStep, PTL DEF InboundSpec

-----------------------------------------------------------------------------
(* The outbound manager: the inductive invariant *)

\* The answer Select ought to give now.
Answer(key) == TagsOf(outbounds) \cap key

\* Handlers are numbered as they are made.
MadeInv ==
  /\ outMade \in Nat
  /\ outTag \in [OutboundHandler -> Tags \cup {NoTag}]
  /\ outbounds \subseteq 1..outMade /\ outMade <= MaxOutbounds
  /\ defaultHandler \in 0..outMade

\* Every answer in the cache in use is the right one.
CacheInv == \A k \in DOMAIN tagsCache : tagsCache[k] = Answer(k)

Caches == UNION {[D -> SUBSET Tags] : D \in SUBSET Selectors}

Call == [pc : {"idle", "loaded", "returned"}, key : SUBSET Tags, inUse : BOOLEAN,
         cache : Caches, seen : SUBSET SUBSET Tags, result : SUBSET Tags]

SelectTypeOK == tagsCache \in Caches /\ select \in [Callers -> Call]

\* The right answer of this moment is among those a call has seen, and so is the
\* one that the cache has which the call holds, in use or not.
CallInv ==
  \A c \in Callers :
    /\ select[c].pc # "idle" =>
         select[c].key \in Selectors /\ Answer(select[c].key) \in select[c].seen
    /\ select[c].pc = "loaded" /\ ~select[c].inUse /\ select[c].key \in DOMAIN select[c].cache =>
         select[c].cache[select[c].key] \in select[c].seen

SelectInv == MadeInv /\ SelectTypeOK /\ CacheInv /\ CallInv /\ SelectIsCurrent

-----------------------------------------------------------------------------
(* Facts about caches and tags *)

LEMMA EmptyCache == Empty \in Caches /\ DOMAIN Empty = {}
<1>1. Empty \in [{} -> SUBSET Tags] /\ {} \in SUBSET Selectors
  BY Zenon DEF Empty
<1> QED
  BY <1>1, Zenon DEF Caches, Empty

\* What is stored in a cache is found there, with all the rest.
LEMMA CacheStore ==
  ASSUME NEW cache \in Caches, NEW key \in Selectors, NEW r \in SUBSET Tags
  PROVE  [k \in DOMAIN cache \cup {key} |-> IF k = key THEN r ELSE cache[k]] \in Caches
<1>1. PICK D \in SUBSET Selectors : cache \in [D -> SUBSET Tags]
  BY Zenon DEF Caches
<1>2. [k \in DOMAIN cache \cup {key} |-> IF k = key THEN r ELSE cache[k]] \in [D \cup {key} -> SUBSET Tags]
  BY <1>1, Zenon
<1> QED
  BY <1>2, D \cup {key} \in SUBSET Selectors, Zenon DEF Caches

LEMMA CacheEntry ==
  ASSUME NEW cache \in Caches, NEW key \in DOMAIN cache
  PROVE  cache[key] \in SUBSET Tags
BY DEF Caches

\* Selectors do not select the untagged.
LEMMA AnswerIsTags ==
  ASSUME MadeInv, NEW key \in SUBSET Tags
  PROVE  Answer(key) \in SUBSET Tags
BY Zenon DEF Answer

\* The tags after AddHandler, whether the handler is added or its tag is taken.
LEMMA TagsAfterAdd ==
  ASSUME MadeInv, NEW t \in Tags \cup {NoTag}, OutboundAddHandler(t), NEW key \in SUBSET Tags
  PROVE  Answer(key)' = (TagsOf(outbounds) \cup {t}) \cap key
<1>1. outMade + 1 \in OutboundHandler /\ outMade + 1 \notin outbounds
  BY HandlersAssumption DEF MadeInv, OutboundAddHandler, OutboundHandler
<1>2. \A h \in outbounds : outTag'[h] = outTag[h]
  BY <1>1 DEF MadeInv, OutboundAddHandler, OutboundHandler
<1>3. outTag'[outMade + 1] = t
  BY <1>1, Zenon DEF MadeInv, OutboundAddHandler
<1>4. CASE Taken(t)
  <2>1. outbounds' = outbounds
    BY <1>4, Zenon DEF OutboundAddHandler
  <2> QED
    BY <1>2, <1>4, <2>1, Zenon DEF Answer, TagsOf, Taken
<1>5. CASE ~Taken(t)
  <2>1. outbounds' = outbounds \cup {outMade + 1}
    BY <1>5, Zenon DEF OutboundAddHandler
  <2> QED
    BY <1>2, <1>3, <2>1, HandlersAssumption DEF Answer, TagsOf
<1> QED
  BY <1>4, <1>5, Zenon

\* The tags after RemoveHandler.
LEMMA TagsAfterRemove ==
  ASSUME MadeInv, NEW t \in Tags \cup {NoTag}, OutboundRemoveHandler(t), NEW key
  PROVE  Answer(key)' = TagsOf({h \in outbounds : outTag[h] # t}) \cap key
BY Zenon DEF OutboundRemoveHandler, Answer, TagsOf

-----------------------------------------------------------------------------
(* The outbound manager: the steps *)

LEMMA MadeInvStep ==
  ASSUME MadeInv, [OutboundNext]_outboundVars
  PROVE  MadeInv'
<1> USE HandlersAssumption DEF MadeInv
<1>1. ASSUME NEW t \in Tags \cup {NoTag}, OutboundAddHandler(t)
      PROVE  MadeInv'
  <2>1. outMade + 1 \in OutboundHandler
    BY <1>1 DEF OutboundAddHandler, OutboundHandler
  <2> QED
    BY <1>1, <2>1 DEF OutboundAddHandler
<1>2. ASSUME NEW t \in Tags \cup {NoTag}, OutboundRemoveHandler(t)
      PROVE  MadeInv'
  <2>1. outbounds' \subseteq outbounds /\ outMade' = outMade /\ outTag' = outTag
    BY <1>2, Zenon DEF OutboundRemoveHandler
  <2>2. defaultHandler' \in {0, defaultHandler}
    BY <1>2, Zenon DEF OutboundRemoveHandler, None
  <2> QED
    BY <2>1, <2>2
<1>3. ASSUME UNCHANGED <<outTag, outbounds, defaultHandler, outMade>>
      PROVE  MadeInv'
  BY <1>3, Zenon
<1> QED
  BY Zenon, <1>1, <1>2, <1>3
  DEF OutboundNext, SelectLoads, SelectHits, SelectMisses, SelectReturns, outboundVars

\* A change of the handlers: the cache is replaced, calls keep the one they hold,
\* and the new right answer is added to what they have seen.
LEMMA ChangedKeeps ==
  ASSUME MadeInv, MadeInv', SelectTypeOK, CacheInv, CallInv, SelectIsCurrent,
         NEW STATE tags, Changed(tags, TRUE), tagsCache' = Empty,
         \A key \in SUBSET Tags : Answer(key)' = tags \cap key
  PROVE  SelectTypeOK' /\ CacheInv' /\ CallInv' /\ SelectIsCurrent'
<1>1. CacheInv' /\ tagsCache' \in Caches
  BY EmptyCache, Zenon DEF CacheInv
<1>2. ASSUME NEW c \in Callers, select[c].pc = "idle"
      PROVE  select'[c] = select[c]
  BY <1>2, Zenon DEF Changed
<1>3. ASSUME NEW c \in Callers, select[c].pc # "idle"
      PROVE  /\ select'[c] \in Call
             /\ select'[c].pc = select[c].pc /\ select'[c].key = select[c].key
             /\ select'[c].result = select[c].result
             /\ select'[c].seen = select[c].seen \cup {tags \cap select[c].key}
             /\ select'[c].cache = CacheOf(c) /\ ~select'[c].inUse
  <2>1. select[c] \in Call /\ select[c].key \in SUBSET Tags
    BY Zenon DEF SelectTypeOK, Call
  <2>2. CacheOf(c) \in Caches
    BY <2>1, Zenon DEF SelectTypeOK, CacheOf, Call
  <2>3. select'[c] = [select[c] EXCEPT !.seen = @ \cup {tags \cap select[c].key},
                                       !.cache = CacheOf(c), !.inUse = FALSE]
    BY <1>3, <2>1, Zenon DEF Changed, Call
  <2>4. tags \cap select[c].key \in SUBSET Tags
    BY <2>1, Zenon
  <2>5. select[c].seen \cup {tags \cap select[c].key} \in SUBSET SUBSET Tags
    BY <2>1, <2>4, Zenon DEF Call
  <2>6. select'[c] = [pc |-> select[c].pc, key |-> select[c].key, inUse |-> FALSE,
                      cache |-> CacheOf(c), seen |-> select[c].seen \cup {tags \cap select[c].key},
                      result |-> select[c].result]
    BY <2>1, <2>3, Zenon DEF Call
  <2>7. select'[c] \in Call
    BY <2>1, <2>2, <2>5, <2>6 DEF Call
  <2> QED
    BY <2>6, <2>7
<1>4. SelectTypeOK'
  BY <1>1, <1>2, <1>3, Zenon DEF SelectTypeOK, Changed
<1>5. SelectIsCurrent'
  BY <1>2, <1>3, Zenon DEF SelectIsCurrent
<1>6. ASSUME NEW c \in Callers, select[c].pc = "loaded", select[c].key \in DOMAIN CacheOf(c)
      PROVE  CacheOf(c)[select[c].key] \in select[c].seen
  BY <1>6, Zenon DEF CallInv, CacheInv, CacheOf
<1>7. ASSUME NEW c \in Callers, select'[c].pc # "idle"
      PROVE  /\ select'[c].key \in Selectors
             /\ tags \cap select'[c].key = Answer(select[c].key)'
             /\ tags \cap select'[c].key \in select'[c].seen
             /\ select'[c].pc = "loaded" /\ select'[c].key \in DOMAIN select'[c].cache =>
                  select'[c].cache[select'[c].key] \in select'[c].seen
  <2>1. select[c].pc # "idle"
    BY <1>2, <1>7, Zenon
  <2>2. select'[c].key \in Selectors
    BY <1>3, <2>1, Zenon DEF CallInv
  <2> QED
    BY <1>3, <1>6, <2>1, <2>2, HandlersAssumption, Zenon
<1>8. CallInv'
  BY <1>7, Zenon DEF CallInv
<1> QED
  BY <1>1, <1>4, <1>5, <1>8, Zenon

\* A step of one call leaves the handlers alone: the other calls see the same
\* right answers, and perhaps one more of them in the cache.
LEMMA SelectStep ==
  ASSUME SelectInv, NEW c \in Callers,
         \/ SelectHits(c) \/ SelectMisses(c) \/ SelectReturns(c)
         \/ \E k \in Selectors : SelectLoads(c, k)
  PROVE  SelectTypeOK' /\ CacheInv' /\ CallInv' /\ SelectIsCurrent'
<1> USE DEF SelectInv
<1>1. \A k : Answer(k)' = Answer(k)
  BY Zenon DEF Answer, TagsOf, SelectHits, SelectMisses, SelectReturns, SelectLoads
<1>2. select[c] \in Call
  BY Zenon DEF SelectTypeOK
<1>3. ASSUME SelectHits(c) \/ SelectMisses(c)
      PROVE  /\ tagsCache' \in Caches /\ CacheInv'
             /\ select[c].pc = "loaded"
             /\ \E r \in SUBSET Tags : r \in select[c].seen /\ Return(c, r)
  <2>1. select[c].pc = "loaded" /\ select[c].key \in Selectors /\ select[c].key \in SUBSET Tags
    BY <1>2, <1>3, Zenon DEF SelectHits, SelectMisses, CallInv, Call
  <2>2. CASE SelectHits(c)
    <3>1. CacheOf(c)[select[c].key] \in select[c].seen
      BY <2>1, <2>2, Zenon DEF SelectHits, CallInv, CacheInv, CacheOf
    <3>2. CacheOf(c)[select[c].key] \in SUBSET Tags
      BY <1>2, <3>1, Zenon DEF Call
    <3> QED
      BY <1>1, <2>1, <2>2, <3>1, <3>2, Zenon DEF SelectHits, CacheInv, SelectTypeOK
  <2>3. CASE SelectMisses(c)
    <3>1. Return(c, Answer(select[c].key)) /\ Answer(select[c].key) \in select[c].seen
      BY <2>1, <2>3, Zenon DEF SelectMisses, Answer, CallInv
    <3>2. Answer(select[c].key) \in SUBSET Tags
      BY <2>1, AnswerIsTags, Zenon
    <3>3. tagsCache' = [k \in DOMAIN tagsCache \cup {select[c].key} |->
                          IF k = select[c].key THEN Answer(select[c].key) ELSE tagsCache[k]]
      BY <2>3, Zenon DEF SelectMisses, Answer
    <3>4. tagsCache' \in Caches
      BY <2>1, <3>2, <3>3, CacheStore, Zenon DEF SelectTypeOK
    <3>5. CacheInv'
      BY <1>1, <3>3, Zenon DEF CacheInv
    <3> QED
      BY <2>1, <3>1, <3>2, <3>4, <3>5, Zenon
  <2> QED
    BY <1>3, <2>2, <2>3, Zenon
<1>4. ASSUME NEW r \in SUBSET Tags, r \in select[c].seen, Return(c, r), select[c].pc = "loaded"
      PROVE  select' \in [Callers -> Call] /\ CallInv' /\ SelectIsCurrent'
  <2>1. select' = [select EXCEPT ![c] = [select[c] EXCEPT !.pc = "returned", !.result = r]]
    BY <1>4, <1>2, Zenon DEF Return, SelectTypeOK, Call
  <2>2. /\ select'[c] \in Call
        /\ select'[c].pc = "returned" /\ select'[c].key = select[c].key
        /\ select'[c].seen = select[c].seen /\ select'[c].result = r
    BY <1>2, <2>1, Zenon DEF SelectTypeOK, Call
  <2>3. \A d \in Callers \ {c} : select'[d] = select[d]
    BY <2>1, Zenon DEF SelectTypeOK
  <2>4. select' \in [Callers -> Call]
    BY <2>1, <2>2, Zenon DEF SelectTypeOK
  <2>5. select[c].key \in Selectors /\ Answer(select[c].key) \in select[c].seen
    BY <1>4, Zenon DEF CallInv
  <2>6. CallInv'
    BY <1>1, <2>2, <2>3, <2>5, Zenon DEF CallInv
  <2>7. SelectIsCurrent'
    BY <1>4, <2>2, <2>3, Zenon DEF SelectIsCurrent
  <2> QED
    BY <2>4, <2>6, <2>7, Zenon
<1>5. ASSUME SelectReturns(c)
      PROVE  SelectTypeOK' /\ CacheInv' /\ CallInv' /\ SelectIsCurrent'
  <2>1. Idle \in Call /\ Idle.pc = "idle"
    BY EmptyCache, Zenon DEF Idle, Call
  <2>2. select'[c] = Idle /\ \A d \in Callers \ {c} : select'[d] = select[d]
    BY <1>5, Zenon DEF SelectReturns, SelectTypeOK
  <2>3. SelectTypeOK'
    BY <1>5, <2>1, Zenon DEF SelectReturns, SelectTypeOK
  <2>4. CacheInv'
    BY <1>1, <1>5, Zenon DEF SelectReturns, CacheInv
  <2> QED
    BY <1>1, <2>1, <2>2, <2>3, <2>4, Zenon DEF CallInv, SelectIsCurrent
<1>6. ASSUME NEW k \in Selectors, SelectLoads(c, k)
      PROVE  SelectTypeOK' /\ CacheInv' /\ CallInv' /\ SelectIsCurrent'
  <2> DEFINE call == [pc |-> "loaded", key |-> k, inUse |-> TRUE, cache |-> Empty,
                      seen |-> {Answer(k)}, result |-> {}]
  <2>1. k \in SUBSET Tags /\ Answer(k) \in SUBSET Tags
    BY HandlersAssumption, AnswerIsTags, Zenon
  <2>2. call \in Call
    BY <2>1, EmptyCache, Zenon DEF Call
  <2>3. select' = [select EXCEPT ![c] = call]
    BY <1>6, Zenon DEF SelectLoads, Answer
  <2>4. select'[c] = call /\ \A d \in Callers \ {c} : select'[d] = select[d]
    BY <2>3, Zenon DEF SelectTypeOK
  <2>5. SelectTypeOK'
    BY <1>6, <2>2, <2>3, Zenon DEF SelectLoads, SelectTypeOK
  <2>6. CacheInv'
    BY <1>1, <1>6, Zenon DEF SelectLoads, CacheInv
  <2>7. CallInv'
    BY <1>1, <2>4 DEF CallInv
  <2>8. SelectIsCurrent'
    BY <2>4 DEF SelectIsCurrent
  <2> QED
    BY <2>5, <2>6, <2>7, <2>8, Zenon
<1>7. ASSUME SelectHits(c) \/ SelectMisses(c)
      PROVE  SelectTypeOK' /\ CacheInv' /\ CallInv' /\ SelectIsCurrent'
  BY <1>3, <1>4, <1>7, Zenon DEF SelectTypeOK
<1> QED
  BY <1>5, <1>6, <1>7, Zenon

\* Every step of the outbound manager keeps the invariant.
LEMMA SelectInvStep ==
  ASSUME SelectInv, [OutboundNext]_outboundVars
  PROVE  SelectInv'
<1>1. MadeInv'
  BY MadeInvStep, Zenon DEF SelectInv
<1>2. ASSUME NEW t \in Tags \cup {NoTag}, OutboundAddHandler(t)
      PROVE  SelectInv'
  <2>1. \A key \in SUBSET Tags : Answer(key)' = (TagsOf(outbounds) \cup {t}) \cap key
    BY <1>2, TagsAfterAdd, Zenon DEF SelectInv
  <2> QED
    BY <1>1, <1>2, <2>1, ChangedKeeps, Zenon DEF SelectInv, OutboundAddHandler
<1>3. ASSUME NEW t \in Tags \cup {NoTag}, OutboundRemoveHandler(t)
      PROVE  SelectInv'
  <2>1. \A key \in SUBSET Tags : Answer(key)' = TagsOf({h \in outbounds : outTag[h] # t}) \cap key
    BY <1>3, TagsAfterRemove, Zenon DEF SelectInv
  <2> QED
    BY <1>1, <1>3, <2>1, ChangedKeeps, Zenon DEF SelectInv, OutboundRemoveHandler
<1>4. ASSUME NEW c \in Callers,
             \/ SelectHits(c) \/ SelectMisses(c) \/ SelectReturns(c)
             \/ \E k \in Selectors : SelectLoads(c, k)
      PROVE  SelectInv'
  BY <1>1, <1>4, SelectStep, Zenon DEF SelectInv
<1>5. ASSUME UNCHANGED outboundVars
      PROVE  SelectInv'
  BY <1>5 DEF outboundVars, SelectInv, MadeInv, SelectTypeOK, CacheInv, CallInv, SelectIsCurrent,
     Answer, TagsOf
<1> QED
  BY <1>2, <1>3, <1>4, <1>5, Zenon DEF OutboundNext

\* The default handler is listed, or a handler with its tag is.
LEMMA DefaultIsListedStep ==
  ASSUME MadeInv, DefaultIsListed, [OutboundNext]_outboundVars
  PROVE  DefaultIsListed'
<1>1. ASSUME NEW t \in Tags \cup {NoTag}, OutboundAddHandler(t)
      PROVE  DefaultIsListed'
  <2>1. outMade + 1 \in OutboundHandler /\ outMade + 1 \notin outbounds
    BY <1>1, HandlersAssumption DEF MadeInv, OutboundAddHandler, OutboundHandler
  <2>2. \A h \in 1..outMade : outTag'[h] = outTag[h]
    BY <1>1, <2>1, HandlersAssumption DEF MadeInv, OutboundAddHandler, OutboundHandler
  <2>3. outTag'[outMade + 1] = t
    BY <1>1, <2>1, Zenon DEF MadeInv, OutboundAddHandler
  <2>4. TagsOf(outbounds) \subseteq TagsOf(outbounds)'
    BY <1>1, <2>2, Zenon DEF TagsOf, MadeInv, OutboundAddHandler
  <2>5. CASE defaultHandler = None
    BY <1>1, <2>3, <2>4, <2>5, Zenon DEF OutboundAddHandler, DefaultIsListed, Taken
  <2>6. CASE defaultHandler # None
    <3>1. defaultHandler' = defaultHandler /\ defaultHandler \in 1..outMade
      BY <1>1, <2>6 DEF OutboundAddHandler, MadeInv, None
    <3> QED
      BY <1>1, <2>2, <2>4, <2>6, <3>1, Zenon DEF OutboundAddHandler, DefaultIsListed, Taken
  <2> QED
    BY <2>5, <2>6, Zenon
<1>2. ASSUME NEW t \in Tags \cup {NoTag}, OutboundRemoveHandler(t)
      PROVE  DefaultIsListed'
  BY <1>2, Zenon DEF OutboundRemoveHandler, DefaultIsListed, Taken, TagsOf
<1>3. ASSUME UNCHANGED <<outTag, outbounds, defaultHandler, outMade>>
      PROVE  DefaultIsListed'
  BY <1>3, Zenon DEF DefaultIsListed, Taken, TagsOf
<1> QED
  BY Zenon, <1>1, <1>2, <1>3
  DEF OutboundNext, SelectLoads, SelectHits, SelectMisses, SelectReturns, outboundVars

\* A Select returns what was right at some moment of the call, and the default
\* handler is never one whose tag was removed, in any interleaving of Select
\* with AddHandler and RemoveHandler.
THEOREM OutboundsKnown == OutboundSpec => []OutboundsAreKnown
<1>1. OutboundInit => SelectInv /\ DefaultIsListed
  <2> SUFFICES ASSUME OutboundInit PROVE SelectInv /\ DefaultIsListed
    BY Zenon
  <2>1. Idle \in Call /\ Idle.pc = "idle"
    BY EmptyCache, Zenon DEF Idle, Call
  <2>2. MadeInv /\ DefaultIsListed
    BY HandlersAssumption DEF OutboundInit, MadeInv, DefaultIsListed, None
  <2>3. SelectTypeOK /\ CacheInv
    BY <2>1, EmptyCache, Zenon DEF OutboundInit, SelectTypeOK, CacheInv
  <2>4. CallInv /\ SelectIsCurrent
    BY <2>1, Zenon DEF OutboundInit, CallInv, SelectIsCurrent
  <2> QED
    BY <2>2, <2>3, <2>4, Zenon DEF SelectInv
<1>2. SelectInv /\ DefaultIsListed /\ [OutboundNext]_outboundVars => (SelectInv /\ DefaultIsListed)'
  BY SelectInvStep, DefaultIsListedStep, Zenon DEF SelectInv
<1>3. SelectInv /\ DefaultIsListed => OutboundsAreKnown
  BY Zenon DEF SelectInv, OutboundsAreKnown
<1> QED
  BY <1>1, <1>2, <1>3, PTL DEF OutboundSpec

-----------------------------------------------------------------------------
(* The mux client: the strategy is kept, and managers list what is open *)

StrategyInv ==
  /\ DOMAIN sessions = Workers /\ DOMAIN count = Workers
  /\ \A w \in Workers : IsFiniteSet(sessions[w]) /\ count[w] \in Nat
  /\ WithinStrategy

\* A session that leaves its manager frees a place and takes none.
LEMMA LeavingKeepsStrategy ==
  ASSUME StrategyInv, DOMAIN sessions' = Workers, UNCHANGED count,
         \A w \in Workers : sessions'[w] \subseteq sessions[w]
  PROVE  StrategyInv'
<1>1. ASSUME NEW w \in Workers
      PROVE  /\ IsFiniteSet(sessions'[w])
             /\ Cardinality(sessions'[w]) <= Cardinality(sessions[w])
             /\ Cardinality(sessions'[w]) \in Nat /\ Cardinality(sessions[w]) \in Nat
  BY FS_Subset, FS_CardinalityType, Zenon DEF StrategyInv
<1> QED
  BY <1>1, StrategyAssumption DEF StrategyInv, WithinStrategy

\* Allocate looks at both limits and enters the session in one step.
LEMMA AllocateKeepsStrategy ==
  ASSUME StrategyInv, NEW d \in Dispatchers, Allocate(d)
  PROVE  StrategyInv'
<1> DEFINE v == worker[d]
<1>1. CASE UNCHANGED <<sessions, count>>
  BY <1>1, Zenon DEF StrategyInv, WithinStrategy
<1>2. CASE ~Full(v) /\ count' = [count EXCEPT ![v] = @ + 1] /\ sessions' = [sessions EXCEPT ![v] = @ \cup {d}]
  <2>1. CASE v \notin Workers
    BY <1>2, <2>1, Zenon DEF StrategyInv, WithinStrategy
  <2>2. CASE v \in Workers
    <3>1. /\ IsFiniteSet(sessions[v] \cup {d})
          /\ Cardinality(sessions[v] \cup {d}) <= Cardinality(sessions[v]) + 1
          /\ Cardinality(sessions[v]) \in Nat /\ Cardinality(sessions[v] \cup {d}) \in Nat
      <4>1. IsFiniteSet(sessions[v])
        BY <2>2, Zenon DEF StrategyInv
      <4>2. Cardinality(sessions[v]) \in Nat
        BY <4>1, FS_CardinalityType, Zenon
      <4>3. /\ IsFiniteSet(sessions[v] \cup {d})
            /\ Cardinality(sessions[v] \cup {d}) =
                 IF d \in sessions[v] THEN Cardinality(sessions[v]) ELSE Cardinality(sessions[v]) + 1
        BY <4>1, FS_AddElement, Zenon
      <4> QED
        BY <4>2, <4>3
    <3>2. /\ MaxConcurrency > 0 => Cardinality(sessions[v] \cup {d}) <= MaxConcurrency
          /\ MaxConnection > 0 => count[v] + 1 <= MaxConnection
      BY <1>2, <2>2, <3>1, StrategyAssumption DEF StrategyInv, Full
    <3>3. \A w \in Workers : IF w = v THEN sessions'[w] = sessions[v] \cup {d} /\ count'[w] = count[v] + 1
                                      ELSE sessions'[w] = sessions[w] /\ count'[w] = count[w]
      BY <1>2, <2>2, Zenon DEF StrategyInv
    <3>4. DOMAIN sessions' = Workers /\ DOMAIN count' = Workers
      BY <1>2, Zenon DEF StrategyInv
    <3> QED
      BY <2>2, <3>1, <3>2, <3>3, <3>4 DEF StrategyInv, WithinStrategy
  <2> QED
    BY <2>1, <2>2, Zenon
<1> QED
  BY <1>1, <1>2, Zenon DEF Allocate

LEMMA StrategyInvStep ==
  ASSUME StrategyInv, [Next]_vars
  PROVE  StrategyInv'
<1>1. ASSUME NEW d \in Dispatchers, Allocate(d)
      PROVE  StrategyInv'
  BY <1>1, AllocateKeepsStrategy, Zenon
<1>2. ASSUME NEW d \in Dispatchers, FetchInputEnds(d) \/ FetchOutputCloses(d)
      PROVE  StrategyInv'
  <2>1. UNCHANGED count /\ SessionClose(d)
    BY <1>2, Zenon DEF FetchInputEnds, FetchOutputCloses
  <2>2. DOMAIN sessions' = Workers /\ \A w \in Workers : sessions'[w] \subseteq sessions[w]
    BY <2>1, Zenon DEF SessionClose, StrategyInv
  <2> QED
    BY <2>1, <2>2, LeavingKeepsStrategy, Zenon
<1>3. ASSUME NEW w \in Workers, MonitorTick(w) \/ MonitorDone(w)
      PROVE  StrategyInv'
  <2>1. UNCHANGED count
    BY <1>3, Zenon DEF MonitorTick, MonitorDone
  <2>2. DOMAIN sessions' = Workers /\ \A v \in Workers : sessions'[v] \subseteq sessions[v]
    BY <1>3, Zenon DEF MonitorTick, MonitorDone, StrategyInv
  <2> QED
    BY <2>1, <2>2, LeavingKeepsStrategy, Zenon
<1>4. CASE UNCHANGED <<sessions, count>>
  BY <1>4, Zenon DEF StrategyInv, WithinStrategy
<1> QED
  BY <1>1, <1>2, <1>3, <1>4, Zenon
 DEF Next, DispatchStep, Dispatch, PickFound, PickCreate, PickFails, Cleanup, DispatchAsk, DispatchBind,
      DispatchWaited, DispatchCancelled, ConnectionEnds, MonitorSize, MonitorCount, vars, managerVars

\* No worker of a client manager carries more sessions at a time, or more in its
\* life, than its strategy allows, however many dispatchers share it.
THEOREM StrategyIsKept == Spec => []WithinStrategy
<1>1. Init => StrategyInv
  <2> SUFFICES ASSUME Init PROVE StrategyInv
    BY Zenon
  <2>1. IsFiniteSet({}) /\ Cardinality({}) = 0
    BY FS_EmptySet, Zenon
  <2> QED
    BY <2>1, StrategyAssumption DEF Init, StrategyInv, WithinStrategy
<1>2. StrategyInv /\ [Next]_vars => StrategyInv'
  BY StrategyInvStep, Zenon
<1>3. StrategyInv => WithinStrategy
  BY Zenon DEF StrategyInv
<1> QED
  BY <1>1, <1>2, <1>3, PTL DEF Spec

-----------------------------------------------------------------------------
\* The session of d has been allocated.
Allocated(d) == dpc[d] \in {"bind", "wait", "returned"}

ListTypeOK ==
  /\ sessions \in [Workers -> SUBSET Dispatchers]
  /\ dpc \in [Dispatchers -> {"idle", "pick", "ask", "allocate", "bind", "wait", "returned", "error", "gaveUp"}]
  /\ DOMAIN worker = Dispatchers /\ DOMAIN fetch = Dispatchers /\ DOMAIN smClosed = Workers
  /\ sclosed \in [Dispatchers -> BOOLEAN] /\ bound \in [Dispatchers -> BOOLEAN]

\* Listed is what has been allocated at the worker and not been closed; a manager
\* that is closed lists nothing.
ListInv ==
  /\ \A d \in Dispatchers : dpc[d] \in {"ask", "allocate", "bind", "wait", "returned"} => worker[d] \in Workers
  /\ \A w \in Workers : \A d \in sessions[w] : worker[d] = w /\ Allocated(d) /\ ~sclosed[d]
  /\ \A d \in Dispatchers : Allocated(d) /\ ~sclosed[d] => d \in sessions[worker[d]]
  /\ \A d \in Dispatchers : bound[d] \/ sclosed[d] \/ fetch[d] # "none" => Allocated(d)
  /\ \A w \in Workers : smClosed[w] => sessions[w] = {}

LEMMA ListInvStep ==
  ASSUME ListTypeOK, ListInv, [Next]_vars
  PROVE  ListTypeOK' /\ ListInv'
<1> USE DEF ListTypeOK, ListInv, Allocated
<1>1. ASSUME NEW d \in Dispatchers, Dispatch(d) PROVE ListTypeOK' /\ ListInv'
  BY <1>1, Zenon DEF Dispatch, workerVars, managerVars, sessionVars
<1>2. ASSUME NEW d \in Dispatchers, NEW w \in Workers, PickFound(d, w) PROVE ListTypeOK' /\ ListInv'
  BY <1>2 DEF PickFound, managerVars, sessionVars
<1>3. ASSUME NEW d \in Dispatchers, NEW w \in Workers, PickCreate(d, w) PROVE ListTypeOK' /\ ListInv'
  BY <1>3 DEF PickCreate, managerVars, sessionVars
<1>4. ASSUME NEW d \in Dispatchers, PickFails(d) PROVE ListTypeOK' /\ ListInv'
  BY <1>4, Zenon DEF PickFails, managerVars, sessionVars
<1>5. ASSUME NEW d \in Dispatchers, DispatchAsk(d) PROVE ListTypeOK' /\ ListInv'
  BY <1>5 DEF DispatchAsk, Retry, managerVars, sessionVars
<1>6. ASSUME NEW d \in Dispatchers, Allocate(d) PROVE ListTypeOK' /\ ListInv'
  BY <1>6 DEF Allocate, Retry, sessionVars
<1>7. ASSUME NEW d \in Dispatchers, NEW waits \in BOOLEAN, DispatchBind(d, waits) PROVE ListTypeOK' /\ ListInv'
  BY <1>7 DEF DispatchBind, managerVars
<1>8. ASSUME NEW d \in Dispatchers, DispatchWaited(d) \/ DispatchCancelled(d) PROVE ListTypeOK' /\ ListInv'
  BY <1>8 DEF DispatchWaited, DispatchCancelled, managerVars, sessionVars
<1>9. ASSUME NEW d \in Dispatchers, FetchInputEnds(d) PROVE ListTypeOK' /\ ListInv'
  BY <1>9 DEF FetchInputEnds, SessionClose, dispatchVars
<1>10. ASSUME NEW d \in Dispatchers, FetchOutputCloses(d) PROVE ListTypeOK' /\ ListInv'
  BY <1>10 DEF FetchOutputCloses, SessionClose, dispatchVars
<1>11. ASSUME NEW w \in Workers, MonitorTick(w) PROVE ListTypeOK' /\ ListInv'
  BY <1>11 DEF MonitorTick, CloseIfIdle, dispatchVars, sessionVars
<1>12. ASSUME NEW w \in Workers, MonitorDone(w) PROVE ListTypeOK' /\ ListInv'
  <2>1. \A d \in Dispatchers : sclosed'[d] <=> sclosed[d] \/ (~smClosed[w] /\ d \in sessions[w])
    BY <1>12, Zenon DEF MonitorDone, CloseManager
  <2>2. sclosed' \in [Dispatchers -> BOOLEAN]
    BY <1>12, Zenon DEF MonitorDone, CloseManager
  <2>3. sessions' = [sessions EXCEPT ![w] = {}] /\ smClosed' = [smClosed EXCEPT ![w] = TRUE]
    BY <1>12, Zenon DEF MonitorDone
  <2>4. UNCHANGED <<dpc, worker, bound, fetch>>
    BY <1>12, Zenon DEF MonitorDone, dispatchVars
  <2>5. ListTypeOK'
    BY <2>2, <2>3, <2>4, Zenon
  <2>6. \A d \in Dispatchers : Allocated(d) /\ ~sclosed'[d] => d \in sessions'[worker[d]]
    BY <2>1, <2>3, Zenon
  <2>7. \A v \in Workers : \A d \in sessions'[v] : worker[d] = v /\ Allocated(d) /\ ~sclosed'[d]
    BY <2>1, <2>3
  <2>8. \A d \in Dispatchers : sclosed'[d] => Allocated(d)
    BY <2>1, Zenon
  <2> QED
    BY <2>3, <2>4, <2>5, <2>6, <2>7, <2>8, Zenon
<1>13. CASE UNCHANGED <<managerVars, dispatchVars, sessionVars>>
  BY <1>13, Zenon DEF managerVars, dispatchVars, sessionVars
<1> HIDE DEF ListTypeOK, ListInv, Allocated
<1> QED
  BY <1>1, <1>2, <1>3, <1>4, <1>5, <1>6, <1>7, <1>8, <1>9, <1>10, <1>11, <1>12, <1>13, Zenon
 DEF Next, DispatchStep, Cleanup, ConnectionEnds, MonitorSize, MonitorCount, vars

\* A session that is bound is listed by its manager as long as it is open, and no
\* longer: a closed session frees its place, and neither the idle close of a worker
\* nor a late Close drops one that is in use.
THEOREM OpenIsListed == Spec => []ListedIsOpen
<1>1. Init => ListTypeOK /\ ListInv
  BY DEF Init, ListTypeOK, ListInv, Allocated
<1>2. ListTypeOK /\ ListInv /\ [Next]_vars => ListTypeOK' /\ ListInv'
  BY ListInvStep, Zenon
<1>3. ListTypeOK /\ ListInv => ListedIsOpen
  <2> SUFFICES ASSUME ListTypeOK, ListInv, NEW d \in Dispatchers, bound[d]
               PROVE  d \in sessions[worker[d]] <=> ~sclosed[d]
    BY Zenon DEF ListedIsOpen
  <2>1. Allocated(d) /\ worker[d] \in Workers
    BY Zenon DEF ListInv, Allocated
  <2> QED
    BY <2>1, Zenon DEF ListInv
<1> QED
  BY <1>1, <1>2, <1>3, PTL DEF Spec
=============================================================================
