------------------------------ MODULE Handlers ------------------------------
(****************************************************************************)
(* The managers of the inbound and of the outbound handlers                 *)
(* (app/proxyman), to which the API adds and from which it removes          *)
(* handlers while the core runs.                                            *)
(****************************************************************************)
EXTENDS Naturals, FiniteSets

(***************************************************************************)
(* app/proxyman/inbound: the manager of the inbound handlers, which the    *)
(* core starts and closes and to which the API adds and from which it      *)
(* removes handlers while it runs, and the workers of a handler, which     *)
(* listen.                                                                 *)
(*                                                                         *)
(* Every operation holds the manager's lock.  Start of a worker may fail,  *)
(* Close is taken to succeed.                                              *)
(***************************************************************************)

CONSTANTS
  Tags,       \* tags of handlers
  NoTag,      \* the tag of an untagged handler
  PortLists,  \* the port lists of configurations: sets of ports, NoPorts for none
  NoPorts,
  Networks,   \* what inbound proxies accept: sets of "TCP", "UDP", "UNIX"
  MaxInbounds     \* bound: calls of AddHandler

InboundHandler == 1..MaxInbounds

VARIABLES
  inTag,      \* [Handler -> tag] of the handlers, as they are made
  inbounds,   \* handlers in the manager
  inWorkers,    \* [Handler -> its workers], each a network and a port
  listening,  \* <<handler, worker>> of the workers that listen
  inRunning, inMade

inboundVars == <<inTag, inbounds, inWorkers, listening, inRunning, inMade>>

InboundInit ==
  /\ inTag = [h \in InboundHandler |-> NoTag] /\ inbounds = {} /\ listening = {}
  /\ inWorkers = [h \in InboundHandler |-> {}]
  /\ inRunning = FALSE /\ inMade = 0

\* NewAlwaysOnInboundHandler: a worker per port and network, or one for a socket of
\* the file system when there are no ports.
NewWorkers(nets, ports) ==
  IF ports = NoPorts THEN (nets \cap {"UNIX"}) \X {0} ELSE (nets \cap {"TCP", "UDP"}) \X ports

\* The workers that AlwaysOnInboundHandler.Start starts before one fails, if any.
Started(h, ws) == {{h} \X up : up \in SUBSET ws}

\* Mutant: a handler that does not start is not kept.
InboundAddHandlerForgets(t, ws) ==
  LET h == inMade + 1 IN
  /\ inMade < MaxInbounds /\ inMade' = h
  /\ inTag' = [inTag EXCEPT ![h] = t] /\ inWorkers' = [inWorkers EXCEPT ![h] = ws]
  /\ ~\E g \in inbounds : t # NoTag /\ inTag[g] = t
  /\ IF inRunning THEN \E up \in Started(h, ws) :
        /\ listening' = listening \cup up
        /\ inbounds' = IF Cardinality(up) = Cardinality(ws) THEN inbounds \cup {h} ELSE inbounds
     ELSE inbounds' = inbounds \cup {h} /\ UNCHANGED listening
  /\ UNCHANGED inRunning

\* AddHandler; one whose tag is taken is not added.
InboundAddHandler(t, ws) ==
  LET h == inMade + 1 IN
  /\ inMade < MaxInbounds /\ inMade' = h
  /\ inTag' = [inTag EXCEPT ![h] = t] /\ inWorkers' = [inWorkers EXCEPT ![h] = ws]
  /\ ~\E g \in inbounds : t # NoTag /\ inTag[g] = t
  /\ inbounds' = inbounds \cup {h}
  /\ IF inRunning THEN \E up \in Started(h, ws) : listening' = listening \cup up
     ELSE UNCHANGED listening
  /\ UNCHANGED inRunning

\* RemoveHandler closes the workers of the handler.
InboundRemoveHandler(h) ==
  /\ h \in inbounds /\ inTag[h] # NoTag
  /\ inbounds' = inbounds \ {h}
  /\ listening' = {l \in listening : l[1] # h}
  /\ UNCHANGED <<inTag, inWorkers, inRunning, inMade>>

\* Start goes through the handlers and their workers until one fails; which ones
\* come before it is left open.
Start ==
  /\ ~inRunning /\ inRunning' = TRUE
  /\ \E up \in SUBSET UNION {{h} \X inWorkers[h] : h \in inbounds} : listening' = listening \cup up
  /\ UNCHANGED <<inTag, inWorkers, inbounds, inMade>>

Close ==
  /\ inRunning /\ inRunning' = FALSE
  /\ listening' = {l \in listening : l[1] \notin inbounds}
  /\ UNCHANGED <<inTag, inWorkers, inbounds, inMade>>

InboundNext ==
  \/ \E t \in Tags \cup {NoTag}, n \in Networks, p \in PortLists : InboundAddHandler(t, NewWorkers(n, p))
  \/ \E h \in InboundHandler : InboundRemoveHandler(h)
  \/ Start \/ Close

InboundSpec == InboundInit /\ [][InboundNext]_inboundVars

-----------------------------------------------------------------------------
\* A worker that listens belongs to a handler of the manager, which RemoveHandler
\* and Close will close, even when Start of a handler has failed half way.
ListenerIsListed == \A l \in listening : l[1] \in inbounds

-----------------------------------------------------------------------------
(***************************************************************************)
(* app/proxyman/outbound: the manager of the outbound handlers, to which   *)
(* the API adds and from which it removes handlers while traffic is        *)
(* routed, and Select, by which balancers and observatories find the tags  *)
(* with certain prefixes, with its cache.                                  *)
(*                                                                         *)
(* All but the first look into the cache happens with the lock held.       *)
(* Start and Close of a handler change nothing that is modelled.           *)
(***************************************************************************)

CONSTANTS
  Selectors,  \* the arguments Select is called with: sets of tags, each the tags
              \* with one of the prefixes
  Callers,    \* goroutines that call Select
  MaxOutbounds     \* bound: calls of AddHandler

ASSUME HandlersAssumption ==
  /\ NoTag \notin Tags /\ Selectors \subseteq SUBSET Tags
  /\ MaxInbounds \in Nat /\ MaxOutbounds \in Nat

OutboundHandler == 1..MaxOutbounds
None == 0

VARIABLES
  outTag,     \* [Handler -> tag] of the handlers, as they are made
  outbounds,  \* handlers in the manager
  defaultHandler,
  outMade,
  tagsCache,  \* the cache in use
  select      \* [Callers -> the call of Select under way]

outboundVars == <<outTag, outbounds, defaultHandler, outMade, tagsCache, select>>

Empty == [k \in {} |-> {}]

\* A call of Select: the cache it has got hold of, which others fill as long as
\* it is the one in use; seen is history, the right answers since the call began.
Idle == [pc |-> "idle", key |-> {}, inUse |-> FALSE, cache |-> Empty, seen |-> {}, result |-> {}]
CacheOf(c) == IF select[c].inUse THEN tagsCache ELSE select[c].cache

OutboundInit ==
  /\ outTag = [h \in OutboundHandler |-> NoTag] /\ outbounds = {}
  /\ defaultHandler = None /\ outMade = 0
  /\ tagsCache = Empty
  /\ select = [c \in Callers |-> Idle]

-----------------------------------------------------------------------------
(* The manager *)

\* What the calls of Select under way see of a change: another cache, and the
\* tags there are from now on.
Changed(tags, replaced) ==
  select' = [c \in Callers |->
    IF select[c].pc = "idle" THEN select[c]
    ELSE [select[c] EXCEPT !.seen = @ \cup {tags \cap select[c].key},
                           !.cache = IF replaced THEN CacheOf(c) ELSE @,
                           !.inUse = @ /\ ~replaced]]

TagsOf(hs) == {outTag[h] : h \in hs} \ {NoTag}
Taken(t) == t \in TagsOf(outbounds)

\* Mutant: the cache outlives a new handler.
AddHandlerStale(t) ==
  LET h == outMade + 1 IN
  /\ outMade < MaxOutbounds /\ outMade' = h
  /\ outTag' = [outTag EXCEPT ![h] = t]
  /\ defaultHandler' = IF defaultHandler = None THEN h ELSE defaultHandler
  /\ outbounds' = IF Taken(t) THEN outbounds ELSE outbounds \cup {h}
  /\ Changed(TagsOf(outbounds) \cup {t}, FALSE)
  /\ UNCHANGED tagsCache

\* AddHandler: a handler becomes the default one when there is none, even if its
\* tag is taken and it is not added.
OutboundAddHandler(t) ==
  LET h == outMade + 1 IN
  /\ outMade < MaxOutbounds /\ outMade' = h
  /\ outTag' = [outTag EXCEPT ![h] = t]
  /\ tagsCache' = Empty
  /\ defaultHandler' = IF defaultHandler = None THEN h ELSE defaultHandler
  /\ outbounds' = IF Taken(t) THEN outbounds ELSE outbounds \cup {h}
  /\ Changed(TagsOf(outbounds) \cup {t}, TRUE)

\* Mutant: the default handler stays when it is removed.
RemoveHandlerKeepsDefault(t) ==
  LET left == {h \in outbounds : outTag[h] # t} IN
  /\ t # NoTag
  /\ tagsCache' = Empty
  /\ outbounds' = left
  /\ Changed(TagsOf(left), TRUE)
  /\ UNCHANGED <<outTag, outMade, defaultHandler>>

\* RemoveHandler; the cache is replaced also when there is no handler with the tag.
\* The handler is not closed.
OutboundRemoveHandler(t) ==
  LET left == {h \in outbounds : outTag[h] # t} IN
  /\ t # NoTag
  /\ tagsCache' = Empty
  /\ outbounds' = left
  /\ defaultHandler' = IF defaultHandler # None /\ outTag[defaultHandler] = t THEN None ELSE defaultHandler
  /\ Changed(TagsOf(left), TRUE)
  /\ UNCHANGED <<outTag, outMade>>

-----------------------------------------------------------------------------
(* Select *)

\* The look for the cache in use, without the lock, ...
SelectLoads(c, key) ==
  /\ select[c].pc = "idle"
  /\ select' = [select EXCEPT ![c] =
       [pc |-> "loaded", key |-> key, inUse |-> TRUE, cache |-> Empty,
        seen |-> {TagsOf(outbounds) \cap key}, result |-> {}]]
  /\ UNCHANGED <<outTag, outbounds, defaultHandler, outMade, tagsCache>>

Return(c, r) == select' = [select EXCEPT ![c].pc = "returned", ![c].result = r]

\* ... which has the answer ...
SelectHits(c) ==
  /\ select[c].pc = "loaded" /\ select[c].key \in DOMAIN CacheOf(c)
  /\ Return(c, CacheOf(c)[select[c].key])
  /\ UNCHANGED <<outTag, outbounds, defaultHandler, outMade, tagsCache>>

\* ... or not; then the answer is computed, and stored in the cache of that moment,
\* with the lock held.
SelectMisses(c) ==
  LET key == select[c].key
      r == TagsOf(outbounds) \cap key
  IN
  /\ select[c].pc = "loaded" /\ key \notin DOMAIN CacheOf(c)
  /\ tagsCache' = [k \in DOMAIN tagsCache \cup {key} |-> IF k = key THEN r ELSE tagsCache[k]]
  /\ Return(c, r)
  /\ UNCHANGED <<outTag, outbounds, defaultHandler, outMade>>

SelectReturns(c) ==
  /\ select[c].pc = "returned"
  /\ select' = [select EXCEPT ![c] = Idle]
  /\ UNCHANGED <<outTag, outbounds, defaultHandler, outMade, tagsCache>>

OutboundNext ==
  \/ \E t \in Tags \cup {NoTag} : OutboundAddHandler(t) \/ OutboundRemoveHandler(t)
  \/ \E c \in Callers :
       SelectHits(c) \/ SelectMisses(c) \/ SelectReturns(c) \/ \E k \in Selectors : SelectLoads(c, k)

OutboundSpec == OutboundInit /\ [][OutboundNext]_outboundVars

-----------------------------------------------------------------------------
(* Properties *)

\* Select returns the tags that were right at some moment of the call, although
\* it reads the cache without the lock, and other callers fill it, while handlers
\* are added and removed.
SelectIsCurrent ==
  \A c \in Callers : select[c].pc = "returned" => select[c].result \in select[c].seen

\* What the default handler is named after is in the manager: traffic that no
\* rule matches does not go on to a handler whose tag was removed, whatever
\* additions have failed before.
DefaultIsListed ==
  defaultHandler # None =>
    defaultHandler \in outbounds \/ Taken(outTag[defaultHandler])

OutboundsAreKnown == SelectIsCurrent /\ DefaultIsListed
=============================================================================
