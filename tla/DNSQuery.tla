------------------------------ MODULE DNSQuery ------------------------------
(***************************************************************************)
(* app/dns, one remote name server with its cache (CacheController), its    *)
(* subscribers (common/signal/pubsub) and, when it is asked over UDP, the    *)
(* table of its pending requests (ClassicNameServer).                        *)
(*                                                                         *)
(* QueryIP runs concurrently, and is the same in the four servers.  A query  *)
(* subscribes, looks into the cache, sends a request for every family it     *)
(* wants and waits for one message per family; answers are applied by other  *)
(* goroutines, in any order, late or twice.  A family is 4 or 6, a record    *)
(* remembers which question it answers, and time is the step that makes a    *)
(* record or a request expire.                                               *)
(***************************************************************************)
EXTENDS Naturals, FiniteSets

CONSTANTS
  Queries,      \* bound: calls of QueryIP, 1 .. n in the order they begin
  Domains,      \* bound: names asked for
  MaxRequests,  \* bound: requests sent
  IdSpace       \* request ids are taken modulo this (2^16 in the code)

Families == {4, 6}
NoRecord == [of |-> "nobody", fam |-> 0, fresh |-> FALSE]

VARIABLES
  kind,         \* udp, or stream (TCP, DoH and QUIC), with a goroutine per request
  disableCache,
  ips,          \* [Domains -> [Families -> record]]
  requests,     \* set of pending requests (UDP)
  reqID,        \* requests sent so far
  net,          \* requests that are or may still be answered
  pc,           \* [Queries -> where QueryIP is]
  ask,          \* [Queries -> the domain]
  want,         \* [Queries -> the families enabled in its option]
  unsent,       \* [Queries -> families whose request is still to be sent]
  subs,         \* [Queries -> families whose subscriber is open]
  got,          \* [Queries -> families with a message in the subscriber's buffer]
  failed,       \* queries with an error in noResponseErrCh
  orphan,       \* queries holding a record that the cleanup has deleted
  starting,     \* calls of updateIP that have unlocked and have not called Start
  cleaning,     \* cacheCleanup: none, armed (a timer), failing (running, but about to
                \* stop); panic: Start has failed, and with it the process
  answered,     \* history: [Queries -> families stored for the domain since it began],
                \* without a cache
  expired,      \* history: queries during which a record of their domain expired
  missed,       \* history: the last Start met a cleanup that was about to stop
  lost,         \* history: a query found no record though none had expired
  old           \* history: without a cache, a query returned records from before it began

cleanup == <<starting, cleaning, missed>>
query == <<pc, ask, want, unsent, subs, got, failed, orphan, answered, expired, lost, old>>
wire == <<requests, reqID, net>>
mode == <<kind, disableCache>>
stream == kind = "stream"
vars == <<mode, ips, cleanup, query, wire>>

SomeDomain == CHOOSE d \in Domains : TRUE

Init ==
  /\ kind \in {"udp", "stream"} /\ disableCache \in BOOLEAN
  /\ ips = [d \in Domains |-> [f \in Families |-> NoRecord]]
  /\ requests = {} /\ reqID = 0 /\ net = {}
  /\ pc = [q \in Queries |-> "idle"]
  /\ ask = [q \in Queries |-> SomeDomain]
  /\ want = [q \in Queries |-> {}]
  /\ unsent = want /\ subs = want /\ got = want /\ answered = want
  /\ failed = {} /\ orphan = {} /\ expired = {}
  /\ starting = 0 /\ cleaning = "none" /\ missed = FALSE /\ lost = FALSE /\ old = FALSE

\* getIPs: is there a record, and has it not expired?
Found(q, f) == ips[ask[q]][f].fresh /\ q \notin orphan

Active(q) == pc[q] \notin {"idle", "done"}

First(fams) == IF 4 \in fams THEN 4 ELSE 6

-----------------------------------------------------------------------------
(* QueryIP *)

\* registerSubscribers
Subscribe(q, d, fams) ==
  /\ pc[q] = "idle" /\ \A p \in Queries : p < q => pc[p] # "idle"
  /\ ask' = [ask EXCEPT ![q] = d]
  /\ want' = [want EXCEPT ![q] = fams]
  /\ subs' = [subs EXCEPT ![q] = fams]
  /\ unsent' = [unsent EXCEPT ![q] = fams]
  /\ pc' = [pc EXCEPT ![q] = IF disableCache THEN "send" ELSE "look"]
  /\ UNCHANGED <<got, failed, orphan, answered, expired, lost, old>>
  /\ UNCHANGED <<mode, ips, cleanup, wire>>

\* QueryIP returns, and closeSubscribers runs.  What the query was about is
\* forgotten, but for what the properties need.
Return(q, how) ==
  /\ pc' = [pc EXCEPT ![q] = "done"]
  /\ ask' = [ask EXCEPT ![q] = SomeDomain]
  /\ want' = [want EXCEPT ![q] = {}]
  /\ unsent' = [unsent EXCEPT ![q] = {}]
  /\ subs' = [subs EXCEPT ![q] = {}]
  /\ got' = [got EXCEPT ![q] = {}]
  /\ answered' = [answered EXCEPT ![q] = {}]
  /\ failed' = failed \ {q} /\ orphan' = orphan \ {q} /\ expired' = expired \ {q}
  /\ lost' = (lost \/ (how = "notfound" /\ q \notin expired))
  /\ old' = (old \/ (how = "answer" /\ disableCache /\ ~(want[q] \subseteq answered[q])))

\* The query goes on at pc p.
Goto(q, p) ==
  /\ pc' = [pc EXCEPT ![q] = p]
  /\ orphan' = orphan \ {q}
  /\ UNCHANGED <<ask, want, unsent, subs, got, failed, answered, expired, lost, old>>

\* findIPsForDomain takes the record under the lock and reads A, then AAAA,
\* after it: when both are wanted the second is read in a step of its own.
\* Without the records QueryIP sends its requests, or it has failed.
FindIPs(q, here, second, hit) ==
  /\ \/ /\ pc[q] = here /\ Found(q, First(want[q])) /\ want[q] = Families
        /\ Goto(q, second)
     \/ /\ \/ pc[q] = here /\ want[q] # Families /\ Found(q, First(want[q]))
           \/ pc[q] = second /\ Found(q, 6)
        /\ Return(q, hit)
     \/ /\ \/ pc[q] = here /\ ~Found(q, First(want[q]))
           \/ pc[q] = second /\ ~Found(q, 6)
        /\ IF hit = "hit" THEN Goto(q, "send") ELSE Return(q, "notfound")
  /\ UNCHANGED <<mode, ips, cleanup, wire>>

Look(q) == FindIPs(q, "look", "look6", "hit")
Find(q) == FindIPs(q, "find", "find6", "answer")

-----------------------------------------------------------------------------
(* Requests *)

\* newReqID, addPendingRequest and the packet that goes out.  Over UDP a request
\* may be answered at any later time, and more than once.
Pend(pending, r) ==
  LET req == [r EXCEPT !.id = IF stream THEN reqID ELSE reqID % IdSpace]
  IN  /\ reqID < MaxRequests
      /\ reqID' = reqID + 1
      /\ requests' = IF stream THEN pending
                     ELSE {p \in pending : p.id # req.id} \cup {req}
      /\ net' = net \cup {req}

\* sendQuery, one request of it.
SendQuery(q) ==
  LET f == First(unsent[q])
  IN  /\ pc[q] = "send"
      /\ Pend(requests, [id |-> 0, by |-> IF stream THEN {q} ELSE {}, domain |-> ask[q], fam |-> f, edns |-> FALSE])
      /\ unsent' = [unsent EXCEPT ![q] = @ \ {f}]
      /\ pc' = [pc EXCEPT ![q] = IF unsent[q] = {f} THEN "wait" ELSE "send"]
      /\ UNCHANGED <<ask, want, subs, got, failed, orphan, answered, expired, lost, old>>
      /\ UNCHANGED <<mode, ips, cleanup>>

\* The select on sub4, then the one on sub6.
Wait(q) ==
  LET f == First(subs[q])
  IN  /\ pc[q] = "wait" /\ f \in got[q]
      /\ subs' = [subs EXCEPT ![q] = @ \ {f}]
      /\ pc' = [pc EXCEPT ![q] = IF subs[q] = {f} THEN "find" ELSE "wait"]
      /\ UNCHANGED <<ask, want, unsent, got, failed, orphan, answered, expired, lost, old>>
      /\ UNCHANGED <<mode, ips, cleanup, wire>>

\* ctx.Done or noResponseErrCh is chosen: the error of a request, or the timeout.
WaitFails(q) ==
  /\ pc[q] = "wait"
  /\ Return(q, IF q \in failed THEN "error" ELSE "timeout")
  /\ UNCHANGED <<mode, ips, cleanup, wire>>

-----------------------------------------------------------------------------
(* CacheCleanup *)

Stored(m, d) == \E f \in Families : m[d][f] # NoRecord
Empty(m) == \A d \in Domains : ~Stored(m, d)

\* Mutant: records go only together with their domain, when both are there and expired.
CacheCleanupBoth(m) ==
  LET gone == {d \in Domains : \A f \in Families : m[d][f] # NoRecord /\ ~m[d][f].fresh}
  IN  /\ ips' = [d \in Domains |-> IF d \in gone THEN [f \in Families |-> NoRecord] ELSE m[d]]
      /\ orphan' = orphan \cup {q \in Queries : pc[q] \in {"look6", "find6"} /\ ask[q] \in gone}

\* The map m without its expired records, and without the domains that have none.
CacheCleanup(m) ==
  LET gone == {d \in Domains : Stored(m, d) /\ \A f \in Families : ~m[d][f].fresh}
  IN  /\ ips' = [d \in Domains |-> [f \in Families |->
                   IF m[d][f].fresh THEN m[d][f] ELSE NoRecord]]
      /\ orphan' = orphan \cup {q \in Queries : pc[q] \in {"look6", "find6"} /\ ask[q] \in gone}

\* The end of updateIP, after Unlock: cacheCleanup.Start.  A cleanup that is not running
\* begins with one, which fails when there is nothing left to clean: common.Must panics.
StartCleanup ==
  /\ starting > 0 /\ starting' = starting - 1
  /\ missed' = (cleaning = "failing")
  /\ \/ /\ cleaning = "none" /\ ~Empty(ips)
        /\ CacheCleanup(ips) /\ cleaning' = "armed"
     \/ /\ cleaning = "none" /\ Empty(ips)
        /\ cleaning' = "panic" /\ UNCHANGED <<ips, orphan>>
     \/ /\ cleaning \in {"armed", "failing"}
        /\ UNCHANGED <<cleaning, ips, orphan>>
  /\ UNCHANGED <<pc, ask, want, unsent, subs, got, failed, answered, expired, lost, old>>
  /\ UNCHANGED <<mode, wire>>

\* The timer fires: there are records ...
TimerCleans ==
  /\ cleaning = "armed" /\ ~Empty(ips)
  /\ CacheCleanup(ips)
  /\ UNCHANGED <<pc, ask, want, unsent, subs, got, failed, answered, expired, lost, old>>
  /\ UNCHANGED <<mode, cleanup, wire>>

\* ... or there are none, and checkedExecute clears running a moment later.
TimerStops ==
  /\ \/ cleaning = "armed" /\ Empty(ips) /\ cleaning' = "failing"
     \/ cleaning = "failing" /\ cleaning' = "none"
  /\ UNCHANGED <<starting, missed>>
  /\ UNCHANGED <<mode, ips, query, wire>>

-----------------------------------------------------------------------------
(* Answers *)

\* Mutant: ... and also when the cache is disabled.
PublishesUncached(d, f) == {f} \cup {g \in Families : ips[d][g].fresh}

\* The families updateIP publishes: its own, and the other one when the cache
\* can answer it.
Publishes(d, f) == {f} \cup {g \in Families : ~disableCache /\ ips[d][g].fresh}

\* updateIP, under the lock: the record is stored and published.
UpdateIP(d, f, owner) ==
  /\ ips' = [ips EXCEPT ![d][f] = [of |-> owner.domain, fam |-> owner.fam, fresh |-> TRUE]]
  /\ starting' = starting + 1
  /\ got' = [q \in Queries |->
       got[q] \cup {g \in Publishes(d, f) : ask[q] = d /\ g \in subs[q]}]
  /\ answered' = [q \in Queries |->
       IF disableCache /\ ask[q] = d /\ Active(q) THEN answered[q] \cup {f} ELSE answered[q]]
  /\ UNCHANGED <<cleaning, missed, orphan>>

\* Mutant: an answer is taken for the pending request that has waited longest.
MatchesOldest(m) == {r \in requests : \A o \in requests : r.id <= o.id}

\* The pending request an answer belongs to.
Matches(m) == {r \in requests : r.id = m.id}

\* HandleResponse (UDP): an answer to m arrives, truncated or not.  An answer
\* nobody waits for is dropped; a request without EDNS0 is repeated with it
\* when the answer is truncated.
HandleResponse(m, r, truncated) ==
  /\ ~stream /\ m \in net /\ r \in Matches(m)
  /\ \/ /\ truncated /\ ~r.edns
        /\ Pend(requests \ {r}, [r EXCEPT !.edns = TRUE])
        /\ UNCHANGED <<ips, cleanup, orphan, got, answered>>
     \/ /\ ~truncated \/ r.edns
        /\ requests' = requests \ {r}
        /\ UpdateIP(r.domain, r.fam, m)
        /\ UNCHANGED <<reqID, net>>
  /\ UNCHANGED <<pc, ask, want, unsent, subs, failed, expired, lost, old, mode>>

\* The goroutine of a request ends with an answer, or with an error for the query
\* that started it, if it is still there.
Returns(m, ok) ==
  /\ stream /\ net' = net \ {m}
  /\ \/ ok /\ UpdateIP(m.domain, m.fam, m) /\ UNCHANGED failed
     \/ /\ ~ok
        /\ failed' = failed \cup {q \in m.by : Active(q)}
        /\ UNCHANGED <<ips, cleanup, orphan, got, answered>>
  /\ UNCHANGED <<requests, reqID, pc, ask, want, unsent, subs, expired, lost, old, mode>>

\* TCPNameServer: dial, write the request with its length, read an answer with its length.
TCPReturns(m, ok) == Returns(m, ok)

\* DoHNameServer: one HTTP exchange.  A server that is asked for its own name
\* answers with an error, which is one of the errors here.
DoHReturns(m, ok) == Returns(m, ok)

\* QUICNameServer: a stream of the shared connection, which is opened anew, with
\* one retry, when it is not there any more.
QUICReturns(m, ok) == Returns(m, ok)

\* RequestsCleanup: eight seconds after it was sent a request is forgotten.
RequestExpires(r) ==
  /\ r \in requests
  /\ requests' = requests \ {r}
  /\ UNCHANGED <<mode, ips, cleanup, query, reqID, net>>

\* The ttl of a record is over.
RecordExpires(d, f) ==
  /\ ips[d][f].fresh
  /\ ips' = [ips EXCEPT ![d][f].fresh = FALSE]
  /\ expired' = expired \cup {q \in Queries : ask[q] = d /\ Active(q)}
  /\ UNCHANGED <<pc, ask, want, unsent, subs, got, failed, orphan, answered, lost, old>>
  /\ UNCHANGED <<mode, cleanup, wire>>

Expires == \E d \in Domains, f \in Families : RecordExpires(d, f)

Steps ==
  \/ \E q \in Queries, d \in Domains, fams \in (SUBSET Families) \ {{}} : Subscribe(q, d, fams)
  \/ \E q \in Queries : Look(q) \/ SendQuery(q) \/ Wait(q) \/ WaitFails(q) \/ Find(q)
  \/ \E m \in net, r \in requests, truncated \in BOOLEAN : HandleResponse(m, r, truncated)
  \/ \E m \in net, ok \in BOOLEAN : TCPReturns(m, ok) \/ DoHReturns(m, ok) \/ QUICReturns(m, ok)
  \/ \E r \in requests : RequestExpires(r)
  \/ Expires \/ StartCleanup \/ TimerCleans \/ TimerStops

Next == cleaning # "panic" /\ Steps

\* What the updates and the timer do about the cleanup.
Cleans == cleaning # "panic" /\ (StartCleanup \/ TimerCleans \/ TimerStops)

Spec == Init /\ [][Next]_vars

\* Goroutines and timers run, and time passes.
FairSpec ==
  /\ Spec
  /\ WF_vars(cleaning # "panic" /\ Expires)
  /\ WF_vars(Cleans)

-----------------------------------------------------------------------------
(* Properties *)

\* Every record goes (CacheCleanup): what stays in the cache stays there because the last
\* call of Start met a cleanup that had found nothing and was about to stop, and goes after
\* the next answer, whose Start is not missed (updateIP, Periodic).  Excepted is the panic
\* of a call that is held up between its Unlock and its Start until the cleanup has taken
\* its record and has stopped.
Forgotten == cleaning = "panic" \/ missed \/ Empty(ips)

\* QueryIP returns "record not found" only when a record of the domain expired
\* while it ran: it is not woken before the answers it waits for are stored
\* (updateIP, findIPsForDomain).
NotFoundMeansExpired == ~lost

\* With disableCache a query returns answers that came after it began, though it
\* reads them from the cache's map, which other queries fill (updateIP, QueryIP).
UncachedIsNew == disableCache => ~old

\* A record holds the answer to a question for its own domain and family, however
\* late, often or disordered answers come (HandleResponse), until the ids, which
\* are 16 bits, are used a second time.
RightAnswer ==
  \A d \in Domains, f \in Families :
    ips[d][f] # NoRecord /\ reqID <= IdSpace => ips[d][f].of = d /\ ips[d][f].fam = f

=============================================================================
