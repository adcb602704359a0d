----------------------------- MODULE Observatory -----------------------------
(***************************************************************************)
(* app/observatory: the observer that probes one outbound after the other   *)
(* or all at once, and the burst observer, whose rounds of pings overlap     *)
(* and fill a ring of samples per outbound.  The balancers of app/router     *)
(* read the report.  Handlers come and go while a round is under way.        *)
(***************************************************************************)
EXTENDS Naturals, FiniteSets, Sequences

CONSTANTS
  Tags,         \* tags of outbound handlers that the selector matches
  Samples,      \* SamplingCount
  Rounds,       \* bound: rounds under way at a time
  MaxChanges    \* bound: handlers added or removed

None == [tags |-> {}, left |-> [t \in {} |-> 0], once |-> FALSE]
NoRing == [idx |-> 0, rtts |-> <<>>]

VARIABLES
  kind,         \* single, concurrent (EnableConcurrency) or burst
  handlers,     \* tags of the outbound manager
  changes,
  checked,      \* the one-time Check has begun
  stopped,      \* Close has been called
  round,        \* [Rounds -> the tags of a round, and the probes left per tag]
  status,       \* tags with a status (single, concurrent)
  results,      \* [Tags -> HealthPingRTTS, or NoRing] (burst)
  recent        \* history: [Tags -> the results put last that are still valid]

vars == <<kind, handlers, changes, checked, stopped, round, status, results, recent>>

Idle(r) == round[r] = None

\* Rounds are numbered as they begin.
Free(r) == Idle(r) /\ \A s \in Rounds : s < r => ~Idle(s)

Init ==
  /\ kind \in {"single", "concurrent", "burst"}
  /\ handlers \in SUBSET Tags /\ changes = 0 /\ checked = FALSE /\ stopped = FALSE
  /\ round = [r \in Rounds |-> None]
  /\ status = {}
  /\ results = [t \in Tags |-> NoRing]
  /\ recent = [t \in Tags |-> <<>>]

\* A handler is added to the outbound manager or removed from it.
Change(t) ==
  /\ changes < MaxChanges
  /\ changes' = changes + 1
  /\ handlers' = (handlers \ {t}) \cup ({t} \ handlers)
  /\ UNCHANGED <<kind, checked, stopped, round, status, results, recent>>

-----------------------------------------------------------------------------
(* HealthPingRTTS *)

\* Mutant: the ring does not wrap around.
CalcIndexStays(idx, step) == IF idx + step > Samples THEN Samples ELSE idx + step

\* calcIndex, with indices from 1.
CalcIndex(idx, step) == IF idx + step > Samples THEN ((idx + step - 1) % Samples) + 1 ELSE idx + step

\* Put
Put(ring, value) ==
  LET idx == CalcIndex(ring.idx, 1)
      rtts == IF ring.rtts = <<>> THEN [i \in 1..Samples |-> "none"] ELSE ring.rtts
  IN  [idx |-> idx, rtts |-> [rtts EXCEPT ![idx] = value]]

\* getStatistics: All, Fail, and what the report says (createResult).
Count(ring, values) == Cardinality({i \in DOMAIN ring.rtts : ring.rtts[i] \in values})
Alive(ring) == Count(ring, {"ok", "failed"}) # Count(ring, {"failed"})

-----------------------------------------------------------------------------
(* Burst *)

\* A tick: the tags there are now, and a ping for every sample of the interval.
\* When the scheduler starts, Check pings every outbound once, and has no Cleanup.
StartRound(r, once) ==
  /\ kind = "burst" /\ ~stopped /\ Free(r) /\ handlers # {}
  /\ once => ~checked
  /\ checked' = (checked \/ once)
  /\ round' = [round EXCEPT ![r] =
       [tags |-> handlers, once |-> once,
        left |-> [t \in handlers |-> IF once THEN 1 ELSE Samples]]]
  /\ UNCHANGED <<kind, handlers, changes, stopped, status, results, recent>>

\* The loop of doCheck takes a result: an answer, a failure, or nothing when the
\* network is down (checkConnectivity); PutResult.
PutResult(r, t, value) ==
  /\ kind = "burst" /\ t \in round[r].tags /\ round[r].left[t] > 0
  /\ round' = [round EXCEPT ![r].left[t] = @ - 1]
  /\ IF value = "down"
     THEN UNCHANGED <<results, recent>>
     ELSE /\ results' = [results EXCEPT ![t] = Put(@, value)]
          /\ recent' = [recent EXCEPT ![t] =
               Append(IF Len(@) = Samples THEN Tail(@) ELSE @, value)]
  /\ UNCHANGED <<kind, handlers, changes, checked, stopped, status>>

\* The oldest sample is older than twice the sampling period.
Expire(t) ==
  /\ recent[t] # <<>>
  /\ LET oldest == ((results[t].idx + Samples - Len(recent[t])) % Samples) + 1
     IN  results' = [results EXCEPT ![t].rtts[oldest] = "none"]
  /\ recent' = [recent EXCEPT ![t] = Tail(@)]
  /\ UNCHANGED <<kind, handlers, changes, checked, stopped, round, status>>

\* Mutant: the results of removed handlers stay.
CleanupNothing(tags) == UNCHANGED <<results, recent>>

\* Cleanup: what is not among the tags is forgotten.
Cleanup(tags) ==
  /\ results' = [t \in Tags |-> IF t \in tags THEN results[t] ELSE NoRing]
  /\ recent' = [t \in Tags |-> IF t \in tags THEN recent[t] ELSE <<>>]

\* All pings of a round are in: Cleanup with the tags the round began with.
EndRound(r) ==
  /\ kind = "burst" /\ ~Idle(r) /\ \A t \in round[r].tags : round[r].left[t] = 0
  /\ round' = [round EXCEPT ![r] = None]
  /\ Cleanup(IF round[r].once THEN Tags ELSE round[r].tags)
  /\ UNCHANGED <<kind, handlers, changes, checked, stopped, status>>

\* doCheck of no tags returns at once.
EmptyRound ==
  /\ kind = "burst" /\ ~stopped /\ handlers = {}
  /\ Cleanup({})
  /\ UNCHANGED <<kind, handlers, changes, checked, stopped, round, status>>

-----------------------------------------------------------------------------
(* The plain observer *)

\* background: a round begins when the last one has ended.
Background(r) ==
  /\ kind # "burst" /\ ~stopped /\ handlers # {}
  /\ Free(r) /\ \A s \in Rounds : Idle(s)
  /\ round' = [round EXCEPT ![r] = 
       [tags |-> handlers, once |-> FALSE, left |-> [t \in handlers |-> 1]]]
  /\ UNCHANGED <<kind, handlers, changes, checked, stopped, status, results, recent>>

\* probe and updateStatusForResult.  One after the other, in the order of the
\* tags, the observer may be closed before the next one; probes that run at the
\* same time all report.
UpdateStatus(r, t) ==
  /\ kind # "burst" /\ t \in round[r].tags /\ round[r].left[t] = 1
  /\ status' = status \cup {t}
  /\ round' = [round EXCEPT ![r] =
       IF \/ \A u \in @.tags \ {t} : @.left[u] = 0
          \/ kind = "single" /\ stopped
       THEN None ELSE [@ EXCEPT !.left[t] = 0]]
  /\ UNCHANGED <<kind, handlers, changes, checked, stopped, results, recent>>

\* Close; pings under way are not called off.
Close ==
  /\ ~stopped
  /\ stopped' = TRUE
  /\ UNCHANGED <<kind, handlers, changes, checked, round, status, results, recent>>

Values == {"ok", "failed", "down"}

Steps(r) ==
  \/ \E t \in Tags : UpdateStatus(r, t) \/ \E v \in Values : PutResult(r, t, v)
  \/ EndRound(r)

Next ==
  \/ \E t \in Tags : Change(t) \/ Expire(t)
  \/ \E r \in Rounds : (\E once \in BOOLEAN : StartRound(r, once)) \/ Background(r) \/ Steps(r)
  \/ EmptyRound \/ Close

Spec == Init /\ [][Next]_vars

\* The ticker ticks until Close, and pings end.
FairSpec ==
  /\ Spec
  /\ WF_vars(EmptyRound \/ \E r \in Rounds : StartRound(r, FALSE))
  /\ \A r \in Rounds : WF_vars(Steps(r))

-----------------------------------------------------------------------------
(* Properties *)

\* The report of an outbound tells of its last pings that are still valid, no older
\* and no fewer ones, however rounds overlap and whatever Cleanup has removed in
\* between: it is alive when one of them was answered (Put, getStatistics).
ReportIsRecent ==
  \A t \in Tags :
    /\ Count(results[t], {"ok", "failed"}) = Len(recent[t])
    /\ Alive(results[t]) <=> \E i \in DOMAIN recent[t] : recent[t][i] = "ok"

=============================================================================
