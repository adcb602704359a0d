------------------------------ MODULE MuxLink -------------------------------
(***************************************************************************)
(* common/mux over one connection: the frames that a client worker and a   *)
(* server worker exchange for the sessions they carry.                     *)
(*                                                                         *)
(* A session is named by the number of its dispatch at the client; its ID  *)
(* is what Allocate gives it.  The connection is a queue of frames in each *)
(* direction.  The n-th chunk of session s is the pair <<s, n>>.  Frames   *)
(* that both workers skip (KeepAlive, and New at the client) are left out; *)
(* XUDP is in module XUDP.                                                 *)
(***************************************************************************)
EXTENDS Naturals, Sequences, FiniteSets

CONSTANTS
  MaxSessions,    \* bound: sessions dispatched over the connection
  MaxChunks       \* bound: chunks a session carries in each direction

\* Session IDs are uint16 and are not reused: an outbound's connection takes 128
\* sessions (MaxConnection), the portal of a reverse proxy drains one after 256.
ASSUME LinkAssumption == MaxSessions \in Nat /\ MaxSessions < 65536

S == 1..MaxSessions
NoSession == 0

VARIABLES
  up, down,     \* frames on their way to the server and to the client
  count,        \* sessions allocated so far (SessionManager.count of the client)
  id,           \* Session.ID of each session
  client,       \* the client's sessions: "none", "open", "closed"
  server,       \* the server's
  lookup,       \* SessionManager.sessions of the server: from ID to session
  fetch,        \* fetchInput: "none", "run", "closing", "end"
  linkHandle,       \* handle, of the server
  followup,     \* Writer.followup of fetchInput
  sentUp, sentDown,     \* chunks written so far
  gotUp, gotDown,       \* history: chunks that reached the other end
  broken        \* has the connection ended?

queues == <<up, down>>
clientVars == <<count, id, client, fetch, followup, sentUp>>
serverVars == <<server, lookup, linkHandle, sentDown>>
history == <<gotUp, gotDown>>
muxVars == <<queues, clientVars, serverVars, history, broken>>

Frame(status, i, s, chunk) == [status |-> status, id |-> i, target |-> s, chunk |-> chunk]
NoChunk == <<>>
End(i) == Frame("End", i, NoSession, NoChunk)

MuxInit ==
  /\ up = <<>> /\ down = <<>>
  /\ count = 0
  /\ id = [s \in S |-> 0]
  /\ client = [s \in S |-> "none"]
  /\ server = [s \in S |-> "none"]
  /\ lookup = [i \in S |-> NoSession]
  /\ fetch = [s \in S |-> "none"]
  /\ linkHandle = [s \in S |-> "none"]
  /\ followup = [s \in S |-> FALSE]
  /\ sentUp = [s \in S |-> 0]
  /\ sentDown = [s \in S |-> 0]
  /\ gotUp = [s \in S |-> <<>>]
  /\ gotDown = [s \in S |-> <<>>]
  /\ broken = FALSE

\* SessionManager.Get of the client: the open session with this ID.
ClientSession(i) ==
  IF \E s \in S : client[s] = "open" /\ id[s] = i
  THEN CHOOSE s \in S : client[s] = "open" /\ id[s] = i
  ELSE NoSession

Open(s) == client[s] = "open"

-----------------------------------------------------------------------------
(* The client: Dispatch and fetchInput *)

\* Mutant: the ID is taken from the number of sessions that are open.
NewIDFromSize == Cardinality({s \in S : client[s] = "open"}) + 1

NewID == count + 1

Dispatch(s) ==
  /\ ~broken
  /\ s = count + 1
  /\ count' = count + 1
  /\ id' = [id EXCEPT ![s] = NewID]
  /\ client' = [client EXCEPT ![s] = "open"]
  /\ fetch' = [fetch EXCEPT ![s] = "run"]
  /\ UNCHANGED <<queues, followup, sentUp, serverVars, history, broken>>

\* writeFirstPayload may find nothing to send, then New goes without data.
FetchFirstEmpty(s) ==
  /\ fetch[s] = "run" /\ ~broken
  /\ ~followup[s]
  /\ followup' = [followup EXCEPT ![s] = TRUE]
  /\ up' = Append(up, Frame("New", id[s], s, NoChunk))
  /\ UNCHANGED <<down, count, id, client, fetch, sentUp, serverVars, history, broken>>

\* Writer.writeData: New first, Keep afterwards.  A chunk that has been read is
\* written also when the session has been closed meanwhile.
FetchSends(s) ==
  /\ fetch[s] = "run" /\ ~broken
  /\ sentUp[s] < MaxChunks
  /\ sentUp' = [sentUp EXCEPT ![s] = @ + 1]
  /\ followup' = [followup EXCEPT ![s] = TRUE]
  /\ up' = Append(up, Frame(IF followup[s] THEN "Keep" ELSE "New", id[s], s, <<s, sentUp[s] + 1>>))
  /\ UNCHANGED <<down, count, id, client, fetch, serverVars, history, broken>>

\* The input ends, by itself or interrupted by Close: an End frame ...
FetchEnds(s) ==
  /\ fetch[s] = "run"
  /\ fetch' = [fetch EXCEPT ![s] = "closing"]
  /\ up' = IF broken THEN up ELSE Append(up, End(id[s]))
  /\ UNCHANGED <<down, count, id, client, followup, sentUp, serverVars, history, broken>>

\* ... and Close.
FetchCloses(s) ==
  /\ fetch[s] = "closing"
  /\ fetch' = [fetch EXCEPT ![s] = "end"]
  /\ client' = [client EXCEPT ![s] = "closed"]
  /\ UNCHANGED <<queues, count, id, followup, sentUp, serverVars, history, broken>>

-----------------------------------------------------------------------------
(* The client: fetchOutput *)

\* handleStatusKeep: to the session's output, which may fail, or End to the peer.
ClientKeep(fails) ==
  /\ down # <<>> /\ Head(down).status = "Keep"
  /\ LET f == Head(down)  s == ClientSession(f.id) IN
       IF s = NoSession
       THEN /\ up' = Append(up, End(f.id))
            /\ UNCHANGED <<client, gotDown>>
       ELSE /\ IF fails THEN client' = [client EXCEPT ![s] = "closed"] /\ UNCHANGED gotDown
                        ELSE gotDown' = [gotDown EXCEPT ![s] = Append(@, f.chunk)] /\ UNCHANGED client
            /\ UNCHANGED up
  /\ down' = Tail(down)
  /\ UNCHANGED <<count, id, fetch, followup, sentUp, serverVars, gotUp, broken>>

\* handleStatusEnd
ClientEnd ==
  /\ down # <<>> /\ Head(down).status = "End"
  /\ LET s == ClientSession(Head(down).id) IN
       IF s = NoSession THEN UNCHANGED client ELSE client' = [client EXCEPT ![s] = "closed"]
  /\ down' = Tail(down)
  /\ UNCHANGED <<up, count, id, fetch, followup, sentUp, serverVars, history, broken>>

-----------------------------------------------------------------------------
(* The server: handleFrame *)

\* handleStatusNew: the target is dialled, the session added, its data passed on,
\* which may fail.
ServerNew(fails) ==
  /\ up # <<>> /\ Head(up).status = "New"
  /\ fails => Head(up).chunk # NoChunk
  /\ LET f == Head(up)  s == f.target IN
       /\ server' = [server EXCEPT ![s] = IF fails THEN "closed" ELSE "open"]
       /\ lookup' = [lookup EXCEPT ![f.id] = IF fails THEN NoSession ELSE s]
       /\ linkHandle' = [linkHandle EXCEPT ![s] = "run"]
       /\ gotUp' = IF f.chunk = NoChunk \/ fails THEN gotUp
                   ELSE [gotUp EXCEPT ![s] = Append(@, f.chunk)]
  /\ up' = Tail(up)
  /\ UNCHANGED <<down, clientVars, sentDown, gotDown, broken>>

\* handleStatusNew: Dispatch fails, and with it the whole connection.
ServerNewFails ==
  /\ up # <<>> /\ Head(up).status = "New"
  /\ broken' = TRUE
  /\ up' = <<>> /\ down' = <<>>
  /\ server' = [s \in S |-> IF server[s] = "open" THEN "closed" ELSE server[s]]
  /\ lookup' = [i \in S |-> NoSession]
  /\ UNCHANGED <<clientVars, linkHandle, sentDown, history>>

ServerKeep(fails) ==
  /\ up # <<>> /\ Head(up).status = "Keep"
  /\ LET f == Head(up)  s == lookup[f.id] IN
       IF s = NoSession
       THEN /\ down' = Append(down, End(f.id))
            /\ UNCHANGED <<server, lookup, gotUp>>
       ELSE /\ IF fails
                 THEN /\ server' = [server EXCEPT ![s] = "closed"]
                      /\ lookup' = [lookup EXCEPT ![f.id] = NoSession]
                      /\ UNCHANGED gotUp
                 ELSE /\ gotUp' = [gotUp EXCEPT ![s] = Append(@, f.chunk)]
                      /\ UNCHANGED <<server, lookup>>
            /\ UNCHANGED down
  /\ up' = Tail(up)
  /\ UNCHANGED <<clientVars, linkHandle, sentDown, gotDown, broken>>

ServerEnd ==
  /\ up # <<>> /\ Head(up).status = "End"
  /\ LET i == Head(up).id  s == lookup[i] IN
       IF s = NoSession THEN UNCHANGED <<server, lookup>>
       ELSE server' = [server EXCEPT ![s] = "closed"] /\ lookup' = [lookup EXCEPT ![i] = NoSession]
  /\ up' = Tail(up)
  /\ UNCHANGED <<down, clientVars, linkHandle, sentDown, history, broken>>

-----------------------------------------------------------------------------
(* The server: handle *)

HandleSends(s) ==
  /\ linkHandle[s] = "run" /\ ~broken
  /\ sentDown[s] < MaxChunks
  /\ sentDown' = [sentDown EXCEPT ![s] = @ + 1]
  /\ down' = Append(down, Frame("Keep", id[s], s, <<s, sentDown[s] + 1>>))
  /\ UNCHANGED <<up, clientVars, server, lookup, linkHandle, history, broken>>

\* Mutant: handle ends without an End frame.
HandleEndsSilently(s) ==
  /\ linkHandle[s] = "run"
  /\ linkHandle' = [linkHandle EXCEPT ![s] = "closing"]
  /\ UNCHANGED <<queues, clientVars, server, lookup, sentDown, history, broken>>

HandleEnds(s) ==
  /\ linkHandle[s] = "run"
  /\ linkHandle' = [linkHandle EXCEPT ![s] = "closing"]
  /\ down' = IF broken THEN down ELSE Append(down, End(id[s]))
  /\ UNCHANGED <<up, clientVars, server, lookup, sentDown, history, broken>>

HandleCloses(s) ==
  /\ linkHandle[s] = "closing"
  /\ linkHandle' = [linkHandle EXCEPT ![s] = "end"]
  /\ server' = [server EXCEPT ![s] = "closed"]
  /\ lookup' = [i \in S |-> IF i = id[s] /\ server[s] = "open" THEN NoSession ELSE lookup[i]]
  /\ UNCHANGED <<queues, clientVars, sentDown, history, broken>>

-----------------------------------------------------------------------------
\* The connection ends; both workers are done and their monitors close all.
Break ==
  /\ ~broken
  /\ broken' = TRUE
  /\ up' = <<>> /\ down' = <<>>
  /\ client' = [s \in S |-> IF Open(s) THEN "closed" ELSE client[s]]
  /\ server' = [s \in S |-> IF server[s] = "open" THEN "closed" ELSE server[s]]
  /\ lookup' = [i \in S |-> NoSession]
  /\ UNCHANGED <<count, id, fetch, followup, sentUp, linkHandle, sentDown, history>>

\* The client notices that the server has given up.
ClientBreaks ==
  /\ broken
  /\ \E s \in S : Open(s)
  /\ client' = [s \in S |-> IF Open(s) THEN "closed" ELSE client[s]]
  /\ UNCHANGED <<queues, count, id, fetch, followup, sentUp, serverVars, history, broken>>
-----------------------------------------------------------------------------

Receive ==
  \/ ServerNewFails \/ ServerEnd \/ ClientEnd
  \/ \E fails \in BOOLEAN : ServerNew(fails) \/ ServerKeep(fails) \/ ClientKeep(fails)

MuxNext ==
  \/ Receive
  \/ \E s \in S :
       \/ Dispatch(s) \/ FetchFirstEmpty(s) \/ FetchSends(s) \/ FetchEnds(s) \/ FetchCloses(s)
       \/ HandleSends(s) \/ HandleEnds(s) \/ HandleCloses(s)
  \/ Break \/ ClientBreaks

MuxSpec == MuxInit /\ [][MuxNext]_muxVars

\* Both workers go on reading frames.  A copy ends when its session has been
\* closed; the ends of a session may stay open for ever otherwise.
MuxProgress ==
  \/ Receive \/ ClientBreaks
  \/ \E s \in S :
       \/ client[s] = "closed" /\ FetchEnds(s)
       \/ server[s] = "closed" /\ HandleEnds(s)
       \/ FetchCloses(s) \/ HandleCloses(s)

\* A connection takes finitely many of these steps: that one of them is taken as long
\* as there is one is all that the scheduler has to grant.
MuxFairSpec == MuxSpec /\ WF_muxVars(MuxProgress)

-----------------------------------------------------------------------------
(* Properties *)

\* What an end of a session receives are the chunks the other end has sent, in
\* order, from the first on, and never another session's, although End, Keep
\* and New frames of several sessions are interleaved and the two ends close
\* at different times (handleStatusNew, handleStatusKeep, handleStatusEnd).
NoCrossTalk ==
  \A s \in S :
    /\ gotUp[s] = [n \in 1..Len(gotUp[s]) |-> <<s, n>>] /\ Len(gotUp[s]) <= sentUp[s]
    /\ gotDown[s] = [n \in 1..Len(gotDown[s]) |-> <<s, n>>] /\ Len(gotDown[s]) <= sentDown[s]

\* In the end no session is closed at one end and open at the other: a close
\* reaches the peer (Writer.Close, and the End frame that answers a Keep of an
\* unknown session), also when the New frame is still on its way.
ClosedAtBothEnds ==
  \A s \in S :
    /\ server[s] = "closed" => client[s] = "closed"
    /\ client[s] = "closed" => server[s] # "open"
=============================================================================
