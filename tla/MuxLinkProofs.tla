--------------------------- MODULE MuxLinkProofs ----------------------------
(***************************************************************************)
(* Proof of NoCrossTalk: the sessions of a connection are kept apart, for  *)
(* any number of sessions and of chunks.                                   *)
(***************************************************************************)
EXTENDS MuxLink, TLAPS

-----------------------------------------------------------------------------
(* A queue of frames, each with the number of the chunk it carries, or 0 *)

Num(f) == IF f.chunk = NoChunk THEN 0 ELSE f.chunk[2]

\* For every session t, got[t] chunks have been taken out of the queue q, sent[t]
\* have been put in: those in q are beyond the first and up to the second, and in
\* order.  All of them are there for a session of Live.
Stream(q, got, sent, Live) ==
  /\ \A t \in S : got[t] \in Nat /\ sent[t] \in Nat /\ got[t] <= sent[t]
  /\ \A i \in 1..Len(q) :
       Num(q[i]) # 0 => /\ q[i].target \in S /\ Num(q[i]) \in Nat
                        /\ got[q[i].target] < Num(q[i]) /\ Num(q[i]) <= sent[q[i].target]
  /\ \A i, j \in 1..Len(q) :
       i < j /\ Num(q[i]) # 0 /\ Num(q[j]) # 0 /\ q[i].target = q[j].target => Num(q[i]) < Num(q[j])
  /\ \A t \in Live : \A m \in Nat :
       got[t] < m /\ m <= sent[t] => \E i \in 1..Len(q) : q[i].target = t /\ Num(q[i]) = m

\* The New frame of a session is in front of all its other frames in q, and on its way
\* to a server that does not know the session yet.  Nothing of a session in Fresh has
\* been sent; the New frame of one in Awaited is on its way.
Opening(q, Fresh, Awaited, Unknown) ==
  /\ \A i \in 1..Len(q) :
       q[i].status = "New" => q[i].target \in Unknown /\ \A j \in 1..(i - 1) : q[j].target # q[i].target
  /\ \A s \in Fresh : \A i \in 1..Len(q) : q[i].target # s
  /\ \A s \in Awaited : \E i \in 1..Len(q) : q[i].status = "New" /\ q[i].target = s

Frames == [status : {"New", "Keep", "End"}, id : S, target : S \cup {NoSession},
           chunk : {NoChunk} \cup (S \X (Nat \ {0}))]

\* A frame with data belongs to one of the n sessions that have been dispatched.
FrameOK(f, n) ==
  /\ f.status = "End" => f.target = NoSession /\ f.chunk = NoChunk
  /\ f.status # "End" =>
       /\ f.target \in S /\ f.target <= n /\ f.id = f.target
       /\ f.chunk = NoChunk => f.status = "New"
       /\ f.chunk # NoChunk => f.chunk = <<f.target, Num(f)>>

FramesOK(q, n) == q \in Seq(Frames) /\ \A i \in 1..Len(q) : FrameOK(q[i], n)

\* What has been received are the first chunks.
FirstOf(s, got) == got \in Seq(S \X Nat) /\ got = [n \in 1..Len(got) |-> <<s, n>>]
Lens(got) == [s \in S |-> Len(got[s])]

-----------------------------------------------------------------------------
(* The inductive invariant of a connection *)

LinkTypeOK ==
  /\ count \in Nat /\ broken \in BOOLEAN
  /\ id \in [S -> Nat] /\ sentUp \in [S -> Nat] /\ sentDown \in [S -> Nat]
  /\ client \in [S -> {"none", "open", "closed"}] /\ server \in [S -> {"none", "open", "closed"}]
  /\ fetch \in [S -> {"none", "run", "closing", "end"}] /\ linkHandle \in [S -> {"none", "run", "closing", "end"}]
  /\ followup \in [S -> BOOLEAN]
  /\ DOMAIN lookup = S /\ DOMAIN gotUp = S /\ DOMAIN gotDown = S

\* A session that has been dispatched has its number as its ID, and the tables of
\* both ends hold the sessions that are open under their IDs.
TablesInv ==
  \A s \in S :
    /\ client[s] # "none" <=> s <= count
    /\ s <= count => id[s] = s
    /\ fetch[s] # "none" \/ server[s] # "none" => s <= count
    /\ linkHandle[s] # "none" => server[s] # "none"
    /\ lookup[s] = IF server[s] = "open" THEN s ELSE NoSession
    /\ ~followup[s] => server[s] = "none" /\ sentUp[s] = 0

\* An end that has closed a session takes nothing more of it.
UpLive == {s \in S : ~broken /\ server[s] # "closed"}
DownLive == {s \in S : ~broken /\ client[s] # "closed"}

Fresh == {s \in S : ~followup[s]}
Unknown == {s \in S : server[s] = "none"}
Awaited == {s \in S : ~broken /\ followup[s] /\ server[s] = "none"}

UpInv ==
  /\ broken => up = <<>>
  /\ FramesOK(up, count) /\ Opening(up, Fresh, Awaited, Unknown)
  /\ Stream(up, Lens(gotUp), sentUp, UpLive)
  /\ \A s \in S : FirstOf(s, gotUp[s])

DownInv ==
  /\ broken => down = <<>>
  /\ FramesOK(down, count) /\ \A i \in 1..Len(down) : down[i].status # "New"
  /\ Stream(down, Lens(gotDown), sentDown, DownLive)
  /\ \A s \in S : FirstOf(s, gotDown[s])

LinkInv == LinkTypeOK /\ TablesInv /\ UpInv /\ DownInv

-----------------------------------------------------------------------------
(* What the ends of a queue do to a stream *)

LEMMA FrameFacts ==
  /\ \A st, i, t, m : m \in Nat \ {0} => Num(Frame(st, i, t, <<t, m>>)) = m /\ <<t, m>> # NoChunk
  /\ \A st, i, t : Num(Frame(st, i, t, NoChunk)) = 0
  /\ \A f \in Frames : Num(f) \in Nat
BY Zenon DEF Num, Frame, NoChunk, Frames

\* The next chunk of a session is put in.
LEMMA StreamSends ==
  ASSUME NEW q \in Seq(Frames), NEW got, NEW sent \in [S -> Nat], NEW Live \in SUBSET S, Stream(q, got, sent, Live),
         NEW t \in S, NEW f \in Frames, f.target = t, Num(f) = sent[t] + 1
  PROVE  Stream(Append(q, f), got, [sent EXCEPT ![t] = sent[t] + 1], Live)
<1> DEFINE p == Append(q, f)
           more == [sent EXCEPT ![t] = sent[t] + 1]
<1>1. Len(q) \in Nat /\ Len(p) = Len(q) + 1 /\ p[Len(q) + 1] = f /\ \A i \in 1..Len(q) : p[i] = q[i]
  OBVIOUS
<1>2. \A r \in S : more[r] = IF r = t THEN sent[t] + 1 ELSE sent[r]
  BY Zenon
<1>3. \A r \in S : got[r] \in Nat /\ sent[r] \in Nat /\ got[r] <= sent[r]
  BY Zenon DEF Stream
<1> HIDE DEF p, more
<1>4. \A r \in S : got[r] \in Nat /\ more[r] \in Nat /\ got[r] <= more[r]
  BY <1>2, <1>3
<1>5. ASSUME NEW i \in 1..Len(p), Num(p[i]) # 0
      PROVE  /\ p[i].target \in S /\ Num(p[i]) \in Nat
             /\ got[p[i].target] < Num(p[i]) /\ Num(p[i]) <= more[p[i].target]
  <2>1. CASE i = Len(q) + 1
    BY <1>1, <1>2, <1>3, <2>1
  <2>2. CASE i \in 1..Len(q)
    <3>1. p[i] = q[i]
      BY <1>1, <2>2, Zenon
    <3>2. /\ q[i].target \in S /\ Num(q[i]) \in Nat /\ got[q[i].target] < Num(q[i])
          /\ Num(q[i]) <= sent[q[i].target]
      BY <1>5, <2>2, <3>1, Zenon DEF Stream
    <3>3. \A r \in S : sent[r] \in Nat /\ more[r] \in Nat /\ sent[r] <= more[r]
      BY <1>2, <1>3
    <3> QED
      BY <3>1, <3>2, <3>3
  <2> QED
    BY <1>1, <2>1, <2>2
<1>6. ASSUME NEW i \in 1..Len(p), NEW j \in 1..Len(p), i < j, Num(p[i]) # 0, Num(p[j]) # 0, p[i].target = p[j].target
      PROVE  Num(p[i]) < Num(p[j])
  <2>1. i \in 1..Len(q) /\ p[i] = q[i]
    BY <1>1, <1>6
  <2>2. CASE j \in 1..Len(q)
    <3>1. p[j] = q[j]
      BY <1>1, <2>2, Zenon
    <3> QED
      BY <1>6, <2>1, <2>2, <3>1, Zenon DEF Stream
  <2>3. CASE j = Len(q) + 1
    <3>1. q[i].target = t /\ Num(q[i]) \in Nat /\ Num(q[i]) <= sent[t]
      BY <1>1, <1>6, <2>1, <2>3 DEF Stream
    <3> QED
      BY <1>1, <2>1, <2>3, <3>1
  <2> QED
    BY <1>1, <2>2, <2>3
<1>7. ASSUME NEW r \in Live, NEW m \in Nat, got[r] < m, m <= more[r]
      PROVE  \E i \in 1..Len(p) : p[i].target = r /\ Num(p[i]) = m
  <2>1. CASE r = t /\ m = sent[t] + 1
    BY <1>1, <2>1
  <2>2. CASE m <= sent[r]
    <3>1. PICK i \in 1..Len(q) : q[i].target = r /\ Num(q[i]) = m
      BY <1>7, <2>2, Zenon DEF Stream
    <3>2. i \in 1..Len(p) /\ p[i] = q[i]
      BY <1>1
    <3> QED
      BY <3>1, <3>2, Zenon
  <2> QED
    BY <1>2, <1>3, <1>7, <2>1, <2>2
<1> QED
  BY <1>4, <1>5, <1>6, <1>7, Zenon DEF Stream, p, more

\* A frame without data is put in.
LEMMA StreamSignals ==
  ASSUME NEW q \in Seq(Frames), NEW got, NEW sent, NEW Live, Stream(q, got, sent, Live),
         NEW f \in Frames, Num(f) = 0
  PROVE  Stream(Append(q, f), got, sent, Live)
<1> DEFINE p == Append(q, f)
<1>1. Len(q) \in Nat /\ Len(p) = Len(q) + 1 /\ p[Len(q) + 1] = f /\ \A i \in 1..Len(q) : p[i] = q[i]
  OBVIOUS
<1> HIDE DEF p
<1>2. \A i \in 1..Len(p) : Num(p[i]) # 0 => i \in 1..Len(q) /\ p[i] = q[i]
  BY <1>1
<1>3. ASSUME NEW r \in Live, NEW m \in Nat, got[r] < m, m <= sent[r]
      PROVE  \E i \in 1..Len(p) : p[i].target = r /\ Num(p[i]) = m
  <2>1. PICK i \in 1..Len(q) : q[i].target = r /\ Num(q[i]) = m
    BY <1>3, Zenon DEF Stream
  <2>2. i \in 1..Len(p) /\ p[i] = q[i]
    BY <1>1
  <2> QED
    BY <2>1, <2>2, Zenon
<1>4. ASSUME NEW i \in 1..Len(p), Num(p[i]) # 0
      PROVE  /\ p[i].target \in S /\ Num(p[i]) \in Nat
             /\ got[p[i].target] < Num(p[i]) /\ Num(p[i]) <= sent[p[i].target]
  BY <1>2, <1>4, Zenon DEF Stream
<1>5. ASSUME NEW i \in 1..Len(p), NEW j \in 1..Len(p), i < j, Num(p[i]) # 0, Num(p[j]) # 0, p[i].target = p[j].target
      PROVE  Num(p[i]) < Num(p[j])
  <2>1. i \in 1..Len(q) /\ j \in 1..Len(q) /\ p[i] = q[i] /\ p[j] = q[j]
    BY <1>2, <1>5, Zenon
  <2> QED
    BY <1>5, <2>1, Zenon DEF Stream
<1> QED
  BY <1>3, <1>4, <1>5, Zenon DEF Stream, p

\* A frame is taken out and what it carries, if anything, is dropped: its session is
\* not live any more.
LEMMA StreamDrops ==
  ASSUME NEW q \in Seq(Frames), q # <<>>, NEW got, NEW sent, NEW Live \in SUBSET S, NEW Rest \in SUBSET Live,
         Stream(q, got, sent, Live), Num(Head(q)) = 0 \/ Head(q).target \notin Rest
  PROVE  Stream(Tail(q), got, sent, Rest)
<1> DEFINE p == Tail(q)
<1>1. /\ Len(q) \in Nat /\ Len(q) >= 1 /\ Len(p) = Len(q) - 1 /\ Head(q) = q[1]
      /\ \A i \in 1..Len(p) : p[i] = q[i + 1] /\ i + 1 \in 1..Len(q)
  OBVIOUS
<1> HIDE DEF p
<1>2. ASSUME NEW r \in Rest, NEW m \in Nat, got[r] < m, m <= sent[r]
      PROVE  \E i \in 1..Len(p) : p[i].target = r /\ Num(p[i]) = m
  <2>1. PICK i \in 1..Len(q) : q[i].target = r /\ Num(q[i]) = m
    BY <1>2, Zenon DEF Stream
  <2>2. m # 0
    BY <1>2 DEF Stream
  <2>3. i # 1
    BY <1>1, <2>1, <2>2, Zenon
  <2>4. i - 1 \in 1..Len(p) /\ p[i - 1] = q[i]
    BY <1>1, <2>3
  <2> QED
    BY <2>1, <2>4, Zenon
<1> QED
  BY <1>1, <1>2 DEF Stream, p

\* The chunk that is taken out is the next one, and is received.
LEMMA StreamTakes ==
  ASSUME NEW q \in Seq(Frames), q # <<>>, NEW got \in [S -> Nat], NEW sent, NEW Live \in SUBSET S,
         Stream(q, got, sent, Live), Num(Head(q)) # 0, Head(q).target \in Live
  PROVE  /\ Num(Head(q)) = got[Head(q).target] + 1
         /\ Stream(Tail(q), [got EXCEPT ![Head(q).target] = got[Head(q).target] + 1], sent, Live)
<1> DEFINE p == Tail(q)
           t == Head(q).target
           more == [got EXCEPT ![t] = got[t] + 1]
<1>1. /\ Len(q) \in Nat /\ Len(q) >= 1 /\ Len(p) = Len(q) - 1 /\ Head(q) = q[1]
      /\ \A i \in 1..Len(p) : p[i] = q[i + 1] /\ i + 1 \in 1..Len(q)
  OBVIOUS
<1>2. t \in S /\ \A r \in S : more[r] = IF r = t THEN got[t] + 1 ELSE got[r]
  BY Zenon
<1>3. /\ q[1].target = t /\ Num(q[1]) \in Nat /\ got[t] < Num(q[1]) /\ Num(q[1]) <= sent[t] /\ sent[t] \in Nat
      /\ Num(q[1]) # 0 /\ t \in Live
  BY <1>1, <1>2 DEF Stream
<1> HIDE DEF p, t, more
<1>4. Num(q[1]) = got[t] + 1
  <2>1. PICK i \in 1..Len(q) : q[i].target = t /\ Num(q[i]) = got[t] + 1
    <3>1. got[t] + 1 \in Nat /\ got[t] < got[t] + 1 /\ got[t] + 1 <= sent[t]
      BY <1>2, <1>3
    <3> QED
      BY <1>3, <3>1 DEF Stream
  <2>2. CASE i = 1
    BY <2>1, <2>2, Zenon
  <2>3. CASE i # 1
    <3>1. Num(q[1]) < Num(q[i])
      BY <1>1, <1>2, <1>3, <2>1, <2>3 DEF Stream
    <3> QED
      BY <1>2, <1>3, <2>1, <3>1
  <2> QED
    BY <2>2, <2>3, Zenon
<1>5. \A r \in S : more[r] \in Nat /\ sent[r] \in Nat /\ more[r] <= sent[r]
  BY <1>2, <1>3, <1>4 DEF Stream
<1>6. ASSUME NEW i \in 1..Len(p), Num(p[i]) # 0
      PROVE  /\ p[i].target \in S /\ Num(p[i]) \in Nat
             /\ more[p[i].target] < Num(p[i]) /\ Num(p[i]) <= sent[p[i].target]
  <2>1. p[i] = q[i + 1] /\ i + 1 \in 1..Len(q) /\ 1 \in 1..Len(q) /\ 1 < i + 1
    BY <1>1
  <2>2. /\ p[i].target \in S /\ Num(p[i]) \in Nat
        /\ got[p[i].target] < Num(p[i]) /\ Num(p[i]) <= sent[p[i].target]
    BY <1>6, <2>1, Zenon DEF Stream
  <2>3. p[i].target = t => Num(q[1]) < Num(p[i])
    BY <1>3, <1>6, <2>1 DEF Stream
  <2> QED
    BY <1>2, <1>4, <2>2, <2>3, Zenon
<1>7. ASSUME NEW i \in 1..Len(p), NEW j \in 1..Len(p), i < j, Num(p[i]) # 0, Num(p[j]) # 0, p[i].target = p[j].target
      PROVE  Num(p[i]) < Num(p[j])
  <2>1. p[i] = q[i + 1] /\ p[j] = q[j + 1] /\ i + 1 \in 1..Len(q) /\ j + 1 \in 1..Len(q) /\ i + 1 < j + 1
    BY <1>1, <1>7
  <2>2. \A a, b \in 1..Len(q) :
          a < b /\ Num(q[a]) # 0 /\ Num(q[b]) # 0 /\ q[a].target = q[b].target => Num(q[a]) < Num(q[b])
    BY Zenon DEF Stream
  <2> QED
    BY <1>7, <2>1, <2>2, Zenon
<1>8. ASSUME NEW r \in Live, NEW m \in Nat, more[r] < m, m <= sent[r]
      PROVE  \E i \in 1..Len(p) : p[i].target = r /\ Num(p[i]) = m
  <2>1. got[r] < m
    BY <1>2, <1>8
  <2>2. PICK i \in 1..Len(q) : q[i].target = r /\ Num(q[i]) = m
    BY <1>8, <2>1, Zenon DEF Stream
  <2>3. i # 1
    BY <1>2, <1>3, <1>4, <1>8, <2>2
  <2>4. i - 1 \in 1..Len(p) /\ p[i - 1] = q[i]
    BY <1>1, <2>3
  <2> QED
    BY <2>2, <2>4, Zenon
<1> QED
  BY <1>1, <1>4, <1>5, <1>6, <1>7, <1>8, Zenon DEF Stream, p, t, more

\* Fewer sessions are live; and nothing is left of a queue that is thrown away.
LEMMA StreamShrinks ==
  ASSUME NEW q, NEW got, NEW sent, NEW Live, NEW Rest \in SUBSET Live, Stream(q, got, sent, Live)
  PROVE  Stream(q, got, sent, Rest) /\ Stream(<<>>, got, sent, {})
BY DEF Stream

\* One more chunk at the end of the first ones.
LEMMA FirstOfAppend ==
  ASSUME NEW s \in S, NEW g, FirstOf(s, g)
  PROVE  FirstOf(s, Append(g, <<s, Len(g) + 1>>)) /\ Len(Append(g, <<s, Len(g) + 1>>)) = Len(g) + 1
BY DEF FirstOf

-----------------------------------------------------------------------------
(* Steps of a connection *)

LEMMA ChunkFacts ==
  /\ \A i \in S : End(i) \in Frames /\ Num(End(i)) = 0 /\ End(i).target = NoSession
                  /\ End(i).status = "End" /\ End(i).chunk = NoChunk
  /\ \A s \in S, st \in {"New", "Keep"}, m \in Nat \ {0} :
       LET f == Frame(st, s, s, <<s, m>>)
       IN f \in Frames /\ Num(f) = m /\ f.target = s /\ f.id = s /\ f.status = st /\ f.chunk = <<s, m>> /\ f.chunk # NoChunk
  /\ \A s \in S :
       LET f == Frame("New", s, s, NoChunk)
       IN f \in Frames /\ Num(f) = 0 /\ f.target = s /\ f.id = s /\ f.status = "New" /\ f.chunk = NoChunk
BY FrameFacts DEF Frames, Frame, End, NoChunk

\* What is at the head of a queue, and what is behind it.
LEMMA HeadFacts ==
  ASSUME NEW q \in Seq(Frames), q # <<>>
  PROVE  /\ Head(q) \in Frames /\ Head(q) = q[1] /\ 1 \in 1..Len(q) /\ Tail(q) \in Seq(Frames)
         /\ Len(Tail(q)) = Len(q) - 1 /\ Len(q) \in Nat
         /\ \A i \in 1..Len(Tail(q)) : Tail(q)[i] = q[i + 1] /\ i + 1 \in 1..Len(q)
         /\ \A i \in 1..Len(q) : i # 1 => i - 1 \in 1..Len(Tail(q)) /\ Tail(q)[i - 1] = q[i]
OBVIOUS

LEMMA AppendFacts ==
  ASSUME NEW q \in Seq(Frames), NEW f \in Frames
  PROVE  /\ Append(q, f) \in Seq(Frames) /\ Len(Append(q, f)) = Len(q) + 1 /\ Len(q) \in Nat
         /\ Append(q, f)[Len(q) + 1] = f /\ \A i \in 1..Len(q) : Append(q, f)[i] = q[i]
OBVIOUS

LEMMA FrameCases ==
  ASSUME NEW f \in Frames, NEW n, FrameOK(f, n)
  PROVE  /\ f.status = "Keep" => /\ f.target \in S /\ f.target <= n /\ f.id = f.target
                                 /\ f.chunk # NoChunk /\ f.target # NoSession
         /\ f.status = "End" => f.id \in S /\ f.id # NoSession /\ f.chunk = NoChunk
BY DEF FrameOK, Frames, S, NoSession

LEMMA AppendNoNew ==
  ASSUME NEW q \in Seq(Frames), NEW f \in Frames, f.status # "New", \A i \in 1..Len(q) : q[i].status # "New"
  PROVE  \A i \in 1..Len(Append(q, f)) : Append(q, f)[i].status # "New"
BY AppendFacts

\* SessionManager.Get of the client finds the session by its number.
LEMMA ClientSessionIs ==
  ASSUME LinkTypeOK, TablesInv, NEW i \in S
  PROVE  ClientSession(i) = IF client[i] = "open" THEN i ELSE NoSession
<1>1. \A s \in S : client[s] = "open" /\ id[s] = i => s = i
  BY Zenon DEF LinkTypeOK, TablesInv
<1>2. client[i] = "open" => id[i] = i
  BY Zenon DEF LinkTypeOK, TablesInv
<1> QED
  BY <1>1, <1>2, Zenon DEF ClientSession

\* A frame that has arrived.
LEMMA ArrivedUp ==
  ASSUME UpInv, up # <<>>
  PROVE  ~broken /\ Head(up) \in Frames /\ FrameOK(Head(up), count) /\ FramesOK(Tail(up), count)
BY HeadFacts, Zenon DEF UpInv, FramesOK

LEMMA ArrivedDown ==
  ASSUME DownInv, down # <<>>
  PROVE  /\ ~broken /\ Head(down) \in Frames /\ FrameOK(Head(down), count) /\ FramesOK(Tail(down), count)
         /\ Head(down).status # "New" /\ \A i \in 1..Len(Tail(down)) : Tail(down)[i].status # "New"
BY HeadFacts DEF DownInv, FramesOK

LEMMA FramesAppend ==
  ASSUME NEW q, NEW n, FramesOK(q, n), NEW f \in Frames, FrameOK(f, n)
  PROVE  FramesOK(Append(q, f), n)
<1>1. q \in Seq(Frames)
  BY Zenon DEF FramesOK
<1>2. /\ Append(q, f) \in Seq(Frames) /\ Len(Append(q, f)) = Len(q) + 1 /\ Len(q) \in Nat
      /\ Append(q, f)[Len(q) + 1] = f /\ \A i \in 1..Len(q) : Append(q, f)[i] = q[i]
  BY <1>1, AppendFacts, Zenon
<1>3. \A i \in 1..Len(Append(q, f)) : FrameOK(Append(q, f)[i], n)
  BY <1>2 DEF FramesOK
<1> QED
  BY <1>2, <1>3, Zenon DEF FramesOK

-----------------------------------------------------------------------------
(* What the ends of the queue do to the opening of sessions *)

\* A frame behind the New frame of its session, or of no session.
LEMMA OpeningFollows ==
  ASSUME NEW q \in Seq(Frames), NEW F, NEW A, NEW U, Opening(q, F, A, U),
         NEW f \in Frames, f.status # "New", f.target \notin F
  PROVE  Opening(Append(q, f), F, A, U)
<1> DEFINE p == Append(q, f)
<1>1. Len(p) = Len(q) + 1 /\ Len(q) \in Nat /\ p[Len(q) + 1] = f /\ \A i \in 1..Len(q) : p[i] = q[i]
  BY AppendFacts, Zenon
<1> HIDE DEF p
<1>2. ASSUME NEW i \in 1..Len(p), p[i].status = "New"
      PROVE  p[i].target \in U /\ \A j \in 1..(i - 1) : p[j].target # p[i].target
  <2>1. i \in 1..Len(q) /\ p[i] = q[i] /\ \A j \in 1..(i - 1) : p[j] = q[j]
    BY <1>1, <1>2
  <2> QED
    BY <1>2, <2>1 DEF Opening
<1>3. \A s \in F : \A i \in 1..Len(p) : p[i].target # s
  BY <1>1 DEF Opening
<1>4. ASSUME NEW s \in A PROVE \E i \in 1..Len(p) : p[i].status = "New" /\ p[i].target = s
  <2>1. PICK i \in 1..Len(q) : q[i].status = "New" /\ q[i].target = s
    BY Zenon DEF Opening
  <2>2. i \in 1..Len(p) /\ p[i] = q[i]
    BY <1>1
  <2> QED
    BY <2>1, <2>2, Zenon
<1> QED
  BY <1>2, <1>3, <1>4, Zenon DEF Opening, p

\* The New frame of a session is sent.
LEMMA OpeningStarts ==
  ASSUME NEW q \in Seq(Frames), NEW F, NEW A, NEW U, Opening(q, F, A, U),
         NEW f \in Frames, f.status = "New", f.target \in F, f.target \in U
  PROVE  Opening(Append(q, f), F \ {f.target}, A \cup {f.target}, U)
<1> DEFINE p == Append(q, f)
<1>1. Len(p) = Len(q) + 1 /\ Len(q) \in Nat /\ p[Len(q) + 1] = f /\ \A i \in 1..Len(q) : p[i] = q[i]
  BY AppendFacts, Zenon
<1> HIDE DEF p
<1>2. ASSUME NEW i \in 1..Len(p), p[i].status = "New"
      PROVE  p[i].target \in U /\ \A j \in 1..(i - 1) : p[j].target # p[i].target
  <2>1. CASE i \in 1..Len(q)
    <3>1. p[i] = q[i] /\ \A j \in 1..(i - 1) : p[j] = q[j]
      BY <1>1, <2>1
    <3> QED
      BY <1>2, <2>1, <3>1 DEF Opening
  <2>2. CASE i = Len(q) + 1
    <3>1. p[i] = f /\ \A j \in 1..(i - 1) : j \in 1..Len(q) /\ p[j] = q[j]
      BY <1>1, <2>2
    <3> QED
      BY <3>1, Zenon DEF Opening
  <2> QED
    BY <1>1, <2>1, <2>2
<1>3. \A s \in F \ {f.target} : \A i \in 1..Len(p) : p[i].target # s
  BY <1>1 DEF Opening
<1>4. ASSUME NEW s \in A \cup {f.target} PROVE \E i \in 1..Len(p) : p[i].status = "New" /\ p[i].target = s
  <2>1. CASE s = f.target
    BY <1>1, <2>1
  <2>2. CASE s \in A
    <3>1. PICK i \in 1..Len(q) : q[i].status = "New" /\ q[i].target = s
      BY <2>2, Zenon DEF Opening
    <3>2. i \in 1..Len(p) /\ p[i] = q[i]
      BY <1>1
    <3> QED
      BY <3>1, <3>2, Zenon
  <2> QED
    BY <2>1, <2>2, Zenon
<1> QED
  BY <1>2, <1>3, <1>4, Zenon DEF Opening, p

\* A frame is taken out; with a New frame its session gets known.
LEMMA OpeningTail ==
  ASSUME NEW q \in Seq(Frames), q # <<>>, NEW F, NEW A, NEW U, Opening(q, F, A, U), NEW A2 \in SUBSET A,
         NEW U2, Head(q).status = "New" => Head(q).target \notin A2,
         \A s \in U : s \in U2 \/ (Head(q).status = "New" /\ s = Head(q).target)
  PROVE  Opening(Tail(q), F, A2, U2)
<1> DEFINE p == Tail(q)
<1>1. /\ Head(q) = q[1] /\ Len(p) = Len(q) - 1 /\ Len(q) \in Nat /\ 1 \in 1..Len(q)
      /\ \A i \in 1..Len(p) : p[i] = q[i + 1] /\ i + 1 \in 1..Len(q)
      /\ \A i \in 1..Len(q) : i # 1 => i - 1 \in 1..Len(p) /\ p[i - 1] = q[i]
  BY HeadFacts, Zenon
<1> HIDE DEF p
<1>2. ASSUME NEW i \in 1..Len(p), p[i].status = "New"
      PROVE  p[i].target \in U2 /\ \A j \in 1..(i - 1) : p[j].target # p[i].target
  <2>1. p[i] = q[i + 1] /\ i + 1 \in 1..Len(q)
    BY <1>1, Zenon
  <2>2. q[i + 1].target \in U /\ \A j \in 1..i : q[j].target # q[i + 1].target
    BY <1>2, <2>1 DEF Opening
  <2>3. q[1].target # p[i].target
    BY <2>1, <2>2
  <2>4. \A j \in 1..(i - 1) : p[j] = q[j + 1] /\ j + 1 \in 1..i
    BY <1>1
  <2>5. p[i].target \in U2
    BY <1>1, <2>1, <2>2, <2>3, Zenon
  <2>6. \A j \in 1..(i - 1) : p[j].target # p[i].target
    BY <2>1, <2>2, <2>4, Zenon
  <2> QED
    BY <2>5, <2>6, Zenon
<1>3. \A s \in F : \A i \in 1..Len(p) : p[i].target # s
  BY <1>1 DEF Opening
<1>4. ASSUME NEW s \in A2 PROVE \E i \in 1..Len(p) : p[i].status = "New" /\ p[i].target = s
  <2>1. PICK i \in 1..Len(q) : q[i].status = "New" /\ q[i].target = s
    BY Zenon DEF Opening
  <2>2. i # 1
    BY <1>1, <2>1, Zenon
  <2> QED
    BY <1>1, <2>1, <2>2, Zenon
<1> QED
  BY <1>2, <1>3, <1>4, Zenon DEF Opening, p

\* A frame with data that is not a New frame belongs to a session the server knows.
LEMMA KeepIsKnown ==
  ASSUME NEW q \in Seq(Frames), q # <<>>, NEW F, NEW A, NEW U, Opening(q, F, A, U), Head(q).status # "New"
  PROVE  Head(q).target \notin F /\ Head(q).target \notin A
<1>1. Head(q) = q[1] /\ 1 \in 1..Len(q)
  BY HeadFacts, Zenon
<1>2. ASSUME q[1].target \in A PROVE FALSE
  <2>1. PICK i \in 1..Len(q) : q[i].status = "New" /\ q[i].target = q[1].target
    BY <1>2, Zenon DEF Opening
  <2>2. i # 1 /\ 1 \in 1..(i - 1)
    BY <1>1, <2>1
  <2>3. q[1].target # q[i].target
    BY <2>1, <2>2 DEF Opening
  <2> QED
    BY <2>1, <2>3, Zenon
<1> QED
  BY <1>1, <1>2, Zenon DEF Opening

LEMMA OpeningShrinks ==
  ASSUME NEW q, NEW F, NEW A, NEW U, Opening(q, F, A, U), NEW A2 \in SUBSET A, NEW F2
  PROVE  Opening(q, F, A2, U) /\ Opening(<<>>, F2, {}, U)
BY DEF Opening

LEMMA FramesGrow ==
  ASSUME NEW q, NEW n \in Nat, NEW m \in Nat, n <= m, FramesOK(q, n)
  PROVE  FramesOK(q, m)
<1>1. \A f : FrameOK(f, n) => FrameOK(f, m)
  BY DEF FrameOK, S
<1> QED
  BY <1>1, Zenon DEF FramesOK

\* The chunk at the head of the queue is the next one of its session.
LEMMA Taken ==
  ASSUME NEW q \in Seq(Frames), q # <<>>, NEW got, DOMAIN got = S, \A s \in S : FirstOf(s, got[s]),
         NEW sent, NEW Live \in SUBSET S, Stream(q, Lens(got), sent, Live),
         NEW n, FrameOK(Head(q), n), Head(q).chunk # NoChunk, Head(q).target \in Live
  PROVE  LET more == [got EXCEPT ![Head(q).target] = Append(@, Head(q).chunk)]
         IN  DOMAIN more = S /\ Stream(Tail(q), Lens(more), sent, Live) /\ \A s \in S : FirstOf(s, more[s])
<1> DEFINE f == Head(q)
           t == f.target
           more == [got EXCEPT ![t] = Append(@, f.chunk)]
<1>1. f \in Frames /\ t \in S
  BY HeadFacts, Zenon
<1>2. f.chunk = <<t, Num(f)>> /\ Num(f) # 0
  <2>1. f.chunk \in S \X (Nat \ {0}) /\ Num(f) = f.chunk[2]
    BY <1>1, Zenon DEF Frames, Num
  <2>2. f.status # "End"
    BY Zenon DEF FrameOK
  <2> QED
    BY <2>1, <2>2 DEF FrameOK
<1>3. Lens(got) \in [S -> Nat]
  <2>1. \A s \in S : Len(got[s]) \in Nat
    BY DEF FirstOf
  <2> QED
    BY <2>1, Zenon DEF Lens
<1>4. Num(f) = Lens(got)[t] + 1 /\ Stream(Tail(q), [Lens(got) EXCEPT ![t] = Lens(got)[t] + 1], sent, Live)
  BY <1>2, <1>3, StreamTakes, Zenon
<1>5. f.chunk = <<t, Len(got[t]) + 1>>
  BY <1>1, <1>2, <1>4, Zenon DEF Lens
<1>6. DOMAIN more = S /\ \A s \in S : more[s] = IF s = t THEN Append(got[t], <<t, Len(got[t]) + 1>>) ELSE got[s]
  BY <1>1, <1>5, Zenon
<1> HIDE DEF more, t, f
<1>7. FirstOf(t, more[t]) /\ Len(more[t]) = Len(got[t]) + 1
  BY <1>1, <1>6, FirstOfAppend, Zenon
<1>8. \A s \in S : FirstOf(s, more[s])
  BY <1>6, <1>7, Zenon
<1>9. Lens(more) = [Lens(got) EXCEPT ![t] = Lens(got)[t] + 1]
  BY <1>1, <1>6, <1>7, Zenon DEF Lens
<1> QED
  BY <1>4, <1>6, <1>8, <1>9, Zenon DEF more, t, f

-----------------------------------------------------------------------------
(* What a step may do to the stream to the server *)

LEMMA UpSame ==
  ASSUME LinkTypeOK, UpInv, UNCHANGED <<up, followup, sentUp, gotUp, broken>>, count' \in Nat, count <= count',
         \A s \in S : /\ server'[s] = "none" <=> server[s] = "none"
                      /\ server[s] = "closed" => server'[s] = "closed"
  PROVE  UpInv'
<1>1. FramesOK(up, count')
  BY FramesGrow, Zenon DEF UpInv, LinkTypeOK
<1>2. Fresh' = Fresh /\ Unknown' = Unknown /\ Awaited' = Awaited
  BY Zenon DEF Fresh, Unknown, Awaited
<1>3. UpLive' \in SUBSET UpLive /\ Lens(gotUp)' = Lens(gotUp)
  BY Zenon DEF UpLive, Lens
<1>4. Stream(up, Lens(gotUp), sentUp, UpLive')
  BY <1>3, StreamShrinks, Zenon DEF UpInv
<1> QED
  BY <1>1, <1>2, <1>3, <1>4, Zenon DEF UpInv

LEMMA UpStill ==
  ASSUME LinkInv, UNCHANGED <<up, count, followup, sentUp, gotUp, broken>>,
         \A s \in S : /\ server'[s] = "none" <=> server[s] = "none"
                      /\ server[s] = "closed" => server'[s] = "closed"
  PROVE  UpInv'
<1>1. count' \in Nat /\ count <= count'
  BY DEF LinkInv, LinkTypeOK
<1> QED
  BY <1>1, UpSame, Zenon DEF LinkInv

LEMMA UpEnd ==
  ASSUME UpInv, NEW i \in S, ~broken, up' = Append(up, End(i)),
         UNCHANGED <<count, server, followup, sentUp, gotUp, broken>>
  PROVE  UpInv'
<1> DEFINE f == End(i)
<1>1. f \in Frames /\ Num(f) = 0 /\ f.target = NoSession /\ f.status = "End" /\ f.chunk = NoChunk
  BY ChunkFacts, Zenon
<1> HIDE DEF f
<1>2. up \in Seq(Frames) /\ FrameOK(f, count) /\ f.target \notin Fresh
  BY <1>1 DEF UpInv, FramesOK, FrameOK, Fresh, NoSession, S
<1>3. FramesOK(Append(up, f), count)
  BY <1>1, <1>2, FramesAppend, Zenon DEF UpInv
<1>4. Opening(Append(up, f), Fresh, Awaited, Unknown)
  BY <1>1, <1>2, OpeningFollows DEF UpInv
<1>5. Stream(Append(up, f), Lens(gotUp), sentUp, UpLive)
  BY <1>1, <1>2, StreamSignals, Zenon DEF UpInv
<1>6. Fresh' = Fresh /\ Unknown' = Unknown /\ Awaited' = Awaited /\ UpLive' = UpLive /\ Lens(gotUp)' = Lens(gotUp)
  BY Zenon DEF Fresh, Unknown, Awaited, UpLive, Lens
<1> QED
  BY <1>3, <1>4, <1>5, <1>6 DEF UpInv, f

\* A frame has been taken out, and no chunk of it has been passed on.
LEMMA UpDrops ==
  ASSUME LinkTypeOK, UpInv, up # <<>>, up' = Tail(up), UNCHANGED <<count, followup, sentUp, gotUp, broken>>,
         \A s \in S : /\ server'[s] = "none" => server[s] = "none"
                      /\ server[s] = "none" => server'[s] = "none" \/ (Head(up).status = "New" /\ s = Head(up).target)
                      /\ server[s] = "closed" => server'[s] = "closed",
         Head(up).status = "New" => server'[Head(up).target] # "none",
         Head(up).chunk = NoChunk \/ server'[Head(up).target] = "closed"
  PROVE  UpInv'
<1>1. up \in Seq(Frames) /\ FramesOK(Tail(up), count) /\ ~broken
  BY ArrivedUp, Zenon DEF UpInv, FramesOK
<1>2. Fresh' = Fresh /\ Awaited' \in SUBSET Awaited /\ UpLive' \in SUBSET UpLive /\ Lens(gotUp)' = Lens(gotUp)
  BY Zenon DEF Fresh, Awaited, UpLive, Lens
<1>3. Head(up).status = "New" => Head(up).target \notin Awaited'
  BY Zenon DEF Awaited
<1>4. \A s \in Unknown : s \in Unknown' \/ (Head(up).status = "New" /\ s = Head(up).target)
  BY Zenon DEF Unknown
<1>5. Opening(Tail(up), Fresh, Awaited', Unknown')
  BY <1>1, <1>2, <1>3, <1>4, OpeningTail, Zenon DEF UpInv
<1>6. Num(Head(up)) = 0 \/ Head(up).target \notin UpLive'
  BY Zenon DEF Num, UpLive
<1>7. Stream(Tail(up), Lens(gotUp), sentUp, UpLive')
  <2>1. UpLive \in SUBSET S
    BY Zenon DEF UpLive
  <2> QED
    BY <1>1, <1>2, <1>6, <2>1, StreamDrops DEF UpInv
<1> QED
  BY <1>1, <1>2, <1>5, <1>7, Zenon DEF UpInv

\* A frame has been taken out, and its chunk passed on.
LEMMA UpTakes ==
  ASSUME LinkTypeOK, UpInv, up # <<>>, up' = Tail(up), UNCHANGED <<count, followup, sentUp, broken>>,
         gotUp' = [gotUp EXCEPT ![Head(up).target] = Append(@, Head(up).chunk)],
         Head(up).chunk # NoChunk, Head(up).target \in S, server[Head(up).target] # "closed",
         \A s \in S : /\ server'[s] = "none" => server[s] = "none"
                      /\ server[s] = "none" => server'[s] = "none" \/ (Head(up).status = "New" /\ s = Head(up).target)
                      /\ server[s] = "closed" <=> server'[s] = "closed",
         Head(up).status = "New" => server'[Head(up).target] # "none"
  PROVE  UpInv' /\ DOMAIN gotUp' = S
<1>1. up \in Seq(Frames) /\ FramesOK(Tail(up), count) /\ ~broken /\ FrameOK(Head(up), count)
  BY ArrivedUp, Zenon DEF UpInv, FramesOK
<1>2. Fresh' = Fresh /\ Awaited' \in SUBSET Awaited /\ UpLive' = UpLive /\ UpLive \in SUBSET S
  BY DEF Fresh, Awaited, UpLive
<1>3. Head(up).status = "New" => Head(up).target \notin Awaited'
  BY DEF Awaited
<1>4. \A s \in Unknown : s \in Unknown' \/ (Head(up).status = "New" /\ s = Head(up).target)
  BY Zenon DEF Unknown
<1>5. Opening(Tail(up), Fresh, Awaited', Unknown')
  BY <1>1, <1>2, <1>3, <1>4, OpeningTail DEF UpInv
<1>6. Head(up).target \in UpLive
  BY <1>1 DEF UpLive
<1>7. DOMAIN gotUp' = S /\ Stream(Tail(up), Lens(gotUp'), sentUp, UpLive) /\ \A s \in S : FirstOf(s, gotUp'[s])
  <2>1. DOMAIN gotUp = S /\ (\A s \in S : FirstOf(s, gotUp[s])) /\ Stream(up, Lens(gotUp), sentUp, UpLive)
    BY Zenon DEF UpInv, LinkTypeOK
  <2> QED
    BY <1>1, <1>2, <1>6, <2>1, Taken, Zenon
<1> QED
  BY <1>1, <1>2, <1>5, <1>7, Zenon DEF UpInv

\* The connection has ended.
LEMMA UpBreaks ==
  ASSUME UpInv, up' = <<>>, broken', UNCHANGED <<count, followup, sentUp, gotUp>>
  PROVE  UpInv'
<1>1. Awaited' = {} /\ UpLive' = {} /\ Lens(gotUp)' = Lens(gotUp)
  BY Zenon DEF Awaited, UpLive, Lens
<1>2. FramesOK(<<>>, count)
  BY DEF FramesOK
<1>3. Opening(<<>>, Fresh', {}, Unknown')
  BY DEF Opening
<1>4. Stream(<<>>, Lens(gotUp), sentUp, {})
  BY StreamShrinks, Zenon DEF UpInv
<1> QED
  BY <1>1, <1>2, <1>3, <1>4 DEF UpInv

-----------------------------------------------------------------------------
(* What a step may do to the stream to the client *)

LEMMA DownSame ==
  ASSUME LinkTypeOK, DownInv, UNCHANGED <<down, sentDown, gotDown, broken>>, count' \in Nat, count <= count',
         \A s \in S : client[s] = "closed" => client'[s] = "closed"
  PROVE  DownInv'
<1>1. FramesOK(down, count')
  BY FramesGrow, Zenon DEF DownInv, LinkTypeOK
<1>2. DownLive' \in SUBSET DownLive /\ Lens(gotDown)' = Lens(gotDown)
  BY Zenon DEF DownLive, Lens
<1>3. Stream(down, Lens(gotDown), sentDown, DownLive')
  BY <1>2, StreamShrinks, Zenon DEF DownInv
<1> QED
  BY <1>1, <1>2, <1>3, Zenon DEF DownInv

LEMMA DownStill ==
  ASSUME LinkInv, UNCHANGED <<down, count, sentDown, gotDown, broken>>,
         \A s \in S : client[s] = "closed" => client'[s] = "closed"
  PROVE  DownInv'
<1>1. count' \in Nat /\ count <= count'
  BY DEF LinkInv, LinkTypeOK
<1> QED
  BY <1>1, DownSame, Zenon DEF LinkInv

LEMMA DownEnd ==
  ASSUME DownInv, NEW i \in S, ~broken, down' = Append(down, End(i)),
         UNCHANGED <<count, client, sentDown, gotDown, broken>>
  PROVE  DownInv'
<1> DEFINE f == End(i)
<1>1. f \in Frames /\ Num(f) = 0 /\ f.target = NoSession /\ f.status = "End" /\ f.chunk = NoChunk
  BY ChunkFacts, Zenon
<1> HIDE DEF f
<1>2. down \in Seq(Frames) /\ FrameOK(f, count)
  BY <1>1, Zenon DEF DownInv, FramesOK, FrameOK
<1>3. FramesOK(Append(down, f), count)
  BY <1>1, <1>2, FramesAppend, Zenon DEF DownInv
<1>4. \A j \in 1..Len(Append(down, f)) : Append(down, f)[j].status # "New"
  BY <1>1, <1>2, AppendNoNew, Zenon DEF DownInv
<1>5. Stream(Append(down, f), Lens(gotDown), sentDown, DownLive)
  BY <1>1, <1>2, StreamSignals, Zenon DEF DownInv
<1>6. DownLive' = DownLive /\ Lens(gotDown)' = Lens(gotDown)
  BY Zenon DEF DownLive, Lens
<1> QED
  BY <1>3, <1>4, <1>5, <1>6, Zenon DEF DownInv, f

LEMMA DownDrops ==
  ASSUME LinkTypeOK, DownInv, down # <<>>, down' = Tail(down), UNCHANGED <<count, sentDown, gotDown, broken>>,
         \A s \in S : client[s] = "closed" => client'[s] = "closed",
         Head(down).chunk = NoChunk \/ client'[Head(down).target] = "closed"
  PROVE  DownInv'
<1>1. /\ down \in Seq(Frames) /\ FramesOK(Tail(down), count) /\ ~broken
      /\ \A i \in 1..Len(Tail(down)) : Tail(down)[i].status # "New"
  BY ArrivedDown, Zenon DEF DownInv, FramesOK
<1>2. DownLive \in SUBSET S /\ DownLive' \in SUBSET DownLive /\ Lens(gotDown)' = Lens(gotDown)
  BY Zenon DEF DownLive, Lens
<1>3. Num(Head(down)) = 0 \/ Head(down).target \notin DownLive'
  BY Zenon DEF Num, DownLive
<1>4. Stream(Tail(down), Lens(gotDown), sentDown, DownLive')
  BY <1>1, <1>2, <1>3, StreamDrops, Zenon DEF DownInv
<1> QED
  BY <1>1, <1>2, <1>4, Zenon DEF DownInv

LEMMA DownTakes ==
  ASSUME LinkTypeOK, DownInv, down # <<>>, down' = Tail(down), UNCHANGED <<count, client, sentDown, broken>>,
         gotDown' = [gotDown EXCEPT ![Head(down).target] = Append(@, Head(down).chunk)],
         Head(down).chunk # NoChunk, Head(down).target \in S, client[Head(down).target] # "closed"
  PROVE  DownInv' /\ DOMAIN gotDown' = S
<1>1. /\ down \in Seq(Frames) /\ FramesOK(Tail(down), count) /\ ~broken /\ FrameOK(Head(down), count)
      /\ \A i \in 1..Len(Tail(down)) : Tail(down)[i].status # "New"
  BY ArrivedDown, Zenon DEF DownInv, FramesOK
<1>2. DownLive' = DownLive /\ DownLive \in SUBSET S /\ Head(down).target \in DownLive
  BY <1>1, Zenon DEF DownLive
<1>3. DOMAIN gotDown' = S /\ Stream(Tail(down), Lens(gotDown'), sentDown, DownLive) /\ \A s \in S : FirstOf(s, gotDown'[s])
  <2>1. DOMAIN gotDown = S /\ (\A s \in S : FirstOf(s, gotDown[s])) /\ Stream(down, Lens(gotDown), sentDown, DownLive)
    BY Zenon DEF DownInv, LinkTypeOK
  <2> QED
    BY <1>1, <1>2, <2>1, Taken, Zenon
<1> QED
  BY <1>1, <1>2, <1>3, Zenon DEF DownInv

LEMMA DownBreaks ==
  ASSUME DownInv, down' = <<>>, broken', UNCHANGED <<count, sentDown, gotDown>>
  PROVE  DownInv'
<1>1. DownLive' = {} /\ Lens(gotDown)' = Lens(gotDown)
  BY Zenon DEF DownLive, Lens
<1>2. FramesOK(<<>>, count)
  BY DEF FramesOK
<1>3. Stream(<<>>, Lens(gotDown), sentDown, {})
  BY StreamShrinks, Zenon DEF DownInv
<1> QED
  BY <1>1, <1>2, <1>3 DEF DownInv

-----------------------------------------------------------------------------
(* Steps that send *)

LEMMA DispatchStep ==
  ASSUME LinkInv, NEW s \in S, Dispatch(s)
  PROVE  LinkInv'
<1>1. count' = count + 1 /\ count' \in Nat /\ count <= count' /\ s = count + 1
  BY DEF LinkInv, LinkTypeOK, Dispatch
<1>2. client[s] = "none" /\ \A r \in S : client'[r] = IF r = s THEN "open" ELSE client[r]
  BY <1>1 DEF LinkInv, LinkTypeOK, TablesInv, Dispatch, S
<1>3. LinkTypeOK' /\ TablesInv'
  BY DEF LinkInv, LinkTypeOK, TablesInv, Dispatch, NewID, serverVars, history, S
<1>4. UpInv'
  BY <1>1, UpSame, Zenon DEF LinkInv, Dispatch, queues, serverVars, history
<1>5. DownInv'
  BY <1>1, <1>2, DownSame, Zenon DEF LinkInv, Dispatch, queues, serverVars, history
<1> QED
  BY <1>3, <1>4, <1>5, Zenon DEF LinkInv

\* The first frame of a session is its New frame, with a chunk or without one.
LEMMA FetchStarts ==
  ASSUME LinkInv, NEW s \in S, ~followup[s], fetch[s] = "run", ~broken, NEW f \in Frames,
         f.status = "New", f.target = s, f.id = s, UNCHANGED <<count, server, gotUp, broken>>,
         followup' = [followup EXCEPT ![s] = TRUE], up' = Append(up, f),
         \/ f.chunk = NoChunk /\ sentUp' = sentUp
         \/ /\ f.chunk = <<s, Num(f)>> /\ f.chunk # NoChunk
            /\ Num(f) = sentUp[s] + 1 /\ sentUp' = [sentUp EXCEPT ![s] = sentUp[s] + 1]
  PROVE  UpInv'
<1>1. s <= count /\ server[s] = "none" /\ up \in Seq(Frames)
  BY Zenon DEF LinkInv, TablesInv, UpInv, FramesOK
<1>2. FrameOK(f, count)
  BY <1>1, Zenon DEF FrameOK
<1>3. FramesOK(Append(up, f), count)
  BY <1>2, FramesAppend, Zenon DEF LinkInv, UpInv
<1>4. Opening(Append(up, f), Fresh \ {s}, Awaited \cup {s}, Unknown)
  <2>1. s \in Fresh /\ s \in Unknown
    BY <1>1, Zenon DEF Fresh, Unknown
  <2> QED
    BY <1>1, <2>1, OpeningStarts DEF LinkInv, UpInv
<1>5. UpLive' = UpLive /\ UpLive \in SUBSET S /\ Lens(gotUp)' = Lens(gotUp) /\ Unknown' = Unknown
  BY Zenon DEF UpLive, Lens, Unknown
<1>6. Fresh' = Fresh \ {s} /\ Awaited' = Awaited \cup {s}
  <2>1. \A r \in S : followup'[r] <=> r = s \/ followup[r]
    BY Zenon DEF LinkInv, LinkTypeOK
  <2> QED
    BY <1>1, <2>1, Zenon DEF Fresh, Awaited
<1>7. Stream(Append(up, f), Lens(gotUp), sentUp', UpLive)
  <2>1. Stream(up, Lens(gotUp), sentUp, UpLive) /\ sentUp \in [S -> Nat]
    BY Zenon DEF LinkInv, UpInv, LinkTypeOK
  <2>2. CASE f.chunk = NoChunk /\ sentUp' = sentUp
    <3>1. Num(f) = 0
      BY <2>2, Zenon DEF Num
    <3> QED
      BY <1>1, <2>1, <2>2, <3>1, StreamSignals, Zenon
  <2>3. CASE Num(f) = sentUp[s] + 1 /\ sentUp' = [sentUp EXCEPT ![s] = sentUp[s] + 1]
    BY <1>1, <1>5, <2>1, <2>3, StreamSends, Zenon
  <2> QED
    BY <2>2, <2>3, Zenon
<1> QED
  BY <1>3, <1>4, <1>5, <1>6, <1>7, Zenon DEF LinkInv, UpInv

LEMMA FetchFirstEmptyStep ==
  ASSUME LinkInv, NEW s \in S, FetchFirstEmpty(s)
  PROVE  LinkInv'
<1>1. id[s] = s /\ s <= count
  BY Zenon DEF LinkInv, TablesInv, FetchFirstEmpty
<1>2. LinkTypeOK' /\ TablesInv'
  BY Zenon DEF LinkInv, LinkTypeOK, TablesInv, FetchFirstEmpty, serverVars, history
<1> DEFINE f == Frame("New", s, s, NoChunk)
<1>3. f \in Frames /\ f.target = s /\ f.id = s /\ f.status = "New" /\ f.chunk = NoChunk
  BY ChunkFacts, Zenon
<1>4. /\ up' = Append(up, f) /\ fetch[s] = "run" /\ ~broken /\ ~followup[s] /\ sentUp' = sentUp
      /\ followup' = [followup EXCEPT ![s] = TRUE] /\ UNCHANGED <<count, server, gotUp, broken>>
  BY <1>1, Zenon DEF FetchFirstEmpty, serverVars, history
<1> HIDE DEF f
<1>5. UpInv'
  BY <1>3, <1>4, FetchStarts, Zenon
<1>6. DownInv'
  BY DownStill, Zenon DEF FetchFirstEmpty, serverVars, history
<1> QED
  BY <1>2, <1>5, <1>6, Zenon DEF LinkInv

LEMMA FetchSendsStep ==
  ASSUME LinkInv, NEW s \in S, FetchSends(s)
  PROVE  LinkInv'
<1>1. id[s] = s /\ s <= count /\ sentUp[s] \in Nat /\ sentUp \in [S -> Nat]
  BY DEF LinkInv, LinkTypeOK, TablesInv, FetchSends
<1>2. /\ fetch[s] = "run" /\ ~broken /\ UNCHANGED <<down, count, id, client, fetch, server, lookup, linkHandle, sentDown>>
      /\ UNCHANGED <<gotUp, gotDown, broken>> /\ sentUp' = [sentUp EXCEPT ![s] = sentUp[s] + 1]
      /\ followup' = [followup EXCEPT ![s] = TRUE]
  BY Zenon DEF FetchSends, serverVars, history
<1>3. LinkTypeOK'
  <2>1. followup' \in [S -> BOOLEAN]
    BY <1>2, Zenon DEF LinkInv, LinkTypeOK
  <2>2. sentUp' \in [S -> Nat]
    BY <1>1, <1>2
  <2> QED
    BY <1>2, <2>1, <2>2, Zenon DEF LinkInv, LinkTypeOK
<1>4. TablesInv'
  <2>1. \A r \in S : ~followup'[r] => ~followup[r] /\ r # s
    BY <1>2, Zenon DEF LinkInv, LinkTypeOK
  <2>2. \A r \in S : r # s => sentUp'[r] = sentUp[r]
    BY <1>1, <1>2, Zenon
  <2> QED
    BY <1>2, <2>1, <2>2 DEF LinkInv, TablesInv
<1>5. DownInv'
  BY <1>2, DownStill, Zenon
<1>6. CASE ~followup[s]
  <2> DEFINE f == Frame("New", s, s, <<s, sentUp[s] + 1>>)
  <2>1. f \in Frames /\ Num(f) = sentUp[s] + 1 /\ f.target = s /\ f.id = s /\ f.status = "New" /\ f.chunk = <<s, Num(f)>> /\ f.chunk # NoChunk
    BY <1>1, ChunkFacts
  <2>2. up' = Append(up, f)
    BY <1>1, <1>6, Zenon DEF FetchSends
  <2> HIDE DEF f
  <2>3. UpInv'
    BY <1>2, <1>6, <2>1, <2>2, FetchStarts, Zenon
  <2> QED
    BY <1>3, <1>4, <1>5, <2>3, Zenon DEF LinkInv
<1>7. CASE followup[s]
  <2> DEFINE f == Frame("Keep", s, s, <<s, sentUp[s] + 1>>)
  <2>1. f \in Frames /\ Num(f) = sentUp[s] + 1 /\ f.target = s /\ f.id = s /\ f.status = "Keep" /\ f.chunk = <<s, Num(f)>> /\ f.chunk # NoChunk
    BY <1>1, ChunkFacts
  <2>2. up' = Append(up, f)
    BY <1>1, <1>7, Zenon DEF FetchSends
  <2> HIDE DEF f
  <2>3. FrameOK(f, count) /\ f.target \notin Fresh /\ up \in Seq(Frames)
    BY <1>1, <1>7, <2>1, Zenon DEF FrameOK, Fresh, LinkInv, UpInv, FramesOK
  <2>4. FramesOK(Append(up, f), count)
    BY <2>1, <2>3, FramesAppend, Zenon DEF LinkInv, UpInv
  <2>5. Opening(Append(up, f), Fresh, Awaited, Unknown)
    BY <2>1, <2>3, OpeningFollows, Zenon DEF LinkInv, UpInv
  <2>6. UpLive' = UpLive /\ UpLive \in SUBSET S /\ Lens(gotUp)' = Lens(gotUp) /\ Unknown' = Unknown
    BY <1>2, Zenon DEF UpLive, Lens, Unknown
  <2>7. Fresh' = Fresh /\ Awaited' = Awaited
    <3>1. \A r \in S : followup'[r] <=> followup[r]
      BY <1>2, <1>7, Zenon DEF LinkInv, LinkTypeOK
    <3> QED
      BY <1>2, <3>1, Zenon DEF Fresh, Awaited
  <2>8. Stream(Append(up, f), Lens(gotUp), sentUp', UpLive)
    BY <1>1, <1>2, <2>1, <2>3, <2>6, StreamSends, Zenon DEF LinkInv, UpInv
  <2>9. UpInv'
    BY <1>2, <2>2, <2>4, <2>5, <2>6, <2>7, <2>8 DEF LinkInv, UpInv
  <2> QED
    BY <1>3, <1>4, <1>5, <2>9, Zenon DEF LinkInv
<1> QED
  BY <1>6, <1>7, Zenon

LEMMA FetchEndsStep ==
  ASSUME LinkInv, NEW s \in S, FetchEnds(s) \/ FetchCloses(s)
  PROVE  LinkInv'
<1>1. CASE FetchEnds(s)
  <2>1. id[s] = s
    BY <1>1, Zenon DEF LinkInv, TablesInv, FetchEnds
  <2>2. LinkTypeOK' /\ TablesInv'
    BY <1>1, Zenon DEF LinkInv, LinkTypeOK, TablesInv, FetchEnds, serverVars, history
  <2>3. UpInv'
    <3>1. CASE broken
      BY <1>1, <3>1, UpStill, Zenon DEF FetchEnds, serverVars, history
    <3>2. CASE ~broken
      BY <1>1, <2>1, <3>2, UpEnd, Zenon DEF LinkInv, FetchEnds, serverVars, history
    <3> QED
      BY <3>1, <3>2, Zenon
  <2>4. DownInv'
    BY <1>1, DownStill, Zenon DEF FetchEnds, serverVars, history
  <2> QED
    BY <2>2, <2>3, <2>4, Zenon DEF LinkInv
<1>2. CASE FetchCloses(s)
  <2>1. LinkTypeOK' /\ TablesInv'
    BY <1>2, Zenon DEF LinkInv, LinkTypeOK, TablesInv, FetchCloses, serverVars, history
  <2>2. UpInv'
    BY <1>2, UpStill, Zenon DEF FetchCloses, queues, serverVars, history
  <2>3. \A r \in S : client[r] = "closed" => client'[r] = "closed"
    BY <1>2, Zenon DEF LinkInv, LinkTypeOK, FetchCloses
  <2>4. DownInv'
    BY <1>2, <2>3, DownStill, Zenon DEF FetchCloses, queues, serverVars, history
  <2> QED
    BY <2>1, <2>2, <2>4, Zenon DEF LinkInv
<1> QED
  BY <1>1, <1>2, Zenon

LEMMA HandleSendsStep ==
  ASSUME LinkInv, NEW s \in S, HandleSends(s)
  PROVE  LinkInv'
<1>1. id[s] = s /\ s <= count /\ sentDown[s] \in Nat /\ sentDown \in [S -> Nat] /\ down \in Seq(Frames)
  BY Zenon DEF LinkInv, LinkTypeOK, TablesInv, DownInv, FramesOK, HandleSends
<1>2. LinkTypeOK' /\ TablesInv'
  BY DEF LinkInv, LinkTypeOK, TablesInv, HandleSends, clientVars, history
<1>3. UpInv'
  BY UpStill, Zenon DEF HandleSends, clientVars, history
<1> DEFINE f == Frame("Keep", s, s, <<s, sentDown[s] + 1>>)
<1>4. f \in Frames /\ Num(f) = sentDown[s] + 1 /\ f.target = s /\ f.id = s /\ f.status = "Keep" /\ f.chunk = <<s, Num(f)>> /\ f.chunk # NoChunk
  BY <1>1, ChunkFacts
<1>5. /\ down' = Append(down, f) /\ sentDown' = [sentDown EXCEPT ![s] = sentDown[s] + 1]
      /\ UNCHANGED <<count, client, gotDown, broken>> /\ ~broken
  BY <1>1, Zenon DEF HandleSends, clientVars, history
<1> HIDE DEF f
<1>6. FrameOK(f, count)
  BY <1>1, <1>4, Zenon DEF FrameOK
<1>7. FramesOK(Append(down, f), count)
  BY <1>4, <1>6, FramesAppend, Zenon DEF LinkInv, DownInv
<1>8. \A j \in 1..Len(Append(down, f)) : Append(down, f)[j].status # "New"
  <2>1. down \in Seq(Frames) /\ \A j \in 1..Len(down) : down[j].status # "New"
    BY Zenon DEF LinkInv, DownInv, FramesOK
  <2>2. f \in Frames /\ f.status # "New"
    BY <1>4, Zenon
  <2> QED
    BY <2>1, <2>2, AppendNoNew, Zenon
<1>9. DownLive' = DownLive /\ DownLive \in SUBSET S /\ Lens(gotDown)' = Lens(gotDown)
  BY <1>5, Zenon DEF DownLive, Lens
<1>10. Stream(Append(down, f), Lens(gotDown), sentDown', DownLive)
  BY <1>1, <1>4, <1>5, <1>9, StreamSends, Zenon DEF LinkInv, DownInv
<1>11. DownInv'
  BY <1>5, <1>7, <1>8, <1>9, <1>10, Zenon DEF LinkInv, DownInv
<1> QED
  BY <1>2, <1>3, <1>11, Zenon DEF LinkInv

LEMMA HandleEndsStep ==
  ASSUME LinkInv, NEW s \in S, HandleEnds(s) \/ HandleCloses(s)
  PROVE  LinkInv'
<1>1. CASE HandleEnds(s)
  <2>1. id[s] = s
    BY <1>1, Zenon DEF LinkInv, TablesInv, HandleEnds
  <2>2. LinkTypeOK' /\ TablesInv'
    BY <1>1, Zenon DEF LinkInv, LinkTypeOK, TablesInv, HandleEnds, clientVars, history
  <2>3. DownInv'
    <3>1. CASE broken
      BY <1>1, <3>1, DownStill, Zenon DEF HandleEnds, clientVars, history
    <3>2. CASE ~broken
      BY <1>1, <2>1, <3>2, DownEnd, Zenon DEF LinkInv, HandleEnds, clientVars, history
    <3> QED
      BY <3>1, <3>2, Zenon
  <2>4. UNCHANGED <<up, followup, sentUp, gotUp, broken, server, count>>
    BY <1>1, Zenon DEF HandleEnds, clientVars, history
  <2>5. UpInv'
    BY <2>4, UpStill, Zenon
  <2> QED
    BY <2>2, <2>3, <2>5, Zenon DEF LinkInv
<1>2. CASE HandleCloses(s)
  <2>1. LinkTypeOK' /\ TablesInv'
    BY <1>2, Zenon DEF LinkInv, LinkTypeOK, TablesInv, HandleCloses, clientVars, history
  <2>2. \A r \in S : /\ server'[r] = "none" <=> server[r] = "none"
                     /\ server[r] = "closed" => server'[r] = "closed"
    BY <1>2, Zenon DEF LinkInv, LinkTypeOK, TablesInv, HandleCloses
  <2>3. UpInv'
    BY <1>2, <2>2, UpStill, Zenon DEF HandleCloses, queues, clientVars, history
  <2>4. DownInv'
    BY <1>2, DownStill, Zenon DEF HandleCloses, queues, clientVars, history
  <2> QED
    BY <2>1, <2>3, <2>4, Zenon DEF LinkInv
<1> QED
  BY <1>1, <1>2, Zenon

-----------------------------------------------------------------------------
(* Steps that receive *)

LEMMA ServerNewStep ==
  ASSUME LinkInv, NEW fails \in BOOLEAN, ServerNew(fails)
  PROVE  LinkInv'
<1> DEFINE f == Head(up)
           t == f.target
<1>1. up # <<>> /\ up \in Seq(Frames) /\ f \in Frames /\ FrameOK(f, count) /\ f.status = "New"
  BY ArrivedUp, Zenon DEF LinkInv, UpInv, FramesOK, ServerNew
<1>2. t \in S /\ t <= count /\ f.id = t
  BY <1>1, Zenon DEF FrameOK
<1>3. server[t] = "none" /\ followup[t]
  <2>1. f = up[1] /\ 1 \in 1..Len(up)
    BY <1>1, HeadFacts, Zenon
  <2>2. t \in Unknown /\ t \notin Fresh
    BY <1>1, <2>1 DEF LinkInv, UpInv, Opening
  <2> QED
    BY <1>2, <2>2, Zenon DEF Unknown, Fresh
<1>4. /\ up' = Tail(up) /\ UNCHANGED <<down, sentDown, gotDown, broken>>
      /\ UNCHANGED <<count, id, client, fetch, followup, sentUp>>
      /\ server' = [server EXCEPT ![t] = IF fails THEN "closed" ELSE "open"]
      /\ lookup' = [lookup EXCEPT ![t] = IF fails THEN NoSession ELSE t]
      /\ linkHandle' = [linkHandle EXCEPT ![t] = "run"]
      /\ gotUp' = IF f.chunk = NoChunk \/ fails THEN gotUp ELSE [gotUp EXCEPT ![t] = Append(@, f.chunk)]
      /\ fails => f.chunk # NoChunk
  BY <1>2, Zenon DEF ServerNew, clientVars
<1> HIDE DEF t, f
<1>5. \A s \in S : server'[s] = IF s = t THEN (IF fails THEN "closed" ELSE "open") ELSE server[s]
  BY <1>2, <1>4, Zenon DEF LinkInv, LinkTypeOK
<1>6. DownInv'
  BY <1>4, DownStill, Zenon
<1>7. UpInv' /\ DOMAIN gotUp' = S
  <2>1. CASE f.chunk = NoChunk \/ fails
    <3>1. gotUp' = gotUp /\ (f.chunk = NoChunk \/ server'[t] = "closed") /\ server'[t] # "none"
      BY <1>2, <1>4, <1>5, <2>1
    <3> QED
      BY <1>1, <1>2, <1>3, <1>4, <1>5, <3>1, UpDrops, Zenon DEF LinkInv, LinkTypeOK, f, t
  <2>2. CASE f.chunk # NoChunk /\ ~fails
    <3>1. gotUp' = [gotUp EXCEPT ![t] = Append(@, f.chunk)] /\ server'[t] # "none" /\ server[t] # "closed"
      BY <1>2, <1>3, <1>4, <1>5, <2>2
    <3>2. \A s \in S : server[s] = "closed" <=> server'[s] = "closed"
      BY <1>3, <1>5, <2>2, Zenon
    <3>3. \A s \in S : /\ server'[s] = "none" => server[s] = "none"
                       /\ server[s] = "none" => server'[s] = "none" \/ (f.status = "New" /\ s = t)
      BY <1>1, <1>3, <1>5, <2>2, Zenon
    <3> QED
      BY <1>1, <1>2, <1>4, <2>2, <3>1, <3>2, <3>3, UpTakes, Zenon DEF LinkInv, f, t
  <2> QED
    BY <2>1, <2>2, Zenon
<1>8. LinkTypeOK'
  BY <1>2, <1>4, <1>7, Zenon DEF LinkInv, LinkTypeOK
<1>9. TablesInv'
  <2>1. \A s \in S : /\ lookup'[s] = IF s = t THEN (IF fails THEN NoSession ELSE t) ELSE lookup[s]
                     /\ linkHandle'[s] = IF s = t THEN "run" ELSE linkHandle[s]
    BY <1>2, <1>4, Zenon DEF LinkInv, LinkTypeOK
  <2> QED
    BY <1>2, <1>3, <1>4, <1>5, <2>1 DEF LinkInv, TablesInv
<1> QED
  BY <1>6, <1>7, <1>8, <1>9, Zenon DEF LinkInv

LEMMA ServerKeepStep ==
  ASSUME LinkInv, NEW fails \in BOOLEAN, ServerKeep(fails)
  PROVE  LinkInv'
<1> DEFINE f == Head(up)
           t == f.target
<1>1. /\ up # <<>> /\ up \in Seq(Frames) /\ f \in Frames /\ FrameOK(f, count) /\ f.status = "Keep"
      /\ up' = Tail(up) /\ UNCHANGED <<count, id, client, fetch, followup, sentUp, linkHandle, sentDown, gotDown, broken>>
      /\ ~broken
  BY ArrivedUp, Zenon DEF LinkInv, UpInv, FramesOK, ServerKeep, clientVars
<1>2. t \in S /\ t <= count /\ f.id = t /\ f.chunk # NoChunk /\ t # NoSession
  BY <1>1, FrameCases, Zenon
<1>3. server[t] # "none" /\ lookup[t] = IF server[t] = "open" THEN t ELSE NoSession
  <2>1. t \notin Fresh /\ t \notin Awaited
    BY <1>1, KeepIsKnown, Zenon DEF LinkInv, UpInv
  <2> QED
    BY <1>1, <1>2, <2>1, Zenon DEF Fresh, Awaited, LinkInv, TablesInv
<1>4. CASE server[t] = "closed"
  <2>1. down' = Append(down, End(t)) /\ UNCHANGED <<server, lookup, gotUp>>
    BY <1>2, <1>3, <1>4, Zenon DEF ServerKeep
  <2>2. LinkTypeOK' /\ TablesInv'
    BY <1>1, <2>1, Zenon DEF LinkInv, LinkTypeOK, TablesInv
  <2>3. UpInv'
    BY <1>1, <1>4, <2>1, UpDrops, Zenon DEF LinkInv
  <2>4. DownInv'
    BY <1>1, <1>2, <2>1, DownEnd, Zenon DEF LinkInv
  <2> QED
    BY <2>2, <2>3, <2>4, Zenon DEF LinkInv
<1>5. CASE server[t] = "open" /\ fails
  <2>1. /\ server' = [server EXCEPT ![t] = "closed"] /\ lookup' = [lookup EXCEPT ![t] = NoSession]
        /\ UNCHANGED <<gotUp, down>>
    BY <1>2, <1>3, <1>5, Zenon DEF ServerKeep
  <2>2. \A s \in S : server'[s] = (IF s = t THEN "closed" ELSE server[s]) /\ lookup'[s] = IF s = t THEN NoSession ELSE lookup[s]
    BY <1>2, <2>1, Zenon DEF LinkInv, LinkTypeOK
  <2>3. LinkTypeOK'
    BY <1>1, <2>1, Zenon DEF LinkInv, LinkTypeOK
  <2>4. TablesInv'
    BY <1>1, <1>5, <2>2 DEF LinkInv, TablesInv
  <2>5. UpInv'
    BY <1>1, <1>2, <1>5, <2>1, <2>2, UpDrops DEF LinkInv
  <2>6. DownInv'
    BY <1>1, <2>1, DownStill, Zenon
  <2> QED
    BY <2>3, <2>4, <2>5, <2>6, Zenon DEF LinkInv
<1>6. CASE server[t] = "open" /\ ~fails
  <2>1. gotUp' = [gotUp EXCEPT ![t] = Append(@, f.chunk)] /\ UNCHANGED <<server, lookup, down>>
    BY <1>2, <1>3, <1>6, Zenon DEF ServerKeep
  <2>2. UpInv' /\ DOMAIN gotUp' = S
    BY <1>1, <1>2, <1>6, <2>1, UpTakes, Zenon DEF LinkInv
  <2>3. LinkTypeOK' /\ TablesInv'
    BY <1>1, <2>1, <2>2, Zenon DEF LinkInv, LinkTypeOK, TablesInv
  <2>4. DownInv'
    BY <1>1, <2>1, DownStill, Zenon
  <2> QED
    BY <2>2, <2>3, <2>4, Zenon DEF LinkInv
<1>7. server[t] \in {"none", "open", "closed"}
  BY <1>2, Zenon DEF LinkInv, LinkTypeOK
<1> QED
  BY <1>3, <1>4, <1>5, <1>6, <1>7, Zenon

LEMMA ServerEndStep ==
  ASSUME LinkInv, ServerEnd
  PROVE  LinkInv'
<1> DEFINE f == Head(up)
           i == f.id
<1>1. /\ up # <<>> /\ f \in Frames /\ FrameOK(f, count) /\ f.status = "End" /\ up' = Tail(up)
      /\ UNCHANGED <<down, count, id, client, fetch, followup, sentUp, linkHandle, sentDown, gotUp, gotDown, broken>>
  BY ArrivedUp, Zenon DEF LinkInv, ServerEnd, clientVars, history
<1>2. i \in S /\ i # NoSession /\ f.chunk = NoChunk
  BY <1>1, FrameCases, Zenon
<1>3. lookup[i] = IF server[i] = "open" THEN i ELSE NoSession
  BY <1>2, Zenon DEF LinkInv, TablesInv
<1>4. IF server[i] = "open" THEN server' = [server EXCEPT ![i] = "closed"] /\ lookup' = [lookup EXCEPT ![i] = NoSession]
                            ELSE UNCHANGED <<server, lookup>>
  BY <1>2, <1>3, Zenon DEF ServerEnd
<1> HIDE DEF i
<1>5. \A s \in S : /\ server'[s] = IF s = i /\ server[i] = "open" THEN "closed" ELSE server[s]
                   /\ lookup'[s] = IF s = i /\ server[i] = "open" THEN NoSession ELSE lookup[s]
  BY <1>2, <1>4 DEF LinkInv, LinkTypeOK
<1>6. LinkTypeOK'
  BY <1>1, <1>2, <1>4, Zenon DEF LinkInv, LinkTypeOK
<1>7. TablesInv'
  BY <1>1, <1>5 DEF LinkInv, TablesInv
<1>8. UpInv'
  BY <1>1, <1>2, <1>5, UpDrops, Zenon DEF LinkInv
<1>9. DownInv'
  BY <1>1, DownStill, Zenon
<1> QED
  BY <1>6, <1>7, <1>8, <1>9, Zenon DEF LinkInv

LEMMA ClientKeepStep ==
  ASSUME LinkInv, NEW fails \in BOOLEAN, ClientKeep(fails)
  PROVE  LinkInv'
<1> DEFINE f == Head(down)
           t == f.target
<1>1. /\ down # <<>> /\ f \in Frames /\ FrameOK(f, count) /\ f.status = "Keep" /\ down' = Tail(down) /\ ~broken
      /\ UNCHANGED <<count, id, fetch, followup, sentUp, server, lookup, linkHandle, sentDown, gotUp, broken>>
  BY ArrivedDown, Zenon DEF LinkInv, ClientKeep, serverVars
<1>2. t \in S /\ t <= count /\ f.id = t /\ f.chunk # NoChunk /\ t # NoSession
  BY <1>1, FrameCases, Zenon
<1>3. client[t] \in {"open", "closed"} /\ ClientSession(f.id) = IF client[t] = "open" THEN t ELSE NoSession
  <2>1. client[t] # "none" /\ client[t] \in {"none", "open", "closed"}
    BY <1>2, Zenon DEF LinkInv, LinkTypeOK, TablesInv
  <2> QED
    BY <1>2, <2>1, ClientSessionIs, Zenon DEF LinkInv
<1>4. CASE client[t] = "closed"
  <2>1. up' = Append(up, End(t)) /\ UNCHANGED <<client, gotDown>>
    BY <1>2, <1>3, <1>4, Zenon DEF ClientKeep
  <2>2. LinkTypeOK' /\ TablesInv'
    BY <1>1, <2>1, Zenon DEF LinkInv, LinkTypeOK, TablesInv
  <2>3. UpInv'
    BY <1>1, <1>2, <2>1, UpEnd, Zenon DEF LinkInv
  <2>4. DownInv'
    BY <1>1, <1>4, <2>1, DownDrops, Zenon DEF LinkInv
  <2> QED
    BY <2>2, <2>3, <2>4, Zenon DEF LinkInv
<1>5. CASE client[t] = "open" /\ fails
  <2>1. client' = [client EXCEPT ![t] = "closed"] /\ UNCHANGED <<gotDown, up>>
    BY <1>2, <1>3, <1>5, Zenon DEF ClientKeep
  <2>2. \A s \in S : client'[s] = IF s = t THEN "closed" ELSE client[s]
    BY <1>2, <2>1, Zenon DEF LinkInv, LinkTypeOK
  <2>3. LinkTypeOK'
    BY <1>1, <2>1, Zenon DEF LinkInv, LinkTypeOK
  <2>4. TablesInv'
    BY <1>1, <1>2, <2>2 DEF LinkInv, TablesInv
  <2>5. UpInv'
    BY <1>1, <2>1, UpStill, Zenon
  <2>6. DownInv'
    BY <1>1, <1>2, <2>1, <2>2, DownDrops, Zenon DEF LinkInv
  <2> QED
    BY <2>3, <2>4, <2>5, <2>6, Zenon DEF LinkInv
<1>6. CASE client[t] = "open" /\ ~fails
  <2>1. gotDown' = [gotDown EXCEPT ![t] = Append(@, f.chunk)] /\ UNCHANGED <<client, up>>
    BY <1>2, <1>3, <1>6, Zenon DEF ClientKeep
  <2>2. DownInv' /\ DOMAIN gotDown' = S
    BY <1>1, <1>2, <1>6, <2>1, DownTakes, Zenon DEF LinkInv
  <2>3. LinkTypeOK' /\ TablesInv'
    BY <1>1, <2>1, <2>2, Zenon DEF LinkInv, LinkTypeOK, TablesInv
  <2>4. UpInv'
    BY <1>1, <2>1, UpStill, Zenon
  <2> QED
    BY <2>2, <2>3, <2>4, Zenon DEF LinkInv
<1> QED
  BY <1>3, <1>4, <1>5, <1>6, Zenon

LEMMA ClientEndStep ==
  ASSUME LinkInv, ClientEnd
  PROVE  LinkInv'
<1> DEFINE f == Head(down)
           i == f.id
<1>1. /\ down # <<>> /\ f \in Frames /\ FrameOK(f, count) /\ f.status = "End" /\ down' = Tail(down)
      /\ UNCHANGED <<up, count, id, fetch, followup, sentUp, server, lookup, linkHandle, sentDown, gotUp, gotDown, broken>>
  BY ArrivedDown, Zenon DEF LinkInv, ClientEnd, serverVars, history
<1>2. i \in S /\ i # NoSession /\ f.chunk = NoChunk
  BY <1>1, FrameCases, Zenon
<1>3. ClientSession(i) = IF client[i] = "open" THEN i ELSE NoSession
  BY <1>2, ClientSessionIs, Zenon DEF LinkInv
<1>4. client' = IF client[i] = "open" THEN [client EXCEPT ![i] = "closed"] ELSE client
  BY <1>2, <1>3, Zenon DEF ClientEnd
<1> HIDE DEF i
<1>5. \A s \in S : client'[s] = IF s = i /\ client[i] = "open" THEN "closed" ELSE client[s]
  BY <1>2, <1>4, Zenon DEF LinkInv, LinkTypeOK
<1>6. LinkTypeOK'
  BY <1>1, <1>2, <1>4, Zenon DEF LinkInv, LinkTypeOK
<1>7. TablesInv'
  BY <1>1, <1>5, Zenon DEF LinkInv, TablesInv
<1>8. UpInv'
  BY <1>1, UpStill, Zenon
<1>9. DownInv'
  BY <1>1, <1>2, <1>5, DownDrops, Zenon DEF LinkInv
<1> QED
  BY <1>6, <1>7, <1>8, <1>9, Zenon DEF LinkInv

-----------------------------------------------------------------------------
(* The end of the connection, and the theorem *)

LEMMA BreakStep ==
  ASSUME LinkInv, ServerNewFails \/ Break
  PROVE  LinkInv'
<1>1. /\ broken' = TRUE /\ up' = <<>> /\ down' = <<>>
      /\ server' = [s \in S |-> IF server[s] = "open" THEN "closed" ELSE server[s]] /\ lookup' = [i \in S |-> NoSession]
      /\ client' = client \/ client' = [s \in S |-> IF client[s] = "open" THEN "closed" ELSE client[s]]
      /\ UNCHANGED <<count, id, fetch, followup, sentUp, linkHandle, sentDown, gotUp, gotDown>>
  BY Zenon DEF ServerNewFails, Break, Open, clientVars, history
<1>2. LinkTypeOK'
  BY <1>1 DEF LinkInv, LinkTypeOK
<1>3. TablesInv'
  BY <1>1 DEF LinkInv, LinkTypeOK, TablesInv
<1>4. UpInv' /\ DownInv'
  BY <1>1, UpBreaks, DownBreaks, Zenon DEF LinkInv
<1> QED
  BY <1>2, <1>3, <1>4, Zenon DEF LinkInv

LEMMA ClientBreaksStep ==
  ASSUME LinkInv, ClientBreaks
  PROVE  LinkInv'
<1>1. /\ client' = [s \in S |-> IF client[s] = "open" THEN "closed" ELSE client[s]]
      /\ UNCHANGED <<up, down, count, id, fetch, followup, sentUp, server, lookup, linkHandle, sentDown, gotUp, gotDown, broken>>
  BY Zenon DEF ClientBreaks, Open, queues, serverVars, history
<1>2. LinkTypeOK' /\ TablesInv'
  BY <1>1, Zenon DEF LinkInv, LinkTypeOK, TablesInv
<1>3. UpInv' /\ DownInv'
  BY <1>1, UpStill, DownStill, Zenon
<1> QED
  BY <1>2, <1>3, Zenon DEF LinkInv

LEMMA LinkInit == MuxInit => LinkInv
<1> SUFFICES ASSUME MuxInit PROVE LinkInv
  BY Zenon
<1>1. LinkTypeOK
  <2>1. broken \in BOOLEAN /\ followup \in [S -> BOOLEAN]
    BY Zenon DEF MuxInit
  <2> QED
    BY <2>1, Zenon DEF MuxInit, LinkTypeOK
<1>2. TablesInv
  BY DEF MuxInit, TablesInv, S
<1>3. FramesOK(<<>>, count)
  BY DEF FramesOK
<1>4. UpInv
  <2>1. Awaited = {}
    BY Zenon DEF MuxInit, Awaited
  <2>2. Opening(up, Fresh, Awaited, Unknown)
    BY <2>1 DEF MuxInit, Opening
  <2>3. Stream(up, Lens(gotUp), sentUp, UpLive)
    BY DEF MuxInit, Stream, Lens, UpLive
  <2> QED
    BY <1>3, <2>2, <2>3 DEF MuxInit, UpInv, FirstOf
<1>5. DownInv
  <2>1. Stream(down, Lens(gotDown), sentDown, DownLive)
    BY DEF MuxInit, Stream, Lens, DownLive
  <2> QED
    BY <1>3, <2>1 DEF MuxInit, DownInv, FirstOf
<1> QED
  BY <1>1, <1>2, <1>4, <1>5, Zenon DEF LinkInv

\* The streams of the sessions on a connection are kept apart (SessionManager,
\* handleStatusNew, handleStatusKeep and handleStatusEnd on both sides): whatever
\* the order in which frames arrive, sessions are closed and the connection ends, an
\* end of a session gets the first chunks that the other end has sent, none missing,
\* none twice and none of another session.
THEOREM StreamsAreKeptApart == MuxSpec => []NoCrossTalk
<1>1. MuxInit => LinkInv
  BY LinkInit, Zenon
<1>2. LinkInv /\ [MuxNext]_muxVars => LinkInv'
  <2> SUFFICES ASSUME LinkInv, [MuxNext]_muxVars PROVE LinkInv'
    BY Zenon
  <2>1. ASSUME NEW s \in S, Dispatch(s) \/ FetchFirstEmpty(s) \/ FetchSends(s) \/ FetchEnds(s) \/ FetchCloses(s) PROVE LinkInv'
    BY <2>1, DispatchStep, FetchFirstEmptyStep, FetchSendsStep, FetchEndsStep, Zenon
  <2>2. ASSUME NEW s \in S, HandleSends(s) \/ HandleEnds(s) \/ HandleCloses(s) PROVE LinkInv'
    BY <2>2, HandleSendsStep, HandleEndsStep, Zenon
  <2>3. ASSUME NEW fails \in BOOLEAN, ServerNew(fails) \/ ServerKeep(fails) \/ ClientKeep(fails) PROVE LinkInv'
    BY <2>3, ServerNewStep, ServerKeepStep, ClientKeepStep, Zenon
  <2>4. CASE ServerEnd \/ ClientEnd
    BY <2>4, ServerEndStep, ClientEndStep, Zenon
  <2>5. CASE ServerNewFails \/ Break \/ ClientBreaks
    BY <2>5, BreakStep, ClientBreaksStep, Zenon
  <2>6. CASE UNCHANGED muxVars
    BY <2>6 DEF muxVars, queues, clientVars, serverVars, history, LinkInv, LinkTypeOK, TablesInv,
      UpInv, DownInv, UpLive, DownLive, Fresh, Unknown, Awaited
  <2> QED
    BY <2>1, <2>2, <2>3, <2>4, <2>5, <2>6, Zenon DEF MuxNext, Receive
<1>3. LinkInv => NoCrossTalk
  <2> SUFFICES ASSUME LinkInv, NEW s \in S
               PROVE  /\ gotUp[s] = [n \in 1..Len(gotUp[s]) |-> <<s, n>>] /\ Len(gotUp[s]) <= sentUp[s]
                      /\ gotDown[s] = [n \in 1..Len(gotDown[s]) |-> <<s, n>>] /\ Len(gotDown[s]) <= sentDown[s]
    BY Zenon DEF NoCrossTalk
  <2>1. FirstOf(s, gotUp[s]) /\ FirstOf(s, gotDown[s])
    BY Zenon DEF LinkInv, UpInv, DownInv
  <2>2. Lens(gotUp)[s] <= sentUp[s] /\ Lens(gotDown)[s] <= sentDown[s]
    BY Zenon DEF LinkInv, UpInv, DownInv, Stream
  <2>3. Lens(gotUp)[s] = Len(gotUp[s]) /\ Lens(gotDown)[s] = Len(gotDown[s])
    BY Zenon DEF Lens
  <2> QED
    BY <2>1, <2>2, <2>3, Zenon DEF FirstOf
<1> QED
  BY <1>1, <1>2, <1>3, PTL DEF MuxSpec

=============================================================================
