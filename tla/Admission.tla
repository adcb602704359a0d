----------------------------- MODULE Admission ------------------------------
(****************************************************************************)
(* Who is let in: the fallbacks of VLESS and Trojan inbounds, and the       *)
(* users of the protocols, added and removed while connections arrive.      *)
(****************************************************************************)
EXTENDS Naturals, Sequences, FiniteSets

(***************************************************************************)
(* What VLESS and Trojan inbounds do with a connection that is not theirs: *)
(* the table name -> alpn -> path -> fallback that New fills from the      *)
(* configured list, the choice Process makes from the server name and      *)
(* protocol of the TLS connection and the path of the request, and what    *)
(* the chosen server is sent.  Names are sequences of characters, of which *)
(* the choice looks at containment and length; alpns and paths are values, *)
(* "" the empty one.                                                       *)
(***************************************************************************)

CONSTANTS Fallbacks,   \* the configured lists: sequences of [name, alpn, path, xver]
          Names,       \* server names of connections
          Alpns,       \* negotiated protocols
          Requests,    \* what clients send first: [len, id, slash, path, stop, line]
          MinLength    \* bytes a request of the protocol has (18, 58)

VARIABLES conf, fb,    \* the configured list and the table made of it
          fbConn,        \* the connection: its name, alpn and request
          fbState,          \* "new", "failed", "accepted", "chosen", "relay", "ended"
          chosen,      \* the fallback it goes to
          first,       \* what is left of the bytes read first
          sent         \* what the fallback server has been sent
fallbackVars == <<conf, fb, fbConn, fbState, chosen, first, sent>>

Nil == [xver |-> 9]
Default == <<>>     \* the empty name

(***************************************************************************)
(* New: the table.                                                         *)
(***************************************************************************)
Listed(list) ==
  [n \in {list[i].name : i \in 1..Len(list)} |->
     [a \in {list[i].alpn : i \in {j \in 1..Len(list) : list[j].name = n}} |->
        [p \in {list[i].path : i \in {j \in 1..Len(list) : list[j].name = n /\ list[j].alpn = a}} |->
           list[CHOOSE i \in 1..Len(list) :
                  /\ <<list[i].name, list[i].alpn, list[i].path>> = <<n, a, p>>
                  /\ \A j \in i + 1..Len(list) :
                       <<list[j].name, list[j].alpn, list[j].path>> # <<n, a, p>>]]]]

Over(f, g) == [x \in DOMAIN f \cup DOMAIN g |-> IF x \in DOMAIN f THEN f[x] ELSE g[x]]

(* Every name knows the alpns of the default name ...                      *)
KnowAlpns(t) ==
  IF Default \notin DOMAIN t THEN t
  ELSE [n \in DOMAIN t |-> Over(t[n], [a \in DOMAIN t[Default] |-> <<>>])]

(* ... every alpn the paths of its name's default alpn ...                 *)
FromAlpn(t) ==
  [n \in DOMAIN t |->
     IF "" \notin DOMAIN t[n] THEN t[n]
     ELSE [a \in DOMAIN t[n] |-> Over(t[n][a], t[n][""])]]

\* Mutant: names take nothing from the default name.
FromNameNothing(t) == t

(* ... and every name the paths of the default name.                       *)
FromName(t) ==
  IF Default \notin DOMAIN t THEN t
  ELSE [n \in DOMAIN t |->
          [a \in DOMAIN t[n] |->
             IF a \in DOMAIN t[Default] THEN Over(t[n][a], t[Default][a]) ELSE t[n][a]]]

New(list) == FromName(FromAlpn(KnowAlpns(Listed(list))))

(***************************************************************************)
(* Process: the choice.                                                    *)
(***************************************************************************)
Contains(s, sub) ==
  \E i \in 0..Len(s) - Len(sub) : SubSeq(s, i + 1, i + Len(sub)) = sub

(* The names it may settle on: the iteration order of the map decides      *)
(* between contained names of one length.                                  *)
Matches(name) ==
  LET within == {n \in DOMAIN fb : n # Default /\ Contains(name, n)}
  IN  IF name \in DOMAIN fb \/ name = Default \/ DOMAIN fb = {Default} THEN {name}
      ELSE IF within = {} THEN {Default}
      ELSE {n \in within : \A m \in within : Len(m) <= Len(n)}

KnownName(name) == IF name \in DOMAIN fb THEN name ELSE Default

KnownAlpn(name, alpn) == IF alpn \in DOMAIN fb[name] THEN alpn ELSE ""

(* The path of an HTTP/1 request: a '/' after a space in bytes 4 to 8, up  *)
(* to a space or '?' before the 64th byte and before the line ends.        *)
RequestPath(r, paths) ==
  IF /\ DOMAIN paths # {""} /\ r.len >= 18 /\ r.slash \in 4..8
     /\ r.stop < 64 /\ r.stop < r.len /\ r.stop < r.line /\ r.path \in DOMAIN paths
  THEN r.path ELSE ""

(* DecodeRequestHeader, Process of Trojan: a request too short or of an    *)
(* unknown id goes to the fallback, untouched; a known id is consumed.     *)
FallbackInit == /\ conf \in Fallbacks /\ fb = New(conf)
                /\ fbConn \in [name : Names, alpn : Alpns, request : Requests]
                /\ fbState = "new" /\ chosen = Nil
                /\ first = <<"id", "payload">> /\ sent = <<>>

Decode ==
  /\ fbState = "new"
  /\ IF fbConn.request.len >= MinLength /\ fbConn.request.id
     THEN fbState' = "accepted" /\ first' = <<"payload">>
     ELSE fbState' = (IF conf = <<>> THEN "failed" ELSE "fallback") /\ UNCHANGED first
  /\ UNCHANGED <<conf, fb, fbConn, chosen, sent>>

Choose ==
  /\ fbState = "fallback"
  /\ \E match \in Matches(fbConn.name) :
       LET name  == KnownName(match)
           alpn  == KnownAlpn(name, fbConn.alpn)
           paths == fb[name][alpn]
           path  == RequestPath(fbConn.request, paths)
       IN  IF name \in DOMAIN fb /\ alpn \in DOMAIN fb[name] /\ path \in DOMAIN paths
           THEN fbState' = "chosen" /\ chosen' = paths[path]
           ELSE fbState' = "failed" /\ UNCHANGED chosen
  /\ UNCHANGED <<conf, fb, fbConn, first, sent>>

(* postRequest: the PROXY header of the configured version, then all the   *)
(* client has sent.  An address that cannot be split is "UNKNOWN", LOCAL.  *)
ProxyHeader(f) ==
  IF f.xver = 0 THEN {<<>>}
  ELSE {<<<<"proxy", f.xver, ip>>>> : ip \in {"unknown", "tcp4", "tcp6"}}

Relay ==
  /\ fbState = "chosen"
  /\ \/ \E h \in ProxyHeader(chosen) : fbState' = "ended" /\ sent' = h \o first
     \/ fbState' = "failed" /\ UNCHANGED sent     \* five dials failed
  /\ UNCHANGED <<conf, fb, fbConn, chosen, first>>

FallbackNext == Decode \/ Choose \/ Relay

FallbackSpec == FallbackInit /\ [][FallbackNext]_fallbackVars

(***************************************************************************)
(* Properties.                                                             *)
(***************************************************************************)
(* What the three passes of New and the lookup come to: of the configured  *)
(* entries that fit, in the order of an entry for the path before one for  *)
(* any path, the matched name before any name, and the alpn before any     *)
(* alpn, the first (of equals, the last configured) is chosen, and none    *)
(* only when there is none.  The entries for any name and any alpn do not  *)
(* count for a name with entries of its own for an alpn that the default   *)
(* name does not list: the second pass runs before the third, so such a    *)
(* connection is refused though a default is configured.                   *)
Path(r) == IF r.len >= 18 /\ r.slash \in 4..8 /\ r.stop < 64 /\ r.stop < r.len /\ r.stop < r.line
           THEN r.path ELSE ""

Cut(name, alpn) ==
  /\ name # Default
  /\ \E i \in 1..Len(conf) : conf[i].name = name /\ conf[i].alpn = alpn
  /\ \A i \in 1..Len(conf) : ~(conf[i].name = Default /\ conf[i].alpn = alpn)

Preference(name, alpn, path) ==
  LET at(p) == <<<<name, alpn, p>>, <<name, "", p>>, <<Default, alpn, p>>>>
               \o IF Cut(name, alpn) THEN <<>> ELSE <<<<Default, "", p>>>>
  IN  at(path) \o at("")

Configured(key) == {i \in 1..Len(conf) : <<conf[i].name, conf[i].alpn, conf[i].path>> = key}

Wanted(name) ==
  LET keys == Preference(name, fbConn.alpn, Path(fbConn.request))
      fit  == {k \in 1..Len(keys) : Configured(keys[k]) # {}}
      best == Configured(keys[CHOOSE k \in fit : \A m \in fit : k <= m])
  IN  IF fit = {} THEN Nil ELSE conf[CHOOSE i \in best : \A j \in best : j <= i]

MostSpecific ==
  fbState \in {"chosen", "ended", "failed"} /\ conf # <<>> =>
         \E name \in Matches(fbConn.name) : chosen = Wanted(name)

(* The server behind is sent every byte the client sent, from the first    *)
(* on, after the PROXY header its entry asks for, though the inbound has   *)
(* looked for an id of its own in them.                                    *)
BehindHearsAll ==
  fbState = "ended" => \E h \in ProxyHeader(chosen) : sent = h \o <<"id", "payload">>

-----------------------------------------------------------------------------
(***************************************************************************)
(* The user tables of the inbounds that let the HandlerService add and     *)
(* remove users while connections are being authenticated: VLESS and       *)
(* Trojan (two sync.Map: by email and by id), VMess (a map by email in     *)
(* front of a list and the decoders by key), Shadowsocks (one locked list) *)
(* and Shadowsocks 2022 (a locked list and a service that knows a user by  *)
(* its index in it).  Every access to a sync.Map, and every critical       *)
(* section, is a step.  An email is a number, 0 the empty one, caps says   *)
(* whether it is spelled in capitals; an id is a UUID as ProcessUUID       *)
(* leaves it, a key or its hash, and nothing keeps two users from having   *)
(* the same.  A user's Shadowsocks cipher may be no AEAD one, and its      *)
(* Shadowsocks 2022 key none the service takes.                            *)
(***************************************************************************)

CONSTANTS People,   \* the users that may be added: [email, caps, id, aead, good]
          Callers,  \* concurrent calls of AlterInbound
          MaxUsers  \* users listed at a time

VARIABLES proto,    \* the protocol of the inbound
          emails,   \* users by email
          ids,      \* users by id (an index into list for Shadowsocks 2022)
          userList,     \* the slice of users
          call,     \* the calls in progress
          login,     \* the connection being authenticated
          overlap,  \* history: emails removed while another call was at them
          displaced \* history: users whose id another one has taken or lost since
usersVars == <<proto, emails, ids, userList, call, login, overlap, displaced>>

Protocols == {"vless", "vmess", "shadowsocks", "ss2022"}   \* Trojan does as VLESS
NoUser == [email |-> 0, caps |-> FALSE, id |-> 0, aead |-> TRUE, good |-> TRUE]
Idle == [op |-> "none", user |-> NoUser, pc |-> 0]
NoConn == [st |-> "none", id |-> 0, at |-> 0, moved |-> FALSE, user |-> NoUser]

Maps == proto = "vless"

UsersInit == /\ proto \in Protocols
             /\ emails = [e \in {p.email : p \in People} |-> NoUser]
             /\ ids = [n \in {p.id : p \in People} |-> NoUser]
             /\ userList = <<>>
             /\ call = [k \in Callers |-> Idle]
             /\ login = NoConn /\ overlap = {} /\ displaced = {}

(***************************************************************************)
(* The calls.                                                              *)
(***************************************************************************)
Returns(k) == call' = [call EXCEPT ![k] = Idle]

Goes(k, op, u, pc) == call' = [call EXCEPT ![k] = [op |-> op, user |-> u, pc |-> pc]]

(* History: the call k begins with the email e.                            *)
Begins(k, op, e) ==
  overlap' = IF \E j \in Callers \ {k} : /\ call[j].user.email = e
                                         /\ "remove" \in {op, call[j].op}
             THEN overlap \cup {e} ELSE overlap

First(email) ==
  LET at == {n \in 1..Len(userList) : userList[n].email = email}
  IN  IF at = {} THEN 0 ELSE CHOOSE n \in at : \A m \in at : n <= m

(* The last user takes the place of the one removed.                       *)
Without(n) == SubSeq([userList EXCEPT ![n] = userList[Len(userList)]], 1, Len(userList) - 1)

(* UpdateUsersWithPasswords: of two users of a key the last is known.  It  *)
(* fails, and changes nothing, when it does not take a key; AddUser and    *)
(* RemoveUser do not look at its result.                                   *)
KeysTaken(users) == \A j \in 1..Len(users) : users[j].good

Indices(users) ==
  IF ~KeysTaken(users) THEN ids
  ELSE [n \in DOMAIN ids |->
          LET at == {j \in 1..Len(users) : users[j].id = n}
          IN  IF at = {} THEN NoUser
              ELSE [NoUser EXCEPT !.id = CHOOSE j \in at : \A m \in at : j >= m]]

(* History: the id of u is stored for it, deleted with it.                 *)
Sharers(u) == {w \in People \ {u} : w.id = u.id}
Stored(u) == displaced' = (displaced \cup Sharers(u)) \ {u}
Deleted(u) == displaced' = displaced \cup Sharers(u)

(* MemoryValidator.Add and Validator.Add: the email is taken first.        *)
AddEmail(k, u) ==
  /\ Maps \/ proto = "vmess"
  /\ call[k] = Idle /\ Len(userList) < MaxUsers
  /\ IF u.email # 0 /\ emails[u.email] # NoUser
     THEN UNCHANGED <<emails, call, overlap>>
     ELSE /\ emails' = IF u.email = 0 THEN emails ELSE [emails EXCEPT ![u.email] = u]
          /\ Goes(k, "add", u, 1) /\ Begins(k, "add", u.email)
  /\ UNCHANGED <<proto, ids, userList, login, displaced>>

AddId(k) ==
  /\ Maps /\ call[k].op = "add" /\ Returns(k)
  /\ ids' = [ids EXCEPT ![call[k].user.id] = call[k].user] /\ Stored(call[k].user)
  /\ UNCHANGED <<proto, emails, userList, login, overlap>>

(* Del: the entry found by the email says which id goes too.               *)
DelLoad(k, e) ==
  /\ Maps /\ call[k] = Idle /\ e # 0 /\ emails[e] # NoUser
  /\ Goes(k, "remove", emails[e], 1) /\ Begins(k, "remove", e)
  /\ UNCHANGED <<proto, emails, ids, userList, login, displaced>>

DelEmail(k) ==
  /\ Maps /\ call[k].op = "remove" /\ call[k].pc = 1
  /\ Goes(k, "remove", call[k].user, 2)
  /\ emails' = [emails EXCEPT ![call[k].user.email] = NoUser]
  /\ UNCHANGED <<proto, ids, userList, login, overlap, displaced>>

DelIdByEmail(k) ==
  /\ Maps /\ call[k].op = "remove" /\ call[k].pc = 2 /\ Returns(k)
  /\ ids' = IF emails[call[k].user.email] # NoUser
            THEN [ids EXCEPT ![call[k].user.id] = NoUser] ELSE ids
  /\ Deleted(call[k].user)
  /\ UNCHANGED <<proto, emails, userList, login, overlap>>

DelId(k) ==
  /\ Maps /\ call[k].op = "remove" /\ call[k].pc = 2 /\ Returns(k)
  /\ ids' = [ids EXCEPT ![call[k].user.id] = NoUser] /\ Deleted(call[k].user)
  /\ UNCHANGED <<proto, emails, userList, login, overlap>>

(* Handler.AddUser of VMess goes on to TimedUserValidator.Add ...          *)
AddClient(k) ==
  /\ proto = "vmess" /\ call[k].op = "add" /\ Returns(k)
  /\ userList' = Append(userList, call[k].user)
  /\ ids' = [ids EXCEPT ![call[k].user.id] = call[k].user] /\ Stored(call[k].user)
  /\ UNCHANGED <<proto, emails, login, overlap>>

(* ... and RemoveUser, once the email is free, to its Remove.              *)
RemoveEmail(k, e) ==
  /\ proto = "vmess" /\ call[k] = Idle /\ e # 0 /\ emails[e] # NoUser
  /\ Goes(k, "remove", emails[e], 1) /\ Begins(k, "remove", e)
  /\ emails' = [emails EXCEPT ![e] = NoUser]
  /\ UNCHANGED <<proto, ids, userList, login, displaced>>

RemoveClient(k) ==
  LET at == First(call[k].user.email)
  IN  /\ proto = "vmess" /\ call[k].op = "remove" /\ Returns(k)
      /\ IF at = 0 THEN UNCHANGED <<userList, ids, displaced>>
         ELSE /\ userList' = Without(at) /\ Deleted(userList[at])
              /\ ids' = [ids EXCEPT ![userList[at].id] = NoUser]
      /\ UNCHANGED <<proto, emails, login, overlap>>

(* Shadowsocks does not mind two users of one email, but a cipher that is  *)
(* no AEAD one after another user; Shadowsocks 2022 minds an email that is *)
(* listed with the same spelling.                                          *)
AddLocked(u) ==
  /\ proto \in {"shadowsocks", "ss2022"} /\ Len(userList) < MaxUsers
  /\ proto = "shadowsocks" => u.aead \/ userList = <<>>
  /\ proto = "ss2022" => \/ u.email = 0
                         \/ \A j \in 1..Len(userList) :
                              <<userList[j].email, userList[j].caps>> # <<u.email, u.caps>>
  /\ userList' = Append(userList, u)
  /\ ids' = IF proto = "ss2022" THEN Indices(userList') ELSE ids
  /\ UNCHANGED <<proto, emails, call, login, overlap, displaced>>

\* Mutant: the index of the users is left as it was.
RemoveLockedOnly(e) ==
  /\ proto \in {"shadowsocks", "ss2022"} /\ e # 0 /\ First(e) # 0
  /\ userList' = Without(First(e))
  /\ login' = [login EXCEPT !.moved = @ \/ login.st = "index"]
  /\ UNCHANGED <<proto, emails, ids, call, overlap, displaced>>

RemoveLocked(e) ==
  /\ proto \in {"shadowsocks", "ss2022"} /\ e # 0 /\ First(e) # 0
  /\ userList' = Without(First(e))
  /\ ids' = IF proto = "ss2022" THEN Indices(userList') ELSE ids
  /\ login' = [login EXCEPT !.moved = @ \/ login.st = "index"]
  /\ UNCHANGED <<proto, emails, call, overlap, displaced>>

(***************************************************************************)
(* A connection that presents the id n.  Shadowsocks tries its users in    *)
(* turn; one whose cipher is no AEAD one takes whatever comes to it.       *)
(***************************************************************************)
Holder(n) ==
  CASE Maps \/ proto = "vmess" -> ids[n]
    [] proto = "shadowsocks" ->
         LET at == {j \in 1..Len(userList) : userList[j].aead => userList[j].id = n}
         IN  IF at = {} THEN NoUser ELSE userList[CHOOSE j \in at : \A m \in at : j <= m]

(* One lookup decides for VLESS, Trojan and VMess.  CheckIV refuses an     *)
(* AEAD user's connection of Shadowsocks whose IV has been seen.           *)
Get(n) ==
  /\ proto \in {"shadowsocks", "ss2022"} /\ login.st # "index"
  /\ IF proto = "ss2022"
     THEN /\ ids[n] # NoUser
          /\ login' = [NoConn EXCEPT !.st = "index", !.id = n, !.at = ids[n].id,
                                     !.moved = ~KeysTaken(userList)]
     ELSE /\ Holder(n) # NoUser
          /\ \/ login' = [NoConn EXCEPT !.st = "user", !.id = n, !.user = Holder(n)]
             \/ Holder(n).aead /\ login' = [NoConn EXCEPT !.st = "repeated"]
  /\ UNCHANGED <<proto, emails, ids, userList, call, overlap, displaced>>

(* NewConnection of Shadowsocks 2022 reads the slice, without the lock, at *)
(* the index the service has found; past its end it panics.                *)
NewConnection ==
  /\ login.st = "index"
  /\ login' = IF login.at > Len(userList) THEN [login EXCEPT !.st = "panic"]
              ELSE [login EXCEPT !.st = "user", !.user = userList[login.at]]
  /\ UNCHANGED <<proto, emails, ids, userList, call, overlap, displaced>>

(* What GetUser shows, and whom GetUsers lists.                            *)
GetByEmail(e) ==
  IF Maps \/ proto = "vmess" THEN emails[e]
  ELSE IF First(e) = 0 THEN NoUser ELSE userList[First(e)]

GetUsers ==
  IF Maps THEN {emails[e] : e \in DOMAIN emails} \ {NoUser}
  ELSE {userList[j] : j \in 1..Len(userList)}

UsersNext == \/ \E k \in Callers, u \in People : AddEmail(k, u)
             \/ \E k \in Callers, e \in DOMAIN emails : DelLoad(k, e) \/ RemoveEmail(k, e)
             \/ \E k \in Callers : \/ AddId(k) \/ DelEmail(k) \/ DelId(k)
                                   \/ AddClient(k) \/ RemoveClient(k)
             \/ \E u \in People : AddLocked(u)
             \/ \E e \in DOMAIN emails : RemoveLocked(e)
             \/ \E n \in DOMAIN ids : Get(n)
             \/ NewConnection

UsersSpec == UsersInit /\ [][UsersNext]_usersVars

(***************************************************************************)
(* Properties.                                                             *)
(***************************************************************************)
(* The tables the API manages and the one connections are checked against  *)
(* agree, once no call is at an email.  Who is let in is listed, so that a *)
(* user whose removal has succeeded is gone, and is the one its email      *)
(* names, but for Shadowsocks, which lists several users of an email, and  *)
(* for spellings of one that Shadowsocks 2022 takes for different emails.  *)
(* Who is listed is let in, unless another user of the same id has been    *)
(* added or removed since (Del of one takes the other's login), or the     *)
(* first user of a Shadowsocks inbound, of no AEAD cipher, takes every     *)
(* connection.  Nothing is said of Shadowsocks 2022 while it lists a key   *)
(* its service does not take, nor of an email from an addition on that     *)
(* overlapped its removal: no lock spans the two maps, and the             *)
(* interleaving leaves a user that logs in and is not listed, or the       *)
(* reverse.                                                                *)
Accepted(u) == IF proto = "ss2022"
               THEN ids[u.id] # NoUser /\ ids[u.id].id <= Len(userList) /\ userList[ids[u.id].id] = u
               ELSE Holder(u.id) = u
Alone(u) == u \notin displaced /\ (proto \in {"shadowsocks", "ss2022"} => GetUsers \cap Sharers(u) = {})
Namesake(u, w) == /\ w.email = u.email
                  /\ \/ proto = "shadowsocks"
                     \/ proto = "ss2022" /\ w.caps # u.caps
Settled(u) == /\ u.email # 0 /\ u.email \notin overlap
              /\ \A k \in Callers : call[k].user.email # u.email
              /\ proto = "ss2022" => KeysTaken(userList)
ListsAgree ==
  \A u \in People :
    Settled(u) =>
      /\ Accepted(u) => /\ u \in GetUsers
                        /\ GetByEmail(u.email) = u \/ \E w \in GetUsers \ {u} : Namesake(u, w)
      /\ u \in GetUsers \cup {GetByEmail(u.email)} /\ Alone(u)
           => \/ Accepted(u)
              \/ proto = "shadowsocks" /\ ~userList[1].aead

(* A connection is put down to the user whose id it presented, and finds   *)
(* one, unless a user is removed between the lookup of the index and its   *)
(* use, or the lookup was in a table that a key left behind the list.      *)
PutDownRight ==
  /\ login.st = "user" => login.moved \/ login.user.id = login.id \/ ~login.user.aead
  /\ login.st = "panic" => login.moved
=============================================================================
