------------------------------ MODULE TLSKeys -------------------------------
(****************************************************************************)
(* The keys of TLS (transport/internet/tls): the certificates a server      *)
(* shows, loaded again and issued while it runs, and the ECH keys a client  *)
(* asks for.                                                                *)
(****************************************************************************)
EXTENDS Naturals, Sequences, FiniteSetsExt, Functions

(***************************************************************************)
(* transport/internet/tls: the certificates a server shows.  Every         *)
(* listener of an inbound calls GetTLSConfig on the same Config.  When the *)
(* Config has certificates of its own, a task per listener and certificate *)
(* reads the files again every hour and replaces the listener's key pair.  *)
(* When it has an authority, certificates are issued as names are asked    *)
(* for, and kept until shortly before they expire.                         *)
(***************************************************************************)

CONSTANTS Configs,      \* sequences of [names, usage, valid, staples, once]
          Listeners,
          Hellos,       \* handshakes that overlap
          Names,        \* the server names they ask for
          MaxRenewals,  \* bound: how often the files are replaced
          MaxIssued,    \* bound: certificates issued and not yet dropped
          MaxTime,      \* bound
          Life,         \* lifetime of an issued certificate, an hour
          Margin,       \* isCertificateExpired looks that far ahead, two minutes
          CALife        \* how much longer each renewed authority lasts

VARIABLES
  config,
  file,       \* the two files of each entry: versions; 0 while a file is missing
  operator,   \* where the operator is in replacing them: [at, e]
  renewals,
  entry,      \* Certificate.Certificate and .Key of each entry, shared by all listeners
  certs,      \* BuildCertificates: the key pairs of each listener
  task,       \* setupOcspTicker, for a listener and an entry: [at, cert, key]
  issued,     \* tls.Config.Certificates
  named,      \* tls.Config.NameToCertificate
  hello,      \* a handshake: [at, name, since, cert]
  now

fileVars == <<file, operator, renewals>>
issueVars == <<issued, named, hello, now>>
certVars == <<config, fileVars, entry, certs, task, issueVars>>

Entries == DOMAIN config
Pair(v) == [cert |-> v, key |-> v]
Min2(a, b) == IF a < b THEN a ELSE b
Nothing == <<>>

\* tls.X509KeyPair on what the entry holds.
IsPair(p) == p.cert = p.key /\ p.cert # 0

-----------------------------------------------------------------------------
\* GetTLSConfig: an authority decides that certificates are issued.
Issues(c) == \E e \in DOMAIN c : c[e].usage = "issue"

\* BuildCertificates skips the entries that do not hold a key pair.
Kept(c) == {e \in DOMAIN c : c[e].usage = "encipherment" /\ c[e].valid}

\* The place of an entry in the list of key pairs.
Index(c, e) == Cardinality({f \in Kept(c) : f <= e})

BuildCertificates(c) ==
  [i \in 1..Cardinality(Kept(c)) |->
     [of |-> CHOOSE e \in Kept(c) : Index(c, e) = i, pair |-> Pair(1), staple |-> 0]]

\* The entries with a task that reads their files again.
Watched(c) ==
  {e \in DOMAIN c : ~c[e].once /\ (IF Issues(c) THEN c[e].usage = "issue" ELSE e \in Kept(c))}

\* getNewGetCertificateFunc: by name or by wildcard, else the first.
GetCertificate(list, sni, reject) ==
  LET wild == <<"*">> \o Tail(sni)
      fits == {i \in DOMAIN list : config[list[i].of].names \cap {sni, wild} # {}}
  IN IF list = <<>> THEN Nothing
     ELSE IF ~reject /\ (Len(list) = 1 \/ sni = <<>>) THEN <<list[1]>>
     ELSE IF fits # {} THEN <<list[CHOOSE i \in fits : \A j \in fits : i <= j]>>
     ELSE IF reject THEN Nothing ELSE <<list[1]>>

-----------------------------------------------------------------------------
\* The operator renews the files of an entry, one after the other; a file may be away
\* for a moment while it is replaced.
Begin ==
  /\ operator.at = "idle" /\ renewals < MaxRenewals
  /\ \E e \in Watched(config), away \in BOOLEAN :
       /\ operator' = [at |-> IF away THEN "cert" ELSE "key", e |-> e]
       /\ file' = [file EXCEPT ![e].cert = IF away THEN 0 ELSE renewals + 2]
  /\ renewals' = renewals + 1
  /\ UNCHANGED <<config, entry, certs, task, issueVars>>

Renew ==
  /\ operator.at # "idle"
  /\ file' = IF operator.at = "cert" THEN [file EXCEPT ![operator.e].cert = renewals + 1]
             ELSE [file EXCEPT ![operator.e].key = renewals + 1]
  /\ operator' = IF operator.at = "cert" THEN [operator EXCEPT !.at = "key"]
                 ELSE [at |-> "idle", e |-> 0]
  /\ UNCHANGED <<config, renewals, entry, certs, task, issueVars>>

-----------------------------------------------------------------------------
\* The task: a file that cannot be read ends it.
Ended == [at |-> "ended", cert |-> 0, key |-> 0]
Waits == [at |-> "cert", cert |-> 0, key |-> 0]

ReadCert(l, e) ==
  /\ task[l][e].at = "cert"
  /\ task' = [task EXCEPT ![l][e] =
                IF file[e].cert = 0 THEN Ended
                ELSE [at |-> "key", cert |-> file[e].cert, key |-> 0]]
  /\ UNCHANGED <<config, fileVars, entry, certs, issueVars>>

\* What the callback does when nothing was reloaded: a new OCSP response, if it comes.
Staples(l, e, ok) ==
  IF ok /\ config[e].staples /\ e \in Kept(config)
    THEN [certs EXCEPT ![l][Index(config, e)].staple = certs[l][Index(config, e)].pair.cert]
    ELSE certs

\* Mutant: a new key with the old certificate goes unnoticed.
DiffersInCert(e, read) == read.cert # entry[e].cert

Differs(e, read) == read # entry[e]

ReadKey(l, e) ==
  LET read == [cert |-> task[l][e].cert, key |-> file[e].key]
  IN /\ task[l][e].at = "key"
     /\ IF read.key = 0
          THEN task' = [task EXCEPT ![l][e] = Ended] /\ UNCHANGED <<entry, certs>>
        ELSE IF ~Differs(e, read)
          THEN /\ task' = [task EXCEPT ![l][e] = Waits]
               /\ \E ok \in BOOLEAN : certs' = Staples(l, e, ok)
               /\ UNCHANGED entry
        ELSE /\ task' = [task EXCEPT ![l][e] = [at |-> "set", cert |-> 0, key |-> read.key]]
             /\ entry' = [entry EXCEPT ![e].cert = read.cert]
             /\ UNCHANGED certs
     /\ UNCHANGED <<config, fileVars, issueVars>>

SetKey(l, e) ==
  /\ task[l][e].at = "set"
  /\ entry' = [entry EXCEPT ![e].key = task[l][e].key]
  /\ task' = [task EXCEPT ![l][e] = [at |-> "call", cert |-> 0, key |-> 0]]
  /\ UNCHANGED <<config, fileVars, certs, issueVars>>

\* The callback after a reload: the new pair has no OCSP response yet.
Reload(l, e, ok) ==
  [certs EXCEPT ![l][Index(config, e)] =
     [of |-> e, pair |-> entry[e],
      staple |-> IF ok /\ config[e].staples THEN entry[e].cert ELSE 0]]

Callback(l, e) ==
  /\ task[l][e].at = "call"
  /\ task' = [task EXCEPT ![l][e] = Waits]
  /\ IF e \in Kept(config) /\ IsPair(entry[e])
       THEN \E ok \in BOOLEAN : certs' = Reload(l, e, ok)
       ELSE UNCHANGED certs
  /\ UNCHANGED <<config, fileVars, entry, issueVars>>

-----------------------------------------------------------------------------
\* getGetCertificateFunc.
isCertificateExpired(c) == c.after < now + Margin

NoHello == [at |-> "idle", name |-> Nothing, since |-> 0, cert |-> Nothing]
Goes(h, x) == hello' = [hello EXCEPT ![h] = x]

Lookup(h, name) ==
  /\ Issues(config) /\ hello[h].at \in {"idle", "done", "failed"}
  /\ LET found == named[name]
         it == [at |-> "issue", name |-> name, since |-> now, cert |-> Nothing]
     IN Goes(h, IF found = Nothing THEN it
                ELSE IF ~isCertificateExpired(found[1])
                  THEN [it EXCEPT !.at = "done", !.cert = found]
                ELSE [it EXCEPT !.at = "prune"])
  /\ UNCHANGED <<config, fileVars, entry, certs, task, issued, named, now>>

\* Mutant: what is held for the name is dropped without a look at it.
PruneName(h) ==
  /\ hello[h].at = "prune"
  /\ issued' = SelectSeq(issued, LAMBDA c : c.name # hello[h].name)
  /\ Goes(h, [hello[h] EXCEPT !.at = "issue"])
  /\ UNCHANGED <<config, fileVars, entry, certs, task, named, now>>

Prune(h) ==
  /\ hello[h].at = "prune"
  /\ issued' = SelectSeq(issued, LAMBDA c : ~isCertificateExpired(c))
  /\ Goes(h, [hello[h] EXCEPT !.at = "issue"])
  /\ UNCHANGED <<config, fileVars, entry, certs, task, named, now>>

\* cert.Generate: no certificate outlives its authority.
Generate(name, ca) == [name |-> name, after |-> Min2(now + Life, ca)]

\* issueCertificate with the first authority that works.
Issue(h) ==
  LET able == {e \in Entries : config[e].usage = "issue" /\ IsPair(entry[e])}
      first == CHOOSE e \in able : \A f \in able : e <= f
  IN /\ hello[h].at = "issue" /\ Len(issued) < MaxIssued
     /\ Goes(h, IF able = {} THEN [hello[h] EXCEPT !.at = "failed"]
                ELSE [hello[h] EXCEPT
                        !.at = "append",
                        !.cert = <<Generate(hello[h].name, entry[first].cert * CALife)>>])
     /\ UNCHANGED <<config, fileVars, entry, certs, task, issued, named, now>>

AppendIssued(h) ==
  /\ hello[h].at = "append"
  /\ issued' = issued \o hello[h].cert
  /\ Goes(h, [hello[h] EXCEPT !.at = "build"])
  /\ UNCHANGED <<config, fileVars, entry, certs, task, named, now>>

\* BuildNameToCertificate: the last certificate for a name.
BuildNameToCertificate(h) ==
  /\ hello[h].at = "build"
  /\ named' = [n \in Names |->
                 LET has == {i \in DOMAIN issued : issued[i].name = n}
                 IN IF has = {} THEN Nothing
                    ELSE <<issued[CHOOSE i \in has : \A j \in has : j <= i]>>]
  /\ Goes(h, [hello[h] EXCEPT !.at = "done"])
  /\ UNCHANGED <<config, fileVars, entry, certs, task, issued, now>>

Tick ==
  /\ Issues(config) /\ now < MaxTime
  /\ now' = now + 1
  /\ UNCHANGED <<config, fileVars, entry, certs, task, issued, named, hello>>

-----------------------------------------------------------------------------
\* An inbound that issues its certificates is modelled with one listener: each has
\* certificates of its own.
FirstListener == CHOOSE l \in Listeners : \A m \in Listeners : l <= m

CertInit ==
  /\ config \in Configs
  /\ file = [e \in Entries |-> Pair(1)] /\ operator = [at |-> "idle", e |-> 0]
  /\ renewals = 0
  /\ entry = [e \in Entries |-> IF config[e].valid THEN Pair(1) ELSE [cert |-> 1, key |-> 0]]
  /\ certs = [l \in Listeners |-> IF Issues(config) THEN <<>> ELSE BuildCertificates(config)]
  /\ task = [l \in Listeners |-> [e \in Entries |->
               IF e \in Watched(config) /\ (Issues(config) => l = FirstListener)
                 THEN Waits ELSE Ended]]
  /\ issued = <<>> /\ named = [n \in Names |-> Nothing]
  /\ hello = [h \in Hellos |-> NoHello] /\ now = 0

TaskStep(l, e) == ReadCert(l, e) \/ ReadKey(l, e) \/ SetKey(l, e) \/ Callback(l, e)

CertNext ==
  \/ Begin \/ Renew \/ Tick
  \/ \E l \in Listeners, e \in Entries : TaskStep(l, e)
  \/ \E h \in Hellos :
       \/ \E name \in Names : Lookup(h, name)
       \/ Prune(h) \/ Issue(h) \/ AppendIssued(h) \/ BuildNameToCertificate(h)

\* A ticker never stops, and an operator who has replaced one file replaces the other.
Fairness ==
  /\ WF_certVars(Renew)
  /\ \A l \in Listeners, e \in UNION {DOMAIN c : c \in Configs} :
       WF_certVars(e \in Entries /\ TaskStep(l, e))

CertSpec == CertInit /\ [][CertNext]_certVars
CertFairSpec == CertSpec /\ Fairness

-----------------------------------------------------------------------------
\* What one handshake was given stays with the server while it lasts, whatever the others
\* prune, append and rebuild meanwhile: the certificate is still in the list, and its name
\* still in the table, so that a later handshake finds one.
IssuedIsKept ==
  \A h \in Hellos : hello[h].at = "done" /\ ~isCertificateExpired(hello[h].cert[1]) =>
    /\ hello[h].cert[1] \in Range(issued)
    /\ named[hello[h].name] # Nothing

\* A listener answers a handshake for a name of the entry with the pair of its files.
ShowsFiles(l, e) ==
  \A name \in config[e].names, reject \in BOOLEAN :
    LET sni == IF Head(name) = "*" THEN <<"any">> \o Tail(name) ELSE name
        shown == GetCertificate(certs[l], sni, reject)
    IN shown # Nothing /\ shown[1].of = e /\ shown[1].pair = file[e]

Watches(l, e) == e \in Kept(config) /\ ~Issues(config) /\ task[l][e].at # "ended"

\* Once the files stop changing, some listener that still reads them shows what they hold,
\* and an authority that is still read issues with what they hold.
RenewedIsShown ==
  \A e \in Entries :
    /\ (\E l \in Listeners : Watches(l, e)) => \E l \in Listeners : ShowsFiles(l, e)
    /\ Issues(config) /\ task[FirstListener][e].at # "ended" => entry[e] = file[e]

\* ... and every listener that still reads them does.
ShownByAll == \A l \in Listeners, e \in Entries : Watches(l, e) => ShowsFiles(l, e)

-----------------------------------------------------------------------------
(***************************************************************************)
(* transport/internet/tls/ech.go: the Encrypted Client Hello configuration *)
(* of a client, asked for at a DNS server and cached.  Dials that need it  *)
(* at the same time wait for one query; an expired record is still used    *)
(* while it is refreshed, unless it is too old.  "echForceQuery" says what *)
(* a failed query means for the connection.                                *)
(***************************************************************************)

CONSTANTS Dials,
          Force,       \* the setting of each dial: "", "none", "half" or "full"
          MaxCalls,    \* bound: how many dials there are in all
          MaxKeys,     \* bound: how often the server changes its keys
          EchMaxTime,  \* bound
          TTLs,        \* what a DNS answer may say, 0 included
          DefaultTTL,
          TooOld       \* six hours

VARIABLES
  record,   \* ECHConfigCache.configRecord: [config, expire, err]; expire 0: initial
  locked,   \* UpdateLock
  update,   \* Update, called by a dial or by its goroutine: [at, config]
  dial,     \* each dial: [at, config, err, floor]
  calls,    \* how many there have been
  keys,     \* the configuration the server has now, numbered as they follow; external
  echNow

echVars == <<record, locked, update, dial, calls, keys, echNow>>

\* 0 stands for an empty configuration.
Initial == [config |-> 0, expire |-> 0, err |-> FALSE]
Idle == [at |-> "idle", config |-> 0, err |-> FALSE, floor |-> 0]

Updates == Dials \X {"waits", "behind"}
NoUpdate == [at |-> "none", config |-> 0]

Fresh(r) == r.expire > echNow

\* The newest configuration that a dial has been given.
Newest == Max({0} \cup {dial[d].config : d \in {x \in Dials : dial[x].at = "done"}}
                  \cup {dial[d].floor : d \in Dials})

-----------------------------------------------------------------------------
\* QueryRecord; the setting is passed on as it was written.
Hit(d, r) == Fresh(r) /\ (~r.err \/ Force[d] = "none")

MustWait(r) == r.expire = 0 \/ r.expire + TooOld < echNow

QueryRecord(d) ==
  /\ dial[d].at \in {"idle", "done"} /\ calls < MaxCalls
  /\ calls' = calls + 1
  /\ IF ~Hit(d, record) /\ MustWait(record)
       THEN /\ dial' = [dial EXCEPT ![d] = [Idle EXCEPT !.at = "wait", !.floor = Newest]]
            /\ update' = [update EXCEPT ![d, "waits"].at = "lock"]
       ELSE /\ dial' = [dial EXCEPT ![d] =
                          [at |-> IF Hit(d, record) THEN "done" ELSE "stale",
                           config |-> record.config, err |-> record.err, floor |-> Newest]]
            /\ UNCHANGED update
  /\ UNCHANGED <<record, locked, keys, echNow>>

\* A record that is expired but not too old is used as it is, and refreshed by a goroutine.
\* Mutant: another goroutine starts though one is at it.
TryLockNot(d) ==
  /\ dial[d].at = "stale" /\ update[d, "behind"].at = "none"
  /\ dial' = [dial EXCEPT ![d].at = "done"]
  /\ locked' = TRUE /\ update' = [update EXCEPT ![d, "behind"].at = "check"]
  /\ UNCHANGED <<record, calls, keys, echNow>>

TryLock(d) ==
  /\ dial[d].at = "stale"
  /\ dial' = [dial EXCEPT ![d].at = "done"]
  /\ locked' = TRUE
  /\ update' = IF locked THEN update ELSE [update EXCEPT ![d, "behind"].at = "check"]
  /\ UNCHANGED <<record, calls, keys, echNow>>

Lock(u) ==
  /\ ~locked /\ update[u].at = "lock"
  /\ locked' = TRUE /\ update' = [update EXCEPT ![u].at = "check"]
  /\ UNCHANGED <<record, dial, calls, keys, echNow>>

\* What Update returns goes to the dial that waits for it; the lock is free again.
Returns(u, r) ==
  /\ update' = [update EXCEPT ![u] = NoUpdate] /\ locked' = FALSE
  /\ dial' = IF u[2] = "behind" THEN dial
             ELSE [dial EXCEPT ![u[1]].at = "done", ![u[1]].config = r.config, ![u[1]].err = r.err]

\* Update, once it has the lock: a record that came in the meantime is good enough.
DoubleCheckNot == FALSE

DoubleCheck == Fresh(record) /\ ~record.err

Update(u) ==
  /\ update[u].at = "check"
  /\ IF DoubleCheck THEN Returns(u, record)
     ELSE /\ update' = [update EXCEPT ![u] = [at |-> "ask", config |-> keys]]
          /\ UNCHANGED <<locked, dial>>
  /\ UNCHANGED <<record, calls, keys, echNow>>

\* dnsQuery returns: a configuration that the server has had meanwhile, none, or an error.
Answer(u, config_, ttl, err) ==
  LET new == [config |-> config_, expire |-> echNow + IF ttl = 0 THEN DefaultTTL ELSE ttl,
              err |-> err]
  IN /\ update[u].at = "ask"
     /\ record' = IF err /\ Force[u[1]] = "full" THEN record ELSE new
     /\ Returns(u, new)
     /\ UNCHANGED <<calls, keys, echNow>>

DnsQuery(u) ==
  \/ \E ttl \in TTLs, c \in update[u].config .. keys : Answer(u, c, ttl, FALSE)
  \/ Answer(u, 0, DefaultTTL, FALSE)
  \/ Answer(u, 0, 0, TRUE)

Rotate ==
  /\ keys < MaxKeys /\ keys' = keys + 1
  /\ UNCHANGED <<record, locked, update, dial, calls, echNow>>

EchTick ==
  /\ echNow < EchMaxTime /\ echNow' = echNow + 1
  /\ UNCHANGED <<record, locked, update, dial, calls, keys>>

EchInit ==
  /\ record = Initial /\ locked = FALSE /\ update = [u \in Updates |-> NoUpdate]
  /\ dial = [d \in Dials |-> Idle] /\ calls = 0 /\ keys = 1
  /\ echNow = 1   \* later than the zero value of a time

EchNext ==
  \/ \E d \in Dials : QueryRecord(d) \/ TryLock(d)
  \/ \E u \in Updates : Lock(u) \/ Update(u) \/ DnsQuery(u)
  \/ Rotate \/ EchTick

EchSpec == EchInit /\ [][EchNext]_echVars

-----------------------------------------------------------------------------
\* ApplyECH: with "full" a hello without a configuration is made to fail.
Applied(d) ==
  IF dial[d].config # 0 /\ ~dial[d].err THEN "encrypted"
  ELSE IF Force[d] = "full" THEN "invalid" ELSE "plain"

\* However dials overlap, records expire and queries fail: no dial goes out with an older
\* configuration than one that a dial finished before it was given, and nothing is asked
\* while a good record is cached.
EchInOrder ==
  /\ \A d \in Dials : dial[d].at = "done" /\ Applied(d) = "encrypted" =>
       dial[d].config >= dial[d].floor
  /\ \A u \in Updates : update[u].at = "ask" => ~Fresh(record) \/ record.err

\* Every dial that waits is answered, and the lock is free in the end.
EchAtRest == ~locked /\ \A d \in Dials : dial[d].at \in {"idle", "done"}

=============================================================================
