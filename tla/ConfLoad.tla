------------------------------ MODULE ConfLoad ------------------------------
(****************************************************************************)
(* From configuration files to a core: the files of the command line,       *)
(* merged and built (infra/conf/serial), and the core put together from     *)
(* its apps (core/xray.go).                                                 *)
(****************************************************************************)
EXTENDS ConfBuild, SequencesExt, Naturals, Sequences

(***************************************************************************)
(* Loading a configuration from several files: core.LoadConfig chooses a   *)
(* format for every file, mergeConfigs (infra/conf/serial/builder.go)      *)
(* reads them one after the other and merges each into what the earlier    *)
(* ones gave (Config.Override, infra/conf/xray.go), and Config.Build       *)
(* post-processes the result and turns it into the list of features and    *)
(* the inbounds and outbounds the core starts with.                        *)
(*                                                                         *)
(* A file is [ext, tail, decodes, config]: its extension, whether its name *)
(* contains "tail", whether it can be read and decoded, and what it holds. *)
(***************************************************************************)

CONSTANTS Files, MaxFiles

VARIABLES args,    \* the files of the command line
          phase,   \* "idle", "merging", "merged", "checked", "done", "raw" (protobuf), "error" or "panic"
          next,    \* the index of the file that is read next
          merged,  \* the configuration merged so far
          config   \* <<>>, or <<the configuration of the core>>

vars == <<args, phase, next, merged, config>>

-----------------------------------------------------------------------------
(* Merging *)

GetFormatByExtension(ext) ==
  CASE ext \in {"pb", "protobuf"} -> "protobuf"
    [] ext \in {"yaml", "yml"} -> "yaml"
    [] ext = "toml" -> "toml"
    [] ext \in {"json", "jsonc"} -> "json"
    [] OTHER -> ""

\* The first handler with the tag; handlers without a tag are alike.
findTag(hs, tag) == LET at == {i \in DOMAIN hs : Text(hs[i], "tag") = tag} IN
                    IF at = {} THEN 0 ELSE CHOOSE i \in at : \A j \in at : i <= j

OverrideInbound(hs, h) ==
  LET at == findTag(hs, Text(h, "tag")) IN IF at > 0 THEN [hs EXCEPT ![at] = h] ELSE Append(hs, h)

OverrideOutboundsBehind(old, new, tail) ==
  FoldLeft(OverrideInbound, old, new)

\* Outbounds with a new tag go in front, in their order, or behind for a "tail" file.
OverrideOutbounds(old, new, tail) ==
  LET one(acc, h) ==
        LET at == findTag(acc.list, Text(h, "tag")) IN
        IF at > 0 THEN [acc EXCEPT !.list[at] = h]
        ELSE IF tail THEN [acc EXCEPT !.list = Append(@, h)]
        ELSE [acc EXCEPT !.front = Append(@, h)]
      end == FoldLeft(one, [list |-> old, front |-> <<>>], new) IN
  end.front \o end.list

Handlers == {"inbounds", "outbounds"}

Override(c, o, tail) ==
  ("inbounds" :> FoldLeft(OverrideInbound, List(c, "inbounds"), List(o, "inbounds")))
  @@ ("outbounds" :> OverrideOutbounds(List(c, "outbounds"), List(o, "outbounds"), tail))
  @@ o @@ c

LoadConfig(fs) ==
  /\ phase = "idle"
  /\ args' = fs
  /\ next' = 1
  /\ LET formats == {GetFormatByExtension(fs[i].ext) : i \in DOMAIN fs} IN
     phase' = IF "" \in formats \/ ("protobuf" \in formats /\ Len(fs) > 1) THEN "error"
              ELSE IF "protobuf" \in formats THEN "raw" ELSE "merging"
  /\ UNCHANGED <<merged, config>>

\* One turn of the loop of mergeConfigs.
mergeConfigs ==
  /\ phase = "merging"
  /\ IF ~args[next].decodes
     THEN phase' = "error" /\ UNCHANGED <<next, merged>>
     ELSE /\ merged' = IF next = 1 THEN args[1].config ELSE Override(merged, args[next].config, args[next].tail)
          /\ next' = next + 1
          /\ phase' = IF next = Len(args) THEN "merged" ELSE phase
  /\ UNCHANGED <<args, config>>

PostProcessConfigureFile ==
  /\ phase = "merged"
  /\ merged' = IF Process(merged) = Error THEN merged ELSE Process(merged)[1]
  /\ phase' = IF Process(merged) = Error THEN "panic" ELSE "checked"
  /\ UNCHANGED <<args, next, config>>

Build ==
  /\ phase = "checked"
  /\ config' = BuildConfig(merged, "")
  /\ phase' = IF config' = Error THEN "error" ELSE "done"
  /\ UNCHANGED <<args, next, merged>>

Init == args = <<>> /\ phase = "idle" /\ next = 0 /\ merged = <<>> /\ config = <<>>

Next ==
  \/ \E n \in 1..MaxFiles : \E fs \in [1..n -> Files] : LoadConfig(fs)
  \/ mergeConfigs
  \/ PostProcessConfigureFile
  \/ Build

Spec == Init /\ [][Next]_vars

-----------------------------------------------------------------------------
(* Properties *)

Tags(hs) == {Text(hs[i], "tag") : i \in DOMAIN hs}
Before(i, k) == UNION {Tags(List(args[j].config, k)) : j \in 1..(i - 1)}
Distinct(hs) == Cardinality(Tags(hs)) = Len(hs)
LastWith(P(_)) == CHOOSE i \in {j \in DOMAIN args : P(j)} : \A j \in (i + 1)..Len(args) : ~P(j)

\* The outbounds of file i whose tags no earlier file has.
NewOutbounds(i) == SelectSeq(List(args[i].config, "outbounds"), LAMBDA h : Text(h, "tag") \notin Before(i, "outbounds"))

\* Override: of several files the last one that has a section, or a handler
\* with some tag, decides it; no handler is lost or doubled; and the default
\* outbound, the first of the list, is the first new one of the last file
\* that adds any without being a "tail" file.
LastFileWins ==
  phase = "merged" =>
    /\ \A k \in DOMAIN merged \ Handlers :
         merged[k] = args[LastWith(LAMBDA j : Has(args[j].config, k))].config[k]
    /\ \A k \in Handlers : (\A i \in DOMAIN args : Distinct(List(args[i].config, k))) =>
         /\ Distinct(List(merged, k))
         /\ Tags(List(merged, k)) = Before(Len(args) + 1, k)
         /\ \A h \in ToSet(List(merged, k)) :
              LET i == LastWith(LAMBDA j : Text(h, "tag") \in Tags(List(args[j].config, k))) IN
              h \in ToSet(args[i].config[k])
    /\ LET adds(j) == NewOutbounds(j) # <<>> /\ (j = 1 \/ ~args[j].tail) IN
       (\E j \in DOMAIN args : adds(j)) =>
         Text(List(merged, "outbounds")[1], "tag") = Text(NewOutbounds(LastWith(adds))[1], "tag")

Index(app) == CHOOSE i \in DOMAIN config[1].app : config[1].app[i] = app

\* Process and Build: a configuration that asks a server named "fakedns" has
\* the fake DNS feature, started before the DNS feature that requires it,
\* and every address family the queries use has a pool unless the user
\* configured the pools.
FakeDNSReady ==
  phase = "done" =>
    LET dns == Object(merged, "dns")
        servers == Field(dns, "servers", <<>>) IN
    (\E i \in DOMAIN servers : servers[i].address = "fakedns") =>
      /\ "fakedns" \in ToSet(config[1].app)
      /\ Index("fakedns") < Index("dns")
      /\ (\A j \in DOMAIN args : ~Has(args[j].config, "fakeDns")) =>
           LET pools == {merged.fakeDns[i].ipPool : i \in DOMAIN merged.fakeDns} IN
           /\ resolveQueryStrategy(Text(dns, "queryStrategy")) # "USE_IP6" => IPv4.ipPool \in pools
           /\ resolveQueryStrategy(Text(dns, "queryStrategy")) # "USE_IP4" => IPv6.ipPool \in pools

-----------------------------------------------------------------------------
(***************************************************************************)
(* core.New: an instance is put together from the apps of its              *)
(* configuration.  An app that is created asks for the features it depends *)
(* on; its callback is called at once when they are there and kept pending *)
(* otherwise.  AddFeature calls what has become ready.                     *)
(*                                                                         *)
(* A feature is known by its type.  Apps are numbered in the order of the  *)
(* configuration, handlers after them.  A callback may fail.               *)
(***************************************************************************)

CONSTANTS
  Types,        \* feature types
  Essential,    \* the ones with a default (dns, policy, router, stats)
  MaxApps,      \* bound: apps in a configuration
  MaxDeps       \* bound: features an app depends on

Deps == {D \in SUBSET Types : Cardinality(D) <= MaxDeps}
CoreApp == [type : Types, deps : Deps, optional : BOOLEAN]
Handler == [deps : Deps]

VARIABLES
  apps,       \* the apps, a sequence
  handler,      \* an inbound or outbound handler
  features,     \* types of the registered features, a sequence
  pendingResolutions, pendingOptionalResolutions,   \* sequences of app numbers
  called,       \* history: app numbers, in the order their callbacks are called
  failed,       \* history: the last callback that a step called returned an error
  added,        \* history: the types of the features given to AddFeature
  nextApp,         \* the app to be created next
  dialer,       \* does InitSystemDialer have a dns client?
  status        \* where New is

coreVars == <<apps, handler, features, pendingResolutions, pendingOptionalResolutions,
              called, failed, added, nextApp, dialer, status>>

HandlerNo == Len(apps) + 1

CoreInit ==
  /\ apps \in UNION {[1..n -> CoreApp] : n \in 1..MaxApps}
  /\ handler \in Handler
  /\ features = <<>>
  /\ pendingResolutions = <<>>
  /\ pendingOptionalResolutions = <<>>
  /\ called = <<>>
  /\ failed = FALSE
  /\ added = {}
  /\ nextApp = 1
  /\ dialer = FALSE
  /\ status = "create"

DepsOf(i) == IF i = HandlerNo THEN handler.deps ELSE apps[i].deps

FoundAll(i, fs) == \A d \in DepsOf(i) : Contains(fs, d)

\* callbackResolution of the apps of a sequence; the error of the last counts.
Call(is, fails) ==
  /\ called' = called \o is
  /\ failed' = (fails /\ is # <<>>)

-----------------------------------------------------------------------------

RequireFeatures(i, optional, fails) ==
  IF FoundAll(i, features)
  THEN /\ Call(<<i>>, fails)
       /\ UNCHANGED <<pendingResolutions, pendingOptionalResolutions>>
  ELSE /\ Call(<<>>, FALSE)
       /\ IF optional
            THEN /\ pendingOptionalResolutions' = Append(pendingOptionalResolutions, i)
                 /\ UNCHANGED pendingResolutions
            ELSE /\ pendingResolutions' = Append(pendingResolutions, i)
                 /\ UNCHANGED pendingOptionalResolutions

\* AddFeature of an instance that is not running.
AddFeature(t, fails) ==
  LET fs == Append(features, t)
      Ready(i) == FoundAll(i, fs)
      Waits(i) == ~FoundAll(i, fs)
  IN /\ features' = fs
     /\ added' = added \cup {t}
     /\ Call(SelectSeq(pendingResolutions, Ready) \o SelectSeq(pendingOptionalResolutions, Ready), fails)
     /\ pendingResolutions' = SelectSeq(pendingResolutions, Waits)
     /\ pendingOptionalResolutions' = SelectSeq(pendingOptionalResolutions, Waits)

-----------------------------------------------------------------------------
(* initInstanceWithConfig *)

\* CreateObject of the next app, and then AddFeature of what it created.
CreateApp(fails) ==
  /\ status = "create" /\ nextApp <= Len(apps)
  /\ RequireFeatures(nextApp, apps[nextApp].optional, fails)
  /\ status' = IF failed' THEN "error" ELSE "add"
  /\ UNCHANGED <<apps, handler, features, added, nextApp, dialer>>

AddApp(fails) ==
  /\ status = "add"
  /\ AddFeature(apps[nextApp].type, fails)
  /\ nextApp' = nextApp + 1
  /\ status' = IF failed' THEN "error" ELSE "create"
  /\ UNCHANGED <<apps, handler, dialer>>

AddEssential(t, fails) ==
  /\ status = "create" /\ nextApp > Len(apps)
  /\ ~Contains(features, t)
  /\ AddFeature(t, fails)
  /\ status' = IF failed' THEN "error" ELSE "create"
  /\ UNCHANGED <<apps, handler, nextApp, dialer>>

\* Mutant: pending resolutions are not looked at.
CheckPendingIgnored ==
  /\ status = "create" /\ nextApp > Len(apps)
  /\ \A t \in Essential : Contains(features, t)
  /\ dialer' = TRUE
  /\ status' = "handlers"
  /\ UNCHANGED <<apps, handler, features, pendingResolutions, pendingOptionalResolutions,
                 called, failed, added, nextApp>>

\* InitSystemDialer, then the test that nothing is left pending.
CheckPending ==
  /\ status = "create" /\ nextApp > Len(apps)
  /\ \A t \in Essential : Contains(features, t)
  /\ dialer' = TRUE
  /\ status' = IF pendingResolutions = <<>> THEN "handlers" ELSE "error"
  /\ UNCHANGED <<apps, handler, features, pendingResolutions, pendingOptionalResolutions,
                 called, failed, added, nextApp>>

\* The handlers are created, and may ask for features too.
AddHandlers(fails) ==
  /\ status = "handlers"
  /\ RequireFeatures(HandlerNo, FALSE, fails)
  /\ status' = IF failed' THEN "error" ELSE "ready"
  /\ UNCHANGED <<apps, handler, features, added, nextApp, dialer>>

\* Start, and AddFeature of an instance that is running: the feature is started.
Start ==
  /\ status = "ready"
  /\ status' = "running"
  /\ UNCHANGED <<apps, handler, features, pendingResolutions, pendingOptionalResolutions,
                 called, failed, added, nextApp, dialer>>

AddFeatureRunning(t) ==
  /\ status = "running"
  /\ added' = added \cup {t}
  /\ UNCHANGED <<apps, handler, features, pendingResolutions, pendingOptionalResolutions,
                 called, failed, nextApp, dialer, status>>
-----------------------------------------------------------------------------

CoreNext ==
  \/ \E fails \in BOOLEAN :
       \/ CreateApp(fails) \/ AddApp(fails) \/ AddHandlers(fails)
       \/ \E t \in Essential : AddEssential(t, fails)
  \/ CheckPending
  \/ Start
  \/ \E t \in Types : AddFeatureRunning(t)

CoreSpec == CoreInit /\ [][CoreNext]_coreVars

-----------------------------------------------------------------------------
(* Properties *)

\* No callback is called twice, or called and pending at the same time
\* (AddFeature moves a resolution from pending to available).
CalledOnce ==
  \A i, j \in 1..Len(called \o pendingResolutions \o pendingOptionalResolutions) :
    i # j => (called \o pendingResolutions \o pendingOptionalResolutions)[i]
             # (called \o pendingResolutions \o pendingOptionalResolutions)[j]

\* Nothing whose features are all registered is left pending
\* ("will be called when all dependent features are registered").
NothingReadyPends ==
  \A i \in Range(pendingResolutions) \cup Range(pendingOptionalResolutions) : ~FoundAll(i, features)

\* An instance that New returns has called the callback of every app that
\* requires features, in whatever order the configuration lists the apps.
ReadyIsResolved ==
  status \in {"ready", "running"} => \A i \in 1..Len(apps) : apps[i].optional \/ Contains(called, i)
=============================================================================
