------------------------------- MODULE Catalog -------------------------------
(***************************************************************************)
(* The catalog of servers: cfg.Servers and cfg.ActiveServer (config.json), *)
(* the list of subscriptions (subscriptions.json), the handlers that edit  *)
(* them, the refreshes that replace a subscription's servers after a       *)
(* download, the selection of a server, the save of the two files, and     *)
(* what startup makes of the files.                                        *)
(*                                                                         *)
(* Every handler holds s.mu from its last look at the catalog to the end   *)
(* of persistMutationLocked, so it is one step here.  Downloads and probe  *)
(* batches run without s.mu: what a goroutine carries across them is in    *)
(* fetching and pick.  A crash between the two saves leaves the two files  *)
(* as a failed rollback does, and is that outcome followed by Crash.       *)
(* While the manager is down, cfg and subs remember what it last had in    *)
(* memory.  Stopping and starting the VPN is left to Control.              *)
(***************************************************************************)
EXTENDS Integers, Sequences, FiniteSets, Functions

CONSTANTS
  Urls,        \* subscription URLs, which are also their IDs (a hash of the URL)
  Servers,     \* profiles of the providers, named by their fingerprint
  Manuals,     \* profiles entered by hand; Manual is part of the fingerprint
  Place,       \* name, address and port of each of Servers
  Offers,      \* the lists of servers that the provider behind a URL may send
  None,
  Installed,   \* the subscriptions found by the first start
  Posts,       \* the configurations that POST /api/config may send
  MaxEvents    \* bound on the number of edits by the user, failed saves and crashes

Profiles == Servers \cup Manuals

\* cfg.Servers is a set: its order selects nothing, and no ID is in it twice as
\* long as nobody enters a profile by hand again.  Only PUT makes the ID of an
\* entry differ from the fingerprint of its profile.
Entries == [id : Profiles, prof : Profiles]
Configs == [active : Profiles \cup {None}, servers : SUBSET Entries]
Subscriptions == [id : Urls, servers : SUBSET Servers, disabled : {"no", "yes"}, off : SUBSET Servers]

ASSUME CatalogAssumption ==
  /\ Servers \cap Manuals = {} /\ None \notin Profiles \cup Urls \cup Entries
  /\ Offers \in [Urls -> SUBSET ((SUBSET Servers) \ {{}})]
  /\ \A u \in Urls : \A got \in Offers[u] : IsFiniteSet(got)
  /\ DOMAIN Place = Servers
  /\ Installed \subseteq Seq(Subscriptions)
  /\ Posts \subseteq Configs
  /\ \A c \in Posts : \A e, f \in c.servers : e.id = f.id => e = f
  /\ MaxEvents \in Nat

VARIABLES
  up,                \* "yes" while the manager runs
  cfg,               \* cfg.ActiveServer and cfg.Servers
  subs,              \* s.subs
  cfgFile, subsFile, \* config.json and subscriptions.json
  behind,            \* why config.json may differ from memory: a save that failed
  fetching,          \* the subscriptions that a refresh is downloading
  pick,              \* the selection in progress: its next step and its server
  events             \* how many edits and faults there were

memory == <<cfg, subs>>
files == <<cfgFile, subsFile, behind>>
vars == <<up, memory, files, fetching, pick, events>>

Manual(e) == e.prof \in Manuals
Own(x) == [id |-> x, prof |-> x]

IdsOf(sv) == {e.id : e \in sv}
EntryOf(sv, id) == CHOOSE e \in sv : e.id = id

UrlsOf(ss) == IdsOf(Range(ss))
FirstAt(ss, u) == CHOOSE i \in DOMAIN ss : ss[i].id = u /\ \A j \in 1..(i - 1) : ss[j].id # u
RemoveAt(s, i) == SubSeq(s, 1, i - 1) \o SubSeq(s, i + 1, Len(s))

Offered(ss) == UNION {s.servers : s \in Range(ss)}
Enabled(s) == IF s.disabled = "yes" THEN {} ELSE s.servers \ s.off
\* priorityServerGroupsLocked, without the order of its groups: probes decide
\* which server wins, and any one of them may be the only one that answers.
Candidates(c, ss) ==
  LET enabled == {x \in Servers : \E s \in Range(ss) : x \in Enabled(s)}
  IN {Own(x) : x \in enabled} \cup {e \in c.servers : Manual(e) /\ e.id \notin enabled}
serverAvailable(c, ss, id) == \E e \in Candidates(c, ss) : e.id = id

serverDisabledInSubscriptions(ss, id) ==
  id \in Offered(ss) /\ \A s \in Range(ss) : id \notin Enabled(s)

resyncServersFromSubs(c, ss) ==
  [active |-> c.active,
   servers |-> {IF e.id \in Offered(ss) THEN Own(e.id) ELSE e : e \in c.servers}]

\* Mutant of pruneStaleServers: manual entries are treated like cached ones.
pruneStaleServersAll(c, ss, preserveActive) ==
  LET stay(e) == e.id \in Offered(ss) \/ (preserveActive /\ c.active = e.id)
  IN [active |-> IF \E e \in c.servers : e.id = c.active /\ ~stay(e) THEN None ELSE c.active,
      servers |-> {e \in c.servers : stay(e)}]

pruneStaleServers(c, ss, preserveActive) ==
  LET stay(e) == Manual(e) \/ e.id \in Offered(ss) \/ (preserveActive /\ c.active = e.id)
  IN [active |-> IF \E e \in c.servers : e.id = c.active /\ ~stay(e) THEN None ELSE c.active,
      servers |-> {e \in c.servers : stay(e)}]

upsertServer(sv, e) == {x \in sv : x.id # e.id} \cup {e}

\* preserveSubscriptionOptions: each switched-off server is looked up in the new
\* list, by ID or by name and address, and the first match is off.
Matches(id, old, got) ==
  {y \in got : y = id \/ (id \in old.servers /\ Place[y] = Place[id])}

\* Mutant of OffsKept: servers are looked up by ID only.
OffsKeptById(old, got) == {old.off \cap got}

\* Mutant of OffsKept: the new list is rebuilt from names.
OffsKeptByName(old, got) == {{Place[id] : id \in old.off}}

\* The order of the new list is the provider's.
Orders(got) ==
  {o \in [got -> 1..Cardinality(got)] : \A x, y \in got : o[x] = o[y] => x = y}
First(o, matches) == CHOOSE x \in matches : \A y \in matches : o[x] <= o[y]

OffsKept(old, got) ==
  LET still == {id \in old.off : Matches(id, old, got) # {}}
  IN {{First(o, Matches(id, old, got)) : id \in still} : o \in Orders(got)}
Refreshed(old, got) ==
  {[old EXCEPT !.servers = got, !.off = off] : off \in OffsKept(old, got)}
------------------------------------------------------------------------------

\* Mutant of loadConfig: the selection is not migrated with its entry.
loadConfigKeepsActive(f) == [active |-> f.active, servers |-> {Own(e.prof) : e \in f.servers}]

\* The ID of every entry becomes the fingerprint of its profile.
loadConfig(f) ==
  [active |-> IF f.active \in IdsOf(f.servers) THEN EntryOf(f.servers, f.active).prof
              ELSE f.active,
   servers |-> {Own(e.prof) : e \in f.servers}]

\* Of the entries with one ID only the first is loaded.
Kept(f) == {i \in DOMAIN f : i = FirstAt(f, f[i].id)}
Position(f, i) == Cardinality({j \in Kept(f) : j <= i})
Migrated(s) == [s EXCEPT !.off = @ \cap s.servers]
loadSubscriptions(f) ==
  [n \in 1..Cardinality(Kept(f)) |-> Migrated(f[CHOOSE i \in Kept(f) : Position(f, i) = n])]

\* Mutant of clearDisabled: another server takes the place of a disabled one.
clearDisabledReplaces(c, ss) ==
  IF serverDisabledInSubscriptions(ss, c.active) /\ Candidates(c, ss) # {}
  THEN [c EXCEPT !.active = (CHOOSE e \in Candidates(c, ss) : TRUE).id] ELSE c

clearDisabled(c, ss) ==
  IF serverDisabledInSubscriptions(ss, c.active) THEN [c EXCEPT !.active = None] ELSE c

\* The configuration that startup works with, given the two files.
Recovered(f, ss) ==
  clearDisabled(pruneStaleServers(loadConfig(f), ss, FALSE), ss)

\* Mutant of Persist: memory keeps what could not be saved.
PersistKeepsMemory(c, ss, configChanged, subsChanged, outcome) ==
  \/ /\ outcome = "saved"
     /\ cfgFile' = IF configChanged THEN c ELSE cfgFile
     /\ subsFile' = IF subsChanged THEN ss ELSE subsFile
     /\ cfg' = c /\ subs' = ss /\ UNCHANGED behind
  \/ /\ outcome = "subscriptions failed"
     /\ subsChanged /\ subsFile # ss
     /\ cfg' = c /\ subs' = ss /\ UNCHANGED files

\* persistMutationLocked with its four outcomes.  A save of what the file already
\* holds writes nothing and cannot fail.
Persist(c, ss, configChanged, subsChanged, outcome) ==
  \/ /\ outcome = "saved"
     /\ cfg' = c /\ subs' = ss
     /\ cfgFile' = IF configChanged THEN c ELSE cfgFile
     /\ subsFile' = IF subsChanged THEN ss ELSE subsFile
     /\ behind' = IF configChanged THEN "no" ELSE behind
  \/ /\ outcome = "config failed"
     /\ configChanged /\ cfgFile # c
     /\ UNCHANGED <<memory, files>>
  \/ /\ outcome = "subscriptions failed"
     /\ subsChanged /\ subsFile # ss
     /\ cfgFile' = IF configChanged THEN cfg ELSE cfgFile
     /\ behind' = IF configChanged THEN "no" ELSE behind
     /\ UNCHANGED <<memory, subsFile>>
  \/ /\ outcome = "rollback failed"
     /\ configChanged /\ c # cfg /\ subsChanged /\ subsFile # ss
     /\ cfgFile' = c /\ behind' = "rollback"
     /\ UNCHANGED <<memory, subsFile>>
Outcomes == {"saved", "config failed", "subscriptions failed", "rollback failed"}
SaveConfig(c, outcome) == Persist(c, subs, TRUE, FALSE, outcome)
SaveSubscriptions(ss, outcome) == Persist(cfg, ss, FALSE, TRUE, outcome)
------------------------------------------------------------------------------
Init ==
  /\ up = "yes" /\ behind = "no"
  /\ cfg = [active |-> None, servers |-> {}] /\ cfgFile = cfg
  /\ subs \in Installed /\ subsFile = subs
  /\ fetching = {} /\ pick = None /\ events = 0

idle == UNCHANGED <<up, fetching, pick>>

\* POST /api/subscriptions, which does not look for an entry with the same ID.
AddSubscription(u, outcome) == \E got \in Offers[u] :
  /\ up = "yes"
  /\ SaveSubscriptions(Append(subs, [id |-> u, servers |-> got, disabled |-> "no", off |-> {}]), outcome)
  /\ idle

\* DELETE: vpnRunning was read before s.mu was taken.
DeleteSubscription(u, outcome) == \E vpnRunning \in BOOLEAN :
  /\ up = "yes" /\ u \in UrlsOf(subs)
  /\ LET ss == RemoveAt(subs, FirstAt(subs, u))
         c == pruneStaleServers(cfg, ss, vpnRunning)
         detached == vpnRunning /\ cfg.active # None /\ ~serverAvailable(cfg, ss, cfg.active)
     IN Persist(c, ss, c # cfg \/ detached, TRUE, outcome)
  /\ idle

MoveSubscription(u, outcome) == \E d \in {-1, 1} :
  /\ up = "yes" /\ u \in UrlsOf(subs)
  /\ LET i == FirstAt(subs, u)
     IN /\ i + d \in DOMAIN subs
        /\ SaveSubscriptions([subs EXCEPT ![i] = subs[i + d], ![i + d] = subs[i]], outcome)
  /\ idle

\* PATCH with a new URL: the entry takes the ID of the URL.
ChangeUrl(u, v, outcome) ==
  /\ up = "yes" /\ u \in UrlsOf(subs) /\ v \notin UrlsOf(subs)
  /\ SaveSubscriptions([subs EXCEPT ![FirstAt(subs, u)].id = v], outcome)
  /\ idle

\* PATCH of a switch: a selected server that is no longer available is deselected.
Switched(ss, mayHit, outcome) ==
  LET drop == cfg.active # None /\ mayHit /\ ~serverAvailable(cfg, ss, cfg.active)
  IN Persist(IF drop THEN [cfg EXCEPT !.active = None] ELSE cfg, ss, drop, TRUE, outcome)

SwitchSubscription(u, disabled, outcome) ==
  /\ up = "yes" /\ u \in UrlsOf(subs)
  /\ LET i == FirstAt(subs, u)
     IN Switched([subs EXCEPT ![i].disabled = disabled],
                 disabled = "yes" /\ cfg.active \in subs[i].servers, outcome)
  /\ idle

\* x was found in the subscription under an earlier lock: it may have left since.
SwitchServer(u, x, disabled, outcome) ==
  /\ up = "yes" /\ u \in UrlsOf(subs)
  /\ Switched([subs EXCEPT ![FirstAt(subs, u)].off = IF disabled = "yes" THEN @ \cup {x} ELSE @ \ {x}],
              disabled = "yes" /\ cfg.active = x, outcome)
  /\ idle

AddServer(m, outcome) ==
  /\ up = "yes" /\ m \notin IdsOf(cfg.servers)
  /\ SaveConfig([cfg EXCEPT !.servers = @ \cup {Own(m)}], outcome)
  /\ idle

\* PUT: the entry keeps its ID and becomes a manual one.
EditServer(id, m, outcome) ==
  /\ up = "yes" /\ id \in IdsOf(cfg.servers)
  /\ SaveConfig([cfg EXCEPT !.servers = upsertServer(@, [id |-> id, prof |-> m])], outcome)
  /\ idle

DeleteServer(id, outcome) ==
  /\ up = "yes" /\ id \in IdsOf(cfg.servers)
  /\ SaveConfig([active |-> IF cfg.active = id THEN None ELSE cfg.active,
                 servers |-> {e \in cfg.servers : e.id # id}], outcome)
  /\ idle

\* POST /api/config: without a list of servers the present one stays.
Posted == Posts \cup {[p EXCEPT !.servers = cfg.servers] : p \in Posts}

\* It replaces the selection and the entries as they come, IDs migrated.
PostConfig(c, outcome) ==
  /\ up = "yes"
  /\ SaveConfig(loadConfig(c), outcome)
  /\ idle
------------------------------------------------------------------------------

\* Mutant of ApplyCatalog: the selected server is pruned like any other.
ApplyCatalogPrunesActive(ss, outcome) ==
  LET c == pruneStaleServers(resyncServersFromSubs(cfg, ss), ss, FALSE)
  IN Persist(c, ss, c # cfg, TRUE, outcome)

\* The end of every refresh: cached profiles follow the subscriptions.
ApplyCatalog(ss, outcome) ==
  LET c == pruneStaleServers(resyncServersFromSubs(cfg, ss), ss, TRUE)
  IN Persist(c, ss, c # cfg, TRUE, outcome)

\* POST .../refresh downloads one subscription, refreshAllSubscriptions all those
\* that are enabled.  Two refreshes at a time are no different from one after
\* the other: the second finds the same subscriptions to download.
BeginRefresh ==
  /\ up = "yes" /\ fetching = {}
  /\ LET enabled == {u \in UrlsOf(subs) : subs[FirstAt(subs, u)].disabled = "no"}
     IN fetching' \in {{u} : u \in enabled} \cup {{s.id : s \in {t \in Range(subs) : t.disabled = "no"}}}
  /\ UNCHANGED <<up, memory, files, pick, events>>

\* Each download ended with a list, or with an error (None) that leaves the
\* subscription as it is; a subscription that is gone is passed over.  A manual
\* refresh that has nothing to apply, and a cancelled one, do no more.
EndRefresh(outcome) ==
  /\ up = "yes" /\ fetching # {} /\ fetching' = {}
  /\ \/ UNCHANGED <<memory, files>>
     \/ \E got \in [fetching -> UNION {Offers[u] : u \in fetching} \cup {None}] :
          /\ \A u \in fetching : got[u] \in Offers[u] \cup {None}
          /\ LET fresh(i) == IF /\ subs[i].id \in fetching /\ got[subs[i].id] # None
                                /\ i = FirstAt(subs, subs[i].id)
                             THEN Refreshed(subs[i], got[subs[i].id]) ELSE {subs[i]}
             IN \E ss \in [DOMAIN subs -> UNION {fresh(i) : i \in DOMAIN subs}] :
                  (\A i \in DOMAIN subs : ss[i] \in fresh(i)) /\ ApplyCatalog(ss, outcome)
  /\ UNCHANGED <<up, pick>>
------------------------------------------------------------------------------
Picks == [next : {"choose", "commit", "commit and connect", "connect"}, entry : Entries \cup {None}]

Starting == [next |-> "choose", entry |-> None]

\* POST .../connect of a subscription's server, if it answers a probe.
ConnectSubscription(u, x) ==
  /\ up = "yes" /\ pick = None /\ u \in UrlsOf(subs)
  /\ x \in Enabled(subs[FirstAt(subs, u)])
  /\ pick' = [next |-> "commit and connect", entry |-> Own(x)]
  /\ UNCHANGED <<up, memory, files, fetching, events>>

\* POST /api/servers/<id>/connect.
ConnectEntry(id) ==
  /\ up = "yes" /\ pick = None /\ id \in IdsOf(cfg.servers)
  /\ pick' = [next |-> "connect", entry |-> Own(id)]
  /\ UNCHANGED <<up, memory, files, fetching, events>>

\* prepareServerForStart first forgets the server that was selected.
PrepareStart(outcome) ==
  /\ up = "yes" /\ pick = None
  /\ SaveConfig([cfg EXCEPT !.active = None], outcome)
  /\ pick' = IF outcome = "saved" THEN Starting ELSE None
  /\ UNCHANGED <<up, fetching>>

\* findBestConfigured copies the enabled servers and probes them: one that
\* answered, or none.  chooseAlternativeServer, which excludes the selected
\* server, and prepareServerForStart give up without one; autoSelectBest does not.
Choose(at, exclude, auto) ==
  /\ up = "yes" /\ pick = at
  /\ \E e \in {f \in Candidates(cfg, subs) : f.id # exclude} \cup {None} :
       pick' = IF e = None /\ ~auto THEN None ELSE [next |-> "commit", entry |-> e]
  /\ UNCHANGED <<up, memory, files, fetching, events>>

\* commitSelectedServer; autoSelectBest forgets the selection if nothing answered.
CommitSelected(outcome) ==
  /\ up = "yes" /\ pick # None /\ pick.next \in {"commit", "commit and connect"}
  /\ SaveConfig(IF pick.entry = None THEN [cfg EXCEPT !.active = None]
                ELSE [active |-> pick.entry.id, servers |-> upsertServer(cfg.servers, pick.entry)], outcome)
  /\ pick' = IF outcome = "saved" /\ pick.next = "commit and connect"
             THEN [pick EXCEPT !.next = "connect"] ELSE None
  /\ UNCHANGED <<up, fetching>>

\* connectServer, which does not look whether the entry is still there.
ConnectServer(outcome) ==
  /\ up = "yes" /\ pick # None /\ pick.next = "connect"
  /\ SaveConfig([cfg EXCEPT !.active = pick.entry.id], outcome)
  /\ pick' = None
  /\ UNCHANGED <<up, fetching>>

\* handleStop, after the VPN has stopped, forgets what only the tunnel kept.
StopPrunes(outcome) ==
  /\ up = "yes"
  /\ LET c == pruneStaleServers(cfg, subs, FALSE)
     IN c # cfg /\ SaveConfig(c, outcome)
  /\ idle
------------------------------------------------------------------------------
Crash ==
  /\ up = "yes" /\ up' = "no"
  /\ fetching' = {} /\ pick' = None
  /\ events < MaxEvents /\ events' = events + 1
  /\ UNCHANGED <<memory, files>>

\* main(): the three saves of startup may fail, which is only logged.
Restart ==
  /\ up = "no" /\ up' = "yes"
  /\ subs' = loadSubscriptions(subsFile)
  /\ subsFile' \in {subsFile, subs'}
  /\ LET loaded == loadConfig(cfgFile)
         pruned == pruneStaleServers(loaded, subs', FALSE)
     IN /\ cfg' = Recovered(cfgFile, subs')
        /\ cfgFile' \in {cfgFile} \cup ({pruned, cfg'} \ {loaded})
  /\ behind' = IF cfgFile' = cfg' \/ loadConfig(cfgFile') = cfg' THEN "no" ELSE "startup"
  /\ UNCHANGED <<fetching, pick, events>>

Edit(outcome) ==
  \/ \E u \in Urls :
       \/ AddSubscription(u, outcome) \/ DeleteSubscription(u, outcome)
       \/ MoveSubscription(u, outcome)
       \/ \E v \in Urls : ChangeUrl(u, v, outcome)
       \/ \E disabled \in {"no", "yes"} :
            \/ SwitchSubscription(u, disabled, outcome)
            \/ \E x \in Servers : SwitchServer(u, x, disabled, outcome)
  \/ \E m \in Manuals : AddServer(m, outcome) \/ \E id \in Profiles : EditServer(id, m, outcome)
  \/ \E id \in Profiles : DeleteServer(id, outcome)
  \/ \E c \in Posted : PostConfig(c, outcome)

Event == events < MaxEvents /\ events' = events + 1

Next ==
  \/ \E outcome \in Outcomes :
       \/ Event /\ Edit(outcome)
       \/ /\ IF outcome = "saved" THEN UNCHANGED events ELSE Event
          /\ \/ EndRefresh(outcome) \/ PrepareStart(outcome) \/ StopPrunes(outcome)
             \/ CommitSelected(outcome) \/ ConnectServer(outcome)
  \/ \E u \in Urls, x \in Servers : ConnectSubscription(u, x)
  \/ \E id \in Profiles : ConnectEntry(id)
  \/ Choose(Starting, None, FALSE) \/ Choose(None, None, TRUE) \/ Choose(None, cfg.active, FALSE)
  \/ BeginRefresh \/ Crash \/ Restart

Spec == Init /\ [][Next]_vars
------------------------------------------------------------------------------
\* Every variable has its type: the two files always hold a catalog that can
\* be loaded, whatever save failed and whenever the manager died.
TypeOK ==
  /\ up \in {"no", "yes"} /\ behind \in {"no", "rollback", "startup"}
  /\ cfg \in Configs /\ cfgFile \in Configs
  /\ subs \in Seq(Subscriptions) /\ subsFile \in Seq(Subscriptions)
  /\ fetching \subseteq Urls
  /\ pick \in Picks \cup {None} /\ events \in 0..MaxEvents

\* What the user was told is on disk: whatever handlers, refreshes, failed saves
\* and crashes came before, both files hold the catalog in memory or one that
\* loadConfig and loadSubscriptions turn into it, unless the rollback of
\* persistMutationLocked or a save during startup failed.
FilesFollowMemory ==
  up = "yes" =>
    /\ subsFile = subs \/ loadSubscriptions(subsFile) = subs
    /\ behind = "no" => cfgFile = cfg \/ loadConfig(cfgFile) = cfg

\* A crash at any moment, between the two saves of persistMutationLocked
\* included, selects no server behind the user's back: startup comes up with the
\* server that was selected, under the ID it had or that loadConfig gives it, or
\* with none.  (A configuration that startup itself could not save may bring back
\* the selection it had cleared.)
RestartKeepsSelection ==
  behind # "startup" =>
    Recovered(cfgFile, loadSubscriptions(subsFile)).active
      \in {None, cfg.active, loadConfig(cfg).active}

\* The user's own change, acknowledged.
UserEdit == Edit("saved")

\* What the user switched off stays off, and nothing else is: no refresh of a
\* catalog that was copied before the switch, no failed save, no crash and no
\* restart changes the switch of a subscription, and of the servers in the new
\* list that have the ID, or the name and address, of a switched-off one, one is
\* off.  So a server that shares its name and address with no other stays off;
\* where several share them, preserveSubscriptionOptions stops at the first one
\* of the provider's list, and the server itself may be on again.
ChoicesKept ==
  [][\/ \A u \in UrlsOf(subs) \cap UrlsOf(subs') :
          LET old == subs[FirstAt(subs, u)]
              new == subs'[FirstAt(subs', u)]
          IN /\ new.disabled = old.disabled
             /\ \A x \in old.off \cap old.servers :
                  Matches(x, old, new.servers) # {} => Matches(x, old, new.servers) \cap new.off # {}
             /\ \A y \in new.off \cap new.servers : \E x \in old.off : y \in Matches(x, old, new.servers)
     \/ UserEdit]_vars

\* commitSelectedServer writes back the copy that was probed: an edit of the
\* entry since then is lost.
Overwritten(e) ==
  CommitSelected("saved") /\ pick.entry \in {f \in cfg'.servers : f.id = e.id}

\* resyncServersFromSubs overwrites the edited copy of a server that a
\* subscription still offers.
Resynced(e) ==
  fetching # {} /\ fetching' = {} /\ e.id \in Offered(subs') /\ Own(e.id) \in cfg'.servers

\* The same, when only config.json was written and its rollback failed.
ResyncLoaded(e) == Restart /\ behind = "rollback" /\ e.id \in Servers

\* Subscriptions come and go, and servers entered by hand go, at the user's
\* request only: a refresh that ends after its subscription was deleted does not
\* bring it back, and no prune, failed save, crash or restart loses an entry,
\* which keeps its ID or gets the fingerprint of its profile.  Three things may
\* replace one: the commit of a selection, by its older copy; a refresh, if the
\* entry was made by editing a subscription's server and still has its ID; and a
\* start from what such a refresh left in config.json, its rollback failed.
UserEntriesKept ==
  [][\/ /\ UrlsOf(subs') = UrlsOf(subs)
        /\ \A e \in cfg.servers : Manual(e) =>
             \/ \E f \in cfg'.servers : f.prof = e.prof /\ f.id \in {e.id, e.prof}
             \/ Overwritten(e) \/ Resynced(e) \/ ResyncLoaded(e)
     \/ UserEdit]_vars

\* The end of a refresh leaves the selected server selected, and its entry in
\* cfg.Servers, where a reconnect looks for it, even when the provider has
\* dropped it: pruneStaleServersPreservingActive.
RefreshKeepsSelection ==
  [][fetching # {} /\ up' = "yes" /\ fetching' = {} =>
       /\ cfg'.active = cfg.active
       /\ cfg.active \in IdsOf(cfg.servers) => cfg.active \in IdsOf(cfg'.servers)]_vars

Resolves(c) == c.active = None \/ c.active \in IdsOf(c.servers)

\* The selected server has an entry to start from, in memory and on disk.  Only
\* connectServer, whose server may be deleted between the lookup and the lock,
\* and a POST of a configuration that is itself without the entry, which
\* handleConfig does not look at, select one without; no edit, prune, migration
\* of IDs, failed save or restart does.
SelectionResolves ==
  [][Resolves(cfg) /\ Resolves(cfgFile) =>
       \/ Resolves(cfg') /\ Resolves(cfgFile')
       \/ ConnectServer("saved")
       \/ \E c \in Posted : ~Resolves(c) /\ PostConfig(c, "saved")]_vars
==============================================================================
