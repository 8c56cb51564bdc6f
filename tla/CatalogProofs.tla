---------------------------- MODULE CatalogProofs ----------------------------
(***************************************************************************)
(* Proofs about Catalog, for any subscriptions, servers and providers, and *)
(* any number of edits, failed saves and crashes.                          *)
(***************************************************************************)
EXTENDS Catalog, FiniteSetTheorems, SequenceTheorems, TLAPS

\* A configuration that can be saved and loaded: no ID is in it twice.
CfgOK(c) ==
  /\ c \in Configs
  /\ \A e, f \in c.servers : e.id = f.id => e = f

\* The selection that loadConfig finds in f is none or that of c.
Near(f, c) == loadConfig(f).active \in {None, c.active, loadConfig(c).active}

PickOK ==
  \/ pick = None
  \/ /\ pick \in Picks
     /\ pick.next \in {"commit and connect", "connect"} => pick.entry # None

\* The inductive invariant.
CatalogInv ==
  /\ CfgOK(cfg) /\ CfgOK(cfgFile) /\ PickOK
  /\ FilesFollowMemory
  /\ behind # "startup" => Near(cfgFile, cfg)

\* findServer returns the only entry with the ID.
LEMMA EntryUnique ==
  ASSUME NEW c, CfgOK(c), NEW e \in c.servers
  PROVE  EntryOf(c.servers, e.id) = e
BY DEF EntryOf, CfgOK

\* migrateServerIDs makes IDs unique and keeps the selection on its entry.
LEMMA LoadOK ==
  ASSUME NEW c, CfgOK(c)
  PROVE  /\ CfgOK(loadConfig(c))
         /\ c.active = None => loadConfig(c).active = None
         /\ \A e \in c.servers : e.id = c.active => loadConfig(c).active = e.prof
         /\ c.active \notin IdsOf(c.servers) => loadConfig(c).active = c.active
<1>1. None \notin Profiles
  BY CatalogAssumption
<1>2. \A e \in c.servers : e.id = c.active => loadConfig(c).active = e.prof
  BY EntryUnique DEF loadConfig, IdsOf
<1>3. c.active \notin IdsOf(c.servers) => loadConfig(c).active = c.active
  BY DEF loadConfig
<1>4. \A e \in c.servers : e.id \in Profiles /\ e.prof \in Profiles
  BY DEF CfgOK, Configs, Entries
<1>5. c.active \in Profiles \cup {None}
  BY DEF CfgOK, Configs
<1>6. loadConfig(c).active \in Profiles \cup {None}
  BY <1>2, <1>3, <1>4, <1>5 DEF IdsOf
<1>7. loadConfig(c).servers = {Own(e.prof) : e \in c.servers}
  BY DEF loadConfig
<1>8. loadConfig(c) = [active |-> loadConfig(c).active, servers |-> loadConfig(c).servers]
  BY DEF loadConfig
<1>9. loadConfig(c).servers \in SUBSET Entries
  BY <1>4, <1>7 DEF Own, Entries
<1>10. \A e, f \in loadConfig(c).servers : e.id = f.id => e = f
  BY <1>7 DEF Own
<1>11. CfgOK(loadConfig(c))
  BY <1>6, <1>8, <1>9, <1>10 DEF CfgOK, Configs
<1>12. c.active = None => c.active \notin IdsOf(c.servers)
  BY <1>1, <1>4 DEF IdsOf
<1> QED
  BY <1>2, <1>3, <1>11, <1>12

\* A prune only removes entries, and the selection with its entry.
LEMMA PruneOK ==
  ASSUME NEW c, CfgOK(c), NEW ss, NEW keep \in BOOLEAN
  PROVE  LET p == pruneStaleServers(c, ss, keep)
         IN /\ CfgOK(p) /\ p.servers \subseteq c.servers /\ p.active \in {None, c.active}
            /\ keep => p.active = c.active
            /\ \A e \in c.servers : e.id = c.active /\ p.active # None => e \in p.servers
BY DEF pruneStaleServers, CfgOK, Configs

\* Startup's last step only clears the selection.
LEMMA ClearOK ==
  ASSUME NEW c, CfgOK(c), NEW ss
  PROVE  LET p == clearDisabled(c, ss)
         IN CfgOK(p) /\ p.servers = c.servers /\ p.active \in {None, c.active}
BY DEF clearDisabled, CfgOK, Configs

\* A resync replaces profiles, never IDs, and leaves the selection alone.
LEMMA ResyncOK ==
  ASSUME NEW c, CfgOK(c), NEW ss
  PROVE  LET r == resyncServersFromSubs(c, ss)
         IN /\ CfgOK(r) /\ r.active = c.active /\ IdsOf(r.servers) = IdsOf(c.servers)
            /\ \A e \in r.servers : e = Own(e.id) \/ e \in c.servers
<1> DEFINE r == resyncServersFromSubs(c, ss)
           New(e) == IF e.id \in Offered(ss) THEN Own(e.id) ELSE e
<1>2. r.active = c.active /\ r.servers = {New(e) : e \in c.servers}
  BY DEF resyncServersFromSubs
<1>3. r = [active |-> r.active, servers |-> r.servers]
  BY DEF resyncServersFromSubs
<1>4. \A e \in c.servers : New(e).id = e.id /\ New(e) \in Entries /\ (New(e) = Own(e.id) \/ New(e) = e)
  BY DEF Own, Entries, CfgOK, Configs
<1> HIDE DEF r, New
<1>5. r \in Configs
  BY <1>2, <1>3, <1>4 DEF CfgOK, Configs
<1>6. \A e, f \in r.servers : e.id = f.id => e = f
  BY <1>2, <1>4 DEF CfgOK
<1>7. IdsOf(r.servers) = IdsOf(c.servers)
  BY <1>2, <1>4 DEF IdsOf
<1>8. \A e \in r.servers : e = Own(e.id) \/ e \in c.servers
  BY <1>2, <1>4
<1> QED
  BY <1>2, <1>5, <1>6, <1>7, <1>8 DEF r, CfgOK

\* A catalog made from c by pruning, syncing and clearing selects none or c's server.
LEMMA NearOK ==
  ASSUME NEW c, CfgOK(c), NEW d, CfgOK(d),
         d.active \in {None, c.active},
         \A e \in d.servers : e = Own(e.id) \/ e \in c.servers
  PROVE  Near(d, c)
<1>1. CASE d.active = None
  BY <1>1, LoadOK DEF Near
<1>2. CASE d.active = c.active /\ d.active \notin IdsOf(d.servers)
  BY <1>2, LoadOK DEF Near
<1>3. CASE d.active = c.active /\ d.active \in IdsOf(d.servers)
  <2>1. PICK e \in d.servers : e.id = d.active
    BY <1>3 DEF IdsOf
  <2>2. loadConfig(d).active = e.prof
    BY <2>1, LoadOK
  <2>3. CASE e = Own(e.id)
    BY <1>3, <2>1, <2>2, <2>3 DEF Near, Own
  <2>4. CASE e \in c.servers
    BY <1>3, <2>1, <2>2, <2>4, LoadOK DEF Near
  <2> QED
    BY <2>3, <2>4
<1> QED
  BY <1>1, <1>2, <1>3

\* What startup makes of the files.
LEMMA RecoveredOK ==
  ASSUME NEW f, CfgOK(f), NEW ss
  PROVE  /\ CfgOK(Recovered(f, ss))
         /\ Recovered(f, ss).active \in {None, loadConfig(f).active}
         /\ CfgOK(pruneStaleServers(loadConfig(f), ss, FALSE))
<1>1. CfgOK(loadConfig(f))
  BY LoadOK
<1>2. /\ CfgOK(pruneStaleServers(loadConfig(f), ss, FALSE))
      /\ pruneStaleServers(loadConfig(f), ss, FALSE).active \in {None, loadConfig(f).active}
  BY <1>1, PruneOK
<1> QED
  BY <1>2, ClearOK DEF Recovered

\* persistMutationLocked leaves memory and files in agreement, whatever the
\* outcome, if the new catalog is sound and says which file it belongs to.
LEMMA PersistOK ==
  ASSUME CatalogInv, up = "yes", up' = "yes", PickOK',
         NEW c, NEW ss, NEW configChanged \in BOOLEAN, NEW subsChanged \in BOOLEAN, NEW outcome,
         CfgOK(c), configChanged \/ c = cfg, subsChanged \/ ss = subs,
         configChanged /\ subsChanged => Near(c, cfg),
         Persist(c, ss, configChanged, subsChanged, outcome)
  PROVE  CatalogInv'
<1> USE DEF CatalogInv, FilesFollowMemory, memory, files
<1>1. CASE /\ cfg' = c /\ subs' = ss
           /\ cfgFile' = IF configChanged THEN c ELSE cfgFile
           /\ subsFile' = IF subsChanged THEN ss ELSE subsFile
           /\ behind' = IF configChanged THEN "no" ELSE behind
  <2>1. CfgOK(cfg') /\ CfgOK(cfgFile')
    BY <1>1
  <2>2. FilesFollowMemory'
    BY <1>1
  <2>3. behind' # "startup" => Near(cfgFile', cfg')
    BY <1>1 DEF Near
  <2> QED
    BY <2>1, <2>2, <2>3 DEF Near, CfgOK
<1>2. CASE UNCHANGED <<memory, files>>
  BY <1>2 DEF Near, CfgOK
<1>3. CASE /\ cfgFile' = IF configChanged THEN cfg ELSE cfgFile
           /\ behind' = IF configChanged THEN "no" ELSE behind
           /\ UNCHANGED <<memory, subsFile>>
  <2>1. CfgOK(cfg') /\ CfgOK(cfgFile')
    BY <1>3
  <2>2. FilesFollowMemory'
    BY <1>3
  <2>3. behind' # "startup" => Near(cfgFile', cfg')
    BY <1>3 DEF Near
  <2> QED
    BY <2>1, <2>2, <2>3 DEF Near, CfgOK
<1>4. CASE /\ configChanged /\ subsChanged /\ cfgFile' = c /\ behind' = "rollback"
           /\ UNCHANGED <<memory, subsFile>>
  <2>1. CfgOK(cfg') /\ CfgOK(cfgFile')
    BY <1>4
  <2>2. FilesFollowMemory'
    BY <1>4
  <2>3. behind' # "startup" => Near(cfgFile', cfg')
    BY <1>4 DEF Near
  <2> QED
    BY <2>1, <2>2, <2>3 DEF Near, CfgOK
<1> QED
  BY <1>1, <1>2, <1>3, <1>4 DEF Persist

\* A save of config.json alone, and of subscriptions.json alone.
LEMMA SaveConfigOK ==
  ASSUME CatalogInv, up = "yes", up' = "yes", PickOK', NEW c, NEW outcome,
         CfgOK(c), SaveConfig(c, outcome)
  PROVE  CatalogInv'
BY PersistOK DEF SaveConfig

\* persistSubscriptionsLocked keeps the invariant for any well-formed list.
LEMMA SaveSubscriptionsOK ==
  ASSUME CatalogInv, up = "yes", UNCHANGED <<up, fetching, pick>>, NEW ss, NEW outcome,
         SaveSubscriptions(ss, outcome)
  PROVE  CatalogInv'
<1>1. CfgOK(cfg) /\ PickOK'
  BY DEF CatalogInv, PickOK
<1> QED
  BY <1>1, PersistOK DEF SaveSubscriptions

\* A replaced entry leaves the configuration sound.
LEMMA UpsertOK ==
  ASSUME NEW c, CfgOK(c), NEW e \in Entries, NEW a \in Profiles \cup {None}
  PROVE  CfgOK([active |-> a, servers |-> upsertServer(c.servers, e)])
BY DEF CfgOK, Configs, upsertServer

\* The same with another selection, or with fewer entries.
LEMMA SelectOK ==
  ASSUME NEW c, CfgOK(c), NEW a \in Profiles \cup {None}, NEW sv \in SUBSET c.servers
  PROVE  /\ CfgOK([c EXCEPT !.active = a]) /\ [c EXCEPT !.active = a].active = a
         /\ [c EXCEPT !.active = a].servers = c.servers
         /\ CfgOK([active |-> a, servers |-> sv])
BY DEF CfgOK, Configs

\* A switch that is turned off deselects a server that it hides.
LEMMA SwitchedOK ==
  ASSUME CatalogInv, up = "yes", UNCHANGED <<up, fetching, pick>>, NEW ss,
         NEW mayHit \in BOOLEAN, NEW outcome, Switched(ss, mayHit, outcome)
  PROVE  CatalogInv'
<1> DEFINE drop == cfg.active # None /\ mayHit /\ ~serverAvailable(cfg, ss, cfg.active)
           c == IF drop THEN [cfg EXCEPT !.active = None] ELSE cfg
<1>1. CfgOK(cfg) /\ PickOK'
  BY DEF CatalogInv, PickOK
<1>2. /\ CfgOK([cfg EXCEPT !.active = None]) /\ [cfg EXCEPT !.active = None].active = None
      /\ [cfg EXCEPT !.active = None].servers = cfg.servers
  BY <1>1, SelectOK
<1>3. CfgOK(c) /\ c.active \in {None, cfg.active} /\ c.servers = cfg.servers
  BY <1>1, <1>2
<1>4. Persist(c, ss, drop, TRUE, outcome) /\ (drop \/ c = cfg)
  BY DEF Switched
<1> HIDE DEF c
<1>5. Near(c, cfg)
  BY <1>1, <1>3, NearOK
<1>6. drop \in BOOLEAN
  OBVIOUS
<1> HIDE DEF drop
<1> QED
  BY <1>1, <1>3, <1>4, <1>5, <1>6, PersistOK

\* A configuration sent with or without a list of servers.
LEMMA PostedOK ==
  ASSUME CfgOK(cfg), NEW c \in Posted
  PROVE  CfgOK(c)
<1>1. CASE c \in Posts
  BY <1>1, CatalogAssumption DEF CfgOK
<1>2. ASSUME NEW p \in Posts, c = [p EXCEPT !.servers = cfg.servers] PROVE CfgOK(c)
  <2>1. p \in Configs
    BY CatalogAssumption
  <2> QED
    BY <1>2, <2>1 DEF CfgOK, Configs
<1> QED
  BY <1>1, <1>2 DEF Posted

\* Every edit by the user, whatever becomes of its save.
LEMMA EditOK ==
  ASSUME CatalogInv, NEW outcome, Edit(outcome)
  PROVE  CatalogInv'
<1>1. CfgOK(cfg) /\ cfg.active \in Profiles \cup {None}
  BY DEF CatalogInv, CfgOK, Configs
<1>2. UNCHANGED pick => PickOK'
  BY DEF CatalogInv, PickOK
<1>3. ASSUME NEW u \in Urls, AddSubscription(u, outcome) PROVE CatalogInv'
  BY <1>3, SaveSubscriptionsOK DEF AddSubscription, idle
<1>4. ASSUME NEW u \in Urls, DeleteSubscription(u, outcome) PROVE CatalogInv'
  <2>1. PICK vpnRunning \in BOOLEAN :
          LET ss == RemoveAt(subs, FirstAt(subs, u))
              c == pruneStaleServers(cfg, ss, vpnRunning)
              detached == vpnRunning /\ cfg.active # None /\ ~serverAvailable(cfg, ss, cfg.active)
          IN Persist(c, ss, c # cfg \/ detached, TRUE, outcome)
    BY <1>4 DEF DeleteSubscription
  <2> DEFINE ss == RemoveAt(subs, FirstAt(subs, u))
             c == pruneStaleServers(cfg, ss, vpnRunning)
             detached == vpnRunning /\ cfg.active # None /\ ~serverAvailable(cfg, ss, cfg.active)
             changed == c # cfg \/ detached
  <2>2. CfgOK(c) /\ c.servers \subseteq cfg.servers /\ c.active \in {None, cfg.active}
    BY <1>1, PruneOK
  <2>3. Persist(c, ss, changed, TRUE, outcome) /\ changed \in BOOLEAN /\ (changed \/ c = cfg)
    BY <2>1
  <2>4. up = "yes" /\ up' = "yes" /\ PickOK'
    BY <1>2, <1>4 DEF DeleteSubscription, idle
  <2> HIDE DEF c, ss, changed, detached
  <2>5. Near(c, cfg)
    BY <1>1, <2>2, NearOK
  <2> QED
    BY <2>2, <2>3, <2>4, <2>5, PersistOK
<1>5. ASSUME NEW u \in Urls, MoveSubscription(u, outcome) PROVE CatalogInv'
  BY <1>5, SaveSubscriptionsOK DEF MoveSubscription, idle
<1>6. ASSUME NEW u \in Urls, NEW v \in Urls, ChangeUrl(u, v, outcome) PROVE CatalogInv'
  BY <1>6, SaveSubscriptionsOK DEF ChangeUrl, idle
<1>7. ASSUME NEW u \in Urls, NEW d \in {"no", "yes"}, SwitchSubscription(u, d, outcome) PROVE CatalogInv'
  BY <1>7, SwitchedOK DEF SwitchSubscription, idle
<1>8. ASSUME NEW u \in Urls, NEW x \in Servers, NEW d \in {"no", "yes"}, SwitchServer(u, x, d, outcome)
      PROVE CatalogInv'
  BY <1>8, SwitchedOK DEF SwitchServer, idle
<1>9. ASSUME NEW m \in Manuals, AddServer(m, outcome) PROVE CatalogInv'
  <2> DEFINE c == [cfg EXCEPT !.servers = @ \cup {Own(m)}]
  <2>1. CfgOK(c)
    BY <1>1, <1>9 DEF AddServer, CfgOK, Configs, Entries, Own, IdsOf, Profiles
  <2> QED
    BY <1>2, <1>9, <2>1, SaveConfigOK DEF AddServer, idle
<1>10. ASSUME NEW m \in Manuals, NEW id \in Profiles, EditServer(id, m, outcome) PROVE CatalogInv'
  <2> DEFINE e == [id |-> id, prof |-> m]
             c == [cfg EXCEPT !.servers = upsertServer(@, e)]
  <2>1. e \in Entries
    BY DEF Entries, Profiles
  <2> HIDE DEF e
  <2>2. c = [active |-> cfg.active, servers |-> upsertServer(cfg.servers, e)]
    BY <1>1 DEF CfgOK, Configs
  <2>3. SaveConfig(c, outcome) /\ up = "yes" /\ up' = "yes" /\ UNCHANGED pick
    BY <1>10 DEF EditServer, idle, e
  <2> HIDE DEF c
  <2>4. CfgOK(c)
    BY <1>1, <2>1, <2>2, UpsertOK
  <2> QED
    BY <1>2, <2>3, <2>4, SaveConfigOK
<1>11. ASSUME NEW id \in Profiles, DeleteServer(id, outcome) PROVE CatalogInv'
  <2> DEFINE a == IF cfg.active = id THEN None ELSE cfg.active
             c == [active |-> a, servers |-> {e \in cfg.servers : e.id # id}]
  <2>1. CfgOK(c)
    BY <1>1, SelectOK
  <2> QED
    BY <1>2, <1>11, <2>1, SaveConfigOK DEF DeleteServer, idle
<1>12. ASSUME NEW c \in Posted, PostConfig(c, outcome) PROVE CatalogInv'
  <2>1. CfgOK(loadConfig(c))
    BY <1>1, PostedOK, LoadOK
  <2> QED
    BY <1>2, <1>12, <2>1, SaveConfigOK DEF PostConfig, idle
<1> QED
  BY <1>3, <1>4, <1>5, <1>6, <1>7, <1>8, <1>9, <1>10, <1>11, <1>12 DEF Edit

\* The end of a refresh, for any list of subscriptions it arrives at.
LEMMA ApplyOK ==
  ASSUME CatalogInv, up = "yes", up' = "yes", UNCHANGED pick, NEW ss, NEW outcome,
         ApplyCatalog(ss, outcome)
  PROVE  /\ CatalogInv'
         /\ cfg'.active = cfg.active
         /\ cfg.active \in IdsOf(cfg.servers) => cfg.active \in IdsOf(cfg'.servers)
<1> DEFINE r == resyncServersFromSubs(cfg, ss)
           c == pruneStaleServers(r, ss, TRUE)
           changed == c # cfg
<1>1. CfgOK(cfg) /\ PickOK'
  BY DEF CatalogInv, PickOK
<1>2. /\ CfgOK(r) /\ r.active = cfg.active /\ IdsOf(r.servers) = IdsOf(cfg.servers)
      /\ \A e \in r.servers : e = Own(e.id) \/ e \in cfg.servers
  BY <1>1, ResyncOK
<1>3. /\ CfgOK(c) /\ c.servers \subseteq r.servers /\ c.active = r.active
      /\ \A e \in r.servers : e.id = r.active => e \in c.servers
  <2> HIDE DEF r
  <2>1. /\ CfgOK(c) /\ c.servers \subseteq r.servers /\ c.active = r.active
    BY <1>2, PruneOK
  <2>2. \A e \in r.servers : e.id = r.active => e \in c.servers
    BY DEF pruneStaleServers
  <2> QED
    BY <2>1, <2>2
<1>4. Persist(c, ss, changed, TRUE, outcome) /\ changed \in BOOLEAN /\ (changed \/ c = cfg)
  BY DEF ApplyCatalog
<1> HIDE DEF r, c, changed
<1>5. Near(c, cfg)
  BY <1>1, <1>2, <1>3, NearOK
<1>6. CatalogInv'
  BY <1>1, <1>3, <1>4, <1>5, PersistOK
<1>7. cfg' = c \/ cfg' = cfg
  BY <1>4 DEF Persist, memory
<1>8. cfg.active \in IdsOf(cfg.servers) => cfg.active \in IdsOf(c.servers)
  <2> SUFFICES ASSUME cfg.active \in IdsOf(r.servers) PROVE cfg.active \in IdsOf(c.servers)
    BY <1>2
  <2>1. PICK e \in r.servers : e.id = cfg.active
    BY DEF IdsOf
  <2> QED
    BY <1>2, <1>3, <2>1 DEF IdsOf
<1> QED
  BY <1>2, <1>3, <1>6, <1>7, <1>8

\* A refresh that ends keeps the invariant, whatever it applies.
LEMMA EndRefreshOK ==
  ASSUME CatalogInv, NEW outcome, EndRefresh(outcome)
  PROVE  /\ CatalogInv'
         /\ cfg'.active = cfg.active
         /\ cfg.active \in IdsOf(cfg.servers) => cfg.active \in IdsOf(cfg'.servers)
<1>1. up = "yes" /\ up' = "yes" /\ UNCHANGED pick
  BY DEF EndRefresh
<1>2. CASE UNCHANGED <<memory, files>>
  BY <1>1, <1>2 DEF CatalogInv, CfgOK, PickOK, FilesFollowMemory, Near, memory, files
<1>3. CASE \E ss : ApplyCatalog(ss, outcome)
  BY <1>1, <1>3, ApplyOK
<1> QED
  BY <1>2, <1>3 DEF EndRefresh

\* The steps of a selection.
LEMMA SelectionOK ==
  ASSUME CatalogInv, NEW outcome,
         PrepareStart(outcome) \/ CommitSelected(outcome) \/ ConnectServer(outcome)
  PROVE  CatalogInv'
<1>1. CfgOK(cfg) /\ PickOK
  BY DEF CatalogInv
<1>2. CASE PrepareStart(outcome)
  <2> DEFINE c == [cfg EXCEPT !.active = None]
  <2>1. CfgOK(c)
    BY <1>1, SelectOK
  <2>2. PickOK'
    BY <1>2 DEF PrepareStart, PickOK, Picks, Starting
  <2> QED
    BY <1>2, <2>1, <2>2, SaveConfigOK DEF PrepareStart
<1>3. CASE CommitSelected(outcome)
  <2> DEFINE c == IF pick.entry = None THEN [cfg EXCEPT !.active = None]
                  ELSE [active |-> pick.entry.id, servers |-> upsertServer(cfg.servers, pick.entry)]
  <2>1. pick \in Picks
    BY <1>1, <1>3 DEF CommitSelected, PickOK
  <2>2. pick.entry # None => pick.entry \in Entries /\ pick.entry.id \in Profiles
    BY <2>1 DEF Picks, Entries
  <2>3. CfgOK(c)
    BY <1>1, <2>2, SelectOK, UpsertOK
  <2>4. PickOK'
    BY <1>1, <1>3, <2>1 DEF CommitSelected, PickOK, Picks
  <2> QED
    BY <1>3, <2>3, <2>4, SaveConfigOK DEF CommitSelected
<1>4. CASE ConnectServer(outcome)
  <2> DEFINE c == [cfg EXCEPT !.active = pick.entry.id]
  <2>1. pick.entry.id \in Profiles
    BY <1>1, <1>4 DEF ConnectServer, PickOK, Picks, Entries
  <2>2. CfgOK(c)
    BY <1>1, <2>1, SelectOK
  <2>3. PickOK'
    BY <1>4 DEF ConnectServer, PickOK
  <2> QED
    BY <1>4, <2>2, <2>3, SaveConfigOK DEF ConnectServer
<1> QED
  BY <1>2, <1>3, <1>4

\* The prune that follows a Stop.
LEMMA StopOK ==
  ASSUME CatalogInv, NEW outcome, StopPrunes(outcome)
  PROVE  CatalogInv'
<1> DEFINE c == pruneStaleServers(cfg, subs, FALSE)
<1>1. CfgOK(cfg) /\ PickOK'
  BY DEF CatalogInv, PickOK, StopPrunes, idle
<1>2. CfgOK(c)
  BY <1>1, PruneOK
<1>3. SaveConfig(c, outcome) /\ up = "yes" /\ up' = "yes"
  BY DEF StopPrunes, idle
<1> HIDE DEF c
<1> QED
  BY <1>1, <1>2, <1>3, SaveConfigOK

\* The two saves of a selection in flight keep the invariant.
LEMMA PickedOK ==
  ASSUME CatalogInv, UNCHANGED <<up, memory, files>>, PickOK'
  PROVE  CatalogInv'
BY DEF CatalogInv, CfgOK, FilesFollowMemory, Near, memory, files

\* A start from the two files establishes the invariant again, whichever of
\* its saves fail.
LEMMA RestartOK ==
  ASSUME CatalogInv, Restart
  PROVE  CatalogInv'
<1>1. CfgOK(cfgFile)
  BY DEF CatalogInv
<1>2. CfgOK(cfg') /\ CfgOK(cfgFile')
  BY <1>1, RecoveredOK DEF Restart
<1>3. PickOK'
  BY DEF CatalogInv, PickOK, Restart
<1>4. FilesFollowMemory'
  BY DEF Restart, FilesFollowMemory
<1>5. behind' # "startup" => cfgFile' = cfg' \/ loadConfig(cfgFile') = cfg'
  BY DEF Restart
<1>6. behind' # "startup" => Near(cfgFile', cfg')
  BY <1>5 DEF Near
<1> QED
  BY <1>2, <1>3, <1>4, <1>6 DEF CatalogInv, CfgOK, Near

\* A freshly installed catalog satisfies the invariant.
LEMMA CatalogInit == Init => CatalogInv
BY DEF Init, CatalogInv, CfgOK, Configs, PickOK, FilesFollowMemory, Near

\* Every step preserves the invariant, and only the end of a refresh, which
\* leaves the selection alone, ends a download while the manager runs.
LEMMA CatalogStep ==
  ASSUME CatalogInv, [Next]_vars
  PROVE  /\ CatalogInv'
         /\ fetching # {} /\ up' = "yes" /\ fetching' = {} =>
              /\ cfg'.active = cfg.active
              /\ cfg.active \in IdsOf(cfg.servers) => cfg.active \in IdsOf(cfg'.servers)
<1>1. ASSUME NEW outcome \in Outcomes, Edit(outcome)
      PROVE CatalogInv' /\ UNCHANGED fetching
  <2>1. CatalogInv'
    BY <1>1, EditOK
  <2>2. UNCHANGED fetching
    BY <1>1 DEF Edit, AddSubscription, DeleteSubscription, MoveSubscription, ChangeUrl,
       SwitchSubscription, SwitchServer, AddServer, EditServer, DeleteServer, PostConfig, idle
  <2> QED
    BY <2>1, <2>2
<1>2. ASSUME NEW outcome \in Outcomes, EndRefresh(outcome)
      PROVE /\ CatalogInv'
            /\ cfg'.active = cfg.active
            /\ cfg.active \in IdsOf(cfg.servers) => cfg.active \in IdsOf(cfg'.servers)
  BY <1>2, EndRefreshOK
<1>3. ASSUME NEW outcome \in Outcomes,
             PrepareStart(outcome) \/ CommitSelected(outcome) \/ ConnectServer(outcome)
      PROVE CatalogInv' /\ UNCHANGED fetching
  BY <1>3, SelectionOK DEF PrepareStart, CommitSelected, ConnectServer
<1>4. ASSUME NEW u \in Urls, NEW x \in Servers, ConnectSubscription(u, x)
      PROVE CatalogInv' /\ UNCHANGED fetching
  <2>1. Own(x) \in Entries /\ Own(x) # None
    BY CatalogAssumption DEF Own, Entries, Profiles
  <2>2. PickOK'
    BY <1>4, <2>1 DEF ConnectSubscription, PickOK, Picks
  <2> QED
    BY <1>4, <2>2, PickedOK DEF ConnectSubscription
<1>5. ASSUME NEW id \in Profiles, ConnectEntry(id)
      PROVE CatalogInv' /\ UNCHANGED fetching
  <2>1. Own(id) \in Entries /\ Own(id) # None
    BY CatalogAssumption DEF Own, Entries
  <2>2. PickOK'
    BY <1>5, <2>1 DEF ConnectEntry, PickOK, Picks
  <2> QED
    BY <1>5, <2>2, PickedOK DEF ConnectEntry
<1>6. ASSUME NEW at, NEW exclude, NEW auto \in BOOLEAN, Choose(at, exclude, auto)
      PROVE CatalogInv' /\ UNCHANGED fetching
  <2>1. Candidates(cfg, subs) \subseteq Entries
    BY DEF Candidates, CatalogInv, CfgOK, Configs, Own, Entries, Profiles
  <2>2. PickOK'
    BY <1>6, <2>1 DEF Choose, PickOK, Picks
  <2> QED
    BY <1>6, <2>2, PickedOK DEF Choose
<1>7. CASE BeginRefresh
  <2>1. PickOK' /\ fetching = {}
    BY <1>7 DEF BeginRefresh, CatalogInv, PickOK
  <2> QED
    BY <1>7, <2>1, PickedOK DEF BeginRefresh
<1>8. CASE Crash
  BY <1>8 DEF Crash, CatalogInv, CfgOK, PickOK, FilesFollowMemory, Near, memory, files
<1>9. CASE Restart
  BY <1>9, RestartOK DEF Restart
<1>10. CASE UNCHANGED vars
  BY <1>10 DEF vars, CatalogInv, CfgOK, PickOK, FilesFollowMemory, Near, memory, files
<1>11. ASSUME NEW outcome \in Outcomes, StopPrunes(outcome)
       PROVE CatalogInv' /\ UNCHANGED fetching
  BY <1>11, StopOK DEF StopPrunes, idle
<1> QED
  BY <1>1, <1>2, <1>3, <1>4, <1>5, <1>6, <1>7, <1>8, <1>9, <1>10, <1>11 DEF Next

\* The invariant holds in every state.
THEOREM CatalogInvariance == Spec => []CatalogInv
<1>1. CatalogInv /\ [Next]_vars => CatalogInv'
  BY CatalogStep
<1> QED
  BY <1>1, CatalogInit, PTL DEF Spec

\* What the user was told is on disk: memory and files agree unless a rollback
\* or a save during startup failed.
THEOREM FilesFollowMemoryHolds == Spec => []FilesFollowMemory
<1>1. CatalogInv => FilesFollowMemory
  BY DEF CatalogInv
<1> QED
  BY <1>1, CatalogInvariance, PTL

\* A crash at any moment, also between the two saves of persistMutationLocked,
\* brings the manager up with the server that was selected, or with none.
THEOREM RestartKeepsSelectionHolds == Spec => []RestartKeepsSelection
<1>1. CatalogInv => RestartKeepsSelection
  BY RecoveredOK DEF CatalogInv, RestartKeepsSelection, Near
<1> QED
  BY <1>1, CatalogInvariance, PTL

\* No refresh deselects a server or removes the entry of the selected one.
THEOREM RefreshKeepsSelectionHolds == Spec => RefreshKeepsSelection
<1>1. CatalogInv /\ [Next]_vars =>
        [fetching # {} /\ up' = "yes" /\ fetching' = {} =>
           /\ cfg'.active = cfg.active
           /\ cfg.active \in IdsOf(cfg.servers) => cfg.active \in IdsOf(cfg'.servers)]_vars
  BY CatalogStep
<1> QED
  BY <1>1, CatalogInvariance, PTL DEF Spec, RefreshKeepsSelection
------------------------------------------------------------------------------
BothResolve == Resolves(cfg) /\ Resolves(cfgFile)

\* A save of a configuration whose selection has an entry.
LEMMA PersistResolves ==
  ASSUME BothResolve, NEW c, NEW ss, NEW configChanged, NEW subsChanged, NEW outcome,
         Resolves(c), Persist(c, ss, configChanged, subsChanged, outcome)
  PROVE  BothResolve'
<1>1. cfg' \in {c, cfg} /\ cfgFile' \in {c, cfg, cfgFile}
  BY DEF Persist, memory, files
<1> QED
  BY <1>1 DEF BothResolve, Resolves

\* The selection of a pruned configuration has an entry if that of c has one.
LEMMA PruneResolves ==
  ASSUME NEW c, CfgOK(c), Resolves(c), NEW ss, NEW keep \in BOOLEAN
  PROVE  Resolves(pruneStaleServers(c, ss, keep))
<1> DEFINE p == pruneStaleServers(c, ss, keep)
<1>1. /\ p.active \in {None, c.active}
      /\ \A e \in c.servers : e.id = c.active /\ p.active # None => e \in p.servers
  BY PruneOK
<1> HIDE DEF p
<1>2. CASE c.active \in IdsOf(c.servers) /\ p.active # None
  <2>1. PICK e \in c.servers : e.id = c.active
    BY <1>2 DEF IdsOf
  <2>2. Resolves(p)
    BY <1>1, <1>2, <2>1 DEF Resolves, IdsOf
  <2> QED
    BY <2>2 DEF p
<1> QED
  BY <1>1, <1>2 DEF Resolves, p

\* migrateServerIDs moves the selection with its entry.
LEMMA LoadResolves ==
  ASSUME NEW f, CfgOK(f), Resolves(f)
  PROVE  Resolves(loadConfig(f))
<1>1. CASE f.active = None
  BY <1>1, LoadOK DEF Resolves
<1>2. CASE f.active \in IdsOf(f.servers)
  <2>1. PICK e \in f.servers : e.id = f.active
    BY <1>2 DEF IdsOf
  <2>2. loadConfig(f).active = e.prof /\ Own(e.prof) \in loadConfig(f).servers
    BY <2>1, LoadOK DEF loadConfig
  <2> QED
    BY <2>2 DEF Resolves, IdsOf, Own
<1> QED
  BY <1>1, <1>2 DEF Resolves

\* No request that edits the catalog or the servers takes the entry away, unless
\* it sends a whole configuration without it.
LEMMA EditResolves ==
  ASSUME CatalogInv, BothResolve, NEW outcome, Edit(outcome)
  PROVE  BothResolve' \/ \E c \in Posted : ~Resolves(c) /\ PostConfig(c, "saved")
<1>1. CfgOK(cfg) /\ Resolves(cfg)
  BY DEF CatalogInv, BothResolve
<1>2. Resolves([cfg EXCEPT !.active = None])
  BY <1>1, SelectOK DEF Resolves
<1>3. ASSUME NEW u \in Urls, AddSubscription(u, outcome) PROVE BothResolve'
  BY <1>1, <1>3, PersistResolves DEF AddSubscription, SaveSubscriptions
<1>4. ASSUME NEW u \in Urls, DeleteSubscription(u, outcome) PROVE BothResolve'
  BY <1>1, <1>4, PruneResolves, PersistResolves DEF DeleteSubscription
<1>5. ASSUME NEW u \in Urls, MoveSubscription(u, outcome) PROVE BothResolve'
  BY <1>1, <1>5, PersistResolves DEF MoveSubscription, SaveSubscriptions
<1>6. ASSUME NEW u \in Urls, NEW v \in Urls, ChangeUrl(u, v, outcome) PROVE BothResolve'
  BY <1>1, <1>6, PersistResolves DEF ChangeUrl, SaveSubscriptions
<1>7. ASSUME NEW ss, NEW mayHit, Switched(ss, mayHit, outcome) PROVE BothResolve'
  BY <1>1, <1>2, <1>7, PersistResolves DEF Switched
<1>8. ASSUME NEW u \in Urls, NEW d \in {"no", "yes"}, SwitchSubscription(u, d, outcome) PROVE BothResolve'
  BY <1>7, <1>8 DEF SwitchSubscription
<1>9. ASSUME NEW u \in Urls, NEW x \in Servers, NEW d \in {"no", "yes"}, SwitchServer(u, x, d, outcome)
      PROVE BothResolve'
  BY <1>7, <1>9 DEF SwitchServer
<1>10. ASSUME NEW m \in Manuals, AddServer(m, outcome) PROVE BothResolve'
  <2> DEFINE c == [cfg EXCEPT !.servers = @ \cup {Own(m)}]
  <2>1. Resolves(c)
    BY <1>1 DEF Resolves, CfgOK, Configs, IdsOf
  <2> QED
    BY <1>10, <2>1, PersistResolves DEF AddServer, SaveConfig
<1>11. ASSUME NEW m \in Manuals, NEW id \in Profiles, EditServer(id, m, outcome) PROVE BothResolve'
  <2> DEFINE e == [id |-> id, prof |-> m]
             c == [cfg EXCEPT !.servers = upsertServer(@, e)]
  <2>1. c.active = cfg.active /\ c.servers = {x \in cfg.servers : x.id # id} \cup {e} /\ e.id = id
    BY <1>1 DEF CfgOK, Configs, upsertServer
  <2>2. SaveConfig(c, outcome)
    BY <1>11 DEF EditServer
  <2> HIDE DEF c, e
  <2>3. Resolves(c)
    BY <1>1, <2>1 DEF Resolves, IdsOf
  <2> QED
    BY <2>2, <2>3, PersistResolves DEF SaveConfig
<1>12. ASSUME NEW id \in Profiles, DeleteServer(id, outcome) PROVE BothResolve'
  <2> DEFINE c == [active |-> IF cfg.active = id THEN None ELSE cfg.active,
                   servers |-> {e \in cfg.servers : e.id # id}]
  <2>1. Resolves(c)
    BY <1>1 DEF Resolves, IdsOf
  <2> QED
    BY <1>12, <2>1, PersistResolves DEF DeleteServer, SaveConfig
<1>13. ASSUME NEW c \in Posted, PostConfig(c, outcome)
       PROVE  BothResolve' \/ (~Resolves(c) /\ PostConfig(c, "saved"))
  <2>1. CASE Resolves(c)
    <3>1. Resolves(loadConfig(c))
      BY <1>1, <2>1, PostedOK, LoadResolves
    <3> QED
      BY <1>13, <3>1, PersistResolves DEF PostConfig, SaveConfig
  <2>2. CASE outcome # "saved"
    <3>1. UNCHANGED <<cfg, cfgFile>>
      BY <1>13, <2>2 DEF PostConfig, SaveConfig, Persist, memory, files
    <3> QED
      BY <3>1 DEF BothResolve, Resolves
  <2> QED
    BY <1>13, <2>1, <2>2
<1> QED
  BY <1>3, <1>4, <1>5, <1>6, <1>8, <1>9, <1>10, <1>11, <1>12, <1>13 DEF Edit

\* No step but connectServer's, and that of such a request, takes the entry away
\* from the selection.
LEMMA StepResolves ==
  ASSUME CatalogInv, BothResolve, [Next]_vars
  PROVE  \/ BothResolve' \/ ConnectServer("saved")
         \/ \E c \in Posted : ~Resolves(c) /\ PostConfig(c, "saved")
<1>1. CfgOK(cfg) /\ Resolves(cfg) /\ CfgOK(cfgFile) /\ Resolves(cfgFile)
  BY DEF CatalogInv, BothResolve
<1>2. UNCHANGED <<cfg, cfgFile>> => BothResolve'
  BY DEF BothResolve, Resolves
<1>3. ASSUME NEW outcome \in Outcomes, EndRefresh(outcome) PROVE BothResolve'
  <2>1. ASSUME NEW ss, ApplyCatalog(ss, outcome) PROVE BothResolve'
    <3> DEFINE r == resyncServersFromSubs(cfg, ss)
    <3>1. CfgOK(r) /\ Resolves(r)
      BY <1>1, ResyncOK DEF Resolves
    <3>2. Resolves(pruneStaleServers(r, ss, TRUE))
      BY <3>1, PruneResolves
    <3> QED
      BY <2>1, <3>2, PersistResolves DEF ApplyCatalog
  <2> QED
    BY <1>2, <1>3, <2>1 DEF EndRefresh, memory, files
<1>4. ASSUME NEW outcome \in Outcomes, PrepareStart(outcome) PROVE BothResolve'
  <2>1. Resolves([cfg EXCEPT !.active = None])
    BY <1>1, SelectOK DEF Resolves
  <2> QED
    BY <1>4, <2>1, PersistResolves DEF PrepareStart, SaveConfig
<1>5. ASSUME NEW outcome \in Outcomes, CommitSelected(outcome) PROVE BothResolve'
  <2> DEFINE c == IF pick.entry = None THEN [cfg EXCEPT !.active = None]
                  ELSE [active |-> pick.entry.id, servers |-> upsertServer(cfg.servers, pick.entry)]
  <2>1. Resolves(c)
    BY <1>1, SelectOK DEF Resolves, upsertServer, IdsOf
  <2> QED
    BY <1>5, <2>1, PersistResolves DEF CommitSelected, SaveConfig
<1>6. ASSUME NEW outcome \in Outcomes, ConnectServer(outcome), outcome # "saved" PROVE BothResolve'
  BY <1>2, <1>6 DEF ConnectServer, SaveConfig, Persist, memory, files
<1>7. CASE Restart
  <2> DEFINE loaded == loadConfig(cfgFile)
             pruned == pruneStaleServers(loaded, subs', FALSE)
  <2>1. CfgOK(loaded) /\ Resolves(loaded)
    BY <1>1, LoadOK, LoadResolves
  <2>2. CfgOK(pruned) /\ Resolves(pruned)
    BY <2>1, PruneOK, PruneResolves
  <2>3. Resolves(clearDisabled(pruned, subs'))
    BY <2>2, ClearOK DEF Resolves
  <2>4. cfg' = clearDisabled(pruned, subs') /\ cfgFile' \in {cfgFile, pruned, cfg'}
    BY <1>7 DEF Restart, Recovered
  <2> HIDE DEF pruned
  <2> QED
    BY <1>1, <2>2, <2>3, <2>4 DEF BothResolve, Resolves
<1>8. ASSUME NEW outcome \in Outcomes, Edit(outcome)
      PROVE  BothResolve' \/ \E c \in Posted : ~Resolves(c) /\ PostConfig(c, "saved")
  BY <1>8, EditResolves
<1>9. ASSUME NEW outcome \in Outcomes, StopPrunes(outcome) PROVE BothResolve'
  <2>1. Resolves(pruneStaleServers(cfg, subs, FALSE))
    BY <1>1, PruneResolves
  <2> QED
    BY <1>9, <2>1, PersistResolves DEF StopPrunes, SaveConfig
<1> QED
  BY <1>2, <1>3, <1>4, <1>5, <1>6, <1>7, <1>8, <1>9
     DEF Next, vars, memory, files, ConnectSubscription, ConnectEntry, Choose, BeginRefresh, Crash

\* No edit, refresh, failed save, crash or restart leaves a selection without
\* the entry that it is started from; connectServer may, and so may a whole
\* configuration that is sent without it.
THEOREM SelectionResolvesHolds == Spec => SelectionResolves
<1>1. CatalogInv /\ [Next]_vars =>
        [Resolves(cfg) /\ Resolves(cfgFile) =>
           \/ Resolves(cfg') /\ Resolves(cfgFile')
           \/ ConnectServer("saved")
           \/ \E c \in Posted : ~Resolves(c) /\ PostConfig(c, "saved")]_vars
  BY StepResolves DEF BothResolve
<1> QED
  BY <1>1, CatalogInvariance, PTL DEF Spec, SelectionResolves
------------------------------------------------------------------------------
\* A set of naturals has a least element.
LEMMA LeastNat ==
  ASSUME NEW S \in SUBSET Nat, S # {}
  PROVE  \E n \in S : \A m \in S : n <= m
<1> DEFINE R == OpToRel(<, Nat)
<1>1. IsWellFoundedOn(R, Nat)
  BY NatLessThanWellFounded
<1>2. \A n, m \in Nat : n < m => <<n, m>> \in R
  BY DEF OpToRel
<1> HIDE DEF R
<1>3. PICK n \in S : \A m \in S : ~(<<m, n>> \in R)
  BY <1>1, WFMin
<1>4. \A m \in S : m \in Nat /\ n \in Nat /\ ~(m < n)
  BY <1>2, <1>3
<1>5. \A m \in S : n <= m
  BY <1>4
<1> QED
  BY <1>5

\* The index that a handler finds under s.mu: the first entry with the ID.
LEMMA FirstAtFound ==
  ASSUME NEW ss \in Seq(Subscriptions), NEW u \in UrlsOf(ss)
  PROVE  /\ FirstAt(ss, u) \in DOMAIN ss /\ ss[FirstAt(ss, u)].id = u
         /\ \A j \in 1..(FirstAt(ss, u) - 1) : ss[j].id # u
<1> DEFINE S == {i \in DOMAIN ss : ss[i].id = u}
<1>1. S \in SUBSET Nat /\ DOMAIN ss = 1..Len(ss) /\ Len(ss) \in Nat
  OBVIOUS
<1>2. S # {}
  BY DEF UrlsOf, IdsOf, Range
<1>3. PICK i \in S : \A j \in S : i <= j
  BY <1>1, <1>2, LeastNat
<1>4. i \in DOMAIN ss /\ ss[i].id = u /\ \A j \in 1..(i - 1) : ss[j].id # u
  BY <1>1, <1>3
<1> QED
  BY <1>4 DEF FirstAt

\* There is only one such index.
LEMMA FirstAtUnique ==
  ASSUME NEW ss \in Seq(Subscriptions), NEW i \in DOMAIN ss,
         \A j \in 1..(i - 1) : ss[j].id # ss[i].id
  PROVE  FirstAt(ss, ss[i].id) = i
<1> DEFINE u == ss[i].id
           k == FirstAt(ss, u)
<1>1. u \in UrlsOf(ss)
  BY DEF UrlsOf, IdsOf, Range
<1>2. k \in DOMAIN ss /\ ss[k].id = u /\ \A j \in 1..(k - 1) : ss[j].id # u
  BY <1>1, FirstAtFound
<1>3. i \in Nat /\ k \in Nat /\ i >= 1 /\ k >= 1
  BY <1>2
<1> HIDE DEF k
<1>4. ~(k < i) /\ ~(i < k)
  BY <1>2, <1>3
<1> QED
  BY <1>3, <1>4 DEF k

\* The entries that loadSubscriptions keeps are numbered from 1 on, in order.
LEMMA Positions ==
  ASSUME NEW f \in Seq(Subscriptions)
  PROVE  LET N == Cardinality(Kept(f))
         IN /\ N \in Nat
            /\ \A i \in Kept(f) : Position(f, i) \in 1..N
            /\ \A i, k \in Kept(f) : Position(f, i) = Position(f, k) => i = k
            /\ \A n \in 1..N : \E i \in Kept(f) : Position(f, i) = n
<1> DEFINE K == Kept(f)
           N == Cardinality(K)
           Below(i) == {j \in K : j <= i}
<1>1. K \in SUBSET (1..Len(f)) /\ Len(f) \in Nat
  BY DEF Kept
<1> HIDE DEF K
<1>2. IsFiniteSet(K)
  <2>1. IsFiniteSet(1..Len(f))
    BY <1>1, FS_Interval
  <2> QED
    BY <1>1, <2>1, FS_Subset
<1>3. N \in Nat
  BY <1>2, FS_CardinalityType
<1>4. \A i \in K : /\ IsFiniteSet(Below(i)) /\ Cardinality(Below(i)) \in Nat
                    /\ Cardinality(Below(i)) <= N /\ i \in Below(i)
  <2> SUFFICES ASSUME NEW i \in K
               PROVE  /\ IsFiniteSet(Below(i)) /\ Cardinality(Below(i)) \in Nat
                      /\ Cardinality(Below(i)) <= N /\ i \in Below(i)
    OBVIOUS
  <2>1. Below(i) \in SUBSET K
    OBVIOUS
  <2>2. i \in Below(i)
    BY <1>1
  <2> QED
    BY <1>2, <2>1, <2>2, FS_Subset, FS_CardinalityType
<1>5. \A i \in K : Cardinality(Below(i)) # 0
  BY <1>4, FS_EmptySet
<1>6. \A i, k \in K : i < k => Cardinality(Below(i)) < Cardinality(Below(k))
  <2> SUFFICES ASSUME NEW i \in K, NEW k \in K, i < k
               PROVE  Cardinality(Below(i)) < Cardinality(Below(k))
    OBVIOUS
  <2>0. \A j \in K : j \in Nat
    BY <1>1
  <2>1. Below(i) \in SUBSET Below(k) /\ k \notin Below(i)
    BY <2>0
  <2>2. IsFiniteSet(Below(k)) /\ k \in Below(k) /\ Cardinality(Below(k)) \in Nat /\ Cardinality(Below(i)) \in Nat
    BY <1>4
  <2> HIDE DEF Below
  <2>3. /\ Cardinality(Below(i)) <= Cardinality(Below(k))
        /\ Cardinality(Below(k)) = Cardinality(Below(i)) => Below(k) = Below(i)
    BY <2>1, <2>2, FS_Subset
  <2> QED
    BY <2>1, <2>2, <2>3
<1> HIDE DEF Below, N
<1>7. \A i, k \in K : Cardinality(Below(i)) = Cardinality(Below(k)) => i = k
  <2> SUFFICES ASSUME NEW i \in K, NEW k \in K, Cardinality(Below(i)) = Cardinality(Below(k))
               PROVE  i = k
    OBVIOUS
  <2>1. i \in Nat /\ k \in Nat /\ Cardinality(Below(i)) \in Nat /\ Cardinality(Below(k)) \in Nat
    BY <1>1, <1>4
  <2>2. ~(i < k) /\ ~(k < i)
    BY <1>6, <2>1
  <2> QED
    BY <2>1, <2>2
<1> DEFINE g == [i \in K |-> Cardinality(Below(i))]
<1>8. \A i \in K : Cardinality(Below(i)) \in 1..N
  BY <1>3, <1>4, <1>5
<1>9. g \in Injection(K, 1..N)
  BY <1>7, <1>8 DEF Injection, IsInjective
<1>10. IsFiniteSet(1..N) /\ Cardinality(1..N) = N
  BY <1>3, FS_Interval
<1>11. g \in Surjection(K, 1..N)
  BY <1>9, <1>10, FS_Injection DEF N
<1>12. \A n \in 1..N : \E i \in K : Cardinality(Below(i)) = n
  BY <1>11 DEF Surjection
<1> QED
  BY <1>3, <1>7, <1>8, <1>12 DEF Position, K, N, Below

\* What startup makes of subscriptions.json: a list without double IDs that has
\* the first entry of each ID, with its switches.
LEMMA LoadSubscriptionsOK ==
  ASSUME NEW f \in Seq(Subscriptions)
  PROVE  LET l == loadSubscriptions(f)
         IN /\ l \in Seq(Subscriptions) /\ UrlsOf(l) = UrlsOf(f)
            /\ \A u \in UrlsOf(f) : l[FirstAt(l, u)] = Migrated(f[FirstAt(f, u)])
<1> DEFINE K == Kept(f)
           N == Cardinality(K)
           at(n) == CHOOSE i \in K : Position(f, i) = n
           l == [n \in 1..N |-> Migrated(f[at(n)])]
<1>1. loadSubscriptions(f) = l
  BY DEF loadSubscriptions
<1>2. N \in Nat /\ \A n \in 1..N : at(n) \in K /\ Position(f, at(n)) = n
  BY Positions
<1>3. \A i \in K : Position(f, i) \in 1..N /\ at(Position(f, i)) = i
  BY Positions
<1>4. \A i \in K : i \in DOMAIN f /\ i = FirstAt(f, f[i].id)
  BY DEF Kept
<1>5. \A i \in DOMAIN f : f[i] \in Subscriptions
  OBVIOUS
<1> HIDE DEF K, N, at
<1>6. \A s \in Subscriptions : Migrated(s) \in Subscriptions /\ Migrated(s).id = s.id
  BY DEF Migrated, Subscriptions
<1>7. l \in [1..N -> Subscriptions]
  BY <1>2, <1>4, <1>5, <1>6
<1>8. l \in Seq(Subscriptions) /\ DOMAIN l = 1..N
  BY <1>2, <1>7
<1>9. \A n \in 1..N : l[n] = Migrated(f[at(n)]) /\ l[n].id = f[at(n)].id
  BY <1>2, <1>4, <1>5, <1>6
<1> HIDE DEF l
<1>10. ASSUME NEW u \in UrlsOf(f)
       PROVE  u \in UrlsOf(l) /\ l[FirstAt(l, u)] = Migrated(f[FirstAt(f, u)])
  <2> DEFINE i == FirstAt(f, u)
             n == Position(f, i)
  <2>1. i \in DOMAIN f /\ f[i].id = u
    BY FirstAtFound
  <2>2. i \in K
    BY <2>1 DEF K, Kept
  <2>3. n \in 1..N /\ at(n) = i
    BY <1>3, <2>2
  <2>4. l[n] = Migrated(f[i]) /\ l[n].id = u
    BY <1>9, <2>1, <2>3
  <2>5. u \in UrlsOf(l)
    BY <1>8, <2>3, <2>4 DEF UrlsOf, IdsOf, Range
  <2> DEFINE k == FirstAt(l, u)
  <2>6. k \in 1..N /\ l[k].id = u
    BY <1>8, <2>5, FirstAtFound
  <2>7. at(k) \in K /\ f[at(k)].id = u
    BY <1>2, <1>9, <2>6
  <2>8. at(k) = i
    BY <1>4, <2>7
  <2> QED
    BY <1>9, <2>5, <2>6, <2>8
<1>11. ASSUME NEW u \in UrlsOf(l) PROVE u \in UrlsOf(f)
  <2>1. PICK n \in 1..N : l[n].id = u
    BY <1>8, <1>11 DEF UrlsOf, IdsOf, Range
  <2>2. at(n) \in DOMAIN f /\ f[at(n)].id = u
    BY <1>2, <1>4, <1>9, <2>1
  <2> QED
    BY <2>2 DEF UrlsOf, IdsOf, Range
<1> QED
  BY <1>1, <1>8, <1>10, <1>11

------------------------------------------------------------------------------
\* Both lists of subscriptions are well formed, and the one that startup will
\* load is that in memory, also while the manager is down.
SubsInv ==
  /\ subs \in Seq(Subscriptions) /\ subsFile \in Seq(Subscriptions)
  /\ subsFile = subs \/ loadSubscriptions(subsFile) = subs

\* The profile of every server entered by hand in c is in f, but for the edited
\* copies of a provider's servers if f is what a failed rollback left.
Hands(c, f, b) ==
  \A e \in c.servers : Manual(e) =>
    (\E x \in f.servers : x.prof = e.prof) \/ (b = "rollback" /\ e.id \in Servers)

\* The inductive invariant of the user's entries and choices.
EntriesInv == TypeOK /\ SubsInv /\ Hands(cfg, cfgFile, behind)

\* A save, whatever its outcome, of a list that is well formed and of a
\* configuration that keeps what was entered by hand if the list is saved too.
LEMMA PersistEntries ==
  ASSUME SubsInv, Hands(cfg, cfgFile, behind),
         NEW c, NEW ss, NEW configChanged \in BOOLEAN, NEW subsChanged \in BOOLEAN, NEW outcome,
         ss \in Seq(Subscriptions), configChanged \/ c = cfg, subsChanged \/ ss = subs,
         configChanged /\ subsChanged => Hands(cfg, c, "rollback"),
         Persist(c, ss, configChanged, subsChanged, outcome)
  PROVE  /\ SubsInv' /\ Hands(cfg', cfgFile', behind')
         /\ behind' \in {"no", "rollback", behind}
         /\ (cfg' = c /\ subs' = ss /\ outcome = "saved") \/ (cfg' = cfg /\ subs' = subs)
<1> USE DEF memory, files
<1>1. \A x, b : Hands(x, x, b)
  BY DEF Hands
<1>2. CASE /\ outcome = "saved" /\ cfg' = c /\ subs' = ss
           /\ cfgFile' = IF configChanged THEN c ELSE cfgFile
           /\ subsFile' = IF subsChanged THEN ss ELSE subsFile
           /\ behind' = IF configChanged THEN "no" ELSE behind
  <2>1. SubsInv'
    BY <1>2 DEF SubsInv
  <2>2. Hands(cfg', cfgFile', behind')
    BY <1>1, <1>2
  <2> QED
    BY <1>2, <2>1, <2>2
<1>3. CASE UNCHANGED <<memory, files>>
  BY <1>3 DEF SubsInv
<1>4. CASE /\ cfgFile' = IF configChanged THEN cfg ELSE cfgFile
           /\ behind' = IF configChanged THEN "no" ELSE behind
           /\ UNCHANGED <<memory, subsFile>>
  <2>1. SubsInv'
    BY <1>4 DEF SubsInv
  <2>2. Hands(cfg', cfgFile', behind')
    BY <1>1, <1>4
  <2> QED
    BY <1>4, <2>1, <2>2
<1>5. CASE /\ configChanged /\ subsChanged /\ cfgFile' = c /\ behind' = "rollback"
           /\ UNCHANGED <<memory, subsFile>>
  <2>1. SubsInv'
    BY <1>5 DEF SubsInv
  <2>2. Hands(cfg', cfgFile', behind')
    BY <1>5
  <2> QED
    BY <1>5, <2>1, <2>2
<1> QED
  BY <1>2, <1>3, <1>4, <1>5 DEF Persist

\* A prune keeps what was entered by hand, a resync what has no ID of a
\* subscription's server.
LEMMA PruneKeepsHands ==
  ASSUME NEW c, NEW ss, NEW keep
  PROVE  \A e \in c.servers : Manual(e) \/ e.id \in Offered(ss) => e \in pruneStaleServers(c, ss, keep).servers
BY DEF pruneStaleServers

LEMMA ResyncKeepsHands ==
  ASSUME NEW c, NEW ss
  PROVE  \A e \in c.servers :
           \/ e \in resyncServersFromSubs(c, ss).servers
           \/ e.id \in Offered(ss) /\ Own(e.id) \in resyncServersFromSubs(c, ss).servers
BY DEF resyncServersFromSubs

\* The end of a refresh replaces the edited copies of what it offers only.
LEMMA ApplyKeepsHands ==
  ASSUME NEW c, NEW ss \in Seq(Subscriptions)
  PROVE  \A e \in c.servers : Manual(e) =>
           \/ e \in pruneStaleServers(resyncServersFromSubs(c, ss), ss, TRUE).servers
           \/ /\ e.id \in Offered(ss) /\ e.id \in Servers
              /\ Own(e.id) \in pruneStaleServers(resyncServersFromSubs(c, ss), ss, TRUE).servers
<1> DEFINE r == resyncServersFromSubs(c, ss)
<1>1. \A e \in c.servers : e \in r.servers \/ (e.id \in Offered(ss) /\ Own(e.id) \in r.servers)
  BY ResyncKeepsHands
<1> HIDE DEF r
<1>2. \A e \in r.servers : Manual(e) \/ e.id \in Offered(ss) => e \in pruneStaleServers(r, ss, TRUE).servers
  BY PruneKeepsHands
<1>3. Offered(ss) \subseteq Servers
  <2>1. Range(ss) \in SUBSET Subscriptions
    BY RangeOfSeq
  <2> QED
    BY <2>1 DEF Offered, Subscriptions
<1>4. \A e \in c.servers : Own(e.id).id = e.id
  BY DEF Own
<1> QED
  BY <1>1, <1>2, <1>3, <1>4 DEF r

\* The lists that the handlers make of a well-formed list.
LEMMA ListsOK ==
  ASSUME NEW ss \in Seq(Subscriptions)
  PROVE  /\ \A s \in Subscriptions : Append(ss, s) \in Seq(Subscriptions)
         /\ \A i \in DOMAIN ss : RemoveAt(ss, i) \in Seq(Subscriptions)
         /\ \A i, k \in DOMAIN ss : [ss EXCEPT ![i] = ss[k], ![k] = ss[i]] \in Seq(Subscriptions)
         /\ \A i \in DOMAIN ss, v \in Urls : [ss EXCEPT ![i].id = v] \in Seq(Subscriptions)
         /\ \A i \in DOMAIN ss, d \in {"no", "yes"} : [ss EXCEPT ![i].disabled = d] \in Seq(Subscriptions)
         /\ \A i \in DOMAIN ss, x \in Servers, d \in {"no", "yes"} :
              [ss EXCEPT ![i].off = IF d = "yes" THEN @ \cup {x} ELSE @ \ {x}] \in Seq(Subscriptions)
<1>1. /\ DOMAIN ss = 1..Len(ss) /\ Len(ss) \in Nat /\ ss \in [1..Len(ss) -> Subscriptions]
      /\ \A i \in 1..Len(ss) : ss[i] \in Subscriptions
  BY LenProperties, ElementOfSeq
<1>2. \A s \in Subscriptions : Append(ss, s) \in Seq(Subscriptions)
  BY AppendProperties
<1>3. ASSUME NEW i \in DOMAIN ss PROVE RemoveAt(ss, i) \in Seq(Subscriptions)
  <2>1. i - 1 \in Int /\ i + 1 \in Int /\ Len(ss) \in Int /\ 1 \in Int
    BY <1>1
  <2>2. /\ \A j \in 1..(i - 1) : ss[j] \in Subscriptions
        /\ \A j \in (i + 1)..Len(ss) : ss[j] \in Subscriptions
    BY <1>1
  <2>3. SubSeq(ss, 1, i - 1) \in Seq(Subscriptions)
    BY <2>1, <2>2, SubSeqProperties
  <2>4. SubSeq(ss, i + 1, Len(ss)) \in Seq(Subscriptions)
    BY <2>1, <2>2, SubSeqProperties
  <2> QED
    BY <2>3, <2>4, ConcatProperties DEF RemoveAt
<1>4. \A i \in DOMAIN ss, s \in Subscriptions :
        [ss EXCEPT ![i] = s] \in Seq(Subscriptions) /\ DOMAIN [ss EXCEPT ![i] = s] = DOMAIN ss
  BY <1>1, ExceptSeq
<1>5. ASSUME NEW i \in DOMAIN ss, NEW k \in DOMAIN ss
      PROVE [ss EXCEPT ![i] = ss[k], ![k] = ss[i]] \in Seq(Subscriptions)
  <2> DEFINE t == [ss EXCEPT ![i] = ss[k]]
             w == [t EXCEPT ![k] = ss[i]]
  <2>1. t \in Seq(Subscriptions) /\ DOMAIN t = DOMAIN ss
    BY <1>1, <1>4
  <2>2. k \in 1..Len(t)
    BY <2>1
  <2> HIDE DEF t
  <2>3. w \in Seq(Subscriptions)
    BY <1>1, <2>1, <2>2, ExceptSeq
  <2> QED
    BY <2>3 DEF t, w
<1>6. ASSUME NEW i \in DOMAIN ss
      PROVE  /\ \A v \in Urls : [ss EXCEPT ![i].id = v] \in Seq(Subscriptions)
             /\ \A d \in {"no", "yes"} : [ss EXCEPT ![i].disabled = d] \in Seq(Subscriptions)
             /\ \A x \in Servers, d \in {"no", "yes"} :
                  [ss EXCEPT ![i].off = IF d = "yes" THEN @ \cup {x} ELSE @ \ {x}] \in Seq(Subscriptions)
  <2>1. \A v \in Urls : [ss[i] EXCEPT !.id = v] \in Subscriptions
    BY <1>1 DEF Subscriptions
  <2>2. \A d \in {"no", "yes"} : [ss[i] EXCEPT !.disabled = d] \in Subscriptions
    BY <1>1 DEF Subscriptions
  <2>3. \A x \in Servers, d \in {"no", "yes"} :
          [ss[i] EXCEPT !.off = IF d = "yes" THEN @ \cup {x} ELSE @ \ {x}] \in Subscriptions
    BY <1>1 DEF Subscriptions
  <2>4. \A s \in Subscriptions : [ss EXCEPT ![i] = s] \in Seq(Subscriptions)
    BY <1>4
  <2> QED
    BY <2>1, <2>2, <2>3, <2>4
<1> QED
  BY <1>2, <1>3, <1>5, <1>6

\* A save of config.json alone.
LEMMA SaveConfigEntries ==
  ASSUME SubsInv, Hands(cfg, cfgFile, behind), NEW c, NEW outcome, SaveConfig(c, outcome)
  PROVE  /\ SubsInv' /\ Hands(cfg', cfgFile', behind') /\ behind' \in {"no", "rollback", behind}
         /\ (cfg' = c /\ subs' = subs /\ outcome = "saved") \/ (cfg' = cfg /\ subs' = subs)
<1>1. subs \in Seq(Subscriptions) /\ Persist(c, subs, TRUE, FALSE, outcome)
  BY DEF SubsInv, SaveConfig
<1> QED
  BY <1>1, PersistEntries

\* Every edit by the user, whatever becomes of its save.
LEMMA EditEntries ==
  ASSUME CatalogInv, SubsInv, Hands(cfg, cfgFile, behind), NEW outcome, Edit(outcome)
  PROVE  /\ SubsInv' /\ Hands(cfg', cfgFile', behind') /\ behind' \in {"no", "rollback", behind}
         /\ UNCHANGED <<up, fetching>>
         /\ outcome = "saved" \/ (cfg' = cfg /\ subs' = subs)
<1> DEFINE Goal == /\ SubsInv' /\ Hands(cfg', cfgFile', behind') /\ behind' \in {"no", "rollback", behind}
                   /\ UNCHANGED <<up, fetching>>
                   /\ outcome = "saved" \/ (cfg' = cfg /\ subs' = subs)
<1>1. CfgOK(cfg) /\ subs \in Seq(Subscriptions)
  BY DEF CatalogInv, SubsInv
<1>2. \A u \in UrlsOf(subs) : FirstAt(subs, u) \in DOMAIN subs
  BY <1>1, FirstAtFound
<1>3. ASSUME NEW ss \in Seq(Subscriptions), SaveSubscriptions(ss, outcome), idle PROVE Goal
  <2>1. Persist(cfg, ss, FALSE, TRUE, outcome)
    BY <1>3 DEF SaveSubscriptions
  <2>2. /\ SubsInv' /\ Hands(cfg', cfgFile', behind') /\ behind' \in {"no", "rollback", behind}
        /\ (cfg' = cfg /\ subs' = ss /\ outcome = "saved") \/ (cfg' = cfg /\ subs' = subs)
    BY <2>1, PersistEntries
  <2> QED
    BY <1>3, <2>2 DEF idle
<1>4. ASSUME NEW u \in Urls, AddSubscription(u, outcome) PROVE Goal
  <2>1. PICK got \in Offers[u] :
          SaveSubscriptions(Append(subs, [id |-> u, servers |-> got, disabled |-> "no", off |-> {}]), outcome)
    BY <1>4 DEF AddSubscription
  <2>2. got \in SUBSET Servers
    BY CatalogAssumption
  <2>3. [id |-> u, servers |-> got, disabled |-> "no", off |-> {}] \in Subscriptions
    BY <2>2 DEF Subscriptions
  <2> QED
    BY <1>1, <1>3, <1>4, <2>1, <2>3, ListsOK DEF AddSubscription
<1>5. ASSUME NEW u \in Urls, DeleteSubscription(u, outcome) PROVE Goal
  <2>1. PICK vpnRunning \in BOOLEAN :
          LET ss == RemoveAt(subs, FirstAt(subs, u))
              c == pruneStaleServers(cfg, ss, vpnRunning)
              detached == vpnRunning /\ cfg.active # None /\ ~serverAvailable(cfg, ss, cfg.active)
          IN Persist(c, ss, c # cfg \/ detached, TRUE, outcome)
    BY <1>5 DEF DeleteSubscription
  <2> DEFINE ss == RemoveAt(subs, FirstAt(subs, u))
             c == pruneStaleServers(cfg, ss, vpnRunning)
             detached == vpnRunning /\ cfg.active # None /\ ~serverAvailable(cfg, ss, cfg.active)
             changed == c # cfg \/ detached
  <2>2. ss \in Seq(Subscriptions)
    BY <1>1, <1>2, <1>5, ListsOK DEF DeleteSubscription
  <2>3. Persist(c, ss, changed, TRUE, outcome) /\ changed \in BOOLEAN /\ (changed \/ c = cfg)
    BY <2>1
  <2> HIDE DEF ss, changed, detached
  <2>4. Hands(cfg, c, "rollback")
    BY PruneKeepsHands DEF Hands
  <2> HIDE DEF c
  <2> QED
    BY <1>5, <2>2, <2>3, <2>4, PersistEntries DEF DeleteSubscription, idle
<1>6. ASSUME NEW u \in Urls, MoveSubscription(u, outcome) PROVE Goal
  BY <1>1, <1>2, <1>3, <1>6, ListsOK DEF MoveSubscription
<1>7. ASSUME NEW u \in Urls, NEW v \in Urls, ChangeUrl(u, v, outcome) PROVE Goal
  BY <1>1, <1>2, <1>3, <1>7, ListsOK DEF ChangeUrl
<1>8. ASSUME NEW ss \in Seq(Subscriptions), NEW mayHit \in BOOLEAN, Switched(ss, mayHit, outcome), idle
      PROVE Goal
  <2> DEFINE drop == cfg.active # None /\ mayHit /\ ~serverAvailable(cfg, ss, cfg.active)
             c == IF drop THEN [cfg EXCEPT !.active = None] ELSE cfg
  <2>1. c.servers = cfg.servers
    BY <1>1, SelectOK
  <2>2. Persist(c, ss, drop, TRUE, outcome) /\ (drop \/ c = cfg) /\ drop \in BOOLEAN
    BY <1>8 DEF Switched
  <2> HIDE DEF c, drop
  <2>3. Hands(cfg, c, "rollback")
    BY <2>1 DEF Hands
  <2> QED
    <3>1. /\ SubsInv' /\ Hands(cfg', cfgFile', behind') /\ behind' \in {"no", "rollback", behind}
          /\ (cfg' = c /\ subs' = ss /\ outcome = "saved") \/ (cfg' = cfg /\ subs' = subs)
      BY <2>2, <2>3, PersistEntries
    <3> QED
      BY <1>8, <3>1 DEF idle
<1>9. ASSUME NEW u \in Urls, NEW d \in {"no", "yes"}, SwitchSubscription(u, d, outcome) PROVE Goal
  BY <1>1, <1>2, <1>8, <1>9, ListsOK DEF SwitchSubscription
<1>10. ASSUME NEW u \in Urls, NEW x \in Servers, NEW d \in {"no", "yes"}, SwitchServer(u, x, d, outcome)
       PROVE Goal
  BY <1>1, <1>2, <1>8, <1>10, ListsOK DEF SwitchServer
<1>11. ASSUME NEW c, SaveConfig(c, outcome), idle PROVE Goal
  BY <1>11, SaveConfigEntries DEF idle
<1>12. ASSUME NEW m \in Manuals, AddServer(m, outcome) PROVE Goal
  BY <1>11, <1>12 DEF AddServer
<1>13. ASSUME NEW m \in Manuals, NEW id \in Profiles, EditServer(id, m, outcome) PROVE Goal
  BY <1>11, <1>13 DEF EditServer
<1>14. ASSUME NEW id \in Profiles, DeleteServer(id, outcome) PROVE Goal
  BY <1>11, <1>14 DEF DeleteServer
<1>15. ASSUME NEW c \in Posted, PostConfig(c, outcome) PROVE Goal
  BY <1>11, <1>15 DEF PostConfig
<1> QED
  BY <1>4, <1>5, <1>6, <1>7, <1>9, <1>10, <1>12, <1>13, <1>14, <1>15 DEF Edit

------------------------------------------------------------------------------
\* What the user chose for the subscription old is chosen for new.
ChosenIn(old, new) ==
  /\ new.disabled = old.disabled
  /\ \A x \in old.off \cap old.servers :
       Matches(x, old, new.servers) # {} => Matches(x, old, new.servers) \cap new.off # {}
  /\ \A y \in new.off \cap new.servers : \E x \in old.off : y \in Matches(x, old, new.servers)

\* The subscriptions and the choices of ss are those of tt.
SameChoices(ss, tt) ==
  /\ UrlsOf(tt) = UrlsOf(ss)
  /\ \A u \in UrlsOf(ss) : ChosenIn(ss[FirstAt(ss, u)], tt[FirstAt(tt, u)])

\* A list that stays keeps its choices.
LEMMA ChosenStays == \A s : ChosenIn(s, s)
BY DEF ChosenIn, Matches

\* Startup drops only switches of servers that are not in the subscription.
LEMMA ChosenLoaded ==
  ASSUME NEW f \in Seq(Subscriptions)
  PROVE  SameChoices(f, loadSubscriptions(f))
<1> DEFINE l == loadSubscriptions(f)
<1>1. /\ UrlsOf(l) = UrlsOf(f)
      /\ \A u \in UrlsOf(f) : l[FirstAt(l, u)] = Migrated(f[FirstAt(f, u)])
  BY LoadSubscriptionsOK
<1>2. \A u \in UrlsOf(f) : f[FirstAt(f, u)] \in Subscriptions
  BY FirstAtFound
<1>3. ASSUME NEW s \in Subscriptions PROVE ChosenIn(s, Migrated(s))
  <2>1. /\ Migrated(s).servers = s.servers /\ Migrated(s).disabled = s.disabled
        /\ Migrated(s).off = s.off \cap s.servers
    BY DEF Migrated, Subscriptions
  <2> QED
    BY <2>1 DEF ChosenIn, Matches
<1> QED
  BY <1>1, <1>2, <1>3 DEF SameChoices

\* The first match is a match.
LEMMA FirstOK ==
  ASSUME NEW got, IsFiniteSet(got), NEW o \in Orders(got), NEW M \in SUBSET got, M # {}
  PROVE  First(o, M) \in M
<1>1. Cardinality(got) \in Nat
  BY FS_CardinalityType
<1>2. \A x \in got : o[x] \in Nat
  BY <1>1 DEF Orders
<1> DEFINE S == {o[x] : x \in M}
<1>3. S \in SUBSET Nat /\ S # {}
  BY <1>2
<1>4. PICK n \in S : \A k \in S : n <= k
  BY <1>3, LeastNat
<1>5. PICK x \in M : o[x] = n
  BY <1>4
<1>6. \A y \in M : o[x] <= o[y]
  BY <1>4, <1>5
<1> QED
  BY <1>6 DEF First

\* preserveSubscriptionOptions finds the switched-off servers in the new list.
LEMMA RefreshedOK ==
  ASSUME NEW old \in Subscriptions, NEW got \in SUBSET Servers, IsFiniteSet(got),
         NEW new \in Refreshed(old, got)
  PROVE  new \in Subscriptions /\ new.id = old.id /\ ChosenIn(old, new)
<1>1. PICK off \in OffsKept(old, got) : new = [old EXCEPT !.servers = got, !.off = off]
  BY DEF Refreshed
<1> DEFINE still == {id \in old.off : Matches(id, old, got) # {}}
           F(o, id) == First(o, Matches(id, old, got))
<1>2. PICK o \in Orders(got) : off = {F(o, id) : id \in still}
  BY <1>1 DEF OffsKept
<1>3. \A id \in still : F(o, id) \in Matches(id, old, got)
  BY FirstOK DEF Matches
<1> HIDE DEF F
<1>4. off \subseteq got
  BY <1>2, <1>3 DEF Matches
<1>5. /\ new \in Subscriptions /\ new.id = old.id /\ new.disabled = old.disabled
      /\ new.servers = got /\ new.off = off
  BY <1>1, <1>4 DEF Subscriptions
<1>6. \A x \in still : F(o, x) \in Matches(x, old, got) \cap off
  BY <1>2, <1>3
<1>7. \A y \in off : \E x \in old.off : y \in Matches(x, old, got)
  BY <1>2, <1>3
<1> QED
  BY <1>5, <1>6, <1>7 DEF ChosenIn

\* Lists with the same IDs at the same places have the same first entries.
LEMMA ChosenAligned ==
  ASSUME NEW ss \in Seq(Subscriptions), NEW tt \in Seq(Subscriptions), DOMAIN tt = DOMAIN ss,
         \A i \in DOMAIN ss : tt[i].id = ss[i].id /\ ChosenIn(ss[i], tt[i])
  PROVE  SameChoices(ss, tt)
<1>1. UrlsOf(tt) = UrlsOf(ss)
  BY DEF UrlsOf, IdsOf, Range
<1>2. ASSUME NEW u \in UrlsOf(ss) PROVE ChosenIn(ss[FirstAt(ss, u)], tt[FirstAt(tt, u)])
  <2> DEFINE i == FirstAt(ss, u)
  <2>1. i \in DOMAIN ss /\ ss[i].id = u /\ \A j \in 1..(i - 1) : ss[j].id # u
    BY FirstAtFound
  <2> HIDE DEF i
  <2>2. \A j \in 1..(i - 1) : j \in DOMAIN ss
    BY <2>1
  <2>3. i \in DOMAIN tt /\ tt[i].id = u /\ \A j \in 1..(i - 1) : tt[j].id # tt[i].id
    BY <2>1, <2>2
  <2>4. FirstAt(tt, u) = i
    BY <2>3, FirstAtUnique
  <2> QED
    BY <2>1, <2>4 DEF i
<1> QED
  BY <1>1, <1>2 DEF SameChoices

\* The end of a refresh, whichever downloads it applies.
LEMMA EndRefreshEntries ==
  ASSUME CatalogInv, SubsInv, Hands(cfg, cfgFile, behind), fetching \subseteq Urls,
         NEW outcome, EndRefresh(outcome)
  PROVE  /\ SubsInv' /\ Hands(cfg', cfgFile', behind') /\ behind' \in {"no", "rollback", behind}
         /\ SameChoices(subs, subs')
         /\ \A e \in cfg.servers : Manual(e) => e \in cfg'.servers \/ (e.id \in Offered(subs') /\ Own(e.id) \in cfg'.servers)
<1>1. subs \in Seq(Subscriptions) /\ CfgOK(cfg)
  BY DEF SubsInv, CatalogInv
<1>2. SameChoices(subs, subs)
  BY ChosenStays DEF SameChoices
<1>3. CASE UNCHANGED <<memory, files>>
  BY <1>2, <1>3 DEF SubsInv, memory, files
<1>4. ASSUME NEW got \in [fetching -> UNION {Offers[u] : u \in fetching} \cup {None}],
             \A u \in fetching : got[u] \in Offers[u] \cup {None},
             NEW ss,
             LET fresh(i) == IF /\ subs[i].id \in fetching /\ got[subs[i].id] # None
                                /\ i = FirstAt(subs, subs[i].id)
                             THEN Refreshed(subs[i], got[subs[i].id]) ELSE {subs[i]}
             IN /\ ss \in [DOMAIN subs -> UNION {fresh(i) : i \in DOMAIN subs}]
                /\ \A i \in DOMAIN subs : ss[i] \in fresh(i),
             ApplyCatalog(ss, outcome)
      PROVE  /\ SubsInv' /\ Hands(cfg', cfgFile', behind') /\ behind' \in {"no", "rollback", behind}
             /\ SameChoices(subs, subs')
             /\ \A e \in cfg.servers : Manual(e) => e \in cfg'.servers \/ (e.id \in Offered(subs') /\ Own(e.id) \in cfg'.servers)
  <2>1. \A i \in DOMAIN subs : subs[i] \in Subscriptions
    BY <1>1
  <2>2. \A u \in fetching : got[u] # None => got[u] \in SUBSET Servers /\ IsFiniteSet(got[u])
    BY <1>4, CatalogAssumption
  <2>3. ASSUME NEW i \in DOMAIN subs
        PROVE  ss[i] \in Subscriptions /\ ss[i].id = subs[i].id /\ ChosenIn(subs[i], ss[i])
    <3>1. CASE ss[i] = subs[i]
      BY <2>1, <3>1, ChosenStays
    <3>2. CASE /\ subs[i].id \in fetching /\ got[subs[i].id] # None
               /\ ss[i] \in Refreshed(subs[i], got[subs[i].id])
      BY <2>1, <2>2, <3>2, RefreshedOK
    <3> QED
      BY <1>4, <3>1, <3>2
  <2>4. DOMAIN ss = DOMAIN subs /\ ss = [i \in DOMAIN subs |-> ss[i]]
    BY <1>4
  <2>5. ss \in Seq(Subscriptions)
    <3>1. DOMAIN subs = 1..Len(subs) /\ Len(subs) \in Nat
      BY <1>1
    <3>2. ss \in [1..Len(subs) -> Subscriptions]
      BY <2>3, <2>4, <3>1
    <3> QED
      BY <3>1, <3>2, SeqDef
  <2>6. SameChoices(subs, ss)
    BY <1>1, <2>3, <2>4, <2>5, ChosenAligned
  <2> DEFINE c == pruneStaleServers(resyncServersFromSubs(cfg, ss), ss, TRUE)
             changed == c # cfg
  <2>7. Persist(c, ss, changed, TRUE, outcome) /\ changed \in BOOLEAN /\ (changed \/ c = cfg)
    BY <1>4 DEF ApplyCatalog
  <2>8. \A e \in cfg.servers : Manual(e) =>
          e \in c.servers \/ (e.id \in Offered(ss) /\ e.id \in Servers /\ Own(e.id) \in c.servers)
    BY <2>5, ApplyKeepsHands
  <2> HIDE DEF c, changed
  <2>9. Hands(cfg, c, "rollback")
    BY <2>8 DEF Hands
  <2>10. /\ SubsInv' /\ Hands(cfg', cfgFile', behind') /\ behind' \in {"no", "rollback", behind}
         /\ (cfg' = c /\ subs' = ss /\ outcome = "saved") \/ (cfg' = cfg /\ subs' = subs)
    BY <2>5, <2>7, <2>9, PersistEntries
  <2> QED
    BY <1>2, <2>6, <2>8, <2>10
<1> QED
  BY <1>3, <1>4 DEF EndRefresh

\* What no step but the user's does to the catalog in memory.
KeepsEntries ==
  /\ SameChoices(subs, subs')
  /\ \A e \in cfg.servers : Manual(e) =>
       \/ \E f \in cfg'.servers : f.prof = e.prof /\ f.id \in {e.id, e.prof}
       \/ Overwritten(e) \/ Resynced(e) \/ ResyncLoaded(e)

\* The steps that save a selection, or a configuration without stale entries.
LEMMA SelectionEntries ==
  ASSUME CatalogInv, SubsInv, Hands(cfg, cfgFile, behind), NEW outcome,
         \/ PrepareStart(outcome) \/ CommitSelected(outcome)
         \/ ConnectServer(outcome) \/ StopPrunes(outcome)
  PROVE  /\ SubsInv' /\ Hands(cfg', cfgFile', behind') /\ behind' \in {"no", "rollback", behind}
         /\ KeepsEntries
<1>1. subs \in Seq(Subscriptions) /\ CfgOK(cfg) /\ PickOK
  BY DEF SubsInv, CatalogInv
<1>2. SameChoices(subs, subs)
  BY ChosenStays DEF SameChoices
<1>3. ASSUME NEW c, SaveConfig(c, outcome),
             \A e \in cfg.servers : Manual(e) => e \in c.servers
      PROVE  /\ SubsInv' /\ Hands(cfg', cfgFile', behind') /\ behind' \in {"no", "rollback", behind}
             /\ KeepsEntries
  <2>1. /\ SubsInv' /\ Hands(cfg', cfgFile', behind') /\ behind' \in {"no", "rollback", behind}
        /\ subs' = subs /\ (cfg' = c \/ cfg' = cfg)
    BY <1>3, SaveConfigEntries
  <2> QED
    BY <1>2, <1>3, <2>1 DEF KeepsEntries
<1>4. CASE PrepareStart(outcome)
  BY <1>1, <1>3, <1>4, SelectOK DEF PrepareStart
<1>5. CASE ConnectServer(outcome)
  <2>1. pick.entry.id \in Profiles
    BY <1>1, <1>5 DEF ConnectServer, PickOK, Picks, Entries
  <2> QED
    BY <1>1, <1>3, <1>5, <2>1, SelectOK DEF ConnectServer
<1>6. CASE StopPrunes(outcome)
  <2> DEFINE c == pruneStaleServers(cfg, subs, FALSE)
  <2>1. \A e \in cfg.servers : Manual(e) => e \in c.servers
    BY PruneKeepsHands
  <2>2. SaveConfig(c, outcome)
    BY <1>6 DEF StopPrunes
  <2> HIDE DEF c
  <2> QED
    BY <1>3, <2>1, <2>2
<1>7. CASE CommitSelected(outcome) /\ pick.entry = None
  BY <1>1, <1>3, <1>7, SelectOK DEF CommitSelected
<1>8. CASE CommitSelected(outcome) /\ pick.entry # None
  <2> DEFINE c == [active |-> pick.entry.id, servers |-> upsertServer(cfg.servers, pick.entry)]
  <2>1. SaveConfig(c, outcome)
    BY <1>8 DEF CommitSelected
  <2>2. /\ SubsInv' /\ Hands(cfg', cfgFile', behind') /\ behind' \in {"no", "rollback", behind}
        /\ subs' = subs /\ ((cfg' = c /\ outcome = "saved") \/ cfg' = cfg)
    BY <2>1, SaveConfigEntries
  <2>3. c.servers = {x \in cfg.servers : x.id # pick.entry.id} \cup {pick.entry}
    BY DEF upsertServer
  <2> HIDE DEF c
  <2>4. ASSUME NEW e \in cfg.servers PROVE e \in cfg'.servers \/ Overwritten(e)
    BY <1>8, <2>2, <2>3 DEF Overwritten
  <2> QED
    BY <1>2, <2>2, <2>4 DEF KeepsEntries
<1> QED
  BY <1>4, <1>5, <1>6, <1>7, <1>8

\* A start brings back the subscriptions, the choices and what was entered by
\* hand from the two files, whichever of its saves fail.
LEMMA RestartEntries ==
  ASSUME CatalogInv, SubsInv, Hands(cfg, cfgFile, behind), Restart
  PROVE  /\ SubsInv' /\ Hands(cfg', cfgFile', behind') /\ behind' \in {"no", "startup"}
         /\ KeepsEntries
<1> DEFINE loaded == loadConfig(cfgFile)
           pruned == pruneStaleServers(loaded, subs', FALSE)
<1>1. CfgOK(cfgFile) /\ CfgOK(cfg)
  BY DEF CatalogInv
<1>2. subs' = loadSubscriptions(subsFile) /\ subsFile' \in {subsFile, subs'}
  BY DEF Restart
<1>3. SubsInv' /\ subs' \in Seq(Subscriptions)
  BY <1>2, LoadSubscriptionsOK DEF SubsInv
<1>4. SameChoices(subs, subs')
  <2>1. SameChoices(subs, subs)
    BY ChosenStays DEF SameChoices
  <2> QED
    BY <1>2, <2>1, ChosenLoaded DEF SubsInv
<1>5. CfgOK(loaded) /\ loaded.servers = {Own(e.prof) : e \in cfgFile.servers}
  BY <1>1, LoadOK DEF loadConfig
<1>6. cfg' = clearDisabled(pruned, subs') /\ cfgFile' \in {cfgFile, pruned, cfg'}
  BY DEF Restart, Recovered
<1> HIDE DEF loaded
<1>7. /\ CfgOK(pruned) /\ pruned.servers \subseteq loaded.servers
      /\ \A e \in loaded.servers : Manual(e) => e \in pruned.servers
  BY <1>5, PruneOK, PruneKeepsHands
<1> HIDE DEF pruned
<1>8. cfg'.servers = pruned.servers
  BY <1>6, <1>7, ClearOK
<1>9. Hands(cfg', cfgFile', behind')
  <2> SUFFICES ASSUME NEW e \in cfg'.servers PROVE \E x \in cfgFile'.servers : x.prof = e.prof
    BY DEF Hands
  <2>1. PICK x \in cfgFile.servers : e = Own(x.prof)
    BY <1>5, <1>7, <1>8
  <2>2. x.prof = e.prof
    BY <2>1 DEF Own
  <2> QED
    BY <1>6, <1>8, <2>2
<1>10. ASSUME NEW e \in cfg.servers, Manual(e)
       PROVE  (\E f \in cfg'.servers : f.prof = e.prof /\ f.id = e.prof) \/ ResyncLoaded(e)
  <2>1. CASE behind = "rollback" /\ e.id \in Servers
    BY <2>1 DEF ResyncLoaded
  <2>2. ASSUME NEW x \in cfgFile.servers, x.prof = e.prof
        PROVE  \E f \in cfg'.servers : f.prof = e.prof /\ f.id = e.prof
    <3>1. /\ Own(e.prof) \in loaded.servers /\ Manual(Own(e.prof))
          /\ Own(e.prof).id = e.prof /\ Own(e.prof).prof = e.prof
      BY <1>5, <1>10, <2>2 DEF Own, Manual
    <3> QED
      BY <1>7, <1>8, <3>1
  <2> QED
    BY <1>10, <2>1, <2>2 DEF Hands
<1>11. behind' \in {"no", "startup"}
  BY DEF Restart
<1> QED
  BY <1>3, <1>4, <1>9, <1>10, <1>11 DEF KeepsEntries

\* Every step preserves the invariant and keeps entries and choices, unless it
\* is the user's own.
LEMMA EntriesStep ==
  ASSUME CatalogInv, CatalogInv', EntriesInv, [Next]_vars
  PROVE  EntriesInv' /\ (KeepsEntries \/ UserEdit)
<1> USE DEF EntriesInv
<1>1. UNCHANGED memory => KeepsEntries
  BY ChosenStays DEF KeepsEntries, SameChoices, memory
<1>2. UNCHANGED <<memory, files>> => SubsInv' /\ Hands(cfg', cfgFile', behind') /\ behind' \in {"no", "rollback", "startup"}
  BY DEF SubsInv, memory, files, TypeOK
<1>3. ASSUME /\ SubsInv' /\ Hands(cfg', cfgFile', behind')
             /\ behind' \in {"no", "rollback", "startup"} /\ up' \in {"no", "yes"}
             /\ fetching' \subseteq Urls /\ events' \in 0..MaxEvents
      PROVE  EntriesInv'
  BY <1>3 DEF CatalogInv, CfgOK, PickOK, TypeOK, SubsInv
<1>4. Event => events' \in 0..MaxEvents
  BY CatalogAssumption DEF Event, TypeOK
<1>5. ASSUME NEW outcome \in Outcomes, Event, Edit(outcome) PROVE EntriesInv' /\ (KeepsEntries \/ UserEdit)
  <2>1. /\ SubsInv' /\ Hands(cfg', cfgFile', behind') /\ behind' \in {"no", "rollback", behind}
        /\ UNCHANGED <<up, fetching>>
        /\ outcome = "saved" \/ (cfg' = cfg /\ subs' = subs)
    BY <1>5, EditEntries
  <2>2. EntriesInv'
    BY <1>3, <1>4, <1>5, <2>1 DEF TypeOK
  <2>3. KeepsEntries \/ UserEdit
    BY <1>1, <1>5, <2>1 DEF UserEdit, memory
  <2> QED
    BY <2>2, <2>3
<1>6. ASSUME NEW outcome \in Outcomes, IF outcome = "saved" THEN UNCHANGED events ELSE Event,
             EndRefresh(outcome)
      PROVE  EntriesInv' /\ KeepsEntries
  <2>1. events' \in 0..MaxEvents
    BY <1>4, <1>6 DEF TypeOK
  <2>2. /\ SubsInv' /\ Hands(cfg', cfgFile', behind') /\ behind' \in {"no", "rollback", behind}
        /\ KeepsEntries
    <3>1. /\ SubsInv' /\ Hands(cfg', cfgFile', behind') /\ behind' \in {"no", "rollback", behind}
          /\ SameChoices(subs, subs')
          /\ \A e \in cfg.servers : Manual(e) => e \in cfg'.servers \/ (e.id \in Offered(subs') /\ Own(e.id) \in cfg'.servers)
      BY <1>6, EndRefreshEntries DEF TypeOK
    <3>2. fetching # {} /\ fetching' = {}
      BY <1>6 DEF EndRefresh
    <3> QED
      BY <3>1, <3>2 DEF KeepsEntries, Resynced
  <2>3. up' = up /\ fetching' = {}
    BY <1>6 DEF EndRefresh
  <2> QED
    BY <1>3, <2>1, <2>2, <2>3 DEF TypeOK
<1>7. ASSUME NEW outcome \in Outcomes, IF outcome = "saved" THEN UNCHANGED events ELSE Event,
             \/ PrepareStart(outcome) \/ StopPrunes(outcome)
             \/ CommitSelected(outcome) \/ ConnectServer(outcome)
      PROVE  EntriesInv' /\ KeepsEntries
  <2>1. events' \in 0..MaxEvents
    BY <1>4, <1>7 DEF TypeOK
  <2>2. /\ SubsInv' /\ Hands(cfg', cfgFile', behind') /\ behind' \in {"no", "rollback", behind}
        /\ KeepsEntries
    BY <1>7, SelectionEntries
  <2>3. UNCHANGED <<up, fetching>>
    BY <1>7 DEF PrepareStart, StopPrunes, CommitSelected, ConnectServer, idle
  <2> QED
    BY <1>3, <2>1, <2>2, <2>3 DEF TypeOK
<1>8. CASE UNCHANGED <<up, memory, files, fetching, events>>
  <2>1. /\ SubsInv' /\ Hands(cfg', cfgFile', behind') /\ behind' \in {"no", "rollback", "startup"}
        /\ KeepsEntries
    BY <1>1, <1>2, <1>8
  <2> QED
    BY <1>3, <1>8, <2>1 DEF TypeOK
<1>9. CASE BeginRefresh
  <2>1. UrlsOf(subs) \subseteq Urls
    <3>1. Range(subs) \in SUBSET Subscriptions
      BY RangeOfSeq DEF SubsInv
    <3> QED
      BY <3>1 DEF UrlsOf, IdsOf, Subscriptions
  <2>2. {s.id : s \in {t \in Range(subs) : t.disabled = "no"}} \subseteq UrlsOf(subs)
    BY DEF UrlsOf, IdsOf
  <2>3. fetching' \subseteq Urls
    BY <1>9, <2>1, <2>2 DEF BeginRefresh
  <2>4. /\ SubsInv' /\ Hands(cfg', cfgFile', behind') /\ behind' \in {"no", "rollback", "startup"}
        /\ KeepsEntries
    BY <1>1, <1>2, <1>9 DEF BeginRefresh
  <2> QED
    BY <1>3, <1>9, <2>3, <2>4 DEF BeginRefresh, TypeOK
<1>10. CASE Crash
  <2>1. /\ SubsInv' /\ Hands(cfg', cfgFile', behind') /\ behind' \in {"no", "rollback", "startup"}
        /\ KeepsEntries
    BY <1>1, <1>2, <1>10 DEF Crash
  <2> QED
    BY <1>3, <1>4, <1>10, <2>1 DEF Crash, Event
<1>11. CASE Restart
  <2>1. /\ SubsInv' /\ Hands(cfg', cfgFile', behind') /\ behind' \in {"no", "startup"}
        /\ KeepsEntries
    BY <1>11, RestartEntries
  <2> QED
    BY <1>3, <1>11, <2>1 DEF Restart, TypeOK
<1>12. ASSUME \/ \E u \in Urls, x \in Servers : ConnectSubscription(u, x)
              \/ \E id \in Profiles : ConnectEntry(id)
              \/ \E at, exclude, auto : Choose(at, exclude, auto)
              \/ UNCHANGED vars
       PROVE UNCHANGED <<up, memory, files, fetching, events>>
  BY <1>12 DEF ConnectSubscription, ConnectEntry, Choose, vars
<1> QED
  BY <1>5, <1>6, <1>7, <1>8, <1>9, <1>10, <1>11, <1>12 DEF Next

\* The first start satisfies the invariant.
LEMMA EntriesInit == Init => EntriesInv
<1> SUFFICES ASSUME Init PROVE EntriesInv
  OBVIOUS
<1>1. SubsInv
  BY CatalogAssumption DEF Init, SubsInv
<1>2. Hands(cfg, cfgFile, behind)
  BY DEF Init, Hands
<1>3. TypeOK
  <2>1. cfg \in Configs /\ cfgFile \in Configs
    BY DEF Init, Configs
  <2>2. events \in 0..MaxEvents
    BY CatalogAssumption DEF Init
  <2> QED
    BY <1>1, <2>1, <2>2 DEF Init, SubsInv, TypeOK
<1> QED
  BY <1>1, <1>2, <1>3 DEF EntriesInv

\* The invariant holds in every state.
THEOREM EntriesInvariance == Spec => []EntriesInv
<1>1. CatalogInv /\ CatalogInv' /\ EntriesInv /\ [Next]_vars => EntriesInv'
  BY EntriesStep
<1> QED
  BY <1>1, EntriesInit, CatalogInvariance, PTL DEF Spec

\* Whatever save failed and whenever the manager died, memory and both files
\* hold a catalog that startup can load.
THEOREM CatalogTypeOK == Spec => []TypeOK
<1>1. EntriesInv => TypeOK
  BY DEF EntriesInv
<1> QED
  BY <1>1, EntriesInvariance, PTL

\* Whatever refreshes, failed saves, crashes and restarts follow, for a server
\* that the user switched off one of those with its ID, or its name and address,
\* is off, and no other is.
THEOREM ChoicesKeptHolds == Spec => ChoicesKept
<1> DEFINE A == \/ \A u \in UrlsOf(subs) \cap UrlsOf(subs') :
                     LET old == subs[FirstAt(subs, u)]
                         new == subs'[FirstAt(subs', u)]
                     IN /\ new.disabled = old.disabled
                        /\ \A x \in old.off \cap old.servers :
                             Matches(x, old, new.servers) # {} =>
                               Matches(x, old, new.servers) \cap new.off # {}
                        /\ \A y \in new.off \cap new.servers :
                             \E x \in old.off : y \in Matches(x, old, new.servers)
                \/ UserEdit
<1>1. KeepsEntries \/ UserEdit => A
  BY DEF KeepsEntries, SameChoices, ChosenIn
<1>2. CatalogInv /\ CatalogInv' /\ EntriesInv /\ [Next]_vars => [A]_vars
  BY <1>1, EntriesStep
<1> QED
  BY <1>2, EntriesInvariance, CatalogInvariance, PTL DEF Spec, ChoicesKept

\* Subscriptions and servers entered by hand go at the user's request only, but
\* for what the commit of a selection or the resync of a refresh overwrites.
THEOREM UserEntriesKeptHolds == Spec => UserEntriesKept
<1> DEFINE A == \/ /\ UrlsOf(subs') = UrlsOf(subs)
                   /\ \A e \in cfg.servers : Manual(e) =>
                        \/ \E f \in cfg'.servers : f.prof = e.prof /\ f.id \in {e.id, e.prof}
                        \/ Overwritten(e) \/ Resynced(e) \/ ResyncLoaded(e)
                \/ UserEdit
<1>1. KeepsEntries \/ UserEdit => A
  BY DEF KeepsEntries, SameChoices
<1>2. CatalogInv /\ CatalogInv' /\ EntriesInv /\ [Next]_vars => [A]_vars
  BY <1>1, EntriesStep
<1> QED
  BY <1>2, EntriesInvariance, CatalogInvariance, PTL DEF Spec, UserEntriesKept
==============================================================================
