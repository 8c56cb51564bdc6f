------------------------------- MODULE Bypass -------------------------------
(***************************************************************************)
(* The bypass rules: the domains that the engine routes around the tunnel. *)
(* They follow from the downloaded list (cfg.BypassCache) and two of the   *)
(* settings.  A refresh changes the list and updates the running engine; a *)
(* change of the settings restarts it; and whoever starts the engine does  *)
(* so from a snapshot of the configuration that may be out of date by the  *)
(* time the engine runs.                                                   *)
(*                                                                         *)
(* UpdateBypassRules waits for pm.mu, which Start holds to its end, while  *)
(* its caller holds s.mu: Start and every critical section of s.mu are one *)
(* step each.                                                              *)
(***************************************************************************)
CONSTANTS
  Callers,    \* requests and goroutines that start the VPN
  Lists,      \* lists of domains, the embedded one included
  Choices,    \* values of BypassRouteRussia and BypassDomains
  RoutesOff,  \* those of Choices with BypassRouteRussia off
  NoRules     \* the rules of an engine that does not run

ASSUME BypassAssumption == RoutesOff \subseteq Choices

VARIABLES
  conf,     \* s.cfg: its list and its choice
  file,     \* config.json
  lagging,  \* "yes": the save that restores the list has failed
  rules,    \* the rules of the running engine
  missed,   \* "yes": the engine was not told of the present configuration
  doing,    \* doing[p]: the next step of caller p
  snap      \* snap[p]: the configuration that p starts from

bypassVars == <<conf, file, lagging, rules, missed, doing, snap>>

Confs == [list : Lists, choice : Choices]

\* xrayRoutingRules: the list counts only if BypassRouteRussia is on.
Rules(c) == [list |-> IF c.choice \in RoutesOff THEN NoRules ELSE c.list, choice |-> c.choice]
bypassDomainsFor(c) == Rules(c)

running == rules # NoRules

BypassInit ==
  /\ conf \in Confs /\ file = conf /\ lagging = "no"
  /\ rules = NoRules /\ missed = "no"
  /\ doing = [p \in Callers |-> "nothing"] /\ snap = [p \in Callers |-> conf]

Does(p, from, to) == doing[p] = from /\ doing' = [doing EXCEPT ![p] = to]
------------------------------------------------------------------------------
\* Any save of the configuration by another handler.
ConfigSaved ==
  /\ file' = conf /\ lagging' = "no"
  /\ UNCHANGED <<conf, rules, missed, doing, snap>>

\* Mutant of refreshBypassLists: the old list is restored in memory only.
refreshBypassListsForgets(l) ==
  /\ l # conf.list
  /\ \/ /\ conf' = [conf EXCEPT !.list = l] /\ file' = conf' /\ lagging' = "no"
        /\ rules' = IF running THEN Rules(conf') ELSE rules
        /\ missed' = "no"
     \/ /\ running /\ file' = [conf EXCEPT !.list = l]
        /\ UNCHANGED <<conf, lagging, rules, missed>>
  /\ UNCHANGED <<doing, snap>>

\* refreshBypassLists with another list l: saved and applied; not saved; or saved
\* and not applied, when the list is restored and saved once more.
refreshBypassLists(l) ==
  /\ l # conf.list
  /\ \/ /\ conf' = [conf EXCEPT !.list = l] /\ file' = conf' /\ lagging' = "no"
        /\ rules' = IF running THEN Rules(conf') ELSE rules
        /\ missed' = "no"
     \/ /\ running
        /\ \/ file' = conf /\ lagging' = "no"
           \/ file' = [conf EXCEPT !.list = l] /\ lagging' = "yes"
        /\ UNCHANGED <<conf, rules, missed>>
  /\ UNCHANGED <<doing, snap>>

\* PATCH /api/settings that changes the bypass, up to the unlock of s.mu.
handleSettings(p, c) ==
  /\ Does(p, "nothing", "look")
  /\ c # conf.choice /\ conf' = [conf EXCEPT !.choice = c]
  /\ file' = conf' /\ lagging' = "no" /\ snap' = [snap EXCEPT ![p] = conf']
  /\ UNCHANGED <<rules, missed>>

\* TunnelRunning, which decides on the restart.
SettingsLook(p) ==
  /\ Does(p, "look", IF running THEN "stop" ELSE "nothing")
  /\ UNCHANGED <<conf, file, lagging, rules, missed, snap>>

SettingsStop(p) ==
  /\ Does(p, "stop", "start")
  /\ rules' = NoRules /\ missed' = "no"
  /\ UNCHANGED <<conf, file, lagging, snap>>

\* POST /api/config replaces the configuration and tells the engine nothing.
handleConfig(c) ==
  /\ conf' = c /\ file' = c /\ lagging' = "no"
  /\ missed' = IF running THEN "yes" ELSE missed
  /\ UNCHANGED <<rules, doing, snap>>
------------------------------------------------------------------------------
\* handleStart, handleRestart, startVPNInternal, connectServer, replaceStoppedTunnel
\* and the start at boot take a snapshot under s.mu.
Snapshot(p) ==
  /\ Does(p, "nothing", "start")
  /\ snap' = [snap EXCEPT ![p] = conf]
  /\ UNCHANGED <<conf, file, lagging, rules, missed>>

\* pm.Start fails, if only because the VPN already runs.
StartFails(p) ==
  /\ Does(p, "start", "nothing")
  /\ UNCHANGED <<conf, file, lagging, rules, missed, snap>>

StartSucceeds(p) ==
  /\ ~running /\ Does(p, "start", "sync")
  /\ rules' = Rules(snap[p])
  /\ UNCHANGED <<conf, file, lagging, missed, snap>>

\* Mutant of startManagedVPN: the rules are those of the snapshot.
startManagedVPNTrusts(p) ==
  /\ Does(p, "sync", "nothing")
  /\ UNCHANGED <<conf, file, lagging, rules, missed, snap>>

\* The end of startManagedVPN: rules that differ from the snapshot's are applied
\* to whatever engine runs by now, if it accepts them.
startManagedVPN(p) ==
  /\ Does(p, "sync", "nothing")
  /\ \/ bypassDomainsFor(snap[p]) = bypassDomainsFor(conf) /\ UNCHANGED <<rules, missed>>
     \/ /\ bypassDomainsFor(snap[p]) # bypassDomainsFor(conf)
        /\ IF running THEN \/ rules' = Rules(conf) /\ missed' = "no"
                           \/ missed' = "yes" /\ UNCHANGED rules
           ELSE UNCHANGED <<rules, missed>>
  /\ UNCHANGED <<conf, file, lagging, snap>>

\* Any Stop.
VpnStops ==
  /\ running /\ rules' = NoRules /\ missed' = "no"
  /\ UNCHANGED <<conf, file, lagging, doing, snap>>

\* The process dies and starts from its file.
BypassRestarts ==
  /\ conf' = file /\ lagging' = "no" /\ rules' = NoRules /\ missed' = "no"
  /\ doing' = [p \in Callers |-> "nothing"] /\ snap' = [p \in Callers |-> file]
  /\ UNCHANGED file

BypassNext ==
  \/ ConfigSaved \/ VpnStops \/ BypassRestarts
  \/ \E l \in Lists : refreshBypassLists(l)
  \/ \E c \in Confs : handleConfig(c)
  \/ \E p \in Callers :
       \/ \E c \in Choices : handleSettings(p, c)
       \/ SettingsLook(p) \/ SettingsStop(p)
       \/ Snapshot(p) \/ StartFails(p) \/ StartSucceeds(p) \/ startManagedVPN(p)

BypassSpec == BypassInit /\ [][BypassNext]_bypassVars
------------------------------------------------------------------------------
\* Every variable has its type: the engine has the rules of a whole configuration.
BypassTypeOK ==
  /\ conf \in Confs /\ file \in Confs /\ snap \in [Callers -> Confs]
  /\ rules \in {Rules(c) : c \in Confs} \cup {NoRules}
  /\ lagging \in {"no", "yes"} /\ missed \in {"no", "yes"}
  /\ doing \in [Callers -> {"nothing", "look", "stop", "start", "sync"}]

\* Whatever refreshes, changes of the settings, starts from old snapshots and stops
\* race each other, the engine routes by the present list and settings, or somebody
\* is bound to see that it does not: a change of the settings that is about to
\* restart it, or a start that has used this snapshot and is about to compare it.
\* Left out are an engine that refused its rules and POST /api/config, which does
\* not look at the engine.
BypassApplied ==
  running /\ missed = "no" /\ rules # Rules(conf) =>
    \E p \in Callers :
      \/ doing[p] \in {"look", "stop"}
      \/ doing[p] = "sync" /\ rules = Rules(snap[p])

\* A list or a setting that is in use survives a crash, and one that was given up
\* does not come back: the file holds the configuration in memory.  The exception
\* is refreshBypassLists when it has saved a new list that the engine then
\* refused, and the save that restores the old one failed.
BypassSaved == lagging = "no" => file = conf
==============================================================================
