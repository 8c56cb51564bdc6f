------------------------------- MODULE Control -------------------------------
(***************************************************************************)
(* Who turns the VPN on and off: the HTTP handlers Start, Stop, Restart,   *)
(* Connect, Settings and Disable (api.go), the autostart at boot, which is *)
(* a Start, and the failover controller's outerTick and healthTick         *)
(* (failover.go).  The tunnel itself is taken from Tunnel:                 *)
(* ProcessManager's Start and Stop are serialised by pm.lifecycleMu and    *)
(* are one step here.  Probe batches, disk writes and sleeps separate the  *)
(* steps of a goroutine; s.mu, fc.mu and pingMu are only held inside one.  *)
(* Which server is chosen makes no difference here, only whether one is.   *)
(*                                                                         *)
(* pm.generation and pingStopGen are counters that are only compared with  *)
(* an earlier reading, so a reading is modelled by whether the counter     *)
(* still has that value: "current", or "past" once it was incremented.     *)
(***************************************************************************)
EXTENDS Naturals

CONSTANTS
  Requests,      \* the goroutines of HTTP handlers
  Outer, Health, \* the ticks: outerMu and healthMu make each one sequential
  Hysteresis,    \* FailoverHysteresis
  FailLimit      \* FailoverVPNSwapAfterFails

Procs == Requests \cup {Outer, Health}
Readings == {"none", "current", "past"}

ASSUME ControlAssumption ==
  /\ Outer \notin Requests /\ Health \notin Requests \cup {Outer}
  /\ Hysteresis \in Nat \ {0} /\ FailLimit \in Nat \ {0}

VARIABLES
  running,                  \* of ProcessManager
  active,                   \* "yes" if cfg.ActiveServer names a server
  enabled, tunnelEnabled,   \* the two switches of the controller
  proposedOn, pending,      \* outerTick's hysteresis
  startBackoff, swapBackoff,\* "yes" before nextStartAttempt, nextSwapAttempt
  healthOK, fails, healthGeneration,   \* VPNHealthOK, VPNHealthFails
  pc,                       \* where each goroutine is
  seen,                     \* its reading of pingStopGen
  cfg,                      \* the same of its cfgSnap
  openOK,                   \* outerTick's probe result,
  wasRunning,               \* and its reading of pm.running
  probed,                   \* healthTick's reading of pm.generation
  opens, streak, proved     \* history: open probes in a row, failed ones, a good one

tunnelVars == <<running, healthGeneration, probed, streak, proved>>
switchVars == <<enabled, tunnelEnabled>>
outerVars == <<proposedOn, pending, openOK, wasRunning, opens>>
healthVars == <<healthOK, fails>>
backoffVars == <<startBackoff, swapBackoff>>
selectVars == <<active, seen, cfg>>
vars == <<tunnelVars, switchVars, outerVars, healthVars, backoffVars, selectVars, pc>>

YesNo == {"no", "yes"}
Places == {"idle", "prepare", "select", "snap", "start", "started", "failed", "stopping",
           "restarting", "disabling", "connect", "settings", "restop", "probed", "decide", "probing",
           "confirming", "swap", "replace"}

Init ==
  /\ running = "no"
  /\ active \in YesNo
  /\ enabled \in YesNo /\ tunnelEnabled \in YesNo
  /\ proposedOn = "no" /\ pending = 0
  /\ startBackoff = "no" /\ swapBackoff = "no"
  /\ healthOK = "no" /\ fails = 0 /\ healthGeneration = "past"
  /\ pc = [p \in Procs |-> "idle"]
  /\ seen = [p \in Procs |-> "none"] /\ cfg = [p \in Procs |-> "no"]
  /\ openOK = "no" /\ wasRunning = "no" /\ probed = "none"
  /\ opens = 0 /\ streak = 0 /\ proved = "no"

Goes(p, where) == pc' = [pc EXCEPT ![p] = where]

Aged(reading) == IF reading = "current" THEN "past" ELSE reading

\* Every reading of pm.generation becomes one of the past.
TunnelChanges(on) ==
  /\ running' = on
  /\ healthGeneration' = "past" /\ probed' = Aged(probed)
  /\ streak' = 0 /\ proved' = "no"

\* ProcessManager's Stop does nothing if nothing runs.
TunnelDown == IF running = "yes" THEN TunnelChanges("no") ELSE UNCHANGED tunnelVars
-----------------------------------------------------------------------------
\* Starting: prepareServerForStart and startManagedVPN, run by handleStart
\* and by outerTick; replaceStoppedTunnel enters at "select".

\* The goroutine remembers pingStopGen and clears the selection, unless the
\* cleared configuration cannot be saved.
Prepare(p) ==
  /\ pc[p] = "prepare"
  /\ \/ /\ seen' = [seen EXCEPT ![p] = "current"]
        /\ active' = "no"
        /\ Goes(p, "select")
     \/ Goes(p, "failed") /\ UNCHANGED <<seen, active>>
  /\ UNCHANGED <<tunnelVars, switchVars, outerVars, healthVars, backoffVars, cfg>>

\* The probes are over and no stop came meanwhile: the best server that they
\* found is saved as the active one.  (chooseAlternativeServer does not ask for
\* a stop: in the mode "fastest" only a batch that is under way is cancelled.)
SelectFinds(p) ==
  /\ pc[p] = "select" /\ (p # Health => seen[p] = "current")
  /\ active' = "yes"
  /\ Goes(p, "snap")
  /\ UNCHANGED <<tunnelVars, switchVars, outerVars, healthVars, backoffVars, seen, cfg>>

\* A stop came, no server answers, or the selection cannot be saved.
SelectFails(p) ==
  /\ pc[p] = "select"
  /\ seen' = [seen EXCEPT ![p] = "none"]
  /\ Goes(p, "failed")
  /\ UNCHANGED <<tunnelVars, switchVars, outerVars, healthVars, backoffVars,
                 active, cfg>>

Snap(p) ==
  /\ pc[p] = "snap"
  /\ cfg' = [cfg EXCEPT ![p] = active]
  /\ Goes(p, "start")
  /\ UNCHANGED <<tunnelVars, switchVars, outerVars, healthVars, backoffVars,
                 active, seen>>

\* pm.Start succeeds; syncing the bypass rules afterwards may still fail.
StartSucceeds(p) ==
  /\ pc[p] = "start" /\ running = "no" /\ cfg[p] = "yes"
  /\ TunnelChanges("yes")
  /\ \E where \in {"started", "failed"} : Goes(p, where)
  /\ seen' = [seen EXCEPT ![p] = "none"] /\ cfg' = [cfg EXCEPT ![p] = "no"]
  /\ UNCHANGED <<switchVars, outerVars, healthVars, backoffVars, active>>

\* It is running already, no server is active, or the engine does not start.
StartFails(p) ==
  /\ pc[p] = "start"
  /\ Goes(p, "failed")
  /\ seen' = [seen EXCEPT ![p] = "none"] /\ cfg' = [cfg EXCEPT ![p] = "no"]
  /\ UNCHANGED <<tunnelVars, switchVars, outerVars, healthVars, backoffVars,
                 active>>
-----------------------------------------------------------------------------
\* The HTTP handlers.

ResetBackoff == startBackoff' = "no" /\ swapBackoff' = "no"

HandleStart(r) ==
  /\ pc[r] = "idle" /\ Goes(r, "prepare") /\ ResetBackoff
  /\ UNCHANGED <<tunnelVars, switchVars, outerVars, healthVars, selectVars>>

\* Stop and Restart begin with cancelPingRun.
HandleStop(r) ==
  /\ pc[r] = "idle"
  /\ seen' = [p \in Procs |-> Aged(seen[p])]
  /\ \E where \in {"stopping", "restarting"} : Goes(r, where)
  /\ UNCHANGED <<tunnelVars, switchVars, outerVars, healthVars, backoffVars,
                 active, cfg>>

\* Stop prunes an active server that has left its subscription; Restart goes
\* on unless closing the engine failed.
StopReturns(r) ==
  /\ pc[r] \in {"stopping", "restarting"}
  /\ TunnelDown
  /\ \/ Goes(r, "idle") /\ active' \in {active, IF pc[r] = "stopping" THEN "no" ELSE active}
     \/ pc[r] = "restarting" /\ Goes(r, "snap") /\ UNCHANGED active
  /\ UNCHANGED <<switchVars, outerVars, healthVars, backoffVars, seen, cfg>>

\* connectServer saves the chosen server with its snapshot, handleSettings
\* the settings of the active one; both then look whether the VPN runs.
HandleConnect(r) ==
  /\ pc[r] = "idle"
  /\ active' = "yes" /\ cfg' = [cfg EXCEPT ![r] = "yes"]
  /\ Goes(r, "connect")
  /\ UNCHANGED <<tunnelVars, switchVars, outerVars, healthVars, backoffVars, seen>>

HandleSettings(r) ==
  /\ pc[r] = "idle"
  /\ cfg' = [cfg EXCEPT ![r] = active]
  /\ Goes(r, "settings")
  /\ UNCHANGED <<tunnelVars, switchVars, outerVars, healthVars, backoffVars,
                 active, seen>>

\* A running VPN is stopped and started again; if none runs, Connect starts
\* it and Settings is done.
LooksRunning(r) ==
  /\ pc[r] \in {"connect", "settings"} /\ running = "yes"
  /\ Goes(r, "restop")
  /\ UNCHANGED <<tunnelVars, switchVars, outerVars, healthVars, backoffVars, selectVars>>

LooksStopped(r) ==
  /\ pc[r] \in {"connect", "settings"} /\ running = "no"
  /\ IF pc[r] = "connect"
     THEN Goes(r, "start") /\ ResetBackoff /\ UNCHANGED cfg
     ELSE Goes(r, "idle") /\ cfg' = [cfg EXCEPT ![r] = "no"] /\ UNCHANGED backoffVars
  /\ UNCHANGED <<tunnelVars, switchVars, outerVars, healthVars, active, seen>>

Restops(r) ==
  /\ pc[r] = "restop"
  /\ TunnelDown
  /\ Goes(r, "start")
  /\ UNCHANGED <<switchVars, outerVars, healthVars, backoffVars, selectVars>>

\* A subscription or server is disabled that the active server needs: the
\* selection is cleared, then the VPN is stopped.
HandleDisable(r) ==
  /\ pc[r] = "idle" /\ active = "yes"
  /\ active' = "no"
  /\ Goes(r, "disabling")
  /\ UNCHANGED <<tunnelVars, switchVars, outerVars, healthVars, backoffVars, seen, cfg>>

Disables(r) ==
  /\ pc[r] = "disabling"
  /\ TunnelDown
  /\ Goes(r, "idle")
  /\ UNCHANGED <<switchVars, outerVars, healthVars, backoffVars, selectVars>>

\* The handlers that change the selection and leave the VPN alone: automatic
\* selection, deleting a server, replacing the configuration.
Reselects(r) ==
  /\ pc[r] = "idle"
  /\ active' \in YesNo
  /\ UNCHANGED <<tunnelVars, switchVars, outerVars, healthVars, backoffVars, seen, cfg, pc>>

Responds(r) ==
  /\ pc[r] \in {"started", "failed"} /\ Goes(r, "idle")
  /\ UNCHANGED <<tunnelVars, switchVars, outerVars, healthVars, backoffVars, selectVars>>

\* handleFailover: SetEnabled, then SetTunnelFailoverEnabled.  The ticks that
\* they launch may begin at any time anyway.
SetEnabled(on) ==
  /\ enabled' = on
  /\ UNCHANGED <<tunnelVars, tunnelEnabled, outerVars, healthVars, backoffVars,
                 selectVars, pc>>

SetTunnelFailoverEnabled(on) ==
  /\ tunnelEnabled' = on
  /\ IF on = "no" THEN healthOK' = "no" /\ fails' = 0 ELSE UNCHANGED <<healthOK, fails>>
  /\ UNCHANGED <<tunnelVars, enabled, outerVars, backoffVars, selectVars, pc>>
-----------------------------------------------------------------------------
\* outerTick.

\* runProbes for the open sites.  (The whitelist probes only word the reason:
\* without open access the VPN is wanted either way.)
OuterProbes ==
  /\ pc[Outer] = "idle"
  /\ openOK' \in YesNo
  /\ opens' = IF openOK' = "no" THEN 0 ELSE IF opens < Hysteresis THEN opens + 1 ELSE opens
  /\ Goes(Outer, "probed")
  /\ UNCHANGED <<tunnelVars, switchVars, proposedOn, pending, wasRunning,
                 healthVars, backoffVars, selectVars>>

\* checkWAN reads pm.running when the probes are over.
OuterReads ==
  /\ pc[Outer] = "probed"
  /\ wasRunning' = running
  /\ Goes(Outer, "decide")
  /\ UNCHANGED <<tunnelVars, switchVars, proposedOn, pending, openOK, opens,
                 healthVars, backoffVars, selectVars>>

WantOn == IF openOK = "yes" THEN "no" ELSE "yes"

\* The tick ends: its readings are forgotten.
OuterReturns == Goes(Outer, "idle") /\ openOK' = "no" /\ wasRunning' = "no"

\* Mutant of OuterSettles: the count is not started again.
OuterSettlesKeepsCount ==
  /\ pc[Outer] = "decide"
  /\ enabled = "no" \/ WantOn = wasRunning
  /\ OuterReturns
  /\ UNCHANGED <<tunnelVars, switchVars, proposedOn, pending, opens, healthVars, backoffVars,
                 selectVars>>

\* The policy is off or the VPN is as wanted: the count starts again.
OuterSettles ==
  /\ pc[Outer] = "decide"
  /\ enabled = "no" \/ WantOn = wasRunning
  /\ pending' = 0
  /\ OuterReturns
  /\ UNCHANGED <<tunnelVars, switchVars, proposedOn, opens, healthVars, backoffVars, selectVars>>

\* Mutant of Proposals: what was proposed before makes no difference.
ProposalsOfAny == pending + 1

\* How often the change has been proposed in a row, this time included.
Proposals == IF proposedOn = WantOn THEN pending + 1 ELSE 1

OuterProposes == pc[Outer] = "decide" /\ enabled = "yes" /\ WantOn # wasRunning

OuterWaits ==
  /\ OuterProposes
  /\ proposedOn' = WantOn
  /\ \/ Proposals < Hysteresis /\ pending' = Proposals
     \/ /\ Proposals >= Hysteresis /\ WantOn = "yes" /\ startBackoff = "yes"
        /\ pending' = 0
  /\ OuterReturns
  /\ UNCHANGED <<tunnelVars, switchVars, opens, healthVars, backoffVars, selectVars>>

\* The change is confirmed and, if it is a start, not in backoff.
OuterDecides ==
  /\ OuterProposes
  /\ Proposals >= Hysteresis
  /\ WantOn = "yes" => startBackoff = "no"
  /\ proposedOn' = WantOn /\ pending' = 0
  /\ Goes(Outer, IF WantOn = "yes" THEN "prepare" ELSE "stopping")
  /\ openOK' = "no" /\ wasRunning' = "no"
  /\ UNCHANGED <<tunnelVars, switchVars, opens, healthVars, backoffVars, selectVars>>

OuterStops ==
  /\ pc[Outer] = "stopping"
  /\ TunnelDown
  /\ Goes(Outer, "idle")
  /\ UNCHANGED <<switchVars, outerVars, healthVars, backoffVars, selectVars>>

\* Mutant of OuterStarted: after a failure outerMu is not released.
OuterStartedKeepsLock ==
  /\ pc[Outer] = "started"
  /\ Goes(Outer, "idle")
  /\ UNCHANGED <<tunnelVars, switchVars, outerVars, healthVars, backoffVars, selectVars>>

\* A failed start is not tried again before nextStartAttempt.
OuterStarted ==
  /\ pc[Outer] \in {"started", "failed"}
  /\ startBackoff' = IF pc[Outer] = "failed" THEN "yes" ELSE startBackoff
  /\ Goes(Outer, "idle")
  /\ UNCHANGED <<tunnelVars, switchVars, outerVars, healthVars, swapBackoff, selectVars>>
-----------------------------------------------------------------------------
\* healthTick.

\* There is no VPN to probe.
HealthSkips ==
  /\ pc[Health] = "idle" /\ tunnelEnabled = "yes" /\ running = "no"
  /\ healthOK' = "no" /\ fails' = 0
  /\ UNCHANGED <<tunnelVars, switchVars, outerVars, backoffVars, selectVars, pc>>

HealthBegins ==
  /\ pc[Health] = "idle" /\ tunnelEnabled = "yes" /\ running = "yes"
  /\ probed' = "current"
  /\ Goes(Health, "probing")
  /\ UNCHANGED <<running, healthGeneration, streak, proved, healthVars,
                 switchVars, outerVars, backoffVars, selectVars>>

\* The monitoring is still on and the VPN is the one that was probed.
StillProbed == tunnelEnabled = "yes" /\ running = "yes" /\ probed = "current"

\* The result is of no use any more, or the underlay does not answer either.
HealthGivesUp ==
  /\ \/ pc[Health] \in {"probing", "confirming"} /\ ~StillProbed
     \/ pc[Health] = "confirming"
  /\ probed' = "none"
  /\ Goes(Health, "idle")
  /\ UNCHANGED <<running, healthGeneration, streak, proved, healthVars,
                 switchVars, outerVars, backoffVars, selectVars>>

\* Mutant of HealthSucceeds: the result is published for the present VPN,
\* whichever was probed.
HealthSucceedsAnyway ==
  /\ pc[Health] = "probing" /\ running = "yes"
  /\ healthGeneration' = "current"
  /\ healthOK' = "yes" /\ fails' = 0
  /\ proved' = IF probed = "current" THEN "yes" ELSE proved
  /\ streak' = 0
  /\ probed' = "none"
  /\ Goes(Health, "idle")
  /\ UNCHANGED <<running, switchVars, outerVars, backoffVars, selectVars>>

HealthSucceeds ==
  /\ pc[Health] = "probing" /\ StillProbed
  /\ healthGeneration' = "current"
  /\ healthOK' = "yes" /\ fails' = 0
  /\ proved' = "yes" /\ streak' = 0
  /\ probed' = "none"
  /\ Goes(Health, "idle")
  /\ UNCHANGED <<running, switchVars, outerVars, backoffVars, selectVars>>

\* Mutant of Failures: the count goes on over a restart.
FailuresOfAny == IF fails < FailLimit THEN fails + 1 ELSE fails

\* Failures of another generation do not count; the count is only compared
\* with FailLimit, where the model stops counting.
Failures ==
  IF healthGeneration # "current" THEN 1 ELSE IF fails < FailLimit THEN fails + 1 ELSE fails

HealthFails ==
  /\ pc[Health] = "probing" /\ StillProbed
  /\ healthGeneration' = "current"
  /\ healthOK' = "no" /\ fails' = Failures
  /\ streak' = IF streak < FailLimit THEN streak + 1 ELSE streak
  /\ IF Failures < FailLimit
     THEN probed' = "none" /\ Goes(Health, "idle")
     ELSE probed' = probed /\ Goes(Health, "confirming")
  /\ UNCHANGED <<running, proved, switchVars, outerVars, backoffVars, selectVars>>

\* The whitelist answers and the VPN is still the one that was probed.
HealthConfirms ==
  /\ pc[Health] = "confirming" /\ StillProbed
  /\ Goes(Health, "swap")
  /\ UNCHANGED <<tunnelVars, switchVars, outerVars, healthVars, backoffVars, selectVars>>

HealthBacksOff ==
  /\ pc[Health] = "swap" /\ swapBackoff = "yes"
  /\ fails' = 0 /\ probed' = "none"
  /\ Goes(Health, "idle")
  /\ UNCHANGED <<running, healthGeneration, streak, proved, healthOK,
                 switchVars, outerVars, backoffVars, selectVars>>

HealthSwaps ==
  /\ pc[Health] = "swap" /\ swapBackoff = "no"
  /\ swapBackoff' = "yes"
  /\ Goes(Health, "stopping")
  /\ UNCHANGED <<tunnelVars, switchVars, outerVars, healthVars, startBackoff, selectVars>>

HealthStops ==
  /\ pc[Health] = "stopping"
  /\ TunnelDown
  /\ Goes(Health, "replace")
  /\ UNCHANGED <<switchVars, outerVars, healthVars, backoffVars, selectVars>>

\* replaceStoppedTunnel sets the backoff again and searches.
HealthReplaces ==
  /\ pc[Health] = "replace"
  /\ swapBackoff' = "yes" /\ probed' = "none"
  /\ Goes(Health, "select")
  /\ UNCHANGED <<running, healthGeneration, streak, proved, switchVars, outerVars, healthVars,
                 startBackoff, selectVars>>

HealthReplaced ==
  /\ pc[Health] \in {"started", "failed"}
  /\ fails' = 0
  /\ Goes(Health, "idle")
  /\ UNCHANGED <<tunnelVars, healthOK, switchVars, outerVars, backoffVars, selectVars>>

\* State() reports VPNHealthOK if pm.Status, asked after fc.state was copied,
\* still has the generation that the copy is about.
ReportsHealthy == running = "yes" /\ healthOK = "yes" /\ healthGeneration = "current"

\* The passing of time.
StartBackoffExpires ==
  /\ startBackoff = "yes" /\ startBackoff' = "no"
  /\ UNCHANGED <<tunnelVars, switchVars, outerVars, healthVars, swapBackoff, selectVars, pc>>

SwapBackoffExpires ==
  /\ swapBackoff = "yes" /\ swapBackoff' = "no"
  /\ UNCHANGED <<tunnelVars, switchVars, outerVars, healthVars, startBackoff, selectVars, pc>>

-----------------------------------------------------------------------------
Starting(p) ==
  Prepare(p) \/ SelectFinds(p) \/ SelectFails(p) \/ Snap(p) \/ StartSucceeds(p) \/ StartFails(p)

Request(r) ==
  \/ HandleStart(r) \/ HandleStop(r) \/ StopReturns(r) \/ HandleConnect(r) \/ HandleSettings(r)
  \/ LooksRunning(r) \/ LooksStopped(r) \/ Restops(r) \/ HandleDisable(r) \/ Disables(r)
  \/ Reselects(r) \/ Responds(r) \/ Starting(r)

Switch == \E on \in YesNo : SetEnabled(on) \/ SetTunnelFailoverEnabled(on)

OuterTick ==
  \/ OuterProbes \/ OuterReads \/ OuterSettles \/ OuterWaits \/ OuterDecides
  \/ OuterStops \/ OuterStarted \/ Starting(Outer)

HealthTick ==
  \/ HealthSkips \/ HealthBegins \/ HealthGivesUp \/ HealthSucceeds \/ HealthFails
  \/ HealthConfirms \/ HealthBacksOff \/ HealthSwaps \/ HealthStops \/ HealthReplaces
  \/ HealthReplaced \/ Starting(Health)

Next ==
  \/ \E r \in Requests : Request(r)
  \/ Switch \/ OuterTick \/ HealthTick \/ StartBackoffExpires \/ SwapBackoffExpires

Spec == Init /\ [][Next]_vars

\* The ticks go on and a backoff ends.  A server answers, the configuration is
\* saved and the engine starts in the end, if they are tried again and again.
Fairness ==
  /\ WF_vars(OuterTick) /\ WF_vars(HealthTick) /\ WF_vars(StartBackoffExpires)
  /\ SF_vars(Prepare(Outer) /\ pc'[Outer] = "select")
  /\ SF_vars(SelectFinds(Outer)) /\ SF_vars(StartSucceeds(Outer))

FairSpec == Spec /\ Fairness
-----------------------------------------------------------------------------
\* Every variable has its type; the counters of outerTick and healthTick stay
\* below the limits at which the code acts and resets them.
TypeOK ==
  /\ running \in YesNo /\ enabled \in YesNo /\ tunnelEnabled \in YesNo
  /\ active \in YesNo
  /\ seen \in [Procs -> Readings] /\ cfg \in [Procs -> YesNo]
  /\ proposedOn \in YesNo /\ pending \in 0..(Hysteresis - 1)
  /\ openOK \in YesNo /\ wasRunning \in YesNo
  /\ startBackoff \in YesNo /\ swapBackoff \in YesNo
  /\ healthOK \in YesNo /\ fails \in 0..FailLimit
  /\ healthGeneration \in Readings /\ probed \in Readings
  /\ opens \in 0..Hysteresis
  /\ streak \in 0..FailLimit /\ proved \in YesNo
  /\ pc \in [Procs -> Places]

\* A tunnel that healthTick is about to stop, if it is still the one that it
\* probed, has failed FailLimit probes in a row: failures of an earlier
\* tunnel, or from before a probe that it passed, do not count.  (A switch of
\* the monitoring off and on again while a sustained failure is being confirmed
\* does not call the stop off.)
SwapSustained ==
  pc[Health] \in {"swap", "stopping"} /\ probed = "current"
    => streak >= FailLimit

\* outerTick stops the VPN only after its last Hysteresis probes all found
\* free access, whatever was switched, started or stopped between them: lost
\* access never stops a working tunnel.
PolicyStopSustained == pc[Outer] = "stopping" => opens >= Hysteresis

\* The reported health is that of the present tunnel: a probe that an earlier
\* tunnel passed is never shown for the one that replaced it.
HealthReportTrue == ReportsHealthy => proved = "yes"

\* What healthTick's counts stand for: failures of this tunnel's generation
\* are probes that this tunnel failed.
HealthShape ==
  /\ probed = "current" => running = "yes"
  /\ healthGeneration = "current" => fails <= streak
  /\ pc[Health] \in {"confirming", "swap", "stopping"} /\ probed = "current"
       => streak >= FailLimit
  /\ HealthReportTrue

\* What outerTick's count stands for: while a stop is proposed, open probes.
OuterShape ==
  /\ pc[Outer] \notin {"probed", "decide"}
       => openOK = "no" /\ (proposedOn = "no" => pending <= opens)
  /\ openOK = "yes" => opens >= (IF proposedOn = "no" THEN pending + 1 ELSE 1)
  /\ PolicyStopSustained

\* The inductive invariant behind SwapSustained, PolicyStopSustained and
\* HealthReportTrue: the counts of healthTick and outerTick never run ahead of
\* the probes that they stand for.
ControlInv == TypeOK /\ HealthShape /\ OuterShape

\* If the policy stays on and free access stays lost, the VPN is up again and
\* again: a failed start is retried after its backoff, and a swap that found
\* no server does not leave the VPN off for good.
VpnComesUp ==
  <>[](enabled = "yes" /\ openOK = "no") => []<>(running = "yes")

\* cancelPingRun's comment: a cancelled Start request must never start VPN
\* afterwards.  (The Start was cancelled by a Stop, which has returned.)
CancelledStartNeverStarts ==
  [][\A r \in Requests :
       /\ pc[r] = "start" /\ seen[r] = "past"
       /\ \A q \in Requests : pc[q] \notin {"stopping", "restarting"}
       => running' = running \/ pc'[r] = pc[r]]_vars

\* outerTick's comment: disabled policy never changes VPN state.
DisabledPolicyNeverActs ==
  [][pc[Outer] # pc'[Outer] /\ enabled = "no" => running' = running]_vars
=============================================================================
