---------------------------- MODULE ControlProofs ----------------------------
(***************************************************************************)
(* Proofs, for any number of requests and any limits, that the controller  *)
(* counts what it claims to count: it neither swaps nor stops a tunnel, nor*)
(* reports one healthy, on the strength of probes of another tunnel.       *)
(***************************************************************************)
EXTENDS Control, TLAPS

\* A step of a goroutine that starts the VPN keeps the types.
LEMMA StartingTypes ==
  ASSUME TypeOK, NEW p \in Procs, Starting(p)
  PROVE  TypeOK'
<1> USE DEF TypeOK, Goes, tunnelVars, switchVars, outerVars, healthVars, backoffVars, selectVars,
            Places, YesNo, Readings
<1>1. CASE Prepare(p)       BY <1>1 DEF Prepare
<1>2. CASE SelectFinds(p)   BY <1>2 DEF SelectFinds
<1>3. CASE SelectFails(p)   BY <1>3 DEF SelectFails
<1>4. CASE Snap(p)          BY <1>4 DEF Snap
<1>5. CASE StartSucceeds(p) BY <1>5, ControlAssumption DEF StartSucceeds, TunnelChanges, Aged
<1>6. CASE StartFails(p)    BY <1>6 DEF StartFails
<1>7. QED BY <1>1, <1>2, <1>3, <1>4, <1>5, <1>6 DEF Starting

\* A step of an HTTP handler keeps the types.
LEMMA RequestTypes ==
  ASSUME TypeOK, NEW r \in Requests, Request(r)
  PROVE  TypeOK'
<1> r \in Procs BY DEF Procs
<1> USE DEF TypeOK, Goes, tunnelVars, switchVars, outerVars, healthVars, backoffVars, selectVars,
            Places, YesNo, Readings
<1>1. CASE HandleStart(r)    BY <1>1 DEF HandleStart, ResetBackoff
<1>2. CASE HandleStop(r)     BY <1>2 DEF HandleStop, Aged
<1>3. CASE StopReturns(r)    BY <1>3, ControlAssumption DEF StopReturns, TunnelDown, TunnelChanges, Aged
<1>4. CASE HandleConnect(r)  BY <1>4 DEF HandleConnect
<1>5. CASE HandleSettings(r) BY <1>5 DEF HandleSettings
<1>6. CASE LooksRunning(r)   BY <1>6 DEF LooksRunning
<1>7. CASE LooksStopped(r)   BY <1>7 DEF LooksStopped, ResetBackoff
<1>8. CASE Restops(r)        BY <1>8, ControlAssumption DEF Restops, TunnelDown, TunnelChanges, Aged
<1>9. CASE HandleDisable(r)  BY <1>9 DEF HandleDisable
<1>10. CASE Disables(r)      BY <1>10, ControlAssumption DEF Disables, TunnelDown, TunnelChanges, Aged
<1>11. CASE Reselects(r)     BY <1>11 DEF Reselects
<1>12. CASE Responds(r)      BY <1>12 DEF Responds
<1>13. CASE Starting(r)      BY <1>13, StartingTypes
<1>14. QED BY <1>1, <1>2, <1>3, <1>4, <1>5, <1>6, <1>7, <1>8, <1>9, <1>10, <1>11, <1>12, <1>13
           DEF Request

\* A step of outerTick keeps the types: its count stays below Hysteresis.
LEMMA OuterTypes ==
  ASSUME TypeOK, OuterTick
  PROVE  TypeOK'
<1> Outer \in Procs BY DEF Procs
<1> USE ControlAssumption
    DEF TypeOK, Goes, tunnelVars, switchVars, outerVars, healthVars, backoffVars, selectVars,
        Places, YesNo, Readings
<1>1. CASE OuterProbes     BY <1>1 DEF OuterProbes
<1>2. CASE OuterReads      BY <1>2 DEF OuterReads
<1>3. CASE OuterSettles    BY <1>3 DEF OuterSettles, OuterReturns
<1>4. CASE OuterWaits      BY <1>4 DEF OuterWaits, OuterReturns, OuterProposes, Proposals, WantOn
<1>5. CASE OuterDecides    BY <1>5 DEF OuterDecides, OuterProposes, WantOn
<1>6. CASE OuterStops      BY <1>6 DEF OuterStops, TunnelDown, TunnelChanges, Aged
<1>7. CASE OuterStarted    BY <1>7 DEF OuterStarted
<1>8. CASE Starting(Outer) BY <1>8, StartingTypes
<1>9. QED BY <1>1, <1>2, <1>3, <1>4, <1>5, <1>6, <1>7, <1>8 DEF OuterTick

\* A step of healthTick keeps the types: its count stays within FailLimit.
LEMMA HealthTypes ==
  ASSUME TypeOK, HealthTick
  PROVE  TypeOK'
<1> Health \in Procs BY DEF Procs
<1> USE ControlAssumption
    DEF TypeOK, Goes, tunnelVars, switchVars, outerVars, healthVars, backoffVars, selectVars,
        Places, YesNo, Readings
<1>1. CASE HealthSkips      BY <1>1 DEF HealthSkips
<1>2. CASE HealthBegins     BY <1>2 DEF HealthBegins
<1>3. CASE HealthGivesUp    BY <1>3 DEF HealthGivesUp
<1>4. CASE HealthSucceeds   BY <1>4 DEF HealthSucceeds
<1>5. CASE HealthFails      BY <1>5 DEF HealthFails, Failures
<1>6. CASE HealthConfirms   BY <1>6 DEF HealthConfirms
<1>7. CASE HealthBacksOff   BY <1>7 DEF HealthBacksOff
<1>8. CASE HealthSwaps      BY <1>8 DEF HealthSwaps
<1>9. CASE HealthStops      BY <1>9 DEF HealthStops, TunnelDown, TunnelChanges, Aged
<1>10. CASE HealthReplaces  BY <1>10 DEF HealthReplaces
<1>11. CASE HealthReplaced  BY <1>11 DEF HealthReplaced
<1>12. CASE Starting(Health) BY <1>12, StartingTypes
<1>13. QED BY <1>1, <1>2, <1>3, <1>4, <1>5, <1>6, <1>7, <1>8, <1>9, <1>10, <1>11, <1>12
           DEF HealthTick

\* Every step keeps the types.
LEMMA TypeStep == TypeOK /\ [Next]_vars => TypeOK'
<1> SUFFICES ASSUME TypeOK, [Next]_vars PROVE TypeOK'
    OBVIOUS
<1>1. CASE \E r \in Requests : Request(r) BY <1>1, RequestTypes
<1>2. CASE Switch
  <2> USE ControlAssumption DEF TypeOK, YesNo, tunnelVars, outerVars, healthVars, backoffVars, selectVars
  <2>1. PICK on \in YesNo : SetEnabled(on) \/ SetTunnelFailoverEnabled(on) BY <1>2 DEF Switch
  <2>2. CASE SetEnabled(on) BY <2>2 DEF SetEnabled
  <2>3. CASE SetTunnelFailoverEnabled(on) BY <2>3 DEF SetTunnelFailoverEnabled
  <2>4. QED BY <2>1, <2>2, <2>3
<1>3. CASE OuterTick BY <1>3, OuterTypes
<1>4. CASE HealthTick BY <1>4, HealthTypes
<1>5. CASE StartBackoffExpires
  BY <1>5 DEF StartBackoffExpires, TypeOK, YesNo, tunnelVars, switchVars, outerVars, healthVars, selectVars
<1>6. CASE SwapBackoffExpires
  BY <1>6 DEF SwapBackoffExpires, TypeOK, YesNo, tunnelVars, switchVars, outerVars, healthVars, selectVars
<1>7. CASE UNCHANGED vars
  BY <1>7 DEF vars, TypeOK, tunnelVars, switchVars, outerVars, healthVars, backoffVars, selectVars
<1>8. QED BY <1>1, <1>2, <1>3, <1>4, <1>5, <1>6, <1>7 DEF Next
-----------------------------------------------------------------------------
\* What HealthShape speaks of, and what OuterShape speaks of.
healthState == <<running, healthGeneration, probed, streak, proved, healthOK, fails, pc[Health]>>
outerState == <<openOK, proposedOn, pending, opens, pc[Outer]>>

\* A step that leaves healthTick's state alone keeps HealthShape.
LEMMA HealthStutters ==
  ASSUME HealthShape, UNCHANGED healthState
  PROVE  HealthShape'
BY DEF HealthShape, HealthReportTrue, ReportsHealthy, healthState

\* When the tunnel is started or stopped, no earlier reading counts any more.
LEMMA TunnelForgets ==
  ASSUME TypeOK, NEW on \in YesNo, TunnelChanges(on)
  PROVE  HealthShape'
BY DEF TunnelChanges, Aged, TypeOK, Readings, HealthShape, HealthReportTrue, ReportsHealthy

\* So a stop by another goroutine keeps HealthShape.
LEMMA DownKeeps ==
  ASSUME TypeOK, HealthShape, TunnelDown, UNCHANGED <<healthOK, fails>>, pc'[Health] = pc[Health]
  PROVE  HealthShape'
<1>1. CASE running = "yes" BY <1>1, TunnelForgets DEF TunnelDown, YesNo
<1>2. CASE running # "yes"
  BY <1>2, HealthStutters DEF TunnelDown, tunnelVars, healthState
<1>3. QED BY <1>1, <1>2

\* Nobody but healthTick moves healthTick.
LEMMA OthersKeepHealth ==
  ASSUME TypeOK, HealthShape, NEW p \in Procs, p # Health, Starting(p)
  PROVE  HealthShape'
<1> Health \in Procs BY DEF Procs
<1> USE DEF TypeOK, Goes, tunnelVars, healthVars, healthState
<1>1. CASE Prepare(p)
  <2>1. pc'[Health] = pc[Health] BY <1>1 DEF Prepare
  <2>2. QED BY <1>1, <2>1, HealthStutters DEF Prepare
<1>2. CASE SelectFinds(p)   BY <1>2, HealthStutters DEF SelectFinds
<1>3. CASE SelectFails(p)   BY <1>3, HealthStutters DEF SelectFails
<1>4. CASE Snap(p)          BY <1>4, HealthStutters DEF Snap
<1>5. CASE StartSucceeds(p) BY <1>5, TunnelForgets DEF StartSucceeds, YesNo
<1>6. CASE StartFails(p)    BY <1>6, HealthStutters DEF StartFails
<1>7. QED BY <1>1, <1>2, <1>3, <1>4, <1>5, <1>6 DEF Starting

\* HealthShape over a step of an HTTP handler.
LEMMA RequestKeepsHealth ==
  ASSUME TypeOK, HealthShape, NEW r \in Requests, Request(r)
  PROVE  HealthShape'
<1> r \in Procs /\ Health \in Procs /\ r # Health BY ControlAssumption DEF Procs
<1> USE DEF TypeOK, Goes, tunnelVars, healthVars, healthState
<1>1. CASE HandleStart(r)    BY <1>1, HealthStutters DEF HandleStart
<1>2. CASE HandleStop(r)     BY <1>2, HealthStutters DEF HandleStop
<1>3. CASE StopReturns(r)
  <2>1. pc'[Health] = pc[Health] BY <1>3 DEF StopReturns
  <2>2. QED BY <1>3, <2>1, DownKeeps DEF StopReturns
<1>4. CASE HandleConnect(r)  BY <1>4, HealthStutters DEF HandleConnect
<1>5. CASE HandleSettings(r) BY <1>5, HealthStutters DEF HandleSettings
<1>6. CASE LooksRunning(r)   BY <1>6, HealthStutters DEF LooksRunning
<1>7. CASE LooksStopped(r)
  <2>1. pc'[Health] = pc[Health] BY <1>7 DEF LooksStopped
  <2>2. QED BY <1>7, <2>1, HealthStutters DEF LooksStopped
<1>8. CASE Restops(r)        BY <1>8, DownKeeps DEF Restops
<1>9. CASE HandleDisable(r)  BY <1>9, HealthStutters DEF HandleDisable
<1>10. CASE Disables(r)      BY <1>10, DownKeeps DEF Disables
<1>11. CASE Reselects(r)     BY <1>11, HealthStutters DEF Reselects
<1>12. CASE Responds(r)      BY <1>12, HealthStutters DEF Responds
<1>13. CASE Starting(r)      BY <1>13, OthersKeepHealth
<1>14. QED BY <1>1, <1>2, <1>3, <1>4, <1>5, <1>6, <1>7, <1>8, <1>9, <1>10, <1>11, <1>12, <1>13
           DEF Request

\* HealthShape over a step of outerTick.
LEMMA OuterKeepsHealth ==
  ASSUME TypeOK, HealthShape, OuterTick
  PROVE  HealthShape'
<1> Health \in Procs /\ Outer \in Procs /\ Outer # Health BY ControlAssumption DEF Procs
<1> USE DEF TypeOK, Goes, tunnelVars, healthVars, healthState
<1>1. CASE OuterProbes     BY <1>1, HealthStutters DEF OuterProbes
<1>2. CASE OuterReads      BY <1>2, HealthStutters DEF OuterReads
<1>3. CASE OuterSettles    BY <1>3, HealthStutters DEF OuterSettles, OuterReturns
<1>4. CASE OuterWaits      BY <1>4, HealthStutters DEF OuterWaits, OuterReturns
<1>5. CASE OuterDecides    BY <1>5, HealthStutters DEF OuterDecides
<1>6. CASE OuterStops      BY <1>6, DownKeeps DEF OuterStops
<1>7. CASE OuterStarted    BY <1>7, HealthStutters DEF OuterStarted
<1>8. CASE Starting(Outer) BY <1>8, OthersKeepHealth
<1>9. QED BY <1>1, <1>2, <1>3, <1>4, <1>5, <1>6, <1>7, <1>8 DEF OuterTick

\* HealthShape over a step of healthTick itself.
LEMMA HealthKeepsHealth ==
  ASSUME TypeOK, HealthShape, HealthTick
  PROVE  HealthShape'
<1> Health \in Procs BY DEF Procs
<1> USE ControlAssumption
    DEF TypeOK, Goes, tunnelVars, healthVars, HealthShape, HealthReportTrue, ReportsHealthy
<1>1. CASE HealthSkips      BY <1>1 DEF HealthSkips
<1>2. CASE HealthBegins     BY <1>2 DEF HealthBegins
<1>3. CASE HealthGivesUp    BY <1>3 DEF HealthGivesUp
<1>4. CASE HealthSucceeds   BY <1>4 DEF HealthSucceeds
<1>5. CASE HealthFails      BY <1>5 DEF HealthFails, Failures, StillProbed
<1>6. CASE HealthConfirms   BY <1>6 DEF HealthConfirms
<1>7. CASE HealthBacksOff   BY <1>7 DEF HealthBacksOff
<1>8. CASE HealthSwaps      BY <1>8 DEF HealthSwaps
<1>9. CASE HealthStops
  <2>1. CASE running = "yes" BY <1>9, <2>1, TunnelForgets DEF HealthStops, TunnelDown, YesNo
  <2>2. CASE running # "yes" BY <1>9, <2>2 DEF HealthStops, TunnelDown
  <2>3. QED BY <2>1, <2>2
<1>10. CASE HealthReplaces  BY <1>10 DEF HealthReplaces
<1>11. CASE HealthReplaced  BY <1>11 DEF HealthReplaced
<1>12. CASE Starting(Health)
  <2>1. CASE StartSucceeds(Health) BY <2>1, TunnelForgets DEF StartSucceeds, YesNo
  <2>2. CASE Prepare(Health)     BY <2>2 DEF Prepare
  <2>3. CASE SelectFinds(Health) BY <2>3 DEF SelectFinds
  <2>4. CASE SelectFails(Health) BY <2>4 DEF SelectFails
  <2>5. CASE Snap(Health)        BY <2>5 DEF Snap
  <2>6. CASE StartFails(Health)  BY <2>6 DEF StartFails
  <2>7. QED BY <1>12, <2>1, <2>2, <2>3, <2>4, <2>5, <2>6 DEF Starting
<1>13. QED BY <1>1, <1>2, <1>3, <1>4, <1>5, <1>6, <1>7, <1>8, <1>9, <1>10, <1>11, <1>12
           DEF HealthTick

\* Every step keeps HealthShape.
LEMMA HealthStep == TypeOK /\ HealthShape /\ [Next]_vars => HealthShape'
<1> SUFFICES ASSUME TypeOK, HealthShape, [Next]_vars PROVE HealthShape'
    OBVIOUS
<1>1. CASE \E r \in Requests : Request(r) BY <1>1, RequestKeepsHealth
<1>2. CASE Switch
  <2>1. PICK on \in YesNo : SetEnabled(on) \/ SetTunnelFailoverEnabled(on) BY <1>2 DEF Switch
  <2>2. CASE SetEnabled(on)
    BY <2>2, HealthStutters DEF SetEnabled, tunnelVars, healthVars, healthState
  <2>3. CASE SetTunnelFailoverEnabled(on)
    BY <2>3 DEF SetTunnelFailoverEnabled, tunnelVars, TypeOK, HealthShape, HealthReportTrue,
                ReportsHealthy
  <2>4. QED BY <2>1, <2>2, <2>3
<1>3. CASE OuterTick BY <1>3, OuterKeepsHealth
<1>4. CASE HealthTick BY <1>4, HealthKeepsHealth
<1>5. CASE StartBackoffExpires
  BY <1>5, HealthStutters DEF StartBackoffExpires, tunnelVars, healthVars, healthState
<1>6. CASE SwapBackoffExpires
  BY <1>6, HealthStutters DEF SwapBackoffExpires, tunnelVars, healthVars, healthState
<1>7. CASE UNCHANGED vars
  BY <1>7, HealthStutters DEF vars, tunnelVars, healthVars, healthState
<1>8. QED BY <1>1, <1>2, <1>3, <1>4, <1>5, <1>6, <1>7 DEF Next
-----------------------------------------------------------------------------
\* A step that leaves outerTick's state alone keeps OuterShape.
LEMMA OuterStutters ==
  ASSUME OuterShape, UNCHANGED outerState
  PROVE  OuterShape'
BY DEF OuterShape, PolicyStopSustained, outerState

\* Nobody but outerTick moves outerTick.
LEMMA OthersKeepOuter ==
  ASSUME TypeOK, OuterShape, NEW p \in Procs, p # Outer, Starting(p)
  PROVE  OuterShape'
<1> Outer \in Procs BY DEF Procs
<1> USE DEF TypeOK, Goes, outerVars, outerState
<1>1. CASE Prepare(p)
  <2>1. pc'[Outer] = pc[Outer] BY <1>1 DEF Prepare
  <2>2. QED BY <1>1, <2>1, OuterStutters DEF Prepare
<1>2. CASE SelectFinds(p)   BY <1>2, OuterStutters DEF SelectFinds
<1>3. CASE SelectFails(p)   BY <1>3, OuterStutters DEF SelectFails
<1>4. CASE Snap(p)          BY <1>4, OuterStutters DEF Snap
<1>5. CASE StartSucceeds(p) BY <1>5, OuterStutters DEF StartSucceeds
<1>6. CASE StartFails(p)    BY <1>6, OuterStutters DEF StartFails
<1>7. QED BY <1>1, <1>2, <1>3, <1>4, <1>5, <1>6 DEF Starting

\* OuterShape over a step of an HTTP handler.
LEMMA RequestKeepsOuter ==
  ASSUME TypeOK, OuterShape, NEW r \in Requests, Request(r)
  PROVE  OuterShape'
<1> r \in Procs /\ Outer \in Procs /\ r # Outer BY ControlAssumption DEF Procs
<1> USE DEF TypeOK, Goes, outerVars, outerState
<1>1. CASE HandleStart(r)    BY <1>1, OuterStutters DEF HandleStart
<1>2. CASE HandleStop(r)     BY <1>2, OuterStutters DEF HandleStop
<1>3. CASE StopReturns(r)
  <2>1. pc'[Outer] = pc[Outer] BY <1>3 DEF StopReturns
  <2>2. QED BY <1>3, <2>1, OuterStutters DEF StopReturns
<1>4. CASE HandleConnect(r)  BY <1>4, OuterStutters DEF HandleConnect
<1>5. CASE HandleSettings(r) BY <1>5, OuterStutters DEF HandleSettings
<1>6. CASE LooksRunning(r)   BY <1>6, OuterStutters DEF LooksRunning
<1>7. CASE LooksStopped(r)
  <2>1. pc'[Outer] = pc[Outer] BY <1>7 DEF LooksStopped
  <2>2. QED BY <1>7, <2>1, OuterStutters DEF LooksStopped
<1>8. CASE Restops(r)        BY <1>8, OuterStutters DEF Restops
<1>9. CASE HandleDisable(r)  BY <1>9, OuterStutters DEF HandleDisable
<1>10. CASE Disables(r)      BY <1>10, OuterStutters DEF Disables
<1>11. CASE Reselects(r)     BY <1>11, OuterStutters DEF Reselects
<1>12. CASE Responds(r)      BY <1>12, OuterStutters DEF Responds
<1>13. CASE Starting(r)      BY <1>13, OthersKeepOuter
<1>14. QED BY <1>1, <1>2, <1>3, <1>4, <1>5, <1>6, <1>7, <1>8, <1>9, <1>10, <1>11, <1>12, <1>13
           DEF Request

\* OuterShape over a step of healthTick.
LEMMA HealthKeepsOuter ==
  ASSUME TypeOK, OuterShape, HealthTick
  PROVE  OuterShape'
<1> Health \in Procs /\ Outer \in Procs /\ Health # Outer BY ControlAssumption DEF Procs
<1> USE DEF TypeOK, Goes, outerVars, outerState
<1>1. CASE HealthSkips      BY <1>1, OuterStutters DEF HealthSkips
<1>2. CASE HealthBegins     BY <1>2, OuterStutters DEF HealthBegins
<1>3. CASE HealthGivesUp    BY <1>3, OuterStutters DEF HealthGivesUp
<1>4. CASE HealthSucceeds   BY <1>4, OuterStutters DEF HealthSucceeds
<1>5. CASE HealthFails
  <2>1. pc'[Outer] = pc[Outer] BY <1>5 DEF HealthFails
  <2>2. QED BY <1>5, <2>1, OuterStutters DEF HealthFails
<1>6. CASE HealthConfirms   BY <1>6, OuterStutters DEF HealthConfirms
<1>7. CASE HealthBacksOff   BY <1>7, OuterStutters DEF HealthBacksOff
<1>8. CASE HealthSwaps      BY <1>8, OuterStutters DEF HealthSwaps
<1>9. CASE HealthStops      BY <1>9, OuterStutters DEF HealthStops
<1>10. CASE HealthReplaces  BY <1>10, OuterStutters DEF HealthReplaces
<1>11. CASE HealthReplaced  BY <1>11, OuterStutters DEF HealthReplaced
<1>12. CASE Starting(Health) BY <1>12, OthersKeepOuter
<1>13. QED BY <1>1, <1>2, <1>3, <1>4, <1>5, <1>6, <1>7, <1>8, <1>9, <1>10, <1>11, <1>12
           DEF HealthTick

\* OuterShape over a step of outerTick itself: the count of a proposed stop
\* goes up only with an open probe, and any other probe ends it.
LEMMA OuterKeepsOuter ==
  ASSUME TypeOK, OuterShape, OuterTick
  PROVE  OuterShape'
<1> Outer \in Procs BY DEF Procs
<1> USE ControlAssumption DEF TypeOK, Goes, outerVars, OuterShape, PolicyStopSustained, YesNo
<1>1. CASE OuterProbes     BY <1>1 DEF OuterProbes
<1>2. CASE OuterReads      BY <1>2 DEF OuterReads
<1>3. CASE OuterSettles    BY <1>3 DEF OuterSettles, OuterReturns
<1>4. CASE OuterWaits      BY <1>4 DEF OuterWaits, OuterReturns, OuterProposes, Proposals, WantOn
<1>5. CASE OuterDecides    BY <1>5 DEF OuterDecides, OuterProposes, Proposals, WantOn
<1>6. CASE OuterStops      BY <1>6 DEF OuterStops
<1>7. CASE OuterStarted    BY <1>7 DEF OuterStarted
<1>8. CASE Starting(Outer)
  BY <1>8 DEF Starting, Prepare, SelectFinds, SelectFails, Snap, StartSucceeds, StartFails
<1>9. QED BY <1>1, <1>2, <1>3, <1>4, <1>5, <1>6, <1>7, <1>8 DEF OuterTick

\* Every step keeps OuterShape.
LEMMA OuterStep == TypeOK /\ OuterShape /\ [Next]_vars => OuterShape'
<1> SUFFICES ASSUME TypeOK, OuterShape, [Next]_vars PROVE OuterShape'
    OBVIOUS
<1>1. CASE \E r \in Requests : Request(r) BY <1>1, RequestKeepsOuter
<1>2. CASE Switch
  BY <1>2, OuterStutters DEF Switch, SetEnabled, SetTunnelFailoverEnabled, outerVars, outerState
<1>3. CASE OuterTick BY <1>3, OuterKeepsOuter
<1>4. CASE HealthTick BY <1>4, HealthKeepsOuter
<1>5. CASE StartBackoffExpires
  BY <1>5, OuterStutters DEF StartBackoffExpires, outerVars, outerState
<1>6. CASE SwapBackoffExpires
  BY <1>6, OuterStutters DEF SwapBackoffExpires, outerVars, outerState
<1>7. CASE UNCHANGED vars BY <1>7, OuterStutters DEF vars, outerVars, outerState
<1>8. QED BY <1>1, <1>2, <1>3, <1>4, <1>5, <1>6, <1>7 DEF Next
-----------------------------------------------------------------------------
\* The initial states satisfy the inductive invariant.
LEMMA InitInv == Init => ControlInv
<1> SUFFICES ASSUME Init PROVE ControlInv
    OBVIOUS
<1> USE ControlAssumption DEF Init, YesNo, Readings
<1>1. Outer \in Procs /\ Health \in Procs BY DEF Procs
<1>2. TypeOK BY DEF TypeOK, Places
<1>3. HealthShape BY <1>1 DEF HealthShape, HealthReportTrue, ReportsHealthy
<1>4. OuterShape BY <1>1 DEF OuterShape, PolicyStopSustained
<1>5. QED BY <1>2, <1>3, <1>4 DEF ControlInv

\* ControlInv holds throughout: the counts of outerTick and healthTick never
\* run ahead of the probes that they stand for.
THEOREM ControlInvHolds == Spec => []ControlInv
<1>1. ControlInv /\ [Next]_vars => ControlInv'
  BY TypeStep, HealthStep, OuterStep DEF ControlInv
<1>2. QED BY InitInv, <1>1, PTL DEF Spec

\* The state of the controller is well typed; its counters stay in bounds.
THEOREM ControlTypes == Spec => []TypeOK
<1>1. ControlInv => TypeOK BY DEF ControlInv
<1>2. QED BY <1>1, ControlInvHolds, PTL

\* healthTick swaps the tunnel that it probed only after FailLimit failures of
\* that very tunnel in a row.
THEOREM SwapOnlySustained == Spec => []SwapSustained
<1>1. ControlInv => SwapSustained BY DEF ControlInv, HealthShape, SwapSustained
<1>2. QED BY <1>1, ControlInvHolds, PTL

\* outerTick stops the VPN only after Hysteresis open probes in a row.
THEOREM StopOnlySustained == Spec => []PolicyStopSustained
<1>1. ControlInv => PolicyStopSustained BY DEF ControlInv, OuterShape
<1>2. QED BY <1>1, ControlInvHolds, PTL

\* State() reports health only of the tunnel that passed the probe.
THEOREM ReportedHealthTrue == Spec => []HealthReportTrue
<1>1. ControlInv => HealthReportTrue BY DEF ControlInv, HealthShape
<1>2. QED BY <1>1, ControlInvHolds, PTL
=============================================================================
