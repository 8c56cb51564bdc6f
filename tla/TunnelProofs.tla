---------------------------- MODULE TunnelProofs ----------------------------
(***************************************************************************)
(* Proofs about Tunnel, for any set of callers and any bounds: TunnelInv   *)
(* is inductive and implies the safety properties.                         *)
(***************************************************************************)
EXTENDS Tunnel, TLAPS

\* The stages by number.
LEMMA OrderValues ==
  /\ Len(Order) = 4 /\ DOMAIN Order = 1..4
  /\ Order[1] = "policy" /\ Order[2] = "chains"
  /\ Order[3] = "protect" /\ Order[4] = "capture"
BY DEF Order

\* Every numbered stage is a stage.
LEMMA OrderStages == \A i \in 1..4 : Order[i] \in Stages
BY OrderValues DEF Stages

\* Each step keeps the types.
LEMMA TypeStep ==
  ASSUME TypeOK, EngineShape, LockShape, ProcessShape, [Next]_vars
  PROVE  TypeOK'
<1> USE TunnelAssumption, OrderValues DEF TypeOK, Stages, Shell, YesNo, CallStates,
      RouteStates, InitStates, pmVars, routeVars, lockVars
<1>1. CASE RouteEnters
  BY <1>1 DEF RouteEnters
<1>2. CASE RouteRefused
  BY <1>2 DEF RouteRefused, Trouble
<1>3. CASE RouteDetaches
  <2>1. rnext' \in 0..4
    BY <1>3 DEF RouteDetaches
  <2>2. rules' \subseteq rules \cup {Shell} /\ damage' \subseteq damage
    BY <1>3 DEF RouteDetaches, Removed
  <2>3. /\ rules' \in SUBSET (Stages \cup {Shell})
        /\ damage' \in SUBSET (Stages \cup {Shell})
    BY <2>2
  <2>4. UNCHANGED <<alive, engines, life, mu, pc, rpc, running, generation, routeReady,
                    guard, ipc, trouble>>
    BY <1>3 DEF RouteDetaches
  <2> QED BY <2>1, <2>3, <2>4
<1>4. CASE RouteDetachFails
  <2>1. rnext' \in 0..4 /\ damage' \subseteq damage \cup rules /\ trouble' \in Nat
    BY <1>4 DEF RouteDetachFails, Trouble
  <2>2. damage' \in SUBSET (Stages \cup {Shell})
    BY <2>1
  <2>3. UNCHANGED <<alive, rules, engines, life, mu, pc, rpc, running, generation,
                    routeReady, guard, ipc>>
    BY <1>4 DEF RouteDetachFails
  <2> QED BY <2>1, <2>2, <2>3
<1>5. CASE RouteDetached
  BY <1>5 DEF RouteDetached, Disabling
<1>6. CASE RouteInstalls
  <2>1. rnext \in 1..4
    BY <1>6 DEF RouteInstalls, LockShape
  <2>2. rnext' \in 0..4 /\ rpc' \in RouteStates
    BY <1>6, <2>1 DEF RouteInstalls
  <2>3. rules' \subseteq rules \cup Stages /\ damage' \subseteq damage
    BY <1>6, <2>1, OrderStages DEF RouteInstalls
  <2> QED BY <1>6, <2>2, <2>3 DEF RouteInstalls
<1>7. CASE RouteInstallFails
  <2>1. rnext \in 1..4
    BY <1>7 DEF RouteInstallFails, LockShape
  <2>2. rules' \subseteq rules \cup Stages
    BY <1>7, <2>1, OrderStages DEF RouteInstallFails
  <2>3. trouble' \in Nat
    BY <1>7 DEF RouteInstallFails, Trouble
  <2> QED BY <1>7, <2>2, <2>3 DEF RouteInstallFails
<1>8. CASE FirmwareDrops
  BY <1>8 DEF FirmwareDrops, Trouble
<1>9. CASE GuardSeesRules
  BY <1>9 DEF GuardSeesRules
<1>10. CASE GuardRepairs
  BY <1>10 DEF GuardRepairs, Trouble
<1>11. CASE GuardEnds
  BY <1>11 DEF GuardEnds
<1>12. CASE Crash
  BY <1>12 DEF Crash, Dies
<1>13. CASE InitStops
  BY <1>13 DEF InitStops, Dies
<1>14. CASE InitCleans
  BY <1>14 DEF InitCleans, Trouble
<1>15. CASE InitStarts
  BY <1>15 DEF InitStarts
<1>16. CASE InitLaunches
  BY <1>16 DEF InitLaunches
<1>17. ASSUME NEW c \in Callers, Call(c) PROVE TypeOK'
  <2>1. CASE CallStart(c)
    BY <2>1 DEF CallStart
  <2>2. CASE StartLocks(c)
    BY <2>2 DEF StartLocks
  <2>3. CASE StartEnters(c)
    BY <2>3 DEF StartEnters, Leaves
  <2>4. CASE StartRefused(c)
    BY <2>4 DEF StartRefused, Leaves
  <2>5. CASE EngineStarts(c)
    BY <2>5 DEF EngineStarts
  <2>6. CASE StartPublishes(c)
    BY <2>6 DEF StartPublishes, Leaves
  <2>7. CASE StartUndone(c)
    BY <2>7 DEF StartUndone, Leaves, EngineShape
  <2>8. CASE CallStop(c)
    BY <2>8 DEF CallStop
  <2>9. CASE StopLocks(c)
    BY <2>9 DEF StopLocks
  <2>10. CASE StopEnters(c)
    BY <2>10 DEF StopEnters, Leaves
  <2>11. CASE StopWithdraws(c)
    BY <2>11 DEF StopWithdraws
  <2>12. CASE StopCloses(c)
    BY <2>12 DEF StopCloses, EngineShape
  <2>13. CASE StopCloseFails(c)
    BY <2>13 DEF StopCloseFails, EngineShape
  <2>14. CASE StopFails(c)
    BY <2>14 DEF StopFails
  <2>15. QED BY <1>17, <2>1, <2>2, <2>3, <2>4, <2>5, <2>6, <2>7, <2>8, <2>9, <2>10,
        <2>11, <2>12, <2>13, <2>14 DEF Call
<1>18. CASE UNCHANGED vars
  BY <1>18 DEF vars
<1> HIDE DEF TypeOK, Stages, Shell, YesNo, CallStates, RouteStates, InitStates, pmVars,
      routeVars, lockVars
<1>19. QED BY <1>1, <1>2, <1>3, <1>4, <1>5, <1>6, <1>7, <1>8, <1>9, <1>10, <1>11, <1>12,
      <1>13, <1>14, <1>15, <1>16, <1>17, <1>18 DEF Next, Route, RouteGuard, Process

\* Each step keeps the relation of the locks to their holders.
LEMMA LockStep ==
  ASSUME TypeOK, LockShape, ProcessShape, [Next]_vars
  PROVE  LockShape'
<1> USE TunnelAssumption, OrderValues DEF TypeOK, LockShape, ProcessShape, Disabling,
      RouteStates, CallStates, pmVars, routeVars, lockVars
<1>1. CASE RouteEnters
  BY <1>1 DEF RouteEnters
<1>2. CASE RouteRefused
  BY <1>2 DEF RouteRefused, Trouble
<1>3. CASE RouteDetaches
  BY <1>3 DEF RouteDetaches
<1>4. CASE RouteDetachFails
  BY <1>4 DEF RouteDetachFails, Trouble
<1>5. CASE RouteDetached
  BY <1>5 DEF RouteDetached
<1>6. CASE RouteInstalls
  BY <1>6 DEF RouteInstalls
<1>7. CASE RouteInstallFails
  BY <1>7 DEF RouteInstallFails, Trouble
<1>8. CASE FirmwareDrops
  BY <1>8 DEF FirmwareDrops, Trouble
<1>9. CASE GuardSeesRules
  BY <1>9 DEF GuardSeesRules
<1>10. CASE GuardRepairs
  BY <1>10 DEF GuardRepairs, Trouble
<1>11. CASE GuardEnds
  BY <1>11 DEF GuardEnds
<1>12. CASE Crash
  BY <1>12 DEF Crash, Dies
<1>13. CASE InitStops
  BY <1>13 DEF InitStops, Dies
<1>14. CASE InitCleans
  BY <1>14 DEF InitCleans, Trouble
<1>15. CASE InitStarts
  BY <1>15 DEF InitStarts
<1>16. CASE InitLaunches
  BY <1>16 DEF InitLaunches
<1>17. ASSUME NEW c \in Callers, Call(c) PROVE LockShape'
  <2>1. CASE CallStart(c)
    BY <2>1 DEF CallStart
  <2>2. CASE StartLocks(c)
    BY <2>2 DEF StartLocks
  <2>3. CASE StartEnters(c)
    <3>1. CASE running = "yes"
      BY <2>3, <3>1 DEF StartEnters, Leaves
    <3>2. CASE running # "yes"
      BY <2>3, <3>2 DEF StartEnters, Leaves, YesNo
    <3> QED BY <3>1, <3>2
  <2>4. CASE StartRefused(c)
    BY <2>4 DEF StartRefused, Leaves
  <2>5. CASE EngineStarts(c)
    BY <2>5 DEF EngineStarts
  <2>6. CASE StartPublishes(c)
    BY <2>6 DEF StartPublishes, Leaves
  <2>7. CASE StartUndone(c)
    BY <2>7 DEF StartUndone, Leaves
  <2>8. CASE CallStop(c)
    BY <2>8 DEF CallStop
  <2>9. CASE StopLocks(c)
    BY <2>9 DEF StopLocks
  <2>10. CASE StopEnters(c)
    <3>1. CASE running = "no"
      BY <2>10, <3>1 DEF StopEnters, Leaves
    <3>2. CASE running # "no"
      BY <2>10, <3>2 DEF StopEnters, Leaves, YesNo
    <3> QED BY <3>1, <3>2
  <2>11. CASE StopWithdraws(c)
    BY <2>11 DEF StopWithdraws
  <2>12. CASE StopCloses(c)
    BY <2>12 DEF StopCloses
  <2>13. CASE StopCloseFails(c)
    BY <2>13 DEF StopCloseFails
  <2>14. CASE StopFails(c)
    BY <2>14 DEF StopFails
  <2>15. QED BY <1>17, <2>1, <2>2, <2>3, <2>4, <2>5, <2>6, <2>7, <2>8, <2>9, <2>10,
        <2>11, <2>12, <2>13, <2>14 DEF Call
<1>18. CASE UNCHANGED vars
  BY <1>18 DEF vars
<1> HIDE DEF TypeOK, LockShape, ProcessShape, Disabling, RouteStates, CallStates, pmVars,
      routeVars, lockVars
<1>19. QED BY <1>1, <1>2, <1>3, <1>4, <1>5, <1>6, <1>7, <1>8, <1>9, <1>10, <1>11, <1>12,
      <1>13, <1>14, <1>15, <1>16, <1>17, <1>18 DEF Next, Route, RouteGuard, Process

\* Each step keeps the count of engines.
LEMMA EngineStep ==
  ASSUME TypeOK, LockShape, EngineShape, ProcessShape, [Next]_vars
  PROVE  EngineShape'
<1> USE TunnelAssumption, OrderValues DEF TypeOK, LockShape, EngineShape, ProcessShape,
      pmVars, routeVars, lockVars
<1>1. CASE RouteEnters
  BY <1>1 DEF RouteEnters
<1>2. CASE RouteRefused
  BY <1>2 DEF RouteRefused, Trouble
<1>3. CASE RouteDetaches
  BY <1>3 DEF RouteDetaches
<1>4. CASE RouteDetachFails
  BY <1>4 DEF RouteDetachFails, Trouble
<1>5. CASE RouteDetached
  BY <1>5 DEF RouteDetached
<1>6. CASE RouteInstalls
  BY <1>6 DEF RouteInstalls
<1>7. CASE RouteInstallFails
  BY <1>7 DEF RouteInstallFails, Trouble
<1>8. CASE FirmwareDrops
  BY <1>8 DEF FirmwareDrops, Trouble
<1>9. CASE GuardSeesRules
  BY <1>9 DEF GuardSeesRules
<1>10. CASE GuardRepairs
  BY <1>10 DEF GuardRepairs, Trouble
<1>11. CASE GuardEnds
  BY <1>11 DEF GuardEnds
<1>12. CASE Crash
  BY <1>12 DEF Crash, Dies
<1>13. CASE InitStops
  BY <1>13 DEF InitStops, Dies
<1>14. CASE InitCleans
  BY <1>14 DEF InitCleans, Trouble
<1>15. CASE InitStarts
  BY <1>15 DEF InitStarts
<1>16. CASE InitLaunches
  BY <1>16 DEF InitLaunches
<1>17. ASSUME NEW c \in Callers, Call(c) PROVE EngineShape'
  <2>1. CASE CallStart(c)
    BY <2>1 DEF CallStart
  <2>2. CASE StartLocks(c)
    BY <2>2 DEF StartLocks
  <2>3. CASE StartEnters(c)
    <3>1. CASE running = "yes"
      BY <2>3, <3>1 DEF StartEnters, Leaves
    <3>2. CASE running # "yes"
      BY <2>3, <3>2 DEF StartEnters, Leaves, YesNo
    <3> QED BY <3>1, <3>2
  <2>4. CASE StartRefused(c)
    BY <2>4 DEF StartRefused, Leaves
  <2>5. CASE EngineStarts(c)
    BY <2>5 DEF EngineStarts
  <2>6. CASE StartPublishes(c)
    BY <2>6 DEF StartPublishes, Leaves
  <2>7. CASE StartUndone(c)
    BY <2>7 DEF StartUndone, Leaves
  <2>8. CASE CallStop(c)
    BY <2>8 DEF CallStop
  <2>9. CASE StopLocks(c)
    BY <2>9 DEF StopLocks
  <2>10. CASE StopEnters(c)
    <3>1. CASE running = "no"
      BY <2>10, <3>1 DEF StopEnters, Leaves
    <3>2. CASE running # "no"
      BY <2>10, <3>2 DEF StopEnters, Leaves, YesNo
    <3> QED BY <3>1, <3>2
  <2>11. CASE StopWithdraws(c)
    BY <2>11 DEF StopWithdraws
  <2>12. CASE StopCloses(c)
    BY <2>12 DEF StopCloses
  <2>13. CASE StopCloseFails(c)
    BY <2>13 DEF StopCloseFails
  <2>14. CASE StopFails(c)
    BY <2>14 DEF StopFails
  <2>15. QED BY <1>17, <2>1, <2>2, <2>3, <2>4, <2>5, <2>6, <2>7, <2>8, <2>9, <2>10,
        <2>11, <2>12, <2>13, <2>14 DEF Call
<1>18. CASE UNCHANGED vars
  BY <1>18 DEF vars
<1> HIDE DEF TypeOK, LockShape, EngineShape, ProcessShape, pmVars, routeVars, lockVars
<1>19. QED BY <1>1, <1>2, <1>3, <1>4, <1>5, <1>6, <1>7, <1>8, <1>9, <1>10, <1>11, <1>12,
      <1>13, <1>14, <1>15, <1>16, <1>17, <1>18 DEF Next, Route, RouteGuard, Process

\* Each step keeps what holds of a process that is not there.
LEMMA ProcessStep ==
  ASSUME TypeOK, LockShape, ProcessShape, [Next]_vars
  PROVE  ProcessShape'
<1> USE TunnelAssumption, OrderValues DEF TypeOK, YesNo, LockShape, ProcessShape,
      RouteStates, Disabling, Removed, pmVars, routeVars, lockVars
<1>1. CASE RouteEnters
  BY <1>1 DEF RouteEnters
<1>2. CASE RouteRefused
  BY <1>2 DEF RouteRefused, Trouble
<1>3. CASE RouteDetaches
  BY <1>3 DEF RouteDetaches
<1>4. CASE RouteDetachFails
  BY <1>4 DEF RouteDetachFails, Trouble
<1>5. CASE RouteDetached
  BY <1>5 DEF RouteDetached
<1>6. CASE RouteInstalls
  BY <1>6 DEF RouteInstalls
<1>7. CASE RouteInstallFails
  BY <1>7 DEF RouteInstallFails, Trouble
<1>8. CASE FirmwareDrops
  BY <1>8 DEF FirmwareDrops, Trouble
<1>9. CASE GuardSeesRules
  BY <1>9 DEF GuardSeesRules
<1>10. CASE GuardRepairs
  BY <1>10 DEF GuardRepairs, Trouble
<1>11. CASE GuardEnds
  BY <1>11 DEF GuardEnds
<1>12. CASE Crash
  BY <1>12 DEF Crash, Dies
<1>13. CASE InitStops
  BY <1>13 DEF InitStops, Dies
<1>14. CASE InitCleans
  BY <1>14 DEF InitCleans, Trouble
<1>15. CASE InitStarts
  BY <1>15 DEF InitStarts
<1>16. CASE InitLaunches
  BY <1>16 DEF InitLaunches
<1>17. ASSUME NEW c \in Callers, Call(c) PROVE ProcessShape'
  <2>1. CASE CallStart(c)
    BY <2>1 DEF CallStart
  <2>2. CASE StartLocks(c)
    BY <2>2 DEF StartLocks
  <2>3. CASE StartEnters(c)
    <3>1. CASE running = "yes"
      BY <2>3, <3>1 DEF StartEnters, Leaves
    <3>2. CASE running # "yes"
      BY <2>3, <3>2 DEF StartEnters, Leaves, YesNo
    <3> QED BY <3>1, <3>2
  <2>4. CASE StartRefused(c)
    BY <2>4 DEF StartRefused, Leaves
  <2>5. CASE EngineStarts(c)
    BY <2>5 DEF EngineStarts
  <2>6. CASE StartPublishes(c)
    BY <2>6 DEF StartPublishes, Leaves
  <2>7. CASE StartUndone(c)
    BY <2>7 DEF StartUndone, Leaves
  <2>8. CASE CallStop(c)
    BY <2>8 DEF CallStop
  <2>9. CASE StopLocks(c)
    BY <2>9 DEF StopLocks
  <2>10. CASE StopEnters(c)
    <3>1. CASE running = "no"
      BY <2>10, <3>1 DEF StopEnters, Leaves
    <3>2. CASE running # "no"
      BY <2>10, <3>2 DEF StopEnters, Leaves, YesNo
    <3> QED BY <3>1, <3>2
  <2>11. CASE StopWithdraws(c)
    BY <2>11 DEF StopWithdraws
  <2>12. CASE StopCloses(c)
    BY <2>12 DEF StopCloses
  <2>13. CASE StopCloseFails(c)
    BY <2>13 DEF StopCloseFails
  <2>14. CASE StopFails(c)
    BY <2>14 DEF StopFails
  <2>15. QED BY <1>17, <2>1, <2>2, <2>3, <2>4, <2>5, <2>6, <2>7, <2>8, <2>9, <2>10,
        <2>11, <2>12, <2>13, <2>14 DEF Call
<1>18. CASE UNCHANGED vars
  BY <1>18 DEF vars
<1> HIDE DEF TypeOK, YesNo, LockShape, ProcessShape, RouteStates, Disabling, Removed,
      pmVars, routeVars, lockVars
<1>19. QED BY <1>1, <1>2, <1>3, <1>4, <1>5, <1>6, <1>7, <1>8, <1>9, <1>10, <1>11, <1>12,
      <1>13, <1>14, <1>15, <1>16, <1>17, <1>18 DEF Next, Route, RouteGuard, Process

\* Each step keeps what the route commands know of the rules.
LEMMA RuleStep ==
  ASSUME TypeOK, LockShape, ProcessShape, RuleShape, NoLeftovers, [Next]_vars
  PROVE  RuleShape'
<1> USE TunnelAssumption, OrderValues DEF TypeOK, LockShape, ProcessShape, RuleShape,
      NoLeftovers, Disabling, Stages, Shell, RouteStates, pmVars, routeVars, lockVars
<1>1. CASE RouteEnters
  BY <1>1 DEF RouteEnters
<1>2. CASE RouteRefused
  BY <1>2 DEF RouteRefused, Trouble
<1>3. CASE RouteDetaches
  BY <1>3 DEF RouteDetaches, Removed
<1>4. CASE RouteDetachFails
  BY <1>4 DEF RouteDetachFails, Trouble
<1>5. CASE RouteDetached
  BY <1>5 DEF RouteDetached
<1>6. CASE RouteInstalls
  <2>1. rnext \in 1..4 /\ (rnext = 1 \/ rnext = 2 \/ rnext = 3 \/ rnext = 4)
    BY <1>6 DEF RouteInstalls, LockShape
  <2>2. CASE rnext = 1
    BY <1>6, <2>2 DEF RouteInstalls, Installable
  <2>3. CASE rnext = 2
    BY <1>6, <2>3 DEF RouteInstalls, Installable
  <2>4. CASE rnext = 3
    BY <1>6, <2>4 DEF RouteInstalls, Installable
  <2>5. CASE rnext = 4
    BY <1>6, <2>5 DEF RouteInstalls, Installable
  <2> QED BY <2>1, <2>2, <2>3, <2>4, <2>5
<1>7. CASE RouteInstallFails
  <2>1. rnext = 1 \/ rnext = 2 \/ rnext = 3 \/ rnext = 4
    BY <1>7 DEF RouteInstallFails, LockShape
  <2>2. rules \subseteq rules'
    BY <1>7 DEF RouteInstallFails
  <2>3. "capture" \in rules' => rules' \cap {"chains", Shell} # {}
    <3>1. CASE rnext = 4
      BY <1>7, <2>2, <3>1 DEF RouteInstallFails, Installable
    <3>2. CASE rnext # 4
      <4>1. Order[rnext] # "capture"
        BY <2>1, <3>2
      <4>2. "capture" \in rules' => "capture" \in rules
        BY <1>7, <4>1 DEF RouteInstallFails
      <4> QED BY <2>2, <4>2
    <3> QED BY <3>1, <3>2
  <2>4. rpc' = "cleanup" /\ rnext' = 4 /\ pc' = pc
    BY <1>7 DEF RouteInstallFails
  <2>5. \A c \in Callers : pc[c] # "prepare" /\ pc[c] # "detach"
    BY <1>7 DEF RouteInstallFails
  <2> QED BY <2>3, <2>4, <2>5
<1>8. CASE FirmwareDrops
  BY <1>8 DEF FirmwareDrops, Trouble
<1>9. CASE GuardSeesRules
  BY <1>9 DEF GuardSeesRules
<1>10. CASE GuardRepairs
  BY <1>10 DEF GuardRepairs, Trouble
<1>11. CASE GuardEnds
  BY <1>11 DEF GuardEnds
<1>12. CASE Crash
  BY <1>12 DEF Crash, Dies
<1>13. CASE InitStops
  BY <1>13 DEF InitStops, Dies
<1>14. CASE InitCleans
  BY <1>14 DEF InitCleans, Trouble
<1>15. CASE InitStarts
  BY <1>15 DEF InitStarts
<1>16. CASE InitLaunches
  BY <1>16 DEF InitLaunches
<1>17. ASSUME NEW c \in Callers, Call(c) PROVE RuleShape'
  <2>1. CASE CallStart(c)
    BY <2>1 DEF CallStart
  <2>2. CASE StartLocks(c)
    BY <2>2 DEF StartLocks
  <2>3. CASE StartEnters(c)
    <3>1. CASE running = "yes"
      BY <2>3, <3>1 DEF StartEnters, Leaves
    <3>2. CASE running # "yes"
      BY <2>3, <3>2 DEF StartEnters, Leaves, YesNo
    <3> QED BY <3>1, <3>2
  <2>4. CASE StartRefused(c)
    BY <2>4 DEF StartRefused, Leaves
  <2>5. CASE EngineStarts(c)
    BY <2>5 DEF EngineStarts
  <2>6. CASE StartPublishes(c)
    BY <2>6 DEF StartPublishes, Leaves
  <2>7. CASE StartUndone(c)
    BY <2>7 DEF StartUndone, Leaves
  <2>8. CASE CallStop(c)
    BY <2>8 DEF CallStop
  <2>9. CASE StopLocks(c)
    BY <2>9 DEF StopLocks
  <2>10. CASE StopEnters(c)
    <3>1. CASE running = "no"
      BY <2>10, <3>1 DEF StopEnters, Leaves
    <3>2. CASE running # "no"
      BY <2>10, <3>2 DEF StopEnters, Leaves, YesNo
    <3> QED BY <3>1, <3>2
  <2>11. CASE StopWithdraws(c)
    BY <2>11 DEF StopWithdraws
  <2>12. CASE StopCloses(c)
    BY <2>12 DEF StopCloses
  <2>13. CASE StopCloseFails(c)
    BY <2>13 DEF StopCloseFails
  <2>14. CASE StopFails(c)
    BY <2>14 DEF StopFails
  <2>15. QED BY <1>17, <2>1, <2>2, <2>3, <2>4, <2>5, <2>6, <2>7, <2>8, <2>9, <2>10,
        <2>11, <2>12, <2>13, <2>14 DEF Call
<1>18. CASE UNCHANGED vars
  BY <1>18 DEF vars
<1> HIDE DEF TypeOK, LockShape, ProcessShape, RuleShape, NoLeftovers, Disabling, Stages,
      Shell, RouteStates, pmVars, routeVars, lockVars
<1>19. QED BY <1>1, <1>2, <1>3, <1>4, <1>5, <1>6, <1>7, <1>8, <1>9, <1>10, <1>11, <1>12,
      <1>13, <1>14, <1>15, <1>16, <1>17, <1>18 DEF Next, Route, RouteGuard, Process

\* Each step keeps the policy rules under the hooks.
LEMMA PolicyStep ==
  ASSUME TypeOK, LockShape, RuleShape, CaptureHasPolicy, [Next]_vars
  PROVE  CaptureHasPolicy'
<1> USE TunnelAssumption, OrderValues DEF TypeOK, RuleShape, CaptureHasPolicy, Captures,
      Disabling, Stages, Shell, pmVars, routeVars, lockVars
<1>1. CASE RouteEnters
  BY <1>1 DEF RouteEnters
<1>2. CASE RouteRefused
  BY <1>2 DEF RouteRefused, Trouble
<1>3. CASE RouteDetaches
  BY <1>3 DEF RouteDetaches, Removed
<1>4. CASE RouteDetachFails
  BY <1>4 DEF RouteDetachFails, Trouble
<1>5. CASE RouteDetached
  BY <1>5 DEF RouteDetached
<1>6. CASE RouteInstalls
  <2>1. rnext \in 1..4 /\ (rnext = 1 \/ rnext = 2 \/ rnext = 3 \/ rnext = 4)
    BY <1>6 DEF RouteInstalls, LockShape
  <2>2. CASE rnext = 1
    BY <1>6, <2>2 DEF RouteInstalls, Installable
  <2>3. CASE rnext = 2
    BY <1>6, <2>3 DEF RouteInstalls, Installable
  <2>4. CASE rnext = 3
    BY <1>6, <2>4 DEF RouteInstalls, Installable
  <2>5. CASE rnext = 4
    BY <1>6, <2>5 DEF RouteInstalls, Installable
  <2> QED BY <2>1, <2>2, <2>3, <2>4, <2>5
<1>7. CASE RouteInstallFails
  <2>1. rnext \in 1..4 /\ (rnext = 1 \/ rnext = 2 \/ rnext = 3 \/ rnext = 4)
    BY <1>7 DEF RouteInstallFails, LockShape
  <2>2. CASE rnext = 1
    BY <1>7, <2>2 DEF RouteInstallFails, Trouble, Installable
  <2>3. CASE rnext = 2
    BY <1>7, <2>3 DEF RouteInstallFails, Trouble, Installable
  <2>4. CASE rnext = 3
    BY <1>7, <2>4 DEF RouteInstallFails, Trouble, Installable
  <2>5. CASE rnext = 4
    BY <1>7, <2>5 DEF RouteInstallFails, Trouble, Installable
  <2> QED BY <2>1, <2>2, <2>3, <2>4, <2>5
<1>8. CASE FirmwareDrops
  BY <1>8 DEF FirmwareDrops, Trouble
<1>9. CASE GuardSeesRules
  BY <1>9 DEF GuardSeesRules
<1>10. CASE GuardRepairs
  BY <1>10 DEF GuardRepairs, Trouble
<1>11. CASE GuardEnds
  BY <1>11 DEF GuardEnds
<1>12. CASE Crash
  BY <1>12 DEF Crash, Dies
<1>13. CASE InitStops
  BY <1>13 DEF InitStops, Dies
<1>14. CASE InitCleans
  BY <1>14 DEF InitCleans, Trouble
<1>15. CASE InitStarts
  BY <1>15 DEF InitStarts
<1>16. CASE InitLaunches
  BY <1>16 DEF InitLaunches
<1>17. ASSUME NEW c \in Callers, Call(c) PROVE CaptureHasPolicy'
  <2>1. CASE CallStart(c)
    BY <2>1 DEF CallStart
  <2>2. CASE StartLocks(c)
    BY <2>2 DEF StartLocks
  <2>3. CASE StartEnters(c)
    <3>1. CASE running = "yes"
      BY <2>3, <3>1 DEF StartEnters, Leaves
    <3>2. CASE running # "yes"
      BY <2>3, <3>2 DEF StartEnters, Leaves, YesNo
    <3> QED BY <3>1, <3>2
  <2>4. CASE StartRefused(c)
    BY <2>4 DEF StartRefused, Leaves
  <2>5. CASE EngineStarts(c)
    BY <2>5 DEF EngineStarts
  <2>6. CASE StartPublishes(c)
    BY <2>6 DEF StartPublishes, Leaves
  <2>7. CASE StartUndone(c)
    BY <2>7 DEF StartUndone, Leaves
  <2>8. CASE CallStop(c)
    BY <2>8 DEF CallStop
  <2>9. CASE StopLocks(c)
    BY <2>9 DEF StopLocks
  <2>10. CASE StopEnters(c)
    <3>1. CASE running = "no"
      BY <2>10, <3>1 DEF StopEnters, Leaves
    <3>2. CASE running # "no"
      BY <2>10, <3>2 DEF StopEnters, Leaves, YesNo
    <3> QED BY <3>1, <3>2
  <2>11. CASE StopWithdraws(c)
    BY <2>11 DEF StopWithdraws
  <2>12. CASE StopCloses(c)
    BY <2>12 DEF StopCloses
  <2>13. CASE StopCloseFails(c)
    BY <2>13 DEF StopCloseFails
  <2>14. CASE StopFails(c)
    BY <2>14 DEF StopFails
  <2>15. QED BY <1>17, <2>1, <2>2, <2>3, <2>4, <2>5, <2>6, <2>7, <2>8, <2>9, <2>10,
        <2>11, <2>12, <2>13, <2>14 DEF Call
<1>18. CASE UNCHANGED vars
  BY <1>18 DEF vars
<1> HIDE DEF TypeOK, RuleShape, CaptureHasPolicy, Captures, Disabling, Stages, Shell,
      pmVars, routeVars, lockVars
<1>19. QED BY <1>1, <1>2, <1>3, <1>4, <1>5, <1>6, <1>7, <1>8, <1>9, <1>10, <1>11, <1>12,
      <1>13, <1>14, <1>15, <1>16, <1>17, <1>18 DEF Next, Route, RouteGuard, Process

\* Each step leaves a manager without a tunnel without rules.
LEMMA LeftoverStep ==
  ASSUME TypeOK, LockShape, ProcessShape, RuleShape, NoLeftovers, [Next]_vars
  PROVE  NoLeftovers'
<1> USE TunnelAssumption, OrderValues DEF TypeOK, LockShape, ProcessShape, RuleShape,
      NoLeftovers, Disabling, Stages, Shell, RouteStates, pmVars, routeVars, lockVars
<1>1. CASE RouteEnters
  BY <1>1 DEF RouteEnters
<1>2. CASE RouteRefused
  BY <1>2 DEF RouteRefused, Trouble
<1>3. CASE RouteDetaches
  BY <1>3 DEF RouteDetaches, Removed
<1>4. CASE RouteDetachFails
  BY <1>4 DEF RouteDetachFails, Trouble
<1>5. CASE RouteDetached
  BY <1>5 DEF RouteDetached
<1>6. CASE RouteInstalls
  <2>1. rnext \in 1..4 /\ (rnext = 1 \/ rnext = 2 \/ rnext = 3 \/ rnext = 4)
    BY <1>6 DEF RouteInstalls, LockShape
  <2>2. CASE rnext = 1
    BY <1>6, <2>2 DEF RouteInstalls, Installable
  <2>3. CASE rnext = 2
    BY <1>6, <2>3 DEF RouteInstalls, Installable
  <2>4. CASE rnext = 3
    BY <1>6, <2>4 DEF RouteInstalls, Installable
  <2>5. CASE rnext = 4
    BY <1>6, <2>5 DEF RouteInstalls, Installable
  <2> QED BY <2>1, <2>2, <2>3, <2>4, <2>5
<1>7. CASE RouteInstallFails
  <2>1. rnext \in 1..4 /\ (rnext = 1 \/ rnext = 2 \/ rnext = 3 \/ rnext = 4)
    BY <1>7 DEF RouteInstallFails, LockShape
  <2>2. CASE rnext = 1
    BY <1>7, <2>2 DEF RouteInstallFails, Trouble, Installable
  <2>3. CASE rnext = 2
    BY <1>7, <2>3 DEF RouteInstallFails, Trouble, Installable
  <2>4. CASE rnext = 3
    BY <1>7, <2>4 DEF RouteInstallFails, Trouble, Installable
  <2>5. CASE rnext = 4
    BY <1>7, <2>5 DEF RouteInstallFails, Trouble, Installable
  <2> QED BY <2>1, <2>2, <2>3, <2>4, <2>5
<1>8. CASE FirmwareDrops
  BY <1>8 DEF FirmwareDrops, Trouble
<1>9. CASE GuardSeesRules
  BY <1>9 DEF GuardSeesRules
<1>10. CASE GuardRepairs
  BY <1>10 DEF GuardRepairs, Trouble
<1>11. CASE GuardEnds
  BY <1>11 DEF GuardEnds
<1>12. CASE Crash
  BY <1>12 DEF Crash, Dies
<1>13. CASE InitStops
  BY <1>13 DEF InitStops, Dies
<1>14. CASE InitCleans
  BY <1>14 DEF InitCleans, Trouble
<1>15. CASE InitStarts
  BY <1>15 DEF InitStarts
<1>16. CASE InitLaunches
  BY <1>16 DEF InitLaunches
<1>17. ASSUME NEW c \in Callers, Call(c) PROVE NoLeftovers'
  <2>1. CASE CallStart(c)
    BY <2>1 DEF CallStart
  <2>2. CASE StartLocks(c)
    BY <2>2 DEF StartLocks
  <2>3. CASE StartEnters(c)
    <3>1. CASE running = "yes"
      BY <2>3, <3>1 DEF StartEnters, Leaves
    <3>2. CASE running # "yes"
      BY <2>3, <3>2 DEF StartEnters, Leaves, YesNo
    <3> QED BY <3>1, <3>2
  <2>4. CASE StartRefused(c)
    BY <2>4 DEF StartRefused, Leaves
  <2>5. CASE EngineStarts(c)
    BY <2>5 DEF EngineStarts
  <2>6. CASE StartPublishes(c)
    BY <2>6 DEF StartPublishes, Leaves
  <2>7. CASE StartUndone(c)
    BY <2>7 DEF StartUndone, Leaves
  <2>8. CASE CallStop(c)
    BY <2>8 DEF CallStop
  <2>9. CASE StopLocks(c)
    BY <2>9 DEF StopLocks
  <2>10. CASE StopEnters(c)
    <3>1. CASE running = "no"
      BY <2>10, <3>1 DEF StopEnters, Leaves
    <3>2. CASE running # "no"
      BY <2>10, <3>2 DEF StopEnters, Leaves, YesNo
    <3> QED BY <3>1, <3>2
  <2>11. CASE StopWithdraws(c)
    BY <2>11 DEF StopWithdraws
  <2>12. CASE StopCloses(c)
    BY <2>12 DEF StopCloses
  <2>13. CASE StopCloseFails(c)
    BY <2>13 DEF StopCloseFails
  <2>14. CASE StopFails(c)
    BY <2>14 DEF StopFails
  <2>15. QED BY <1>17, <2>1, <2>2, <2>3, <2>4, <2>5, <2>6, <2>7, <2>8, <2>9, <2>10,
        <2>11, <2>12, <2>13, <2>14 DEF Call
<1>18. CASE UNCHANGED vars
  BY <1>18 DEF vars
<1> HIDE DEF TypeOK, LockShape, ProcessShape, RuleShape, NoLeftovers, Disabling, Stages,
      Shell, RouteStates, pmVars, routeVars, lockVars
<1>19. QED BY <1>1, <1>2, <1>3, <1>4, <1>5, <1>6, <1>7, <1>8, <1>9, <1>10, <1>11, <1>12,
      <1>13, <1>14, <1>15, <1>16, <1>17, <1>18 DEF Next, Route, RouteGuard, Process

\* TunnelInv holds in every state of every behaviour of Start, Stop,
\* routeGuard, the firmware and the init script.
THEOREM TunnelInvHolds == Spec => []TunnelInv
<1>1. Init => TunnelInv
  BY TunnelAssumption, OrderValues DEF Init, TunnelInv, TypeOK, LockShape, EngineShape,
        ProcessShape,
     RuleShape, CaptureHasPolicy, NoLeftovers, Captures, Disabling, Stages, Shell,
     YesNo, CallStates, RouteStates, InitStates
<1>2. TunnelInv /\ [Next]_vars => TunnelInv'
  BY TypeStep, LockStep, EngineStep, ProcessStep, RuleStep, PolicyStep, LeftoverStep
     DEF TunnelInv
<1>3. QED BY <1>1, <1>2, PTL DEF Spec

\* The variables keep their types; no engine is closed twice.
THEOREM TunnelTypes == Spec => []TypeOK
<1>1. TunnelInv => TypeOK BY DEF TunnelInv
<1>2. QED BY <1>1, TunnelInvHolds, PTL

\* Two engines never share the port, for any number of concurrent callers.
THEOREM EngineExclusive == Spec => []OneEngine
<1>1. TunnelInv => OneEngine BY DEF TunnelInv, EngineShape, OneEngine
<1>2. QED BY <1>1, TunnelInvHolds, PTL

\* Packets are not sent to a closed listener by a living manager.
THEOREM NoBlackhole == Spec => []CaptureHasEngine
<1>1. TunnelInv => CaptureHasEngine
  <2> SUFFICES ASSUME TunnelInv, alive = "yes", Captures, engines = 0
               PROVE  {"capture", "chains"} \subseteq damage
    BY DEF CaptureHasEngine
  <2>1. running = "no" /\ \A c \in Callers : pc[c] \notin {"route", "closing"}
    BY DEF TunnelInv, EngineShape, TypeOK, YesNo
  <2>2. mu # Guard /\ \A c \in Callers : pc[c] # "detach"
    BY <2>1 DEF TunnelInv, LockShape
  <2>3. mu = None \/ \E c \in Callers : pc[c] = "prepare"
    BY <2>1, <2>2 DEF TunnelInv, LockShape, TypeOK
  <2>4. rules \ {Shell} \subseteq damage
    BY <2>1, <2>3 DEF TunnelInv, NoLeftovers, RuleShape
  <2>5. QED BY <2>4 DEF Captures, Shell
<1>2. QED BY <1>1, TunnelInvHolds, PTL

\* The policy rules go in before the hooks and out after them.
THEOREM PolicyOutlivesCapture == Spec => []CaptureHasPolicy
<1>1. TunnelInv => CaptureHasPolicy BY DEF TunnelInv
<1>2. QED BY <1>1, TunnelInvHolds, PTL

\* A manager without a tunnel has left no rule but what it failed to remove.
THEOREM NothingLeftOver == Spec => []NoLeftovers
<1>1. TunnelInv => NoLeftovers BY DEF TunnelInv
<1>2. QED BY <1>1, TunnelInvHolds, PTL
=============================================================================
