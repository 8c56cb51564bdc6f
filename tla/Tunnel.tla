------------------------------- MODULE Tunnel -------------------------------
(***************************************************************************)
(* The tunnel: ProcessManager (process.go), the kernel rules it installs   *)
(* (routing.go) and the init script that starts and kills the manager      *)
(* (packaging/init.d/S99vless-manager).  A step is one stage of the list   *)
(* of iptables and ip commands, the start or the end of the embedded       *)
(* engine, or what a goroutine does between two of those while it holds    *)
(* pm.lifecycleMu or pm.mu.                                                *)
(***************************************************************************)
EXTENDS Naturals, Sequences

CONSTANTS
  Callers,        \* the goroutines that call Start and Stop
  Guard, None,
  MaxGeneration,  \* bound: the tunnel is started while it is below this
  MaxTrouble      \* bound: failing commands and rules lost to the firmware

ASSUME TunnelAssumption ==
  /\ Guard \notin Callers /\ None \notin Callers \cup {Guard}
  /\ MaxGeneration \in Nat /\ MaxTrouble \in Nat

VARIABLES
  alive,       \* "yes" while the manager process exists
  rules,       \* the stages of the command list whose rules are in the kernel
  damage,      \* those a failed removal left behind or the firmware dropped
  engines,     \* how many engines listen on the TPROXY port, or try to
  life, mu,    \* the holders of pm.lifecycleMu and pm.mu
  pc,          \* where each caller is in Start or Stop
  rpc, rnext,  \* where the holder of pm.mu is in the route commands
  running, generation, routeReady,   \* the fields of ProcessManager
  guard,       \* pm.guardOnce: whether routeGuard has been started
  ipc,         \* where the init script is
  trouble      \* the failures and losses so far

pmVars == <<running, generation, routeReady, guard>>
routeVars == <<rpc, rnext>>
lockVars == <<life, mu, pc>>
vars == <<alive, rules, damage, engines, lockVars, routeVars, pmVars, ipc, trouble>>

\* globalRouteCommands, in the order of execution: the policy rules and the
\* local route; the chains that capture packets; the chain that protects the
\* listener, with its hooks; the hooks that send packets into the chains.
Order == <<"policy", "chains", "protect", "capture">>
Stages == {"policy", "chains", "protect", "capture"}

\* A capturing chain that was flushed but, a hook still jumping to it, could
\* not be deleted.
Shell == "shell"

YesNo == {"no", "yes"}
CallStates == {"idle", "start", "startMu", "prepare", "route",
               "stop", "stopMu", "detach", "closing", "failed"}
RouteStates == {"idle", "enter", "clear", "install", "cleanup", "detach", "ok", "err"}
InitStates == {"idle", "clean", "cleanStart", "start", "launch"}

Init ==
  /\ alive = "no" /\ engines = 0
  /\ rules \in {{}, Stages} /\ damage = {}     \* a former run may have left its rules
  /\ life = None /\ mu = None /\ pc = [c \in Callers |-> "idle"]
  /\ rpc = "idle" /\ rnext = 1
  /\ running = "no" /\ generation = 0 /\ routeReady = "no" /\ guard = "no"
  /\ ipc = "idle" /\ trouble = 0

Trouble == trouble < MaxTrouble /\ trouble' = trouble + 1
-----------------------------------------------------------------------------
\* The route commands, executed by the holder of pm.mu.

\* EnableGlobalRoute has the addresses it needs and starts with a cleanup.
RouteEnters ==
  /\ rpc = "enter" /\ rpc' = "clear" /\ rnext' = Len(Order)
  /\ UNCHANGED <<alive, rules, damage, engines, lockVars, pmVars, ipc, trouble>>

\* EnableGlobalRoute cannot resolve or list addresses: it has done nothing.
RouteRefused ==
  /\ rpc = "enter" /\ Trouble
  /\ rpc' = "err"
  /\ UNCHANGED <<alive, rules, damage, engines, lockVars, rnext, pmVars, ipc>>

Disabling == rpc \in {"clear", "cleanup", "detach"}

\* The rules without those of stage s: a chain with a hook is only flushed.
Removed(s) ==
  IF s = "chains" /\ "capture" \in rules
  THEN IF rules \cap {s, Shell} = {} THEN rules ELSE (rules \ {s}) \cup {Shell}
  ELSE rules \ (IF s = "chains" THEN {s, Shell} ELSE {s})

\* Mutant of RouteDetaches: the policy rules go first and the hooks last.
RouteDetachesPolicyFirst ==
  /\ Disabling /\ rnext > 0
  /\ LET s == Order[Len(Order) + 1 - rnext] IN
       rules' = Removed(s) /\ damage' = damage \ {s}
  /\ rnext' = rnext - 1
  /\ UNCHANGED <<alive, engines, lockVars, rpc, pmVars, ipc, trouble>>

\* disableGlobalRoute removes the hooks first and the policy rules last.
RouteDetaches ==
  /\ Disabling /\ rnext > 0
  /\ rules' = Removed(Order[rnext]) /\ damage' = damage \ {Order[rnext]}
  /\ rnext' = rnext - 1
  /\ UNCHANGED <<alive, engines, lockVars, rpc, pmVars, ipc, trouble>>

\* A removal fails (the xtables lock is taken): the error is ignored.
RouteDetachFails ==
  /\ Disabling /\ rnext > 0 /\ Order[rnext] \in rules /\ Trouble
  /\ damage' = damage \cup {Order[rnext]}
  /\ rnext' = rnext - 1
  /\ UNCHANGED <<alive, rules, engines, lockVars, rpc, pmVars, ipc>>

RouteDetached ==
  /\ Disabling /\ rnext = 0
  /\ rpc' = CASE rpc = "clear" -> "install"
              [] rpc = "cleanup" -> "err"
              [] rpc = "detach" -> "ok"
  /\ rnext' = 1
  /\ UNCHANGED <<alive, rules, damage, engines, lockVars, pmVars, ipc, trouble>>

\* A chain cannot be created twice, and a hook needs the chain it jumps to.
\* (Whether a policy rule can be added twice depends on the kernel.)
Installable(s) ==
  CASE s = "policy" -> TRUE
    [] s = "chains" -> rules \cap {"chains", Shell} = {}
    [] s = "protect" -> "protect" \notin rules
    [] s = "capture" -> "chains" \in rules

\* installGlobalRoute.
RouteInstalls ==
  /\ rpc = "install" /\ Installable(Order[rnext])
  /\ rules' = rules \cup {Order[rnext]} /\ damage' = damage \ {Order[rnext]}
  /\ IF rnext = Len(Order)
     THEN rpc' = "ok" /\ rnext' = 1
     ELSE rpc' = rpc /\ rnext' = rnext + 1
  /\ UNCHANGED <<alive, engines, lockVars, pmVars, ipc, trouble>>

\* Mutant of RouteInstallFails: the cleanup is forgotten.
RouteInstallGivesUp ==
  /\ rpc = "install"
  /\ \/ /\ Installable(Order[rnext]) /\ Trouble
        /\ rules' \in {rules, rules \cup {Order[rnext]}}
     \/ /\ Order[rnext] = "policy" => "policy" \in rules
        /\ Order[rnext] # "policy" => ~Installable(Order[rnext])
        /\ UNCHANGED <<trouble, rules>>
  /\ rpc' = "err" /\ rnext' = 1
  /\ UNCHANGED <<alive, damage, engines, lockVars, pmVars, ipc>>

\* A command fails, possibly after others of its stage: cleanup() follows.
RouteInstallFails ==
  /\ rpc = "install"
  /\ \/ /\ Installable(Order[rnext]) /\ Trouble
        /\ rules' \in {rules, rules \cup {Order[rnext]}}
     \/ /\ Order[rnext] = "policy" => "policy" \in rules
        /\ Order[rnext] # "policy" => ~Installable(Order[rnext])
        /\ UNCHANGED <<trouble, rules>>
  /\ rpc' = "cleanup" /\ rnext' = Len(Order)
  /\ UNCHANGED <<alive, damage, engines, lockVars, pmVars, ipc>>

\* The router's firmware rewrites its tables: rules of ours disappear, the
\* hooks at least along with the chains they jump to.
FirmwareDrops ==
  /\ Trouble
  /\ \E lost \in SUBSET rules :
       /\ lost # {}
       /\ lost \cap {"chains", Shell} # {} /\ "capture" \in rules => "capture" \in lost
       /\ rules' = rules \ lost
       /\ damage' = damage \cup lost
  /\ UNCHANGED <<alive, engines, lockVars, routeVars, pmVars, ipc>>
-----------------------------------------------------------------------------
\* Start.

CallStart(c) ==
  /\ alive = "yes" /\ pc[c] = "idle" /\ generation < MaxGeneration
  /\ pc' = [pc EXCEPT ![c] = "start"]
  /\ UNCHANGED <<alive, rules, damage, engines, life, mu, routeVars, pmVars, ipc, trouble>>

\* Mutant of StartLocks: Start does not take pm.lifecycleMu.
StartSkipsLifecycle(c) ==
  /\ pc[c] = "start"
  /\ pc' = [pc EXCEPT ![c] = "startMu"]
  /\ UNCHANGED <<alive, rules, damage, engines, life, mu, routeVars, pmVars, ipc, trouble>>

StartLocks(c) ==
  /\ pc[c] = "start" /\ life = None
  /\ life' = c
  /\ pc' = [pc EXCEPT ![c] = "startMu"]
  /\ UNCHANGED <<alive, rules, damage, engines, mu, routeVars, pmVars, ipc, trouble>>

\* Start returns: the deferred calls release both locks.
Leaves(c) ==
  /\ mu' = None
  /\ life' = IF life = c THEN None ELSE life
  /\ pc' = [pc EXCEPT ![c] = "idle"]

\* Start holds both locks; it returns at once if the tunnel is running.
StartEnters(c) ==
  /\ pc[c] = "startMu" /\ mu = None
  /\ IF running = "yes"
     THEN Leaves(c)
     ELSE mu' = c /\ pc' = [pc EXCEPT ![c] = "prepare"] /\ UNCHANGED life
  /\ UNCHANGED <<alive, rules, damage, engines, routeVars, pmVars, ipc, trouble>>

\* There is no active server, its address does not resolve, the kernel has no
\* TPROXY, or the engine rejects its configuration.
StartRefused(c) ==
  /\ pc[c] = "prepare" /\ Leaves(c)
  /\ UNCHANGED <<alive, rules, damage, engines, routeVars, pmVars, ipc, trouble>>

\* The engine listens; only now does Start call EnableGlobalRoute.
EngineStarts(c) ==
  /\ pc[c] = "prepare"
  /\ engines' = engines + 1
  /\ rpc' = "enter"
  /\ pc' = [pc EXCEPT ![c] = "route"]
  /\ UNCHANGED <<alive, rules, damage, life, mu, rnext, pmVars, ipc, trouble>>

\* The rules are installed: Start publishes the tunnel.
StartPublishes(c) ==
  /\ pc[c] = "route" /\ rpc = "ok"
  /\ running' = "yes" /\ generation' = generation + 1
  /\ routeReady' = "yes" /\ guard' = "yes"
  /\ rpc' = "idle" /\ Leaves(c)
  /\ UNCHANGED <<alive, rules, damage, engines, rnext, ipc, trouble>>

\* The rules are not installed: Start closes the engine again.
StartUndone(c) ==
  /\ pc[c] = "route" /\ rpc = "err"
  /\ engines' = engines - 1
  /\ rpc' = "idle" /\ Leaves(c)
  /\ UNCHANGED <<alive, rules, damage, rnext, pmVars, ipc, trouble>>
-----------------------------------------------------------------------------
\* Stop.

CallStop(c) ==
  /\ alive = "yes" /\ pc[c] = "idle"
  /\ pc' = [pc EXCEPT ![c] = "stop"]
  /\ UNCHANGED <<alive, rules, damage, engines, life, mu, routeVars, pmVars, ipc, trouble>>

StopLocks(c) ==
  /\ pc[c] = "stop" /\ life = None
  /\ life' = c
  /\ pc' = [pc EXCEPT ![c] = "stopMu"]
  /\ UNCHANGED <<alive, rules, damage, engines, mu, routeVars, pmVars, ipc, trouble>>

\* Stop returns if nothing runs, otherwise it calls DisableGlobalRoute.
StopEnters(c) ==
  /\ pc[c] = "stopMu" /\ mu = None
  /\ IF running = "no"
     THEN Leaves(c) /\ UNCHANGED routeVars
     ELSE /\ mu' = c /\ pc' = [pc EXCEPT ![c] = "detach"] /\ UNCHANGED life
          /\ rpc' = "detach" /\ rnext' = Len(Order)
  /\ UNCHANGED <<alive, rules, damage, engines, pmVars, ipc, trouble>>

\* Mutant of StopWithdraws: Stop also unlocks pm.lifecycleMu before the close.
StopUnlocksBoth(c) ==
  /\ pc[c] = "detach" /\ rpc = "ok"
  /\ running' = "no" /\ generation' = generation + 1 /\ routeReady' = "no"
  /\ rpc' = "idle"
  /\ mu' = None /\ life' = None
  /\ pc' = [pc EXCEPT ![c] = "closing"]
  /\ UNCHANGED <<alive, rules, damage, engines, rnext, guard, ipc, trouble>>

\* Mutant of StopWithdraws: Stop forgets to unlock pm.mu.
StopKeepsMu(c) ==
  /\ pc[c] = "detach" /\ rpc = "ok"
  /\ running' = "no" /\ generation' = generation + 1 /\ routeReady' = "no"
  /\ rpc' = "idle"
  /\ pc' = [pc EXCEPT ![c] = "closing"]
  /\ UNCHANGED <<alive, rules, damage, engines, life, mu, rnext, guard, ipc, trouble>>

\* Stop withdraws the tunnel and unlocks pm.mu, not pm.lifecycleMu.
StopWithdraws(c) ==
  /\ pc[c] = "detach" /\ rpc = "ok"
  /\ running' = "no" /\ generation' = generation + 1 /\ routeReady' = "no"
  /\ rpc' = "idle"
  /\ mu' = None
  /\ pc' = [pc EXCEPT ![c] = "closing"]
  /\ UNCHANGED <<alive, rules, damage, engines, life, rnext, guard, ipc, trouble>>

\* Stop closes the engine and returns.
StopCloses(c) ==
  /\ pc[c] = "closing"
  /\ engines' = engines - 1
  /\ life' = None
  /\ pc' = [pc EXCEPT ![c] = "idle"]
  /\ UNCHANGED <<alive, rules, damage, mu, routeVars, pmVars, ipc, trouble>>

\* The close of the engine reports an error.
StopCloseFails(c) ==
  /\ pc[c] = "closing"
  /\ engines' = engines - 1
  /\ pc' = [pc EXCEPT ![c] = "failed"]
  /\ UNCHANGED <<alive, rules, damage, life, mu, routeVars, pmVars, ipc, trouble>>

\* Stop takes pm.mu once more, pm.lifecycleMu in hand, to record that error.
StopFails(c) ==
  /\ pc[c] = "failed" /\ mu = None
  /\ life' = None
  /\ pc' = [pc EXCEPT ![c] = "idle"]
  /\ UNCHANGED <<alive, rules, damage, engines, mu, routeVars, pmVars, ipc, trouble>>
-----------------------------------------------------------------------------
\* routeGuard.

\* A tick finds the rules in place.
GuardSeesRules ==
  /\ guard = "yes" /\ running = "yes" /\ mu = None
  /\ rules = Stages
  /\ routeReady' = "yes"
  /\ UNCHANGED <<alive, rules, damage, engines, lockVars, routeVars, running, generation,
                 guard, ipc, trouble>>

\* Mutant of GuardRepairs: a repair that failed is not tried again.
GuardRepairsOnce ==
  /\ guard = "yes" /\ running = "yes" /\ mu = None
  /\ (rules # Stages /\ UNCHANGED trouble) \/ Trouble
  /\ routeReady = "yes" /\ routeReady' = "no"
  /\ mu' = Guard /\ rpc' = "enter"
  /\ UNCHANGED <<alive, rules, damage, engines, life, pc, rnext, running, generation,
                 guard, ipc>>

\* A tick finds rules missing, or cannot list them, and calls
\* EnableGlobalRoute, pm.mu in hand.
GuardRepairs ==
  /\ guard = "yes" /\ running = "yes" /\ mu = None
  /\ (rules # Stages /\ UNCHANGED trouble) \/ Trouble
  /\ routeReady' = "no"
  /\ mu' = Guard /\ rpc' = "enter"
  /\ UNCHANGED <<alive, rules, damage, engines, life, pc, rnext, running, generation,
                 guard, ipc>>

GuardEnds ==
  /\ mu = Guard /\ rpc \in {"ok", "err"}
  /\ routeReady' = IF rpc = "ok" THEN "yes" ELSE routeReady
  /\ mu' = None /\ rpc' = "idle"
  /\ UNCHANGED <<alive, rules, damage, engines, life, pc, rnext, running, generation,
                 guard, ipc, trouble>>
-----------------------------------------------------------------------------
\* The process and the init script.

\* The process ends: its memory and its listener go, the kernel's rules stay.
Dies ==
  /\ alive' = "no" /\ engines' = 0
  /\ life' = None /\ mu' = None /\ pc' = [c \in Callers |-> "idle"]
  /\ rpc' = "idle" /\ rnext' = 1
  /\ running' = "no" /\ generation' = 0 /\ routeReady' = "no" /\ guard' = "no"

\* A panic, log.Fatal or kill -9.
Crash ==
  /\ alive = "yes" /\ Dies
  /\ UNCHANGED <<rules, damage, ipc, trouble>>

\* stop() and restart: kill ends the process, which handles no signal.
InitStops ==
  /\ ipc = "idle"
  /\ \E next \in {"clean", "cleanStart"} : ipc' = next
  /\ Dies
  /\ UNCHANGED <<rules, damage, trouble>>

\* clean_routing, at the end of stop() and, before the process, in start().  An
\* error of a command is ignored: what it was to remove stays, a capturing chain
\* with a surviving hook is flushed all the same.
InitCleans ==
  /\ ipc \in {"clean", "cleanStart", "start"}
  /\ ipc = "start" => alive = "no"
  /\ \E failed \in SUBSET rules :
       /\ (failed = {} /\ UNCHANGED trouble) \/ (failed # {} /\ Trouble)
       /\ rules' = failed \cup (IF "capture" \in failed /\ "chains" \notin failed
                              THEN {Shell} ELSE {})
       /\ damage' = failed
  /\ ipc' = CASE ipc = "clean" -> "idle" [] ipc = "cleanStart" -> "start"
              [] ipc = "start" -> "launch"
  /\ UNCHANGED <<alive, engines, lockVars, routeVars, pmVars>>

\* Mutant of InitStarts: start() launches the manager without clean_routing.
InitStartsDirty ==
  /\ ipc = "idle"
  /\ ipc' = IF alive = "yes" THEN "idle" ELSE "launch"
  /\ UNCHANGED <<alive, rules, damage, engines, lockVars, routeVars, pmVars, trouble>>

\* start(): nothing to do if the manager is running.
InitStarts ==
  /\ ipc = "idle"
  /\ ipc' = IF alive = "yes" THEN "idle" ELSE "start"
  /\ UNCHANGED <<alive, rules, damage, engines, lockVars, routeVars, pmVars, trouble>>

InitLaunches ==
  /\ ipc = "launch"
  /\ alive' = "yes" /\ ipc' = "idle"
  /\ UNCHANGED <<rules, damage, engines, lockVars, routeVars, pmVars, trouble>>
-----------------------------------------------------------------------------
Route ==
  \/ RouteEnters \/ RouteRefused \/ RouteDetaches \/ RouteDetachFails \/ RouteDetached
  \/ RouteInstalls \/ RouteInstallFails

Call(c) ==
  \/ CallStart(c) \/ StartLocks(c) \/ StartEnters(c) \/ StartRefused(c)
  \/ EngineStarts(c) \/ StartPublishes(c) \/ StartUndone(c)
  \/ CallStop(c) \/ StopLocks(c) \/ StopEnters(c) \/ StopWithdraws(c) \/ StopCloses(c)
  \/ StopCloseFails(c) \/ StopFails(c)

RouteGuard == GuardSeesRules \/ GuardRepairs \/ GuardEnds

Process == Crash \/ InitStops \/ InitCleans \/ InitStarts \/ InitLaunches

Next ==
  \/ Route \/ FirmwareDrops \/ RouteGuard \/ Process
  \/ \E c \in Callers : Call(c)

Spec == Init /\ [][Next]_vars

\* The goroutines run, a waiting goroutine gets its mutex in the end (Go's
\* mutexes are starvation-free) and the ticker of routeGuard ticks.  Nothing
\* makes anyone call Start or Stop, run the init script or crash.
Fairness ==
  /\ WF_vars(Route) /\ WF_vars(RouteGuard)
  /\ \A c \in Callers :
       /\ WF_vars(StartRefused(c) \/ EngineStarts(c))
       /\ WF_vars(StartPublishes(c) \/ StartUndone(c))
       /\ WF_vars(StopWithdraws(c) \/ StopCloses(c) \/ StopCloseFails(c))
       /\ SF_vars(StartLocks(c) \/ StopLocks(c))
       /\ SF_vars(StartEnters(c) \/ StopEnters(c) \/ StopFails(c))

FairSpec == Spec /\ Fairness
-----------------------------------------------------------------------------
\* Every variable has its type; an engine is closed only once.
TypeOK ==
  /\ alive \in YesNo /\ engines \in Nat
  /\ rules \in SUBSET (Stages \cup {Shell}) /\ damage \in SUBSET (Stages \cup {Shell})
  /\ life \in Callers \cup {None} /\ mu \in Callers \cup {Guard, None}
  /\ pc \in [Callers -> CallStates]
  /\ rpc \in RouteStates /\ rnext \in 0..Len(Order)
  /\ running \in YesNo /\ generation \in Nat
  /\ routeReady \in YesNo /\ guard \in YesNo
  /\ ipc \in InitStates /\ trouble \in Nat

\* Start never starts an engine while the engine of an earlier tunnel still
\* holds the port: Stop closes it outside pm.mu, inside pm.lifecycleMu.
OneEngine == engines <= 1

\* The hooks send packets to the listener.
Captures == {"capture", "chains"} \subseteq rules

\* While the manager lives, packets are never sent to a listener that is not
\* there, unless both the removal of the hooks and the flush of the chains
\* failed: Start installs the hooks after the engine listens, and Stop and a
\* failed Start remove them before they close the engine, whatever the guard
\* and the firmware do in between.
CaptureHasEngine ==
  alive = "yes" /\ Captures /\ engines = 0 => {"capture", "chains"} \subseteq damage

\* Packets are never marked without the policy rules that deliver marked
\* packets: the policy goes in first and out last.  The firmware can take it
\* away, and two failed removals can leave the hooks.
CaptureHasPolicy ==
  Captures /\ "policy" \notin rules =>
    "policy" \in damage \/ {"capture", "chains"} \subseteq damage

\* A manager without a tunnel, pm.mu free, has left no rule in the kernel but
\* what it, or clean_routing, failed to remove: neither from a start undone
\* half-way, nor from a repair that a Stop waited for, nor from a process that
\* was killed.
NoLeftovers ==
  alive = "yes" /\ running = "no" /\ mu = None => rules \ {Shell} \subseteq damage

\* What makes the above inductive: who holds the locks and where the holder is.
LockShape ==
  /\ \A c \in Callers :
       /\ life = c <=> pc[c] \in {"startMu", "prepare", "route", "stopMu", "detach",
                                 "closing", "failed"}
       /\ mu = c <=> pc[c] \in {"prepare", "route", "detach"}
       /\ pc[c] \in {"prepare", "route", "closing", "failed"} => running = "no"
       /\ pc[c] = "detach" => running = "yes"
       /\ pc[c] = "prepare" => rpc = "idle"
       /\ pc[c] = "detach" => rpc \in {"detach", "ok"}
       /\ pc[c] = "route" => rpc \in RouteStates \ {"idle", "detach"}
  /\ mu = Guard => running = "yes" /\ rpc \in RouteStates \ {"idle", "detach"}
  /\ mu = None => rpc = "idle"
  /\ rpc = "install" => rnext > 0

\* The engine is up exactly from Start's call to Stop's or Start's close.
EngineShape ==
  engines = IF running = "yes" \/ \E c \in Callers : pc[c] \in {"route", "closing"}
            THEN 1 ELSE 0

\* A process that is not there holds nothing, and start() launches it after a
\* clean_routing that left only what it failed to remove.
ProcessShape ==
  /\ alive = "no" => running = "no" /\ \A c \in Callers : pc[c] = "idle"
  /\ ipc # "idle" => alive = "no"
  /\ ipc = "launch" => rules \ {Shell} \subseteq damage

\* What each point of the route commands knows of the kernel's rules.
RuleShape ==
  /\ "capture" \in rules => rules \cap {"chains", Shell} # {}
  /\ Disabling => \A i \in DOMAIN Order :
       i > rnext /\ Order[i] \in rules => Order[i] \in damage
  /\ rpc = "install" /\ rnext > 1 => "policy" \in rules \cup damage
  /\ \A c \in Callers :
       \/ pc[c] = "prepare"
       \/ pc[c] = "route" /\ rpc \in {"enter", "err"}
       \/ pc[c] = "detach" /\ rpc = "ok"
       => rules \ {Shell} \subseteq damage

\* The inductive invariant of Start, Stop, routeGuard and the init script.
TunnelInv ==
  /\ TypeOK /\ LockShape /\ EngineShape /\ ProcessShape /\ RuleShape
  /\ CaptureHasPolicy /\ NoLeftovers

\* While the tunnel runs, rules lost to the firmware come back in the end, once
\* commands stop failing, and routeReady says so: a failed repair is retried.
RoutesRepaired ==
  running = "yes" /\ (rules # Stages \/ routeReady = "no")
    ~> (rules = Stages /\ routeReady = "yes") \/ running = "no"

\* Every call of Start and Stop returns: the two locks are taken in one order,
\* also when Stop comes back to pm.mu after a failed close, and released on
\* every path.
CallReturns ==
  \A c \in Callers : pc[c] # "idle" ~> pc[c] = "idle"

\* clean_routing's comment: the manager's own DisableGlobalRoute runs on
\* graceful shutdown.  (A kill by stop() leaves no rules behind.)
GracefulShutdownCleans ==
  [][running = "yes" /\ alive' = "no" /\ ipc # ipc' => rules' = {}]_vars
=============================================================================
