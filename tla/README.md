# VLESS Manager: TLA+ specifications and proofs

VLESS Manager runs on Keenetic routers. One Go process embeds the Xray engine,
installs TPROXY rules that send the clients' traffic through it, picks a server
from subscriptions by probing them, and replaces the tunnel when it stops
working. This directory models the parts of `cmd/vless-manager` and of the init
script where goroutines, kernel state and failures meet, checks them with TLC
and proves the central properties with TLAPS.

## The system

| Part | Code | State | Operations | Model |
|---|---|---|---|---|
| Operation coordinator | `operations.go` | queue, active operation, dedupe keys, wake channel | Run, Acquire/Finish, worker, watchdog, cancel | `Operations`, `HeavySlot` |
| Tunnel | `process.go`, `routing.go`, `S99vless-manager` | pm.running, generation, engine, kernel rules, two locks | Start, Stop, routeGuard, init start/stop, crash | `Tunnel` |
| VPN control | `failover.go`, handlers of `api.go`, boot in `main.go` | switches, hysteresis, backoffs, health, selection | outerTick, healthTick, start/stop/restart/connect/settings/disable | `Control` |
| Server selection, ping | `api.go`, `ping.go` | groups left, current batch, pingStopGen | findBestConfigured, batches, rotation, cancel | `Selection` |
| Catalog, persistence | `config.go`, `subscriptions.go`, `api.go`, startup in `main.go` | cfg, subs, config.json, subscriptions.json | edits, refresh, select, two-file save with rollback, crash, startup | `Catalog` |
| Updater, speed test | `update.go`, `speedtest.go` | statuses, busy flags | check, install, history, test, cancel | `Jobs` |
| Bypass lists | `bypass*.go`, `api.go`, `xray_embed.go` | saved list, settings, engine rules | refresh, live update, settings, start from a snapshot | `Bypass` |
| Service log | `process.go` | ring buffer | logEvent, clear, Entries | `ServiceLog` |
| Authentication | `auth.go` | tables of sessions and attempts | login, request, logout, sweep | `Auth` |
| Settings, links, Xray JSON, traffic | `settings.go`, `vless.go`, `xray.go`, `traffic.go`, ... | none that interleaves | validation, parsing, formatting | not modelled |
| Xray core | `xray_src/` | third party | | external |

How they interact: every heavy job (subscription refresh, bypass refresh, ping
batch, update, speed test) passes through the coordinator. Handlers and the two
ticks of the failover controller call ProcessManager's Start and Stop, which
`pm.lifecycleMu` serialises. `Tunnel` opens those two calls up; `Control` takes
each as one step, which `Tunnel`'s locking justifies. The lock order in the code is
`s.mu`, then `fc.mu`, then `pm.mu`.

A handler such as handleStart appears in several modules, each with the part of it
that module is about: `Control` has what it does to the VPN, `Catalog` what it saves,
`Selection` how it finds a server, `Bypass` which configuration the engine gets.

## Modules

**Operations** (`operations.go`). `pc[op]` is where a caller is inside Run, `wpc`
and `wop` the worker and its operation, `fpc` the operation's function, `apc` the
caller of Acquire. `queue`, `active`, `dedupe`, `wake` and `done` are the fields
and channels of those names. `ctxDone` and `runDone` say which contexts are
cancelled. A step is a critical section of `c.mu`, a channel operation or a call of
a cancel function. `requested` says that a cancel has reached the operation in the
worker's hands. An owner may hand Finish any error, context.Canceled only once its run
context is cancelled. `next()` sends to `op.done` while it holds `c.mu`, so it is a
place of its own ("scan"). Time is two-valued: the active operation's last report
is "fresh" or "old" (older than StallLimit).

**HeavySlot** is what the coordinator promises: one holder, manual callers before
background ones, at most one turn per call. `Operations` implements it under the
mapping `Phase`, `Holder`.

**Tunnel**. `rules` holds the stages of the command list that are in the kernel:
policy routes, chains, protecting hooks, capturing hooks, in the order in which
`globalRouteCommands` lists them (Stop takes them out in the opposite order). A
flushed chain that cannot be deleted because a hook still points to it is the
"shell". Any command may fail, the firmware may drop a stage, the process may die
at any step; `damage` remembers what such trouble left behind or took away, so that
properties can say exactly which failures they tolerate. `ipc` is the init script,
whose clean_routing removes all that its commands manage to remove. A close of the
engine that reports an error has closed its listener; Stop then takes `pm.mu` a second
time, to save the error.

**Control**. `pc[p]` is where a handler or a tick is. `outerMu` and `healthMu` make
each tick one sequential process. `pm.generation` and `pingStopGen` are only
compared with earlier readings, so a reading is "current" or "past". `openOK`,
`wasRunning`, `cfg` and `seen` are values a goroutine read earlier and acts on
later. `opens`, `streak` and `proved` are history variables that no step reads.
Which server is selected is abstracted to whether one is.

**Catalog**. `cfg` and `subs` are what `s.mu` guards, `cfgFile` and `subsFile` the two
files. Every request that edits subscriptions, servers or the selection is an action with
the save that ends it, POST /api/config included, which replaces servers and selection by
what it is sent (`Posts`; without a list of servers the present one stays);
its `outcome` says which of the saves fail (`Persist` is persistMutationLocked with its
rollback). A crash between the two saves leaves the files as a failed rollback does,
and is that outcome followed by `Crash`. `fetching` is a refresh whose
download is under way, `pick` a selection that has read the catalog and has yet to
save: edits come in between. A server is its fingerprint; `Place` is its name and
address, which is what a provider keeps when it sends a new key. `behind` remembers
that the rollback or the save during startup failed, the two ways in which
config.json may stay different from memory. The order of a provider's list, which decides
which of several servers with one name and address is switched off after a refresh, is
any one (`Orders`). A PATCH with several fields is one PATCH
per field.

**Selection**. One run of findBestConfigured: the groups that are left, the batch in
the queue or in the slot, and its results. A profile may stand for several endpoints
(`Members`), which profiles share and which are probed once. The user switches servers,
stops the VPN or cancels the batch at any step. A subscription without candidates, which
the code leaves out of the list, is an empty group that the search passes over.
`latency`, `skipped` and `asked` are history variables.

**Jobs**. The jobs of the speed test and of the updater, each a goroutine with the
operation it waits for. Of the coordinator it keeps what `HeavySlot` promises, which
`Operations` implements. Stalls, cancels, callers that withdraw, DELETE in its two
steps (CancelKind, then the write of "cancelling") and the restart of the service are
actions.

**Bypass**. `conf` is what the rules follow from (the list and two settings), `file`
what is saved, `rules` what the engine uses, `snap[p]` the configuration from which
caller p starts the engine. A settings change that restarts the VPN for other reasons
is a snapshot, a stop and a start. `missed` says that the engine refused its rules or
that POST /api/config changed them.

**ServiceLog** is the ring of `process.go`, an event being its number; `cleared` is a
history variable. **Auth** is authService with a clock.

**MCOperations, MCCatalog, MCServices** give the constants their values. MCServices
puts the five services above beside each other; they share no state, so in each
behaviour one of them moves. `Tunnel` and `Control` are checked as they are.

**OperationsLemmas, OperationsProofs, TunnelProofs, ControlProofs, CatalogProofs,
SelectionProofs, LogAuthProofs, ServicesProofs** hold the theorems; LogAuthProofs has
those about ServiceLog and Auth, ServicesProofs those about Jobs, Bypass and the
services together.

## Runs

| Run | Question | Distinct states |
|---|---|---|
| OperationsLease | Does the handshake of Acquire keep the slot under every cancel and stall? Does the inductive invariant hold? | 1,345,647 |
| OperationsQueue | One answer, exact keys, no lost wakeup, refinement of HeavySlot; does a background call return? | 81,582 |
| OperationsLive | Does every manual call return, beside one that abandons its lease? | 40,129 |
| OperationsLeaseClaim | Is the comment on Acquire true? (no) | |
| Tunnel | Two callers, guard, firmware, failing commands, crashes, init script | 26,033 |
| TunnelShutdown | Does a graceful shutdown remove the rules? (no) | |
| Control | A handler of every kind with both ticks | 1,662,156 |
| ControlLive | Does the VPN come up again? | 65,848 |
| ControlCancelledStart | Does a cancelled Start never start the VPN? (it can) | |
| ControlDisabledPolicy | Does a disabled policy never act? (it can) | |
| Catalog | Edits, refresh, selection, failing saves and crashes in any order | 170,673 |
| Services | The jobs, bypass lists, log, login tables and the choice of a server | 104,723 |

What the properties say:

* `OneAnswer`, `DedupeExact`, `NoLostWakeup`: the three ways a hand-written queue goes
  wrong (a function that outlives its caller or a blocked send under the lock; a key
  that leaks; a worker asleep beside work).
* `LiveLeaseOwnsSlot`, `SlotUntilFinish`: what Acquire does guarantee.
  `CancelHasCause`: an operation is reported as cancelled because its request went away,
  a cancel reached it while it ran or CancelKind took it out of the queue; a stall is not.
* `OneEngine`, `CaptureHasEngine`, `CaptureHasPolicy`, `NoLeftovers`: two engines never
  compete for the port, and clients are never captured for a listener or a route
  that is not there, except by failures that are named in the property.
* `RoutesRepaired`, `CallReturns`: rules the firmware drops come back and routeReady says
  so; no call hangs, also when the close of the engine fails.
* `SwapSustained`, `PolicyStopSustained`, `HealthReportTrue`: the controller acts, and
  reports, only on sustained evidence about the tunnel that is running now.
* `VpnComesUp`: no failure path leaves the VPN off for good while it is wanted.
* `FilesFollowMemory`, `RestartKeepsSelection`: what was acknowledged is on disk, and two
  files of different ages never select a server the user did not select.
* `ChoicesKept`, `UserEntriesKept`, `RefreshKeepsSelection`, `SelectionResolves`: a
  refresh that was copied before an edit, a failed save, a prune, a migration of IDs or
  a restart does not undo what the user switched off, entered, deleted or selected.
  - `ChoicesKept` finds a switched-off server in a new list as the code does, by ID or by
    name and address, and asks for one of those it finds to be off, and for no other.
    A server that shares its name and address with no other stays off; one that shares
    them may be on again, with the other off in its place.
  - `UserEntriesKept` excepts the commit of a selection, which writes back the copy of
    the entry that was probed (`Overwritten`), and resyncServersFromSubs, which at the end
    of a refresh overwrites the edited copy of a server that a subscription still offers
    under its ID (`Resynced`; `ResyncLoaded` when only config.json got that far).
  - `SelectionResolves` excepts connectServer, whose server may be deleted between its
    lookup and the lock, and a POST of a configuration whose own selection has no entry.
* `ChosenIsBest`: the chosen server is the one a reference definition (`Standing`, the
  user's order, then latency) asks for, whatever was switched or cancelled meanwhile.
* `TestHasOwner`, `UpdaterHasOwner`, `JobsEnd`: a test that is shown as queued or running,
  and the updater's busy and loading flags, have somebody who will change them, and
  change. Not covered are "cancelling", which may stay, and "restarting", which refuses
  requests until the new process is up.
* `BypassApplied`, `BypassSaved`: the engine routes by the present list and settings, or
  somebody is about to notice; and the file agrees, unless a new list was saved, the
  engine refused it, and the save that restores the old one failed.
* `ReaderSeesTail`: a reader of the log gets exactly what it misses and the ring has.
* `TablesKeepTheYoungest`: the limits of the login tables never cost a younger session
  or the block of a client seen more recently than another one.

### Bounds

* Operations: three callers of which up to two share a key, or a lease with a manual call.
  Every race in the code is between one operation's caller, the worker and one
  canceller, or between two operations of one key; a third is needed to see the
  order of service. Callers call again without limit.
* Tunnel: two callers (the locks exclude one while the other is anywhere inside),
  `MaxGeneration` = 3 (a tunnel, its end, and another tunnel), `MaxTrouble` = 2 (two
  failed commands or lost rules, which is what it takes to defeat the removal).
* Control: one handler that keeps making requests of any kind beside the two ticks,
  `Hysteresis` = `FailLimit` = 2 so that "in a row" differs from "once". The
  cancelled Start needs two handlers. Counters stop at the limit at which the code
  compares them. A run without handlers is used for liveness.
* Catalog: two subscriptions, one of which adds a second server with the name and address
  of the first while the other has the second alone (so a PATCH of the URL and a refresh
  replace a profile under one name), one manual server, one configuration to post, one refresh and one selection at a time in flight, `MaxEvents` = 3 edits,
  failed saves and crashes together (an edit, a fault, and an edit that meets the
  result). Refreshes, selections and restarts are not bounded.
* Services: two jobs, two callers that start the VPN, a ring of 3 and 12 events (four
  rounds), three tokens and clients for tables of 2, times up to 4 with a block longer
  than the memory of a failure, three servers in three groups with a shared endpoint
  and one switch during a selection, latencies 0 and 1 beside no answer.

The theorems hold for all values of these constants.

### Fairness

* Operations: worker, callers inside Run, operation functions and lease owners keep
  going. The worker loop never exits, functions work under contexts and timeouts,
  Finish is deferred by every owner. Nobody has to call, cancel or fall silent.
* Tunnel: goroutines that hold or wait for a lock go on (Go's mutexes are fair in
  this sense: a waiter is served after a millisecond at the latest), the guard's
  ticker fires. Trouble is bounded, so commands succeed in the end.
* Control: ticks go on and backoffs end. Strong fairness on saving, selecting and
  starting by outerTick says that an attempt that is repeated for ever succeeds
  once; without it the servers may simply all be dead.
* Jobs: an operation in the queue gets its turn (strong fairness, since it competes
  with others; `Operations` shows that calls are served), a function in the slot ends
  (its transfers have time limits and watchStall cancels it), goroutines run.

Deadlock is checked in every run.

## Proofs

Each proof module shows `Init => Inv`, `Inv /\ [Next]_vars => Inv'` with one lemma or
step per action, and derives the invariants.

* **Operations.** `IInv` adds to the properties what the worker has in its hands
  (`WorkerShape`), that an operation is queued once (`QueueOnce`), and the state of the
  handshake (`LeaseShape`). `OneAnswer` alone is not inductive: that the buffer is
  empty needs that the operation is not both queued and in the worker's hands.
  `SlotUntilFinish` and the refinement of `HeavySlot` follow step by step from `IInv`.
  `CancelHasCause` needs `CauseShape` besides: a new call finds no cancel left over from
  an earlier one, and an error context.Canceled has a cause from the moment op.fn
  returns it to the answer.
* **Tunnel.** `TunnelInv` adds who holds which lock where (`LockShape`), that the engine
  is up exactly between Start's call and a close (`EngineShape`), that a dead process
  holds nothing (`ProcessShape`) and what each point of the command list knows of the
  kernel (`RuleShape`). `OneEngine` follows from `EngineShape`, and `CaptureHasEngine`
  from `RuleShape` and `LockShape`: an engine is absent only where no rule is left
  outside `damage`.
* **Control.** `ControlInv` ties the code's counters to history: `fails` never runs
  ahead of `streak` for the present generation, and `pending`, while a stop is
  proposed, never ahead of `opens`.
* **Catalog.** `CatalogInv` adds that no ID is in cfg.Servers twice, in memory and on
  disk, that a selection about to be saved carries an entry, and `Near`: the
  configuration on disk selects nothing, or what memory selects up to loadConfig.
  `Near` is what a crash between the two saves preserves, where the files no longer
  agree. The action properties follow step by step; for `SelectionResolves` one lemma
  says what a prune keeps and one what a save leaves in memory and on disk.
  `EntriesInv` is a second invariant on top of it, for `TypeOK`, `ChoicesKept` and
  `UserEntriesKept`: the list of subscriptions on disk is the one in memory or loads as it
  (`SubsInv`), and the profile of every server entered by hand is in config.json (`Hands`),
  also where the two configurations differ, but for the edited copies that a refresh
  replaced there before its rollback failed. So a restart, which loads both, loses
  neither; that loadSubscriptions keeps the first entry of every URL is shown by counting
  the positions it keeps. That the first match in a provider's order exists (`FirstOK`) is
  the well-foundedness of the naturals.
* **Selection.** `SelInv` adds where the search is (`Searching`): the groups left are the
  last of the plan, the list of groups it set out with; in those before the current one
  nobody answered but who was passed over; and the batch is the current group without
  those. `ChosenIsBest` then follows, since the group that wins is the first in the plan
  with an answer. That the plan agrees with `Standing`, the reference order, is
  arithmetic on the rotation (`Rotation`, `Distance`, `PlanOrder`); that a least position
  and a least latency exist is the well-foundedness of the naturals (`LeastNat`).
* **Jobs, Bypass.** The properties with the types are inductive. The step that matters
  in Jobs is that a goroutine's last report comes after that of its function, in
  Bypass that a start compares its snapshot only after the engine runs.
* **ServiceLog.** `LogInv` says at which index each event stands and why older ones are
  gone; that Entries returns the tail follows by arithmetic on one modulo.
* **Auth.** `AuthInv` bounds the finite sets of known tokens and clients. Each step is
  shown to treat each table as `TablesKeepTheYoungest` says; the full table is at its
  limit exactly because it was never above it.
* **Services together.** `ServicesInv` is the conjunction of the five invariants: every
  step of the composition is a step or a stutter of each service.

Assumptions: `OpsAssumption`, `TunnelAssumption`, `ControlAssumption`,
`CatalogAssumption`, `JobsAssumption`, `BypassAssumption`, `LogAssumption`,
`SelAssumption`, `AuthAssumption` (distinct names, limits and times that are numbers, a
key for every background operation, which Run supplies, subscriptions that are finite and
never empty, which the fetch refuses, and posted configurations with no ID twice). TLC evaluates them.

Only model-checked: the liveness properties (`UserCallReturns`,
`BackgroundCallReturns`, `RoutesRepaired`, `CallReturns`, `VpnComesUp`, `JobsEnd`), because
fairness and ENABLED are beyond the prover. Every invariant and every action property
that a passing run checks is also a theorem.

## Where code and comments disagree

1. `operations.go:96`: "The returned lease owns the global heavy-operation slot until
   Finish is called." If the run is cancelled between the offer and the claim, Acquire
   returns a lease whose slot is free. Its context is cancelled, which
   `LiveLeaseOwnsSlot` shows to be the only case.
2. `S99vless-manager:47`: "The manager's own DisableGlobalRoute runs on graceful
   shutdown". `main.go` handles no signal; the script's own `clean_routing` is what
   removes the rules. `NoLeftovers` shows that it suffices, but for the rules that its
   own commands fail to remove.
3. `api.go:377`: "A cancelled Start request must never start VPN afterwards." The
   generation is compared before the selection is saved and not again before pm.Start.
4. `failover.go:456`: "Disabled policy ... never changes VPN state." The switch is read
   once; server selection, which takes long, and the start follow.

## Races that the models show and no comment excludes

* DELETE /api/speedtest writes "cancelling" after CancelKind has returned: when the test
  has ended by then the status stays busy until a restart.
* A stall after schedulePackageUpdate turns "restarting" into "error" although the
  package is being installed.
* connectServer may select a server that was deleted between its lookup and the lock.
* A selection that was in flight when a manual server was deleted brings it back.
* A server that was switched off after it was probed may still be selected.
* A selection in flight overwrites an edit of the entry that it has probed.
* A PUT of a subscription's server keeps its ID, and the next refresh overwrites it. (The
  comment on resyncServersFromSubs says that it "overwrites manual cfg.Servers entries".)
* Of servers of one list with the same name and address, a refresh leaves the first one
  off for every one that was off: with both switched off, the second is on again.
* A failed health check that is being confirmed stops the tunnel also if the monitoring
  was switched off and on again meanwhile.
* POST /api/config may select a server that has no entry.
* POST /api/config may change what the bypass rules follow from without telling the
  engine; the next start does.

## Not modelled

* Settings are constants of a run, or a choice in Bypass; their validation is a check
  of single values. The controller's `Stop` (nothing calls it outside tests) and the
  ticker intervals are left out.
* Parsing and formatting: VLESS links, what providers send, domain lists, the engine's
  JSON, log messages, names and URLs. None of it holds state.
* Network and system I/O: how a probe, a download, a measurement or the check of a
  password works. Each is its outcome. Traffic and diagnostics only read `/proc`.
* The ping cache: every caller of findBestConfigured passes useCache = false, so it
  feeds the display only.
* Servers with a transport the engine does not support (pruneUnsupportedServers),
  core_migration.go, a manual profile that is entered twice, and a posted configuration
  in which an ID occurs twice or is empty.
* `TrafficSnapshot` does not change whether the tunnel runs.
* The embedded Xray core (`xray_src/`) is third-party code. It is something that listens
  until it is closed and that accepts or refuses a set of rules.
* `Control`, `Catalog`, `Selection` and `Bypass` are not composed: their product is out of
  TLC's reach. Each takes the other's steps as free inputs, which allows more
  behaviours than the composition has.
