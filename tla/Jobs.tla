-------------------------------- MODULE Jobs --------------------------------
(***************************************************************************)
(* The speed test and the updater of the application: two services that    *)
(* publish a status, refuse a second request while one is under way, and   *)
(* do their work in an operation of the coordinator.                       *)
(*                                                                         *)
(* Of the coordinator this module keeps what HeavySlot promises, which     *)
(* Operations is shown to implement: one operation at a time is in the     *)
(* slot, and a call is answered once.  A job is a goroutine or a handler   *)
(* with the Run it waits for:                                              *)
(*   "queued"    its operation is in the queue,                            *)
(*   "begun"     its function has the slot and has done nothing yet,       *)
(*   "working"   its function is under way,                                *)
(*   "returning" its function has written its last status and returned,    *)
(*   "answered"  Run has returned,                                         *)
(*   "failing"   startInstall has seen a status other than "error".        *)
(***************************************************************************)
EXTENDS Naturals

CONSTANTS Jobs, None

ASSUME JobsAssumption == None \notin {"error", "cancelled"}

VARIABLES
  kind,      \* kind[j]: "test", "check", "install" or "history"
  at,        \* at[j]: where job j is, "free" if there is none
  ctx,       \* ctx[j]: "live", "cancelled" or "stalled"
  err,       \* err[j]: the error that the function or Run returned, or None
  deleting,  \* "yes": DELETE /api/speedtest has cancelled and not yet written
  test,      \* speedTestService.status.State
  busy,      \* appUpdater.busy
  update,    \* appUpdater.status.State; "working" for all states of work
  loading    \* appUpdater.history.Busy

jobVars == <<kind, at, ctx, err>>
testVars == <<deleting, test>>
updateVars == <<busy, update, loading>>
jobsVars == <<jobVars, testVars, updateVars>>

Kinds == {"test", "check", "install", "history"}
InSlot == {"begun", "working", "returning"}

JobsInit ==
  /\ kind = [j \in Jobs |-> "test"] /\ at = [j \in Jobs |-> "free"]
  /\ ctx = [j \in Jobs |-> "live"] /\ err = [j \in Jobs |-> None]
  /\ deleting = "no" /\ test = "idle"
  /\ busy = "no" /\ update = "idle" /\ loading = "no"
------------------------------------------------------------------------------
Call(j, k) ==
  /\ at[j] = "free"
  /\ kind' = [kind EXCEPT ![j] = k] /\ at' = [at EXCEPT ![j] = "queued"]
  /\ UNCHANGED <<ctx, err>>

Goes(j, from, to) ==
  /\ at[j] = from /\ at' = [at EXCEPT ![j] = to]
  /\ UNCHANGED <<kind, ctx>>

\* Job j is over, and nothing of it is left.
Ends(j, from) ==
  /\ at[j] = from /\ at' = [at EXCEPT ![j] = "free"]
  /\ kind' = [kind EXCEPT ![j] = "test"] /\ err' = [err EXCEPT ![j] = None]
  /\ UNCHANGED ctx

\* The function of j returns e.
Returns(j, from, e) == Goes(j, from, "returning") /\ err' = [err EXCEPT ![j] = e]

\* The errors of a function that gives up: the context's, or one of its own.
Reasons(j) == {"error"} \cup (IF ctx[j] = "live" THEN {} ELSE {"cancelled"})

\* The worker takes an operation from the queue.
SlotTaken(j) ==
  /\ \A o \in Jobs : at[o] \notin InSlot
  /\ Goes(j, "queued", "begun")
  /\ UNCHANGED <<err, testVars, updateVars>>

\* CancelActive, the client of a request, or watchStall, in any order.
Interrupted(j) ==
  /\ at[j] \in InSlot
  /\ \E c \in {"cancelled", "stalled"} : ctx' = [ctx EXCEPT ![j] = c]
  /\ UNCHANGED <<kind, at, err, testVars, updateVars>>

\* A request whose client goes away leaves the queue.  The speed test and the
\* installation do not run under the context of their request.
Withdrawn(j) ==
  /\ kind[j] \in {"check", "history"}
  /\ Goes(j, "queued", "answered") /\ err' = [err EXCEPT ![j] = "cancelled"]
  /\ UNCHANGED <<testVars, updateVars>>

\* Mutant of SlotFreed: the caller is told the state of the context.
SlotFreedRaw(j) ==
  /\ at[j] = "returning" /\ at' = [at EXCEPT ![j] = "answered"]
  /\ ctx' = [ctx EXCEPT ![j] = "live"] /\ UNCHANGED kind
  /\ err' = IF ctx[j] = "stalled" THEN [err EXCEPT ![j] = ctx[j]] ELSE err
  /\ UNCHANGED <<testVars, updateVars>>

\* execute: a stall is an error whatever the function returned.
SlotFreed(j) ==
  /\ at[j] = "returning" /\ at' = [at EXCEPT ![j] = "answered"]
  /\ ctx' = [ctx EXCEPT ![j] = "live"] /\ UNCHANGED kind
  /\ err' = IF ctx[j] = "stalled" THEN [err EXCEPT ![j] = "error"] ELSE err
  /\ UNCHANGED <<testVars, updateVars>>
------------------------------------------------------------------------------
speedTestBusy == test \in {"queued", "running", "cancelling"}

\* POST /api/speedtest while the tunnel runs.
TestStart(j) ==
  /\ ~speedTestBusy
  /\ Call(j, "test") /\ test' = "queued"
  /\ UNCHANGED <<deleting, updateVars>>

\* The VPN may have been switched off in the meantime.
TestBegins(j) ==
  /\ kind[j] = "test"
  /\ \/ Goes(j, "begun", "working") /\ test' = "running" /\ UNCHANGED err
     \/ Returns(j, "begun", "error") /\ UNCHANGED test
  /\ UNCHANGED <<deleting, updateVars>>

\* recordProgress, which also writes over "cancelling".
recordProgress(j) ==
  /\ kind[j] = "test" /\ at[j] = "working"
  /\ test' = "running"
  /\ UNCHANGED <<jobVars, deleting, updateVars>>

\* runWithServerSelection gives up, at once or after its attempts, or the
\* measurement is complete.
TestEnds(j) ==
  /\ kind[j] = "test"
  /\ \/ Returns(j, "working", None) /\ test' = "complete"
     \/ (\E e \in Reasons(j) : Returns(j, "working", e)) /\ UNCHANGED test
  /\ UNCHANGED <<deleting, updateVars>>

\* Mutant of TestReturns: a cancelled test is not reported.
TestReturnsQuietly(j) ==
  /\ kind[j] = "test" /\ Ends(j, "answered")
  /\ test' = IF err[j] = "error" THEN "error" ELSE test
  /\ UNCHANGED <<deleting, updateVars>>

\* execute of the service: fail.
TestReturns(j) ==
  /\ kind[j] = "test" /\ Ends(j, "answered")
  /\ test' = IF err[j] = None THEN test ELSE err[j]
  /\ UNCHANGED <<deleting, updateVars>>

\* DELETE /api/speedtest: CancelKind finds the active test, or a queued one.
CancelKind(j) ==
  /\ deleting = "no" /\ deleting' = "yes" /\ kind[j] = "test"
  /\ \/ at[j] \in InSlot /\ ctx' = [ctx EXCEPT ![j] = "cancelled"] /\ UNCHANGED <<kind, at, err>>
     \/ /\ \A o \in Jobs : kind[o] = "test" => at[o] \notin InSlot
        /\ Goes(j, "queued", "answered") /\ err' = [err EXCEPT ![j] = "cancelled"]
  /\ UNCHANGED <<test, updateVars>>

\* The second half of DELETE does not look whether the test is still there.
TestDeleted ==
  /\ deleting = "yes" /\ deleting' = "no"
  /\ test' = "cancelling"
  /\ UNCHANGED <<jobVars, updateVars>>
------------------------------------------------------------------------------
\* begin: refused while busy and while a package waits to be installed.
begin ==
  /\ busy = "no" /\ update # "restarting"
  /\ busy' = "yes" /\ update' = "working"

finish(state) == busy' = "no" /\ update' = state

CheckStart(j) == Call(j, "check") /\ UNCHANGED <<testVars, updateVars>>

\* checkUncoordinated begins in its operation.
CheckBegins(j) ==
  /\ kind[j] = "check"
  /\ \/ begin /\ Goes(j, "begun", "working") /\ UNCHANGED err
     \/ /\ busy = "yes" \/ update = "restarting"
        /\ Returns(j, "begun", "error") /\ UNCHANGED <<busy, update>>
  /\ UNCHANGED <<testVars, loading>>

\* Mutant of CheckEnds: a failure does not reset busy.
CheckEndsBusy(j) ==
  /\ kind[j] = "check"
  /\ \/ Returns(j, "working", None) /\ finish("ready")
     \/ (\E e \in Reasons(j) : Returns(j, "working", e)) /\ update' = "ready" /\ UNCHANGED busy
  /\ UNCHANGED <<testVars, loading>>

\* finishCheckFailure goes back to "ready" if an earlier check has succeeded.
CheckEnds(j) ==
  /\ kind[j] = "check"
  /\ \/ Returns(j, "working", None) /\ finish("ready")
     \/ \E e \in Reasons(j) : Returns(j, "working", e) /\ \E state \in {"ready", "error"} : finish(state)
  /\ UNCHANGED <<testVars, loading>>

CheckReturns(j) ==
  /\ kind[j] = "check" /\ Ends(j, "answered")
  /\ UNCHANGED <<testVars, updateVars>>

\* startInstall begins before its operation is queued.
InstallStart(j) ==
  /\ begin /\ Call(j, "install")
  /\ UNCHANGED <<testVars, loading>>

\* setInstallProgress, first and later on.
InstallProgress(j) ==
  /\ kind[j] = "install" /\ at[j] \in {"begun", "working"}
  /\ Goes(j, at[j], "working") /\ update' = "working"
  /\ UNCHANGED <<err, testVars, busy, loading>>

\* installStarted fails, or schedules the package after a last look at its context.
InstallEnds(j) ==
  /\ kind[j] = "install"
  /\ \/ /\ \E e \in Reasons(j) : Returns(j, "working", e)
        /\ finish("error")
     \/ /\ ctx[j] = "live" /\ Returns(j, "working", None)
        /\ finish("restarting")
  /\ UNCHANGED <<testVars, loading>>

\* startInstall reads the status, and calls failInstall in a second step.
InstallLooks(j) ==
  /\ kind[j] = "install"
  /\ IF err[j] # None /\ update # "error"
     THEN Goes(j, "answered", "failing") /\ UNCHANGED err
     ELSE Ends(j, "answered")
  /\ UNCHANGED <<testVars, updateVars>>

failInstall(j) ==
  /\ Ends(j, "failing") /\ finish("error")
  /\ UNCHANGED <<testVars, loading>>

HistoryStart(j) ==
  /\ loading = "no" /\ loading' = "yes" /\ Call(j, "history")
  /\ UNCHANGED <<testVars, busy, update>>

HistoryEnds(j) ==
  /\ kind[j] = "history"
  /\ \E e \in Reasons(j) \cup {None} : Returns(j, "begun", e)
  /\ UNCHANGED <<testVars, updateVars>>

\* Mutant of HistoryReturns: a list that was not loaded is still awaited.
HistoryReturnsBusy(j) ==
  /\ kind[j] = "history" /\ Ends(j, "answered")
  /\ loading' = IF err[j] = None THEN "no" ELSE loading
  /\ UNCHANGED <<testVars, busy, update>>

\* finishHistory
HistoryReturns(j) ==
  /\ kind[j] = "history" /\ Ends(j, "answered") /\ loading' = "no"
  /\ UNCHANGED <<testVars, busy, update>>

\* The service is restarted, by the scheduled package or otherwise.
ServiceRestarts ==
  /\ kind' = [j \in Jobs |-> "test"] /\ at' = [j \in Jobs |-> "free"]
  /\ ctx' = [j \in Jobs |-> "live"] /\ err' = [j \in Jobs |-> None]
  /\ deleting' = "no" /\ test' = "idle"
  /\ busy' = "no" /\ update' \in {"idle", "ready"} /\ loading' = "no"
------------------------------------------------------------------------------
FnSteps(j) ==
  \/ TestBegins(j) \/ TestEnds(j) \/ CheckBegins(j) \/ CheckEnds(j)
  \/ (at[j] = "begun" /\ InstallProgress(j)) \/ InstallEnds(j) \/ HistoryEnds(j)

Goroutine(j) ==
  \/ SlotFreed(j) \/ TestReturns(j) \/ CheckReturns(j)
  \/ InstallLooks(j) \/ failInstall(j) \/ HistoryReturns(j)

JobsNext ==
  \/ \E j \in Jobs :
       \/ TestStart(j) \/ CheckStart(j) \/ InstallStart(j) \/ HistoryStart(j)
       \/ SlotTaken(j) \/ Interrupted(j) \/ Withdrawn(j) \/ CancelKind(j)
       \/ recordProgress(j) \/ InstallProgress(j)
       \/ FnSteps(j) \/ Goroutine(j)
  \/ TestDeleted \/ ServiceRestarts

JobsSpec == JobsInit /\ [][JobsNext]_jobsVars

\* A function that has the slot ends: its transfers have time limits and
\* watchStall cancels it.  An operation in the queue gets its turn, as the calls
\* of Operations do.  The Go scheduler runs every goroutine.
JobsFairness ==
  \A j \in Jobs : SF_jobsVars(SlotTaken(j)) /\ WF_jobsVars(FnSteps(j)) /\ WF_jobsVars(Goroutine(j))
------------------------------------------------------------------------------
\* Every variable has its type: whatever ended a job, its goroutine is told an
\* error that fail and failInstall know.
JobsTypeOK ==
  /\ kind \in [Jobs -> Kinds]
  /\ at \in [Jobs -> {"free", "queued", "answered", "failing"} \cup InSlot]
  /\ ctx \in [Jobs -> {"live", "cancelled", "stalled"}]
  /\ err \in [Jobs -> {None, "error", "cancelled"}]
  /\ deleting \in {"no", "yes"}
  /\ test \in {"idle", "queued", "running", "cancelling", "complete", "error", "cancelled"}
  /\ busy \in {"no", "yes"} /\ loading \in {"no", "yes"}
  /\ update \in {"idle", "working", "ready", "error", "restarting"}
  /\ \A j \in Jobs : at[j] = "failing" => kind[j] = "install"

\* Job j has not yet reported how it ended.
Unreported(j) ==
  \/ at[j] \in {"queued", "begun", "working", "failing"}
  \/ at[j] \in {"returning", "answered"} /\ err[j] # None

\* A speed test that is shown as queued or running is under way, and its
\* goroutine has yet to report its end: no order of cancels, stalls, failures
\* and late reports of an earlier test leaves such a status behind, which would
\* refuse every further test.  ("cancelling" may be left behind: DELETE writes it
\* after CancelKind has returned.)
TestHasOwner ==
  test \in {"queued", "running"} => \E j \in Jobs : kind[j] = "test" /\ Unreported(j)

\* The flags that refuse a second check, installation or history never outlive
\* the work that set them, whoever resets them in between: begin is always
\* followed by a finish of somebody still to come, and a status of "error",
\* which keeps startInstall from resetting busy, is not shown while busy.
UpdaterHasOwner ==
  /\ busy = "yes" =>
       /\ update # "error"
       /\ \E j \in Jobs :
            \/ kind[j] = "install" /\ Unreported(j)
            \/ kind[j] = "check" /\ at[j] = "working"
  /\ loading = "yes" => \E j \in Jobs : kind[j] = "history" /\ at[j] # "free"

\* A speed test does not stay queued or running, and the flags with which the
\* updater refuses a second job are cleared.  That is less than that both take
\* requests again: a DELETE that comes too late leaves "cancelling" behind, and
\* begin refuses also while the status is "restarting".
JobsEnd ==
  /\ test \in {"queued", "running"} ~> test \notin {"queued", "running"}
  /\ busy = "yes" ~> busy = "no"
  /\ loading = "yes" ~> loading = "no"
==============================================================================
