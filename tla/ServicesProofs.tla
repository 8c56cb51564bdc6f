--------------------------- MODULE ServicesProofs ----------------------------
(***************************************************************************)
(* Proofs about Jobs, for any number of jobs, about Bypass, for any number *)
(* of callers, lists and settings, and about all the services together.    *)
(***************************************************************************)
EXTENDS MCServices, SelectionProofs, LogAuthProofs

JobsInv == JobsTypeOK /\ TestHasOwner /\ UpdaterHasOwner

\* The first status of both services has no owner and needs none.
LEMMA JobsInitially == JobsInit => JobsInv
BY DEF JobsInit, JobsInv, JobsTypeOK, TestHasOwner, UpdaterHasOwner, Kinds, InSlot

\* The steps of a job keep the types; a job that fails an installation is one.
LEMMA JobsTypes == ASSUME JobsTypeOK, [JobsNext]_jobsVars PROVE JobsTypeOK'
<1>1. CASE UNCHANGED jobsVars
  BY <1>1 DEF JobsTypeOK, jobsVars, jobVars, testVars, updateVars
<1>2. CASE TestDeleted
  BY <1>2 DEF JobsTypeOK, TestDeleted, jobVars, updateVars
<1>3. CASE ServiceRestarts
  BY <1>3 DEF JobsTypeOK, ServiceRestarts, Kinds
<1>4. ASSUME NEW j \in Jobs, TestStart(j) \/ CheckStart(j) \/ InstallStart(j) \/ HistoryStart(j) PROVE JobsTypeOK'
  BY <1>4 DEF JobsTypeOK, TestStart, CheckStart, InstallStart, HistoryStart, Call, begin, testVars, updateVars, Kinds
<1>5. ASSUME NEW j \in Jobs, SlotTaken(j) \/ Interrupted(j) \/ Withdrawn(j) \/ SlotFreed(j) PROVE JobsTypeOK'
  BY <1>5 DEF JobsTypeOK, SlotTaken, Interrupted, Withdrawn, SlotFreed, Goes, testVars, updateVars, InSlot
<1>6. ASSUME NEW j \in Jobs, CancelKind(j) \/ recordProgress(j) PROVE JobsTypeOK'
  BY <1>6 DEF JobsTypeOK, CancelKind, recordProgress, Goes, jobVars, updateVars, InSlot
<1>7. ASSUME NEW j \in Jobs, TestBegins(j) \/ TestEnds(j) PROVE JobsTypeOK'
  BY <1>7 DEF JobsTypeOK, TestBegins, TestEnds, Returns, Reasons, Goes, updateVars, InSlot
<1>8. ASSUME NEW j \in Jobs, CheckBegins(j) \/ CheckEnds(j) PROVE JobsTypeOK'
  BY <1>8 DEF JobsTypeOK, CheckBegins, CheckEnds, Returns, Reasons, Goes, begin, finish, testVars, InSlot
<1>9. ASSUME NEW j \in Jobs, InstallProgress(j) \/ InstallEnds(j) \/ HistoryEnds(j) PROVE JobsTypeOK'
  BY <1>9 DEF JobsTypeOK, InstallProgress, InstallEnds, HistoryEnds, Returns, Reasons, Goes, finish, testVars, updateVars, InSlot
<1>10. ASSUME NEW j \in Jobs, TestReturns(j) \/ CheckReturns(j) \/ HistoryReturns(j) PROVE JobsTypeOK'
  BY <1>10 DEF JobsTypeOK, TestReturns, CheckReturns, HistoryReturns, Ends, testVars, updateVars, Kinds
<1>11. ASSUME NEW j \in Jobs, InstallLooks(j) \/ failInstall(j) PROVE JobsTypeOK'
  BY <1>11 DEF JobsTypeOK, InstallLooks, failInstall, Ends, Goes, finish, testVars, updateVars, Kinds
<1> QED
  BY <1>1, <1>2, <1>3, <1>4, <1>5, <1>6, <1>7, <1>8, <1>9, <1>10, <1>11 DEF JobsNext, FnSteps, Goroutine

\* No step takes the last report of a speed test away from a status that waits
\* for it.
LEMMA TestStep == ASSUME JobsInv, [JobsNext]_jobsVars PROVE TestHasOwner'
<1> USE DEF JobsInv, JobsTypeOK, TestHasOwner, Unreported
<1>1. CASE UNCHANGED jobsVars
  BY <1>1 DEF jobsVars, jobVars, testVars, updateVars
<1>2. CASE TestDeleted \/ ServiceRestarts
  BY <1>2 DEF TestDeleted, ServiceRestarts
<1>3. ASSUME NEW j \in Jobs, TestStart(j) \/ CheckStart(j) \/ InstallStart(j) \/ HistoryStart(j) PROVE TestHasOwner'
  BY <1>3 DEF TestStart, CheckStart, InstallStart, HistoryStart, Call, testVars
<1>4. ASSUME NEW j \in Jobs, SlotTaken(j) \/ Interrupted(j) \/ Withdrawn(j) PROVE TestHasOwner'
  BY <1>4 DEF SlotTaken, Interrupted, Withdrawn, Goes, testVars, InSlot
<1>5. ASSUME NEW j \in Jobs, SlotFreed(j) PROVE TestHasOwner'
  BY <1>5, JobsAssumption DEF SlotFreed, testVars
<1>6. ASSUME NEW j \in Jobs, CancelKind(j) \/ recordProgress(j) PROVE TestHasOwner'
  BY <1>6, JobsAssumption DEF CancelKind, recordProgress, Goes, jobVars, InSlot
<1>7. ASSUME NEW j \in Jobs, TestBegins(j) \/ TestEnds(j) PROVE TestHasOwner'
  BY <1>7, JobsAssumption DEF TestBegins, TestEnds, Returns, Reasons, Goes
<1>8. ASSUME NEW j \in Jobs, CheckBegins(j) \/ CheckEnds(j) \/ InstallProgress(j) \/ InstallEnds(j) \/ HistoryEnds(j)
      PROVE TestHasOwner'
  <2> kind[j] # "test" /\ (\A o \in Jobs \ {j} : at'[o] = at[o] /\ err'[o] = err[o]) /\ UNCHANGED <<kind, test>>
    BY <1>8 DEF CheckBegins, CheckEnds, InstallProgress, InstallEnds, HistoryEnds, Returns, Goes, testVars
  <2> QED OBVIOUS
<1>9. ASSUME NEW j \in Jobs, TestReturns(j) PROVE TestHasOwner'
  BY <1>9 DEF TestReturns, Ends
<1>10. ASSUME NEW j \in Jobs, CheckReturns(j) \/ HistoryReturns(j) \/ InstallLooks(j) \/ failInstall(j)
       PROVE TestHasOwner'
  <2> /\ kind[j] # "test" /\ UNCHANGED test
      /\ \A o \in Jobs \ {j} : at'[o] = at[o] /\ err'[o] = err[o] /\ kind'[o] = kind[o]
    BY <1>10 DEF CheckReturns, HistoryReturns, InstallLooks, failInstall, Ends, Goes, testVars
  <2> QED OBVIOUS
<1> HIDE DEF JobsInv, JobsTypeOK, TestHasOwner, Unreported
<1> QED
  BY <1>1, <1>2, <1>3, <1>4, <1>5, <1>6, <1>7, <1>8, <1>9, <1>10 DEF JobsNext, FnSteps, Goroutine

\* No step leaves busy or loading set without a job that will reset it.
LEMMA UpdaterStep == ASSUME JobsInv, [JobsNext]_jobsVars PROVE UpdaterHasOwner'
<1> USE DEF JobsInv, JobsTypeOK, UpdaterHasOwner, Unreported
<1>1. CASE UNCHANGED jobsVars
  BY <1>1 DEF jobsVars, jobVars, testVars, updateVars
<1>2. CASE TestDeleted \/ ServiceRestarts
  BY <1>2 DEF TestDeleted, ServiceRestarts, jobVars, updateVars
<1>3. ASSUME NEW j \in Jobs, TestStart(j) \/ CheckStart(j) \/ InstallStart(j) \/ HistoryStart(j) PROVE UpdaterHasOwner'
  BY <1>3 DEF TestStart, CheckStart, InstallStart, HistoryStart, Call, begin, updateVars
<1>4. ASSUME NEW j \in Jobs, SlotTaken(j) \/ Interrupted(j) \/ Withdrawn(j) PROVE UpdaterHasOwner'
  BY <1>4 DEF SlotTaken, Interrupted, Withdrawn, Goes, updateVars, InSlot
<1>5. ASSUME NEW j \in Jobs, SlotFreed(j) PROVE UpdaterHasOwner'
  BY <1>5, JobsAssumption DEF SlotFreed, updateVars
<1>6. ASSUME NEW j \in Jobs, CancelKind(j) \/ recordProgress(j) PROVE UpdaterHasOwner'
  BY <1>6, JobsAssumption DEF CancelKind, recordProgress, Goes, jobVars, updateVars, InSlot
<1>7. ASSUME NEW j \in Jobs, TestBegins(j) \/ TestEnds(j) \/ HistoryEnds(j) PROVE UpdaterHasOwner'
  BY <1>7, JobsAssumption DEF TestBegins, TestEnds, HistoryEnds, Returns, Goes, updateVars
<1>8. ASSUME NEW j \in Jobs, CheckBegins(j) PROVE UpdaterHasOwner'
  BY <1>8 DEF CheckBegins, Returns, Goes, begin
<1>9. ASSUME NEW j \in Jobs, CheckEnds(j) \/ InstallEnds(j) PROVE UpdaterHasOwner'
  BY <1>9 DEF CheckEnds, InstallEnds, Returns, Goes, finish
<1>10. ASSUME NEW j \in Jobs, InstallProgress(j) PROVE UpdaterHasOwner'
  BY <1>10 DEF InstallProgress, Goes
<1>11. ASSUME NEW j \in Jobs, TestReturns(j) \/ CheckReturns(j) \/ HistoryReturns(j) PROVE UpdaterHasOwner'
  BY <1>11 DEF TestReturns, CheckReturns, HistoryReturns, Ends, updateVars
<1>12. ASSUME NEW j \in Jobs, InstallLooks(j) PROVE UpdaterHasOwner'
  BY <1>12 DEF InstallLooks, Ends, Goes, updateVars
<1>13. ASSUME NEW j \in Jobs, failInstall(j) PROVE UpdaterHasOwner'
  BY <1>13 DEF failInstall, Ends, finish
<1> HIDE DEF JobsInv, JobsTypeOK, UpdaterHasOwner, Unreported
<1> QED
  BY <1>1, <1>2, <1>3, <1>4, <1>5, <1>6, <1>7, <1>8, <1>9, <1>10, <1>11, <1>12, <1>13 DEF JobsNext, FnSteps, Goroutine

\* The invariant of the two services: the statuses that refuse a request always
\* have somebody who will change them.
THEOREM JobsInvHolds == JobsSpec => []JobsInv
<1>1. JobsInv /\ [JobsNext]_jobsVars => JobsInv'
  <2> SUFFICES ASSUME JobsInv, [JobsNext]_jobsVars PROVE JobsInv'
    OBVIOUS
  <2>1. JobsTypeOK'
    BY JobsTypes DEF JobsInv
  <2> QED
    BY <2>1, TestStep, UpdaterStep DEF JobsInv
<1> QED
  BY JobsInitially, <1>1, PTL DEF JobsSpec

\* A test that is shown as queued or running has a goroutine that has yet to
\* report its end, for any number of tests that overlap in a cancel.
THEOREM TestIsOwned == JobsSpec => []TestHasOwner
<1>1. JobsInv => TestHasOwner
  BY DEF JobsInv
<1> QED
  BY <1>1, JobsInvHolds, PTL

\* begin and refreshHistory are always followed by a reset still to come.
THEOREM UpdaterIsOwned == JobsSpec => []UpdaterHasOwner
<1>1. JobsInv => UpdaterHasOwner
  BY DEF JobsInv
<1> QED
  BY <1>1, JobsInvHolds, PTL
------------------------------------------------------------------------------
BypassInv == BypassTypeOK /\ BypassApplied /\ BypassSaved

\* Before the first start no engine runs and the file is what was loaded.
LEMMA BypassInitially == BypassInit => BypassInv
BY DEF BypassInit, BypassInv, BypassTypeOK, BypassApplied, BypassSaved, running

\* A caller changes its own place and snapshot, and the engine gets the rules of
\* a configuration.
LEMMA BypassTypes == ASSUME BypassTypeOK, [BypassNext]_bypassVars PROVE BypassTypeOK'
<1> USE DEF BypassTypeOK
<1>1. CASE UNCHANGED bypassVars
  BY <1>1 DEF bypassVars
<1>2. CASE ConfigSaved \/ VpnStops \/ BypassRestarts
  BY <1>2 DEF ConfigSaved, VpnStops, BypassRestarts
<1>3. ASSUME NEW l \in Lists, refreshBypassLists(l) PROVE BypassTypeOK'
  <2>1. [conf EXCEPT !.list = l] \in Confs
    BY DEF Confs
  <2> QED
    BY <1>3, <2>1 DEF refreshBypassLists
<1>4. ASSUME NEW c \in Confs, handleConfig(c) PROVE BypassTypeOK'
  BY <1>4 DEF handleConfig
<1>5. ASSUME NEW p \in Callers, NEW c \in Choices, handleSettings(p, c) PROVE BypassTypeOK'
  <2>1. [conf EXCEPT !.choice = c] \in Confs
    BY DEF Confs
  <2> QED
    BY <1>5, <2>1 DEF handleSettings, Does
<1>6. ASSUME NEW p \in Callers, SettingsLook(p) \/ SettingsStop(p) \/ Snapshot(p) PROVE BypassTypeOK'
  BY <1>6 DEF SettingsLook, SettingsStop, Snapshot, Does
<1>7. ASSUME NEW p \in Callers, StartFails(p) \/ StartSucceeds(p) \/ startManagedVPN(p) PROVE BypassTypeOK'
  BY <1>7 DEF StartFails, StartSucceeds, startManagedVPN, Does
<1> HIDE DEF BypassTypeOK
<1> QED
  BY <1>1, <1>2, <1>3, <1>4, <1>5, <1>6, <1>7 DEF BypassNext

\* Every step that changes the configuration of a running engine, or the caller
\* that would notice, tells the engine, passes the duty on, or is a known refusal.
LEMMA AppliedStep == ASSUME BypassTypeOK, BypassApplied, [BypassNext]_bypassVars PROVE BypassApplied'
<1> USE DEF BypassTypeOK, BypassApplied, running
<1>1. CASE UNCHANGED bypassVars
  BY <1>1 DEF bypassVars
<1>2. CASE ConfigSaved \/ VpnStops \/ BypassRestarts
  BY <1>2 DEF ConfigSaved, VpnStops, BypassRestarts
<1>3. ASSUME NEW l \in Lists, refreshBypassLists(l) PROVE BypassApplied'
  BY <1>3 DEF refreshBypassLists
<1>4. ASSUME NEW c \in Confs, handleConfig(c) PROVE BypassApplied'
  BY <1>4 DEF handleConfig
<1>5. ASSUME NEW p \in Callers, NEW c \in Choices, handleSettings(p, c) PROVE BypassApplied'
  BY <1>5 DEF handleSettings, Does
<1>6. ASSUME NEW p \in Callers, SettingsLook(p) \/ SettingsStop(p) \/ Snapshot(p) PROVE BypassApplied'
  BY <1>6 DEF SettingsLook, SettingsStop, Snapshot, Does
<1>7. ASSUME NEW p \in Callers, StartFails(p) \/ StartSucceeds(p) PROVE BypassApplied'
  BY <1>7 DEF StartFails, StartSucceeds, Does
<1>8. ASSUME NEW p \in Callers, startManagedVPN(p) PROVE BypassApplied'
  BY <1>8 DEF startManagedVPN, Does, bypassDomainsFor
<1> HIDE DEF BypassTypeOK, BypassApplied, running
<1> QED
  BY <1>1, <1>2, <1>3, <1>4, <1>5, <1>6, <1>7, <1>8 DEF BypassNext

\* Every step that changes the configuration saves it, and a list that is given
\* up is given up in the file too, or lagging says that it is not.
LEMMA SavedStep == ASSUME BypassSaved, [BypassNext]_bypassVars PROVE BypassSaved'
<1> USE DEF BypassSaved
<1>1. CASE UNCHANGED bypassVars
  BY <1>1 DEF bypassVars
<1>2. CASE ConfigSaved \/ VpnStops \/ BypassRestarts
  BY <1>2 DEF ConfigSaved, VpnStops, BypassRestarts
<1>3. ASSUME NEW l \in Lists, refreshBypassLists(l) PROVE BypassSaved'
  BY <1>3 DEF refreshBypassLists
<1>4. ASSUME NEW c \in Confs, handleConfig(c) PROVE BypassSaved'
  BY <1>4 DEF handleConfig
<1>5. ASSUME NEW p \in Callers, NEW c \in Choices, handleSettings(p, c) PROVE BypassSaved'
  BY <1>5 DEF handleSettings
<1>6. ASSUME NEW p \in Callers, \/ SettingsLook(p) \/ SettingsStop(p) \/ Snapshot(p)
                                \/ StartFails(p) \/ StartSucceeds(p) \/ startManagedVPN(p)
      PROVE BypassSaved'
  BY <1>6 DEF SettingsLook, SettingsStop, Snapshot, StartFails, StartSucceeds, startManagedVPN
<1> HIDE DEF BypassSaved
<1> QED
  BY <1>1, <1>2, <1>3, <1>4, <1>5, <1>6 DEF BypassNext

\* The invariant of the bypass rules.
THEOREM BypassInvHolds == BypassSpec => []BypassInv
<1>1. BypassInv /\ [BypassNext]_bypassVars => BypassInv'
  BY BypassTypes, AppliedStep, SavedStep DEF BypassInv
<1> QED
  BY BypassInitially, <1>1, PTL DEF BypassSpec

\* The engine routes by the present configuration, or somebody is bound to notice.
THEOREM BypassIsApplied == BypassSpec => []BypassApplied
<1>1. BypassInv => BypassApplied
  BY DEF BypassInv
<1> QED
  BY <1>1, BypassInvHolds, PTL

\* The configuration in use is the one that a restart would load, unless a list
\* was saved, refused by the engine, and the save that takes it back failed.
THEOREM BypassIsSaved == BypassSpec => []BypassSaved
<1>1. BypassInv => BypassSaved
  BY DEF BypassInv
<1> QED
  BY <1>1, BypassInvHolds, PTL

------------------------------------------------------------------------------
\* The services together: each keeps the invariant it keeps alone.
ServicesInv == JobsInv /\ BypassInv /\ LogInv /\ AuthInv /\ SelInv

\* The steps of the parts, one by one.
LEMMA ServicesStep == ASSUME ServicesInv, [ServicesNext]_partVars PROVE ServicesInv'
<1> USE DEF ServicesInv
<1>1. [JobsNext]_jobsVars
  BY DEF ServicesNext, partVars
<1>2. [BypassNext]_bypassVars
  BY DEF ServicesNext, partVars
<1>3. [LogNext]_logVars
  BY DEF ServicesNext, partVars
<1>4. [AuthNext]_authVars
  BY DEF ServicesNext, partVars, AuthNext
<1>5. [SelNext]_selVars
  BY DEF ServicesNext, partVars
<1>6. JobsInv'
  BY <1>1, JobsTypes, TestStep, UpdaterStep DEF JobsInv
<1>7. BypassInv'
  BY <1>2, BypassTypes, AppliedStep, SavedStep DEF BypassInv
<1>8. LogInv'
  <2>1. ASSUME UNCHANGED logVars PROVE LogInv'
    BY <2>1 DEF logVars, LogInv, LogTypeOK
  <2> QED
    BY <1>3, <2>1, AppendStep, ClearStep DEF LogNext
<1>9. AuthInv'
  BY <1>4, AuthStep
<1>10. SelInv'
  BY <1>5, SelStep
<1> QED
  BY <1>6, <1>7, <1>8, <1>9, <1>10

\* No service changes what another one relies on.
THEOREM ServicesInvHolds == ServicesSpec => []ServicesInv
<1>1. ServicesInit => ServicesInv
  BY JobsInitially, BypassInitially, LogInitially, AuthInitially, SelInitially DEF ServicesInit, ServicesInv
<1>2. ServicesInv /\ [ServicesNext]_partVars => ServicesInv'
  BY ServicesStep
<1> QED
  BY <1>1, <1>2, PTL DEF ServicesSpec

\* Every variable of every service keeps its type: a job is told only errors that
\* are known, a reader's place is one in the ring, a count of failures stays below
\* the limit, and the choice of a search is a server.
THEOREM ServicesTypes == ServicesSpec => []ServicesTypeOK
<1>1. ServicesInv => ServicesTypeOK
  BY DEF ServicesInv, JobsInv, BypassInv, LogInv, AuthInv, SelInv, ServicesTypeOK
<1> QED
  BY <1>1, ServicesInvHolds, PTL
==============================================================================
