----------------------------- MODULE MCServices -----------------------------
(***************************************************************************)
(* The services beside the tunnel share no state that they change: each    *)
(* behaviour lets one part of them run and the others rest.  Of the two    *)
(* tables of Auth, which only share the clock and the sweep, one is used.  *)
(***************************************************************************)
EXTENDS Jobs, Bypass, ServiceLog, Auth, Selection

CONSTANTS auto, second, own, e1, e2, e3

VARIABLE part

\* The profile "auto" of the first subscription shares an endpoint with "second",
\* which is in two subscriptions; "own" is a manual server.
MCOrder == << {auto, second}, {second}, {own} >>
MCMembers ==
  [x \in {auto, second, own} |->
     CASE x = auto -> {e1, e2} [] x = second -> {e2} [] x = own -> {e3}]

partVars == <<part, jobsVars, bypassVars, logVars, authVars, selVars>>

ServicesInit ==
  /\ part \in {"jobs", "bypass", "log", "sessions", "attempts", "selection"}
  /\ JobsInit /\ BypassInit /\ LogInit /\ AuthInit /\ SelInit
  /\ part # "bypass" => conf = CHOOSE c \in Confs : TRUE
  /\ part # "selection" => off = [i \in DOMAIN Order |-> {}]

ServicesNext ==
  /\ UNCHANGED part
  /\ \/ part = "jobs" /\ JobsNext /\ UNCHANGED <<bypassVars, logVars, authVars, selVars>>
     \/ part = "bypass" /\ BypassNext /\ UNCHANGED <<jobsVars, logVars, authVars, selVars>>
     \/ part = "log" /\ LogNext /\ UNCHANGED <<jobsVars, bypassVars, authVars, selVars>>
     \/ part = "sessions" /\ (Clock \/ SessionSteps) /\ UNCHANGED <<jobsVars, bypassVars, logVars, selVars>>
     \/ part = "attempts" /\ (Clock \/ AttemptSteps) /\ UNCHANGED <<jobsVars, bypassVars, logVars, selVars>>
     \/ part = "selection" /\ SelNext /\ UNCHANGED <<jobsVars, bypassVars, logVars, authVars>>

ServicesSpec == ServicesInit /\ [][ServicesNext]_partVars /\ JobsFairness

\* Every variable of every service has its type; in particular the goroutine of
\* a job is told only errors that fail and failInstall know.
ServicesTypeOK == JobsTypeOK /\ BypassTypeOK /\ LogTypeOK /\ AuthTypeOK /\ SelTypeOK
==============================================================================
