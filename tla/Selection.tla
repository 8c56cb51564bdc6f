------------------------------ MODULE Selection ------------------------------
(***************************************************************************)
(* The choice of a server by probing: findBestConfigured goes through the  *)
(* subscriptions in the user's order, or takes all of them at once, and    *)
(* for each queues a batch that probes their servers through temporary     *)
(* engines.  A provider's profile may stand for several endpoints, which   *)
(* profiles share; an endpoint is probed once per batch.                   *)
(*                                                                         *)
(* Meanwhile the user may switch servers on and off, stop the VPN (which   *)
(* cancels the batch and the selection) or cancel the batch alone (after   *)
(* which the selection goes on).  One selection is modelled: batches are   *)
(* operations of the coordinator, so two selections take turns.  Servers   *)
(* that the engine does not support never enter the catalog.  What is done *)
(* with the choice is in Catalog and in Control.                           *)
(***************************************************************************)
EXTENDS Integers, Sequences

CONSTANTS
  Servers, Endpoints,
  Members,      \* the endpoints of a profile
  Order,        \* the servers of each subscription, then the manual ones
  Latencies,    \* answers of a probe
  NoServer,
  MaxSwitches   \* bound on the switches during a selection

ASSUME SelAssumption ==
  /\ Order \in Seq(SUBSET Servers) /\ NoServer \notin Servers
  /\ Members \in [Servers -> SUBSET Endpoints]
  /\ Latencies \subseteq Nat /\ MaxSwitches \in Nat

Dead == -1      \* LatencyMS of a server that does not answer
Unprobed == -2

VARIABLES
  off,          \* off[i]: what is switched off in the i-th subscription
  phase,        \* "idle", "group", "queued", "batch" or "chosen"
  mode,         \* PingSelectionMode and PingFailoverOrder
  exclude,      \* the server to be replaced, or NoServer
  left,         \* the groups not yet tried
  batch,        \* the servers of the current batch
  got,          \* the answers of its endpoints
  stopped,      \* pingStoppedSince
  choice,       \* the server and its member
  asked,        \* off when the selection began
  latency,      \* what this selection knows of each server
  skipped,      \* servers it passed over: switched off since, or batch cancelled
  switches

selVars == <<off, phase, mode, exclude, left, batch, got, stopped, choice, asked, latency, skipped, switches>>

SelInit ==
  /\ off \in [DOMAIN Order -> SUBSET Servers] /\ \A i \in DOMAIN Order : off[i] \subseteq Order[i]
  /\ phase = "idle" /\ mode = "priority" /\ exclude = NoServer
  /\ left = << >> /\ batch = {} /\ got = [e \in Endpoints |-> Unprobed]
  /\ stopped = "no" /\ choice = NoServer
  /\ asked = off /\ latency = [x \in Servers |-> Unprobed] /\ skipped = {} /\ switches = 0
------------------------------------------------------------------------------
OnIn(o, i) == Order[i] \ o[i]
allServersLocked(o) == UNION {OnIn(o, i) : i \in DOMAIN Order}

\* A server of several subscriptions counts with the first in which it is on.  A
\* subscription of which nothing is left has no group in the code; here its group
\* is empty, and NextGroup passes over it.
priorityServerGroupsLocked(o) ==
  [i \in DOMAIN Order |-> OnIn(o, i) \ UNION {OnIn(o, j) : j \in 1..(i - 1)}]

rotatePriorityGroups(groups, id) ==
  IF \E i \in DOMAIN groups : id \in groups[i]
  THEN LET k == CHOOSE i \in DOMAIN groups : id \in groups[i]
       IN SubSeq(groups, k, Len(groups)) \o SubSeq(groups, 1, k - 1)
  ELSE groups

\* The groups that a selection goes through, in their order.
GroupsFor(o, m, id) ==
  LET groups == priorityServerGroupsLocked(o)
  IN CASE m = "priority" -> groups
       [] m = "active_first" -> rotatePriorityGroups(groups, id)
       [] m = "fastest" -> << allServersLocked(o) >>

findBestConfigured(m, id) ==
  /\ phase = "idle" /\ phase' = "group"
  /\ mode' = m /\ exclude' = id
  /\ left' = GroupsFor(off, m, id) /\ asked' = off
  /\ UNCHANGED <<off, batch, got, stopped, choice, latency, skipped, switches>>

\* The selection is over, and nothing of it is left.
Over ==
  /\ phase' = "idle" /\ mode' = "priority" /\ exclude' = NoServer
  /\ left' = << >> /\ batch' = {} /\ got' = [e \in Endpoints |-> Unprobed]
  /\ stopped' = "no" /\ choice' = NoServer /\ asked' = off
  /\ latency' = [x \in Servers |-> Unprobed] /\ skipped' = {} /\ switches' = 0
  /\ UNCHANGED off

\* The head of the loop: only the priority order looks for a Stop.
NextGroup ==
  /\ phase = "group"
  /\ IF left = << >> \/ (stopped = "yes" /\ mode # "fastest") THEN Over
     ELSE /\ left' = Tail(left) /\ batch' = Head(left) \ {exclude}
          /\ phase' = IF batch' = {} THEN "group" ELSE "queued"
          /\ UNCHANGED <<off, mode, exclude, got, stopped, choice, asked, latency, skipped, switches>>

\* The batch has the slot: enabledServersFrom, if any is left.
BatchBegins ==
  /\ phase = "queued"
  /\ batch' = batch \cap allServersLocked(off) /\ skipped' = skipped \cup (batch \ batch')
  /\ phase' = IF batch' = {} THEN "group" ELSE "batch"
  /\ UNCHANGED <<off, mode, exclude, left, got, stopped, choice, asked, latency, switches>>

\* physicalPingServers
Physical == UNION {Members[x] : x \in batch}

\* pingServerGroups: the members of x that answered first, and their latency.
FastestMembers(x, answers) ==
  {e \in Members[x] : answers[e] # Dead /\ \A f \in Members[x] : answers[f] # Dead => answers[e] <= answers[f]}
Result(x, answers) ==
  IF FastestMembers(x, answers) = {} THEN Dead
  ELSE answers[CHOOSE e \in FastestMembers(x, answers) : TRUE]

\* Mutant of fastestReachable: a latency of 0 is taken for no answer.
fastestReachablePositive(results) ==
  {x \in DOMAIN results : results[x] > 0 /\ \A y \in DOMAIN results : results[y] > 0 => results[x] <= results[y]}

\* Equals are ordered by an unstable sort.
fastestReachable(results) ==
  {x \in DOMAIN results : results[x] # Dead /\ \A y \in DOMAIN results : results[y] # Dead => results[x] <= results[y]}

\* Each endpoint answers its probe or does not; the order of the probes, and how
\* many run at a time, make no difference to the results.
BatchEnds ==
  /\ phase = "batch"
  /\ \E answers \in [Physical -> Latencies \cup {Dead}] :
       LET results == [x \in batch |-> Result(x, answers)]
           best == fastestReachable(results)
       IN /\ got' = [e \in Endpoints |-> IF e \in Physical THEN answers[e] ELSE Unprobed]
          /\ latency' = [x \in Servers |-> IF x \in batch THEN results[x] ELSE latency[x]]
          /\ IF best = {} \/ (stopped = "yes" /\ mode # "fastest") THEN phase' = "group" /\ UNCHANGED choice
             ELSE /\ phase' = "chosen"
                  /\ \E x \in best : \E e \in FastestMembers(x, answers) : choice' = [server |-> x, member |-> e]
  /\ UNCHANGED <<off, mode, exclude, left, batch, stopped, asked, skipped, switches>>

\* The operation is cancelled or stalls, in the queue or in the slot: there are no
\* results, and the group counts as one that did not answer.
BatchCancelled ==
  /\ phase \in {"queued", "batch"} /\ phase' = "group"
  /\ skipped' = skipped \cup batch
  /\ UNCHANGED <<off, mode, exclude, left, batch, got, stopped, choice, asked, latency, switches>>

\* cancelPingRun, which finds a batch to cancel only once it has begun.
cancelPingRun ==
  /\ phase \in {"group", "queued", "batch"} /\ stopped' = "yes"
  /\ IF phase = "batch" THEN phase' = "group" /\ skipped' = skipped \cup batch
     ELSE UNCHANGED <<phase, skipped>>
  /\ UNCHANGED <<off, mode, exclude, left, batch, got, choice, asked, latency, switches>>

\* The caller commits the choice.
Commit == phase = "chosen" /\ Over

Switch(i, x) ==
  /\ phase # "idle" /\ switches < MaxSwitches /\ switches' = switches + 1
  /\ off' = [off EXCEPT ![i] = IF x \in @ THEN @ \ {x} ELSE @ \cup {x}]
  /\ UNCHANGED <<phase, mode, exclude, left, batch, got, stopped, choice, asked, latency, skipped>>

SelNext ==
  \/ \E m \in {"priority", "active_first", "fastest"}, id \in Servers \cup {NoServer} : findBestConfigured(m, id)
  \/ NextGroup \/ BatchBegins \/ BatchEnds \/ BatchCancelled \/ cancelPingRun \/ Commit
  \/ \E i \in DOMAIN Order : \E x \in Order[i] : Switch(i, x)

SelSpec == SelInit /\ [][SelNext]_selVars
------------------------------------------------------------------------------
\* Every variable has its type.
SelTypeOK ==
  /\ off \in [DOMAIN Order -> SUBSET Servers] /\ asked \in [DOMAIN Order -> SUBSET Servers]
  /\ phase \in {"idle", "group", "queued", "batch", "chosen"}
  /\ mode \in {"priority", "active_first", "fastest"} /\ exclude \in Servers \cup {NoServer}
  /\ left \in Seq(SUBSET Servers) /\ batch \subseteq Servers /\ skipped \subseteq Servers
  /\ got \in [Endpoints -> Latencies \cup {Dead, Unprobed}] /\ latency \in [Servers -> Latencies \cup {Dead, Unprobed}]
  /\ stopped \in {"no", "yes"} /\ switches \in 0..MaxSwitches
  /\ choice \in [server : Servers, member : Endpoints] \cup {NoServer}

\* Where a server stands in the order the user asked for: by the first
\* subscription in which it was on, counted from that of the excluded server
\* when the failover order says so.
Rank(x) == CHOOSE i \in DOMAIN Order : x \in OnIn(asked, i) /\ \A j \in 1..(i - 1) : x \notin OnIn(asked, j)
Standing(x) ==
  CASE mode = "fastest" -> 0
    [] mode = "active_first" /\ exclude \in allServersLocked(asked) -> (Rank(x) - Rank(exclude)) % Len(Order)
    [] OTHER -> Rank(x)

\* The chosen server answered a probe of this selection, through the member that
\* is chosen with it, and is the best by the user's order: no server that stands
\* before it answered, none beside it was faster, and none of them went unprobed
\* but for those that were switched off meanwhile or whose batch was cancelled.
ChosenIsBest ==
  phase = "chosen" =>
    LET x == choice.server
    IN /\ x # exclude /\ latency[x] \in Latencies
       /\ choice.member \in Members[x] /\ got[choice.member] = latency[x]
       /\ \A y \in allServersLocked(asked) \ (skipped \cup {exclude}) :
            /\ Standing(y) < Standing(x) => latency[y] = Dead
            /\ Standing(y) = Standing(x) => latency[y] = Dead \/ (latency[y] \in Latencies /\ latency[x] <= latency[y])
==============================================================================
