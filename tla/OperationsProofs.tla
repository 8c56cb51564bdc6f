-------------------------- MODULE OperationsProofs --------------------------
(***************************************************************************)
(* Proofs about the coordinator of heavy operations, for any set of        *)
(* callers: the invariant IInv, and that the coordinator implements the    *)
(* slot of HeavySlot.                                                      *)
(***************************************************************************)
EXTENDS OperationsLemmas

\* Every step keeps the channels of a lease in step with its op.fn.
LEMMA LeasePreserved ==
  ASSUME IInv, [Next]_vars
  PROVE  LeaseShape' /\ LiveLeaseOwnsSlot'
<1> USE DEF queueVars, activeVars, workVars, fnVars, leaseVars
<1> DEFINE Good == LeaseShape' /\ LiveLeaseOwnsSlot'
<1>0. /\ TypeOK /\ WorkerShape /\ QueueOnce /\ OneAnswer
      /\ LeaseShape /\ LiveLeaseOwnsSlot /\ Lease \subseteq Ops /\ None \notin Ops
  BY OpsAssumption DEF OpsAssumption, IInv
<1>1. ASSUME NEW op \in Ops, Caller(op) PROVE Good
  <2>1. CASE RunQueued(op)
    <3>1. ~Queued(op) /\ wop # op
      BY <1>0, <2>1 DEF OneAnswer, RunQueued, CallBegins
    <3>2. \A o : Queued(o)' <=> Queued(o) \/ o = op
      BY <1>0, <2>1, <3>1, QueueAppended DEF RunQueued
    <3> QED BY <1>0, <2>1, <3>1, <3>2
      DEF TypeOK, LeaseShape, LiveLeaseOwnsSlot, RunCtxDone, RunQueued,
        CallBegins
  <2>2. CASE RunDeduped(op)
    <3>1. ~Queued(op) /\ wop # op
      BY <1>0, <2>2 DEF OneAnswer, RunDeduped, CallBegins
    <3>2. \A o : Queued(o)' <=> Queued(o)
      BY <2>2 DEF RunDeduped, Queued
    <3> QED BY <1>0, <2>2, <3>1, <3>2
      DEF TypeOK, LeaseShape, LiveLeaseOwnsSlot, RunCtxDone, RunDeduped,
        CallBegins
  <2>3. CASE RunWithdrawn(op)
    <3>1. \A o : Queued(o)' => Queued(o)
      BY <1>0, <2>3, QueueRemoval DEF RunWithdrawn
    <3> QED BY <1>0, <2>3, <3>1
      DEF LeaseShape, LiveLeaseOwnsSlot, RunCtxDone, RunWithdrawn
  <2>4. CASE Signal(op) \/ RunAnswered(op) \/ RunAwaits(op)
    BY <1>0, <2>4
      DEF LeaseShape, LiveLeaseOwnsSlot, RunCtxDone, Signal, RunAnswered,
        RunAwaits, Queued
  <2> QED BY <1>1, <2>1, <2>2, <2>3, <2>4 DEF Caller
<1>2. ASSUME NEW op \in Lease, Owner(op) PROVE Good
  <2>1. CASE AcquireTakes(op)
    <3>1. \A o : Queued(o)' <=> Queued(o)
      BY <2>1 DEF AcquireTakes, Queued
    <3>2. CASE op \in ctxDone
      BY <1>0, <2>1, <3>1, <3>2
        DEF TypeOK, LeaseShape, LiveLeaseOwnsSlot, RunCtxDone, AcquireTakes
    <3>3. CASE op \notin ctxDone
      <4>1. /\ op \in started /\ op \notin started'
            /\ \A o \in Lease \ {op} : /\ o \in started' <=> o \in started
                                       /\ o \in claimed' <=> o \in claimed
                                       /\ apc'[o] = apc[o]
        BY <1>0, <2>1, <3>3 DEF TypeOK, AcquireTakes
      <4>2. UNCHANGED <<wop, wpc, fpc, active, ctxDone, runDone, release>>
        BY <2>1 DEF AcquireTakes
      <4>3. LeaseShape'
        <5> SUFFICES ASSUME NEW o \in Lease
            PROVE  /\ Queued(o)' \/ (wop' = o /\ fpc' \in {"none", "start"}
                                      /\ wpc' # "deliver")
                        => o \notin started' \cup claimed'
                   /\ o \in started' => o \notin claimed'
                   /\ o \in started' /\ ~RunCtxDone(o)' => active' = o /\ fpc' = "claim"
                   /\ apc'[o] # "out" => release'[o] = None
          BY <1>0 DEF LeaseShape
        <5>1. CASE o = op
          <6>1. apc[op] = "wait" /\ release[op] = None
            BY <1>0, <2>1 DEF LeaseShape, AcquireTakes
          <6>2. ~Queued(op) /\ ~(wop = op /\ fpc \in {"none", "start"} /\ wpc # "deliver")
            BY <1>0, <4>1 DEF LeaseShape
          <6> QED BY <3>1, <4>1, <4>2, <5>1, <6>1, <6>2
        <5>2. CASE o # op
          BY <1>0, <3>1, <4>1, <4>2, <5>2 DEF LeaseShape, RunCtxDone
        <5> QED BY <5>1, <5>2
      <4>4. LiveLeaseOwnsSlot'
        <5> SUFFICES ASSUME NEW o \in Lease, apc'[o] = "owner", ~RunCtxDone(o)'
            PROVE  active' = o /\ fpc' \in {"claim", "hold"}
          BY <1>0 DEF LiveLeaseOwnsSlot
        <5>1. ~RunCtxDone(o)
          BY <1>0, <4>2 DEF RunCtxDone
        <5>2. CASE o = op
          <6>1. active = op /\ fpc = "claim"
            BY <1>0, <4>1, <5>1, <5>2 DEF LeaseShape
          <6> QED BY <4>2, <5>2, <6>1
        <5>3. CASE o # op
          <6>1. active = o /\ fpc \in {"claim", "hold"}
            BY <1>0, <4>1, <5>1, <5>3 DEF LiveLeaseOwnsSlot
          <6> QED BY <4>2, <6>1
        <5> QED BY <5>2, <5>3
      <4> QED BY <4>3, <4>4
    <3> QED BY <3>2, <3>3
  <2>2. CASE AcquireCompleted(op) \/ AcquireGivesUp(op)
    BY <1>0, <2>2
      DEF TypeOK, LeaseShape, LiveLeaseOwnsSlot, RunCtxDone, AcquireCompleted,
        AcquireGivesUp, Queued
  <2>3. CASE \E err \in Errors : Finish(op, err)
    <3>0. PICK err \in Errors : Finish(op, err)
      BY <2>3
    <3>1. apc'[op] = "out" /\ \A o \in Lease \ {op} : apc'[o] = apc[o]
      BY <1>0, <3>0 DEF TypeOK, Finish
    <3>2. \A o \in Lease \ {op} : release'[o] = release[o]
      BY <3>0 DEF Finish
    <3>3. \A o : Queued(o)' <=> Queued(o)
      BY <3>0 DEF Finish, Queued
    <3>4. UNCHANGED <<wop, wpc, fpc, active, ctxDone, runDone, started, claimed>>
      BY <3>0 DEF Finish
    <3>5. LeaseShape'
      BY <1>0, <3>1, <3>2, <3>3, <3>4 DEF LeaseShape, RunCtxDone
    <3>6. LiveLeaseOwnsSlot'
      BY <1>0, <3>1, <3>4 DEF LiveLeaseOwnsSlot, RunCtxDone
    <3> QED BY <3>5, <3>6
  <2> QED BY <1>2, <2>1, <2>2, <2>3 DEF Owner
<1>3. CASE Worker
  <2>1. CASE NextDrops
    <3>1. \A o : Queued(o)' => Queued(o)
      BY <1>0, <2>1, QueueRemoval DEF NextDrops
    <3> QED BY <1>0, <2>1, <3>1
      DEF LeaseShape, LiveLeaseOwnsSlot, RunCtxDone, NextDrops
  <2>2. CASE NextPicks
    <3>1. PICK i \in DOMAIN queue : queue' = Without(queue, i) /\ wop' = queue[i]
      BY <2>2 DEF NextPicks
    <3>2. \A o : Queued(o)' => Queued(o)
      BY <1>0, <3>1, QueueRemoval
    <3>3. Queued(wop')
      BY <3>1 DEF Queued
    <3> QED BY <1>0, <2>2, <3>2, <3>3
      DEF LeaseShape, LiveLeaseOwnsSlot, RunCtxDone, NextPicks
  <2>3. CASE NextEmpty \/ WorkerWakes
    BY <1>0, <2>3
      DEF LeaseShape, LiveLeaseOwnsSlot, RunCtxDone, NextEmpty, WorkerWakes,
        Queued
  <2>4. CASE ExecuteBegins
    BY <1>0, <2>4
      DEF LeaseShape, LiveLeaseOwnsSlot, RunCtxDone, ExecuteBegins, Queued,
        WorkerShape
  <2>5. CASE ExecuteEnds
    BY <1>0, <2>5 DEF LeaseShape, LiveLeaseOwnsSlot, RunCtxDone, ExecuteEnds, Queued
  <2>6. CASE ExecuteDelivers
    BY <1>0, <2>6
      DEF LeaseShape, LiveLeaseOwnsSlot, RunCtxDone, ExecuteDelivers, Queued
  <2> QED BY <1>3, <2>1, <2>2, <2>3, <2>4, <2>5, <2>6 DEF Worker
<1>4. CASE Fn
  <2>1. CASE \E err \in Errors : BodyReturns(err)
    BY <1>0, <2>1
      DEF LeaseShape, LiveLeaseOwnsSlot, RunCtxDone, BodyReturns, FnReturns,
        Queued
  <2>2. CASE LeaseOffered
    BY <1>0, <2>2
      DEF LeaseShape, LiveLeaseOwnsSlot, RunCtxDone, LeaseOffered, FnGoesTo,
        Queued, QueueOnce, WorkerShape
  <2>3. CASE LeaseClaimed \/ LeaseDrains
    BY <1>0, <2>3
      DEF LeaseShape, LiveLeaseOwnsSlot, RunCtxDone, LeaseClaimed,
        LeaseDrains, FnGoesTo, Queued, WorkerShape
  <2>4. CASE LeaseAbandoned
    BY <1>0, <2>4
      DEF LeaseShape, LiveLeaseOwnsSlot, RunCtxDone, LeaseAbandoned,
        FnReturns, Queued, WorkerShape
  <2>5. CASE LeaseReleased
    BY <1>0, <2>5
      DEF LeaseShape, LiveLeaseOwnsSlot, RunCtxDone, LeaseReleased, FnReturns,
        Queued, WorkerShape
  <2> QED BY <1>4, <2>1, <2>2, <2>3, <2>4, <2>5 DEF Fn
<1>5. CASE Watchdog
  BY <1>0, <1>5
    DEF LeaseShape, LiveLeaseOwnsSlot, RunCtxDone, Watchdog, Silence, Report,
      WatchStall, Progress, Queued
<1>6. CASE Cancel
  <2>1. CASE CancelsActive \/ \E op \in Ops : CtxCancelled(op)
    BY <1>0, <2>1
      DEF LeaseShape, LiveLeaseOwnsSlot, RunCtxDone, CancelsActive,
        CtxCancelled, Queued
  <2>2. ASSUME NEW kind \in Kinds, CancelKindQueued(kind) PROVE Good
    <3>1. \A o : Queued(o)' => Queued(o)
      BY <1>0, <2>2, QueueRemoval DEF CancelKindQueued
    <3> QED BY <1>0, <2>2, <3>1
      DEF LeaseShape, LiveLeaseOwnsSlot, RunCtxDone, CancelKindQueued
  <2> QED BY <1>6, <2>1, <2>2 DEF Cancel, CancelActive, CancelKindActive
<1>7. CASE UNCHANGED vars
  BY <1>0, <1>7 DEF LeaseShape, LiveLeaseOwnsSlot, RunCtxDone, vars, Queued
<1> QED
  BY <1>1, <1>2, <1>3, <1>4, <1>5, <1>6, <1>7 DEF Next
-----------------------------------------------------------------------------
\* The initial state satisfies the inductive invariant.
LEMMA InitIInv == Init => IInv
<1> SUFFICES ASSUME Init PROVE IInv
  OBVIOUS
<1>0. queue \in Seq(Ops)
  BY DEF Init
<1>1. TypeOK
  <2>1. pc \in [Ops -> CallStates] /\ apc \in [Ops -> OwnerStates]
    BY DEF Init, CallStates, OwnerStates
  <2>2. done \in [Ops -> Answers \cup {None}] /\ release \in [Ops -> Errors \cup {None}]
    BY DEF Init
  <2>3. wpc \in WorkerStates /\ fpc \in FnStates /\ ferr \in Errors \cup Answers
    BY DEF Init, WorkerStates, FnStates, Errors
  <2> QED BY <1>0, <2>1, <2>2, <2>3 DEF Init, TypeOK
<1>2. \A op : ~Queued(op)
  <2>1. queue = <<>> /\ DOMAIN queue = {}
    BY DEF Init
  <2> QED BY <2>1 DEF Queued
<1>3. WorkerShape /\ QueueOnce /\ NoLostWakeup
  BY <1>2 DEF Init, WorkerShape, QueueOnce, NoLostWakeup
<1>4. OneAnswer /\ LeaseShape /\ LiveLeaseOwnsSlot
  BY <1>2, OpsAssumption DEF OpsAssumption, Init, OneAnswer, LeaseShape, LiveLeaseOwnsSlot
<1>5. DedupeExact
  <2>1. \A op \in Ops : ~Pending(op)
    BY <1>2, OpsAssumption DEF OpsAssumption, Init, Pending
  <2>2. dedupe = {}
    BY DEF Init
  <2> QED BY <2>1, <2>2 DEF DedupeExact
<1> QED
  BY <1>1, <1>3, <1>4, <1>5 DEF IInv

\* Every step keeps the inductive invariant.
LEMMA NextIInv == IInv /\ [Next]_vars => IInv'
BY TypePreserved, WorkerPreserved, AnswerPreserved, KeysPreserved,
   WakeupPreserved, LeasePreserved DEF IInv

\* IInv is an invariant of the coordinator, for any callers, kinds and keys.
THEOREM IInvHolds == Spec => []IInv
BY InitIInv, NextIInv, PTL DEF Spec

\* Type correctness of the coordinator's state.
THEOREM TypeCorrect == Spec => []TypeOK
<1>1. IInv => TypeOK
  BY DEF IInv
<1> QED BY <1>1, IInvHolds, PTL

\* Every operation gets exactly one answer and nothing runs after it.
THEOREM AnsweredOnce == Spec => []OneAnswer
<1>1. IInv => OneAnswer
  BY DEF IInv
<1> QED BY <1>1, IInvHolds, PTL

\* The reserved keys are those of the pending operations.
THEOREM KeysExact == Spec => []DedupeExact
<1>1. IInv => DedupeExact
  BY DEF IInv
<1> QED BY <1>1, IInvHolds, PTL

\* The worker never sleeps on a queued operation without a wake-up on its way.
THEOREM WakeupNeverLost == Spec => []NoLostWakeup
<1>1. IInv => NoLostWakeup
  BY DEF IInv
<1> QED BY <1>1, IInvHolds, PTL

\* A lease with a live context owns the slot.
THEOREM LiveLeaseHasSlot == Spec => []LiveLeaseOwnsSlot
<1>1. IInv => LiveLeaseOwnsSlot
  BY DEF IInv
<1> QED BY <1>1, IInvHolds, PTL

\* Once op.fn has seen the claim, the slot is held until Finish was called.
THEOREM HeldUntilFinish == Spec => SlotUntilFinish
<1>1. IInv /\ [Next]_vars =>
        [(fpc \in {"hold", "drain"} /\ fpc' \notin {"hold", "drain"})
           => release[wop] # None]_vars
  <2> SUFFICES ASSUME IInv, [Next]_vars, fpc \in {"hold", "drain"},
                      fpc' \notin {"hold", "drain"}
               PROVE  release[wop] # None
    OBVIOUS
  <2> USE DEF queueVars, activeVars, workVars, fnVars, leaseVars
  <2>1. wpc = "fn"
    BY DEF IInv, WorkerShape
  <2>2. ASSUME NEW op \in Ops, Caller(op) PROVE FALSE
    BY <2>2 DEF Caller, RunDeduped, RunQueued, CallBegins, Signal, RunAnswered,
      RunWithdrawn, RunAwaits
  <2>3. ASSUME NEW op \in Lease, Owner(op) PROVE FALSE
    BY <2>3 DEF Owner, AcquireTakes, AcquireCompleted, AcquireGivesUp, Finish
  <2>4. CASE Worker
    BY <2>1, <2>4 DEF Worker, NextDrops, NextPicks, NextEmpty, WorkerWakes,
      ExecuteBegins, ExecuteEnds, ExecuteDelivers
  <2>5. CASE Fn
    BY <2>5 DEF Fn, BodyReturns, LeaseOffered, LeaseClaimed, LeaseAbandoned,
      LeaseDrains, LeaseReleased, FnReturns, FnGoesTo
  <2>6. CASE Watchdog
    BY <2>6 DEF Watchdog, Silence, Report, WatchStall, Progress
  <2>7. CASE Cancel
    BY <2>7 DEF Cancel, CancelActive, CancelKindActive, CancelsActive,
      CancelKindQueued, CtxCancelled
  <2>8. CASE UNCHANGED vars
    BY <2>8 DEF vars
  <2> QED BY <2>2, <2>3, <2>4, <2>5, <2>6, <2>7, <2>8 DEF Next
<1> QED
  BY <1>1, IInvHolds, PTL DEF Spec, SlotUntilFinish
-----------------------------------------------------------------------------
(* Why an operation is reported as cancelled.                               *)

\* The request of the operation that the worker has went away, or a cancel has
\* reached it.
Asked == wop \in ctxDone \/ requested = "yes"

\* runCtx is cancelled, and op.fn returns context.Canceled, only after the
\* request went away, the watchdog fired or somebody cancelled the operation; no
\* cancel is left over from an earlier call.
CauseShape ==
  /\ \A op \in Ops : Queued(op) => op \notin runDone
  /\ \A op \in Lease : release[op] = "canceled" => RunCtxDone(op)
  /\ wpc = "start" => wop \notin runDone
  /\ wpc = "fn" /\ wop \in runDone => view = "stalled" \/ requested = "yes"
  /\ fpc = "drain" => RunCtxDone(wop)
  /\ fpc = "returned" => ferr \in Errors
  /\ fpc = "returned" /\ ferr = "canceled" => view = "stalled" \/ Asked
  /\ wpc = "deliver" /\ ferr = "cancelled" => Asked

\* A new call starts with new contexts and takes nobody else's.
LEMMA CauseCalled == ASSUME IInv, CauseShape, NEW op \in Ops, Caller(op) PROVE CauseShape'
<1> USE DEF queueVars, activeVars, workVars, fnVars, leaseVars, Asked, RunCtxDone
<1>0. TypeOK /\ WorkerShape /\ QueueOnce /\ OneAnswer
  BY DEF IInv
<1>r. CallBegins(op) => release'[op] # "canceled" /\ \A o \in Lease \ {op} : release'[o] = release[o]
  BY <1>0, OpsAssumption DEF TypeOK, CallBegins, Errors
<1>1. CASE RunQueued(op)
  <2>1. ~Queued(op) /\ wop # op
    BY <1>0, <1>1 DEF TypeOK, OneAnswer, RunQueued, CallBegins
  <2>2. \A o : Queued(o)' <=> Queued(o) \/ o = op
    BY <1>0, <1>1, <2>1, QueueAppended DEF RunQueued
  <2> QED
    BY <1>1, <1>r, <2>1, <2>2 DEF CauseShape, RunQueued, CallBegins
<1>2. CASE RunDeduped(op)
  <2>1. wop # op
    BY <1>0, <1>2 DEF TypeOK, OneAnswer, RunDeduped, CallBegins
  <2> QED
    BY <1>2, <1>r, <2>1 DEF CauseShape, RunDeduped, CallBegins, Queued
<1>3. CASE RunWithdrawn(op)
  <2>1. \A o : Queued(o)' => Queued(o)
    BY <1>0, <1>3, QueueRemoval DEF RunWithdrawn
  <2> QED
    BY <1>3, <2>1 DEF CauseShape, RunWithdrawn
<1>4. CASE Signal(op) \/ RunAnswered(op) \/ RunAwaits(op)
  BY <1>4 DEF CauseShape, Signal, RunAnswered, RunAwaits, Queued
<1> QED
  BY <1>1, <1>2, <1>3, <1>4 DEF Caller

\* The worker hands the cause on from the queue to the answer.
LEMMA CauseWorked == ASSUME IInv, CauseShape, Worker PROVE CauseShape'
<1> USE DEF queueVars, activeVars, workVars, fnVars, leaseVars, Asked, RunCtxDone
<1>0. TypeOK /\ WorkerShape /\ QueueOnce
  BY DEF IInv
<1>1. CASE NextDrops
  <2>1. \A o : Queued(o)' => Queued(o)
    BY <1>0, <1>1, QueueRemoval DEF NextDrops
  <2> QED
    BY <1>0, <1>1, <2>1 DEF CauseShape, NextDrops, WorkerShape
<1>2. CASE NextPicks
  <2>1. PICK i \in DOMAIN queue : queue' = Without(queue, i) /\ wop' = queue[i]
    BY <1>2 DEF NextPicks
  <2>2. \A o : Queued(o)' => Queued(o)
    BY <1>0, <2>1, QueueRemoval
  <2>3. queue[i] \in Ops /\ Queued(queue[i])
    BY <1>0, <2>1, QueueEntry
  <2>4. /\ wpc' = "start" /\ UNCHANGED <<ctxDone, runDone, release, fpc>>
        /\ fpc \notin {"returned", "drain"}
    BY <1>0, <1>2 DEF NextPicks, WorkerShape
  <2> QED
    BY <2>1, <2>2, <2>3, <2>4 DEF CauseShape
<1>3. CASE NextEmpty \/ WorkerWakes
  BY <1>0, <1>3 DEF CauseShape, NextEmpty, WorkerWakes, WorkerShape, Queued
<1>4. CASE ExecuteBegins
  BY <1>0, <1>4 DEF CauseShape, ExecuteBegins, WorkerShape, Queued
<1>5. CASE ExecuteEnds
  <2>1. ~Queued(wop) /\ queue' = queue
    BY <1>0, <1>5 DEF ExecuteEnds, QueueOnce
  <2>2. ASSUME ferr' = "cancelled" PROVE Asked
    <3>1. fpc = "returned" /\ view # "stalled" /\ (ferr = "canceled" \/ ferr = "cancelled")
      BY <1>5, <2>2 DEF ExecuteEnds, Verdict
    <3> QED
      BY <3>1 DEF CauseShape, Errors
  <2> QED
    BY <1>5, <2>1, <2>2 DEF CauseShape, ExecuteEnds, Queued
<1>6. CASE ExecuteDelivers
  BY <1>0, <1>6 DEF CauseShape, ExecuteDelivers, WorkerShape, Queued
<1> QED
  BY <1>1, <1>2, <1>3, <1>4, <1>5, <1>6 DEF Worker

\* op.fn tells of a cancel that it saw, and so does the owner of a lease, who
\* works under the same context.
LEMMA CauseReturned == ASSUME IInv, CauseShape, Fn PROVE CauseShape'
<1> USE DEF queueVars, activeVars, workVars, fnVars, leaseVars, Asked, RunCtxDone
<1>0. TypeOK /\ WorkerShape
  BY DEF IInv
<1>1. UNCHANGED <<ctxDone, runDone, queue, view, requested, wpc, wop>> /\ wpc = "fn"
  BY <1>0 DEF Fn, BodyReturns, LeaseOffered, LeaseClaimed, LeaseAbandoned,
    LeaseDrains, LeaseReleased, FnReturns, FnGoesTo, WorkerShape
<1>2. RunCtxDone(wop) => view = "stalled" \/ Asked
  BY <1>1 DEF CauseShape
<1>3. wop \in Ops
  BY <1>0, <1>1 DEF WorkerShape, TypeOK
<1>4. \A op \in Lease : release'[op] = "canceled" => release[op] = "canceled"
  BY <1>0, <1>3, OpsAssumption DEF Fn, BodyReturns, LeaseOffered, LeaseClaimed,
    LeaseAbandoned, LeaseDrains, LeaseReleased, FnReturns, FnGoesTo, TypeOK, Errors
<1>5. fpc' = "drain" => RunCtxDone(wop)
  BY DEF Fn, BodyReturns, LeaseOffered, LeaseClaimed, LeaseAbandoned,
    LeaseDrains, LeaseReleased, FnReturns, FnGoesTo
<1>6. ASSUME fpc' = "returned"
      PROVE  ferr' \in Errors /\ (ferr' = "canceled" => RunCtxDone(wop))
  <2>1. ASSUME NEW err \in Errors, BodyReturns(err)
        PROVE  ferr' \in Errors /\ (ferr' = "canceled" => RunCtxDone(wop))
    BY <2>1 DEF BodyReturns, FnReturns
  <2>2. CASE LeaseAbandoned
    BY <2>2 DEF LeaseAbandoned, FnReturns, Errors
  <2>3. CASE LeaseReleased
    <3>1. release[wop] \in Errors
      BY <1>0, <1>3, <2>3 DEF TypeOK, LeaseReleased
    <3> QED
      BY <1>0, <2>3, <3>1 DEF LeaseReleased, FnReturns, Errors, CauseShape, WorkerShape
  <2>4. ~(LeaseOffered \/ LeaseClaimed \/ LeaseDrains)
    BY <1>6 DEF LeaseOffered, LeaseClaimed, LeaseDrains, FnGoesTo
  <2> QED
    BY <2>1, <2>2, <2>3, <2>4 DEF Fn
<1> QED
  BY <1>1, <1>2, <1>4, <1>5, <1>6 DEF CauseShape, Queued

\* The watchdog marks what it stops, and a cancel reaches only what allows it.
LEMMA CauseStopped ==
  ASSUME IInv, CauseShape,
         Watchdog \/ Cancel \/ (\E op \in Lease : Owner(op)) \/ UNCHANGED vars
  PROVE  CauseShape'
<1> USE DEF queueVars, activeVars, workVars, fnVars, leaseVars, Asked, RunCtxDone
<1>0. TypeOK /\ WorkerShape /\ QueueOnce
  BY DEF IInv
<1>1. CASE Watchdog
  <2>1. CASE WatchStall
    <3>1. wpc = "fn" /\ active = wop /\ ~Queued(wop)
      BY <1>0, <2>1 DEF WatchStall, WorkerShape, QueueOnce
    <3> QED
      BY <2>1, <3>1 DEF CauseShape, WatchStall, Queued
  <2>2. CASE Silence \/ Report \/ \E op \in Lease : Progress(op)
    BY <2>2 DEF CauseShape, Silence, Report, Progress, Queued
  <2> QED
    BY <1>1, <2>1, <2>2 DEF Watchdog
<1>2. CASE Cancel
  <2>1. CASE CancelsActive
    <3>1. active # None
      BY <2>1, OpsAssumption DEF CancelsActive
    <3>2. wpc = "fn" /\ active = wop /\ wop \in Cancellable /\ ~Queued(wop)
      BY <1>0, <2>1, <3>1 DEF CancelsActive, WorkerShape, QueueOnce
    <3> QED
      BY <2>1, <3>2 DEF CauseShape, CancelsActive, Queued
  <2>2. CASE \E op \in Ops : CtxCancelled(op)
    BY <2>2 DEF CauseShape, CtxCancelled, Queued
  <2>3. ASSUME NEW kind \in Kinds, CancelKindQueued(kind) PROVE CauseShape'
    <3>1. \A o : Queued(o)' => Queued(o)
      BY <1>0, <2>3, QueueRemoval DEF CancelKindQueued
    <3> QED
      BY <2>3, <3>1 DEF CauseShape, CancelKindQueued
  <2> QED
    BY <1>2, <2>1, <2>2, <2>3 DEF Cancel, CancelActive, CancelKindActive
<1>3. ASSUME NEW op \in Lease, Owner(op) PROVE CauseShape'
  <2>1. CASE AcquireTakes(op) \/ AcquireCompleted(op) \/ AcquireGivesUp(op)
    BY <2>1 DEF CauseShape, AcquireTakes, AcquireCompleted, AcquireGivesUp, Queued
  <2>2. ASSUME NEW err \in Errors, Finish(op, err) PROVE CauseShape'
    <3>1. \A o \in Lease : release'[o] = "canceled" => RunCtxDone(o)
      BY <1>0, <2>2 DEF Finish, TypeOK, CauseShape
    <3> QED
      BY <2>2, <3>1 DEF CauseShape, Finish, Queued
  <2> QED
    BY <1>3, <2>1, <2>2 DEF Owner
<1>4. CASE UNCHANGED vars
  BY <1>4 DEF CauseShape, vars, Queued
<1> QED
  BY <1>1, <1>2, <1>3, <1>4

\* An operation is reported as cancelled because its request went away, because
\* CancelActive or CancelKind reached it while it ran, or because CancelKind took
\* it out of the queue: never because the watchdog stopped it.
THEOREM CancelIsCaused == Spec => CancelHasCause
<1> DEFINE A == \A op \in Ops : done[op] = None /\ done'[op] = "cancelled" =>
                  \/ op \in ctxDone
                  \/ wop = op /\ requested = "yes"
                  \/ op \in Cancellable /\ Queued(op) /\ ~Queued(op)'
<1>1. Init => CauseShape
  <2>1. ASSUME Init PROVE \A op : ~Queued(op)
    <3>1. queue = <<>> /\ DOMAIN queue = {}
      BY <2>1 DEF Init
    <3> QED BY <3>1 DEF Queued
  <2> QED
    BY <2>1, OpsAssumption DEF Init, CauseShape, Errors
<1>2. IInv /\ CauseShape /\ [Next]_vars => CauseShape'
  BY CauseCalled, CauseWorked, CauseReturned, CauseStopped DEF Next
<1>3. IInv /\ CauseShape /\ [Next]_vars => [A]_vars
  <2> SUFFICES ASSUME IInv, CauseShape, [Next]_vars, NEW op \in Ops, done[op] = None, done'[op] = "cancelled"
               PROVE  \/ op \in ctxDone
                      \/ wop = op /\ requested = "yes"
                      \/ op \in Cancellable /\ Queued(op) /\ ~Queued(op)'
    OBVIOUS
  <2> USE DEF queueVars, activeVars, workVars, fnVars, leaseVars
  <2>0. TypeOK /\ QueueOnce /\ None # "cancelled"
    BY OpsAssumption DEF IInv, Answers
  <2>1. CASE NextDrops
    BY <2>0, <2>1 DEF NextDrops, TypeOK
  <2>2. CASE ExecuteDelivers
    <3>1. op = wop /\ ferr = "cancelled" /\ wpc = "deliver"
      BY <2>0, <2>2 DEF ExecuteDelivers, TypeOK
    <3> QED
      BY <3>1 DEF CauseShape, Asked
  <2>3. ASSUME NEW kind \in Kinds, CancelKindQueued(kind)
        PROVE  op \in Cancellable /\ Queued(op) /\ ~Queued(op)'
    <3>1. PICK i \in DOMAIN queue :
            op = queue[i] /\ op \in Cancellable /\ queue' = Without(queue, i)
      BY <2>0, <2>3 DEF CancelKindQueued, TypeOK
    <3> QED
      BY <2>0, <3>1, QueueRemoval, QueueEntry
  <2>4. CASE \E o \in Ops : RunAnswered(o)
    BY <2>0, <2>4 DEF RunAnswered, TypeOK
  <2>5. \/ done' = done \/ NextDrops \/ ExecuteDelivers \/ \E o \in Ops : RunAnswered(o)
        \/ \E kind \in Kinds : CancelKindQueued(kind)
    <3>1. ASSUME NEW o \in Ops, Caller(o), ~RunAnswered(o) PROVE done' = done
      BY <3>1 DEF Caller, RunDeduped, RunQueued, CallBegins, Signal, RunWithdrawn, RunAwaits
    <3>2. ASSUME Worker, ~NextDrops, ~ExecuteDelivers PROVE done' = done
      BY <3>2 DEF Worker, NextPicks, NextEmpty, WorkerWakes, ExecuteBegins, ExecuteEnds
    <3>3. CASE (\E o \in Lease : Owner(o)) \/ Fn
      BY <3>3 DEF Owner, AcquireTakes, AcquireCompleted, AcquireGivesUp, Finish, Fn, BodyReturns, LeaseOffered,
        LeaseClaimed, LeaseAbandoned, LeaseDrains, LeaseReleased, FnReturns, FnGoesTo
    <3>4. CASE Watchdog \/ CancelsActive \/ (\E o \in Ops : CtxCancelled(o)) \/ UNCHANGED vars
      BY <3>4 DEF Watchdog, Silence, Report, WatchStall, Progress, CancelsActive, CtxCancelled, vars
    <3> QED
      BY <3>1, <3>2, <3>3, <3>4 DEF Next, Cancel, CancelActive, CancelKindActive
  <2> QED
    BY <2>0, <2>1, <2>2, <2>3, <2>4, <2>5
<1> QED
  BY <1>1, <1>2, <1>3, IInvHolds, PTL DEF Spec, CancelHasCause
-----------------------------------------------------------------------------
(* The coordinator implements HeavySlot.                                    *)

\* The phase of a call is that of a caller, of the queue or of the slot.
LEMMA PhaseValues ==
  /\ Phase = [op \in Ops |-> Phase[op]] /\ Phase' = [op \in Ops |-> Phase'[op]]
  /\ \A op \in Ops :
       /\ Phase[op] = IF pc[op] = "out" THEN "idle"
                      ELSE IF Queued(op) THEN "waiting"
                      ELSE IF Holder = op THEN "holding" ELSE "over"
       /\ Phase'[op] = IF pc'[op] = "out" THEN "idle"
                       ELSE IF Queued(op)' THEN "waiting"
                       ELSE IF Holder' = op THEN "holding" ELSE "over"
BY DEF Phase

\* A step that changes no phase is a stuttering step of the slot.
LEMMA SlotStutters ==
  ASSUME \A op \in Ops : Phase'[op] = Phase[op], Holder' = Holder
  PROVE  UNCHANGED Slot!slotVars
BY PhaseValues DEF Slot!slotVars

\* Only the phase of op changes.
LEMMA SlotMoves ==
  ASSUME NEW op \in Ops, \A o \in Ops \ {op} : Phase'[o] = Phase[o]
  PROVE  Phase' = [Phase EXCEPT ![op] = Phase'[op]]
BY PhaseValues

\* Every step of the coordinator is a step of the slot or changes no phase.
LEMMA SlotStep ==
  ASSUME IInv, [Next]_vars
  PROVE  [Slot!SlotNext]_(Slot!slotVars)
<1> USE DEF queueVars, activeVars, workVars, fnVars, leaseVars
<1> DEFINE Good == [Slot!SlotNext]_(Slot!slotVars)
<1>0. TypeOK /\ WorkerShape /\ QueueOnce /\ OneAnswer /\ None \notin Ops /\ Lease \subseteq Ops
  BY OpsAssumption DEF OpsAssumption, IInv
<1>1. ASSUME NEW op \in Ops, RunQueued(op) PROVE Good
  <2>1. ~Queued(op) /\ wop # op
    BY <1>0, <1>1 DEF OneAnswer, RunQueued, CallBegins
  <2>2. \A o : Queued(o)' <=> Queued(o) \/ o = op
    BY <1>0, <1>1, <2>1, QueueAppended DEF RunQueued
  <2>3. /\ pc[op] = "out" /\ pc' = [pc EXCEPT ![op] = "signal"]
        /\ wop' = wop /\ wpc' = wpc
    BY <1>1 DEF RunQueued, CallBegins
  <2>4. Holder' = Holder
    BY <2>3 DEF Holder
  <2>5. \A o \in Ops \ {op} : Phase'[o] = Phase[o]
    <3>1. \A o \in Ops \ {op} : pc'[o] = pc[o]
      BY <1>0, <2>3 DEF TypeOK
    <3>2. \A o \in Ops \ {op} : Queued(o)' <=> Queued(o)
      BY <2>2
    <3> QED BY <2>4, <3>1, <3>2, PhaseValues
  <2>6. Phase[op] = "idle" /\ Phase'[op] = "waiting"
    BY <1>0, <2>2, <2>3, PhaseValues DEF TypeOK
  <2>7. Slot!Ask(op)
    BY <2>4, <2>5, <2>6, SlotMoves DEF Slot!Ask, Slot!Moves
  <2> QED BY <2>7 DEF Slot!SlotNext
<1>2. ASSUME NEW i \in DOMAIN queue, queue' = Without(queue, i), Holder' = Holder,
             \A o \in Ops \ {queue[i]} : pc'[o] = pc[o]
      PROVE  Good
  <2> DEFINE x == queue[i]
  <2>1. \A o : Queued(o)' <=> Queued(o) /\ o # x
    BY <1>0, <1>2, QueueRemoval
  <2>2. x \in Ops /\ Queued(x) /\ wop # x /\ pc[x] # "out"
    <3>1. x \in Ops /\ Queued(x)
      BY <1>0, QueueEntry
    <3> QED BY <1>0, <3>1 DEF QueueOnce, OneAnswer
  <2>3. Holder # x
    BY <1>0, <2>2 DEF Holder
  <2>4. \A o \in Ops \ {x} : Phase'[o] = Phase[o]
    BY <1>2, <2>1, PhaseValues
  <2>5. Phase[x] = "waiting" /\ Phase'[x] \in {"over", "idle"}
    BY <1>2, <2>1, <2>2, <2>3, PhaseValues
  <2>6. Slot!Leave(x)
    BY <1>2, <2>2, <2>4, <2>5, SlotMoves DEF Slot!Leave, Slot!Moves
  <2> QED BY <2>2, <2>6 DEF Slot!SlotNext
<1>3. ASSUME NEW op \in Ops, RunWithdrawn(op) PROVE Good
  BY <1>0, <1>2, <1>3 DEF TypeOK, RunWithdrawn, Holder
<1>4. ASSUME NEW kind \in Kinds, CancelKindQueued(kind) PROVE Good
  BY <1>2, <1>4 DEF CancelKindQueued, Holder
<1>5. CASE NextDrops
  BY <1>2, <1>5 DEF NextDrops, Holder
<1>6. CASE NextPicks
  <2>1. PICK i \in DOMAIN queue : Chosen(i) /\ queue' = Without(queue, i) /\ wop' = queue[i]
    BY <1>6 DEF NextPicks
  <2> DEFINE x == queue[i]
  <2>2. \A o : Queued(o)' <=> Queued(o) /\ o # x
    BY <1>0, <2>1, QueueRemoval
  <2>3. x \in Ops /\ Queued(x) /\ pc[x] # "out" /\ pc' = pc
    <3>1. x \in Ops /\ Queued(x)
      BY <1>0, QueueEntry
    <3>2. pc[x] # "out"
      BY <1>0, <3>1 DEF OneAnswer
    <3> QED BY <1>6, <3>1, <3>2 DEF NextPicks
  <2>4. Holder = None /\ Holder' = x
    BY <1>6, <2>1 DEF NextPicks, Holder
  <2>5. \A o \in Ops \ {x} : Phase'[o] = Phase[o]
    BY <1>0, <2>2, <2>3, <2>4, PhaseValues
  <2>6. Phase[x] = "waiting" /\ Phase'[x] = "holding"
    BY <2>2, <2>3, <2>4, PhaseValues
  <2>7. x \in Background => \A o \in Ops \ Background : ~Queued(o)
    BY <2>1 DEF Chosen, Queued
  <2>8. x \in Background => \A o \in Ops \ Background : Phase[o] # "waiting"
    BY <2>7, PhaseValues
  <2>9. Slot!Take(x)
    BY <2>3, <2>4, <2>5, <2>6, <2>8, SlotMoves DEF Slot!Take, Slot!Moves
  <2> QED BY <2>3, <2>9 DEF Slot!SlotNext
<1>7. CASE ExecuteEnds
  <2>1. /\ wop \in Ops /\ wpc = "fn" /\ ~Queued(wop) /\ pc[wop] # "out"
        /\ wop' = wop /\ wpc' = "deliver" /\ pc' = pc /\ queue' = queue
    BY <1>0, <1>7 DEF TypeOK, WorkerShape, QueueOnce, OneAnswer, ExecuteEnds
  <2>2. Holder = wop /\ Holder' = None
    BY <2>1 DEF Holder
  <2>3. \A o \in Ops \ {wop} : Phase'[o] = Phase[o]
    BY <1>0, <2>1, <2>2, PhaseValues DEF Queued
  <2>4. Phase[wop] = "holding" /\ Phase'[wop] = "over"
    BY <1>0, <2>1, <2>2, PhaseValues DEF Queued
  <2>5. Slot!Free(wop)
    BY <2>1, <2>2, <2>3, <2>4, SlotMoves DEF Slot!Free, Slot!Moves
  <2> QED BY <2>1, <2>5 DEF Slot!SlotNext
<1>8. ASSUME NEW op \in Ops, RunAnswered(op) PROVE Good
  <2>1. /\ pc[op] # "out" /\ ~Queued(op) /\ wop # op
        /\ pc' = [pc EXCEPT ![op] = "out"]
        /\ queue' = queue /\ wop' = wop /\ wpc' = wpc
    BY <1>0, <1>8 DEF OneAnswer, RunAnswered
  <2>2. Holder' = Holder /\ Holder # op
    BY <1>0, <2>1 DEF Holder
  <2>q. \A o : Queued(o)' <=> Queued(o)
    BY <2>1 DEF Queued
  <2>p. \A o \in Ops \ {op} : pc'[o] = pc[o]
    BY <1>0, <2>1 DEF TypeOK
  <2>3. \A o \in Ops \ {op} : Phase'[o] = Phase[o]
    BY <2>q, <2>p, <2>2, PhaseValues
  <2>4. Phase[op] = "over" /\ Phase'[op] = "idle"
    BY <1>0, <2>1, <2>2, PhaseValues DEF TypeOK
  <2>5. Slot!Return(op)
    BY <2>2, <2>3, <2>4, SlotMoves DEF Slot!Return, Slot!Moves
  <2> QED BY <2>5 DEF Slot!SlotNext
<1>9. ASSUME NEW op \in Ops, RunDeduped(op) PROVE Good
  <2>1. /\ pc[op] = "out" /\ ~Queued(op) /\ wop # op
        /\ pc' = pc \/ pc' = [pc EXCEPT ![op] = "skipped"]
        /\ queue' = queue /\ wop' = wop /\ wpc' = wpc
    BY <1>0, <1>9 DEF OneAnswer, RunDeduped, CallBegins
  <2>2. Holder' = Holder /\ Holder # op
    BY <1>0, <2>1 DEF Holder
  <2>3. CASE pc' = pc
    <3>1. \A o \in Ops : Phase'[o] = Phase[o]
      BY <2>1, <2>2, <2>3, PhaseValues DEF Queued
    <3> QED BY <2>2, <3>1, SlotStutters
  <2>4. CASE pc' = [pc EXCEPT ![op] = "skipped"]
    <3>q. \A o : Queued(o)' <=> Queued(o)
      BY <2>1 DEF Queued
    <3>p. pc'[op] = "skipped" /\ \A o \in Ops \ {op} : pc'[o] = pc[o]
      BY <1>0, <2>4 DEF TypeOK
    <3>1. \A o \in Ops \ {op} : Phase'[o] = Phase[o]
      BY <3>q, <3>p, <2>2, PhaseValues
    <3>2. Phase[op] = "idle" /\ Phase'[op] = "over"
      BY <3>q, <3>p, <2>1, <2>2, PhaseValues
    <3>3. Slot!Ask(op)
      BY <2>2, <3>1, <3>2, SlotMoves DEF Slot!Ask, Slot!Moves
    <3> QED BY <3>3 DEF Slot!SlotNext
  <2> QED BY <2>1, <2>3, <2>4
<1>10. ASSUME NEW op \in Lease, AcquireCompleted(op) PROVE Good
  <2>1. /\ op \in Ops /\ ~Queued(op) /\ wop # op
        /\ pc[op] \in {"out", "skipped"} /\ pc' = [pc EXCEPT ![op] = "out"]
        /\ queue' = queue /\ wop' = wop /\ wpc' = wpc
    BY <1>0, <1>10 DEF OneAnswer, AcquireCompleted
  <2>2. Holder' = Holder /\ Holder # op
    BY <1>0, <2>1 DEF Holder
  <2>q. \A o : Queued(o)' <=> Queued(o)
    BY <2>1 DEF Queued
  <2>p. \A o \in Ops \ {op} : pc'[o] = pc[o]
    BY <1>0, <2>1 DEF TypeOK
  <2>3. \A o \in Ops \ {op} : Phase'[o] = Phase[o]
    BY <2>q, <2>p, <2>2, PhaseValues
  <2>4. Phase'[op] = "idle" /\ Phase[op] \in {"idle", "over"}
    BY <1>0, <2>1, <2>2, PhaseValues DEF TypeOK
  <2>5. CASE Phase[op] = "idle"
    BY <2>1, <2>2, <2>3, <2>4, <2>5, SlotStutters
  <2>6. CASE Phase[op] = "over"
    <3>1. Slot!Return(op)
      BY <2>1, <2>2, <2>3, <2>4, <2>6, SlotMoves DEF Slot!Return, Slot!Moves
    <3> QED BY <2>1, <3>1 DEF Slot!SlotNext
  <2> QED BY <2>4, <2>5, <2>6
<1>11. ASSUME queue' = queue, Holder' = Holder,
              \A op \in Ops : pc'[op] = "out" <=> pc[op] = "out"
       PROVE  Good
  <2>1. \A op \in Ops : Phase'[op] = Phase[op]
    BY <1>11, PhaseValues DEF Queued
  <2> QED BY <1>11, <2>1, SlotStutters
<1>12. ASSUME NEW op \in Ops, Signal(op) \/ RunAwaits(op) PROVE Good
  BY <1>0, <1>11, <1>12 DEF TypeOK, Signal, RunAwaits, Holder
<1>13. CASE NextEmpty \/ WorkerWakes \/ ExecuteBegins \/ ExecuteDelivers
  BY <1>11, <1>13 DEF NextEmpty, WorkerWakes, ExecuteBegins, ExecuteDelivers, Holder
<1>14. CASE UNCHANGED <<queueVars, wpc, wop, pc, done>>
  BY <1>11, <1>14 DEF Holder
<1> QED
  BY <1>1, <1>3, <1>4, <1>5, <1>6, <1>7, <1>8, <1>9, <1>10, <1>12, <1>13, <1>14,
     OtherSteps DEF Moves

\* The coordinator implements the slot it promises: one holder at a time,
\* manual calls before background ones, one turn per call.
THEOREM CoordinatorImplementsSlot == Spec => ImplementsSlot
<1>1. Init => Slot!SlotInit
  <2> SUFFICES ASSUME Init PROVE Slot!SlotInit
    OBVIOUS
  <2>1. Holder = None /\ \A op \in Ops : Phase[op] = "idle"
    BY DEF Init, Holder, Phase
  <2> QED BY <2>1, PhaseValues DEF Slot!SlotInit
<1>2. IInv /\ [Next]_vars => [Slot!SlotNext]_(Slot!slotVars)
  BY SlotStep
<1> QED
  BY <1>1, <1>2, IInvHolds, PTL DEF Spec, ImplementsSlot, Slot!SlotSpec
=============================================================================
