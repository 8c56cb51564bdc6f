----------------------------- MODULE Operations -----------------------------
(***************************************************************************)
(* The coordinator of heavy operations (cmd/vless-manager/operations.go).  *)
(* One worker goroutine executes, one at a time, the operations that HTTP  *)
(* handlers and background loops hand to Run.  Acquire turns the execution *)
(* slot into a lease: its operation only waits until the owner of the      *)
(* lease calls Finish.  A step is a critical section of c.mu, a channel    *)
(* operation or a call of a context's cancel function.                     *)
(***************************************************************************)
EXTENDS Naturals, Sequences

CONSTANTS
  Ops,          \* the callers of Run; a caller has one operation at a time
  Lease,        \* the callers that come through Acquire
  Background,   \* the operations whose Source is "background"
  Cancellable,  \* the operations with req.Cancellable
  Request,      \* the operations whose ctx is that of an HTTP request
  Kinds, KindOf,  \* req.Kind
  Keys, KeyOf,    \* req.DedupeKey
  NoKey, None

Errors == {"ok", "failed", "canceled"}                       \* from op.fn
Answers == {"ok", "failed", "ctx", "cancelled", "stalled"}   \* from Run

ASSUME OpsAssumption ==
  /\ Lease \subseteq Ops /\ Background \subseteq Ops
  /\ Cancellable \subseteq Ops /\ Request \subseteq Ops
  /\ None \notin Ops \cup Answers \cup Errors /\ NoKey \notin Keys
  /\ KindOf \in [Ops -> Kinds]
  /\ KeyOf \in [Ops -> Keys \cup {NoKey}]
  \* Run gives a background operation without a key its kind as the key.
  /\ \A op \in Background : KeyOf[op] # NoKey

VARIABLES
  pc,        \* where the goroutine inside Run is, for each operation
  ctxDone,   \* the operations whose request context is cancelled
  runDone,   \* the operations whose runCtx was cancelled by c.cancel
  done,      \* op.done: the buffered answer of the worker
  queue,     \* c.queue
  active,    \* c.active
  wake,      \* the number of tokens in c.wake
  dedupe,    \* the keys in c.dedupe
  view,      \* the State shown for the active operation
  watch,     \* watchStall of the active operation is still running
  age,       \* UpdatedAt of the active operation is older than StallLimit
  requested, \* CancelRequested of the operation that the worker has
  wpc, wop,  \* where the worker is, and the operation it has in its hands
  fpc, ferr, \* where op.fn is, and the error that op.fn or execute returns
  apc,       \* where the caller of Acquire is
  started, claimed, release  \* the channels between Acquire and its op.fn

queueVars  == <<queue, dedupe>>
activeVars == <<active, view, watch, age, requested>>
workVars   == <<wpc, wop>>
fnVars     == <<fpc, ferr>>
leaseVars  == <<apc, started, claimed, release>>
vars == <<pc, ctxDone, runDone, done, queueVars, activeVars, wake, workVars,
          fnVars, leaseVars>>

CallStates == {"out", "signal", "wait", "await", "skipped"}
WorkerStates == {"next", "scan", "parked", "start", "fn", "deliver"}
FnStates == {"none", "body", "start", "claim", "hold", "drain", "returned"}
OwnerStates == {"out", "wait", "owner"}

\* The queue s when its entry at i is cut out.
Without(s, i) == SubSeq(s, 1, i - 1) \o SubSeq(s, i + 1, Len(s))

Queued(op) == \E i \in DOMAIN queue : queue[i] = op
RunCtxDone(op) == op \in ctxDone \cup runDone

\* next() keeps c.mu from the first entry it drops to the end of its loop.
MuFree == wpc # "scan"
-----------------------------------------------------------------------------
Init ==
  /\ pc = [op \in Ops |-> "out"]
  /\ ctxDone = {} /\ runDone = {}
  /\ done = [op \in Ops |-> None]
  /\ queue = <<>> /\ dedupe = {} /\ wake = 0
  /\ active = None /\ view = "none" /\ watch = "off" /\ age = "fresh"
  /\ requested = "no"
  /\ wpc = "next" /\ wop = None
  /\ fpc = "none" /\ ferr = "ok"
  /\ apc = [op \in Ops |-> "out"]
  /\ started = {} /\ claimed = {} /\ release = [op \in Ops |-> None]

\* finishQueuedLocked
Forget(op) == dedupe \ {KeyOf[op]}

\* A call begins with new channels and contexts, inside Acquire or directly.
CallBegins(op) ==
  /\ pc[op] = "out" /\ apc[op] = "out" /\ MuFree
  /\ ctxDone' = ctxDone \ {op} /\ runDone' = runDone \ {op}
  /\ apc' = IF op \in Lease THEN [apc EXCEPT ![op] = "wait"] ELSE apc
  /\ started' = started \ {op} /\ claimed' = claimed \ {op}
  /\ release' = [release EXCEPT ![op] = None]

\* Run finds its key in c.dedupe and returns nil without queueing anything.
RunDeduped(op) ==
  /\ CallBegins(op)
  /\ KeyOf[op] \in dedupe
  /\ pc' = IF op \in Lease THEN [pc EXCEPT ![op] = "skipped"] ELSE pc
  /\ UNCHANGED <<done, queueVars, activeVars, wake, workVars, fnVars>>

\* Run appends its operation to the queue.
RunQueued(op) ==
  /\ CallBegins(op)
  /\ KeyOf[op] \notin dedupe
  /\ dedupe' = IF KeyOf[op] = NoKey THEN dedupe ELSE dedupe \cup {KeyOf[op]}
  /\ queue' = Append(queue, op)
  /\ pc' = [pc EXCEPT ![op] = "signal"]
  /\ UNCHANGED <<done, activeVars, wake, workVars, fnVars>>

\* Mutant of Signal: the send to c.wake is forgotten.
SignalForgotten(op) ==
  /\ pc[op] = "signal"
  /\ pc' = [pc EXCEPT ![op] = "wait"]
  /\ UNCHANGED <<ctxDone, runDone, done, queueVars, activeVars, wake,
                 workVars, fnVars, leaseVars>>

\* Run signals the worker: a send that is dropped when c.wake is full.
Signal(op) ==
  /\ pc[op] = "signal"
  /\ wake' = 1
  /\ pc' = [pc EXCEPT ![op] = "wait"]
  /\ UNCHANGED <<ctxDone, runDone, done, queueVars, activeVars,
                 workVars, fnVars, leaseVars>>

\* Run receives the answer of the worker, in its select or after it.
RunAnswered(op) ==
  /\ pc[op] \in {"wait", "await"}
  /\ done[op] # None
  /\ done' = [done EXCEPT ![op] = None]
  /\ pc' = [pc EXCEPT ![op] = "out"]
  /\ UNCHANGED <<ctxDone, runDone, queueVars, activeVars, wake, workVars,
                 fnVars, leaseVars>>

\* Run sees ctx.Done and takes its operation out of the queue (removeQueued).
RunWithdrawn(op) ==
  /\ pc[op] = "wait" /\ op \in ctxDone /\ MuFree
  /\ \E i \in DOMAIN queue :
       /\ queue[i] = op
       /\ queue' = Without(queue, i)
  /\ dedupe' = Forget(op)
  /\ pc' = [pc EXCEPT ![op] = "out"]
  /\ UNCHANGED <<ctxDone, runDone, done, activeVars, wake, workVars, fnVars,
                 leaseVars>>

\* Mutant of RunAwaits: Run returns ctx.Err() without waiting for op.done.
RunLeaves(op) ==
  /\ pc[op] = "wait" /\ op \in ctxDone /\ MuFree
  /\ ~Queued(op)
  /\ pc' = [pc EXCEPT ![op] = "out"]
  /\ UNCHANGED <<ctxDone, runDone, done, queueVars, activeVars, wake,
                 workVars, fnVars, leaseVars>>

\* Run sees ctx.Done too late: the worker has the operation, so Run waits.
RunAwaits(op) ==
  /\ pc[op] = "wait" /\ op \in ctxDone /\ MuFree
  /\ ~Queued(op)
  /\ pc' = [pc EXCEPT ![op] = "await"]
  /\ UNCHANGED <<ctxDone, runDone, done, queueVars, activeVars, wake,
                 workVars, fnVars, leaseVars>>

\* The client of an HTTP request goes away.
CtxCancelled(op) ==
  /\ op \in Request \ ctxDone
  /\ pc[op] # "out" \/ apc[op] # "out"
  /\ ctxDone' = ctxDone \cup {op}
  /\ UNCHANGED <<pc, runDone, done, queueVars, activeVars, wake,
                 workVars, fnVars, leaseVars>>
-----------------------------------------------------------------------------
\* Mutant of Chosen: the last manual entry is served first.
ChosenLast(i) ==
  /\ i \in DOMAIN queue
  /\ \/ /\ queue[i] \notin Background
        /\ \A j \in (i + 1)..Len(queue) : queue[j] \in Background
     \/ /\ i = 1
        /\ \A j \in DOMAIN queue : queue[j] \in Background

\* Mutant of Chosen: the queue is served in order, whatever the source.
ChosenFifo(i) == i \in DOMAIN queue /\ i = 1

\* The entry that next() looks at: the first manual one, or the head.
Chosen(i) ==
  /\ i \in DOMAIN queue
  /\ \/ /\ queue[i] \notin Background
        /\ \A j \in 1..(i - 1) : queue[j] \in Background
     \/ /\ i = 1
        /\ \A j \in DOMAIN queue : queue[j] \in Background

\* next() drops an entry whose context is cancelled, and keeps c.mu.
NextDrops ==
  /\ wpc \in {"next", "scan"}
  /\ \E i \in DOMAIN queue :
       /\ Chosen(i)
       /\ queue[i] \in ctxDone
       /\ done[queue[i]] = None
       /\ queue' = Without(queue, i)
       /\ dedupe' = Forget(queue[i])
       /\ done' = [done EXCEPT ![queue[i]] = "ctx"]
  /\ wpc' = "scan"
  /\ UNCHANGED <<pc, ctxDone, runDone, activeVars, wake, wop, fnVars,
                 leaseVars>>

\* Mutant of NextPicks: the operation stays in c.queue.
NextPeeks ==
  /\ wpc \in {"next", "scan"}
  /\ \E i \in DOMAIN queue :
       /\ Chosen(i)
       /\ queue[i] \notin ctxDone
       /\ wop' = queue[i]
  /\ wpc' = "start"
  /\ UNCHANGED <<pc, ctxDone, runDone, done, queueVars, activeVars, wake,
                 fnVars, leaseVars>>

\* next() returns an operation, which is now neither queued nor active.
NextPicks ==
  /\ wpc \in {"next", "scan"}
  /\ \E i \in DOMAIN queue :
       /\ Chosen(i)
       /\ queue[i] \notin ctxDone
       /\ queue' = Without(queue, i)
       /\ wop' = queue[i]
  /\ wpc' = "start"
  /\ UNCHANGED <<pc, ctxDone, runDone, done, dedupe, activeVars, wake,
                 fnVars, leaseVars>>

\* next() returns nil and the worker goes to wait for c.wake.
NextEmpty ==
  /\ wpc \in {"next", "scan"}
  /\ queue = <<>>
  /\ wpc' = "parked"
  /\ UNCHANGED <<pc, ctxDone, runDone, done, queueVars, activeVars, wake,
                 wop, fnVars, leaseVars>>

WorkerWakes ==
  /\ wpc = "parked" /\ wake = 1
  /\ wake' = 0
  /\ wpc' = "next"
  /\ UNCHANGED <<pc, ctxDone, runDone, done, queueVars, activeVars, wop,
                 fnVars, leaseVars>>

\* execute() makes the operation active, starts watchStall and calls op.fn.
ExecuteBegins ==
  /\ wpc = "start"
  /\ active' = wop /\ view' = "running" /\ watch' = "on" /\ age' = "fresh"
  /\ wpc' = "fn"
  /\ fpc' = IF wop \in Lease THEN "start" ELSE "body"
  /\ UNCHANGED <<pc, ctxDone, runDone, done, queueVars, requested, wake, wop,
                 ferr, leaseVars>>

\* Mutant of Verdict: a stall that op.fn saw as a cancel is reported as one.
VerdictBlindToStall ==
  IF ferr = "canceled" THEN "cancelled"
  ELSE IF view = "stalled" THEN "stalled" ELSE ferr

\* Mutant of Verdict: context.Canceled is passed on as it is.
VerdictRaw == IF view = "stalled" THEN "stalled" ELSE ferr

\* What execute() reports once op.fn has returned.
Verdict ==
  IF view = "stalled" THEN "stalled"
  ELSE IF ferr = "canceled" THEN "cancelled" ELSE ferr

\* execute() cancels runCtx, which only the owner of a lease can still see,
\* and clears the slot once op.fn has returned.
ExecuteEnds ==
  /\ wpc = "fn" /\ fpc = "returned"
  /\ runDone' = IF wop \in Lease THEN runDone \cup {wop} ELSE runDone \ {wop}
  /\ active' = None /\ view' = "none" /\ watch' = "off" /\ age' = "fresh"
  /\ dedupe' = Forget(wop)
  /\ wpc' = "deliver" /\ fpc' = "none" /\ ferr' = Verdict
  /\ UNCHANGED <<pc, ctxDone, done, queue, requested, wake, wop, leaseVars>>

\* execute() answers the caller and signals; the worker is back in its loop.
ExecuteDelivers ==
  /\ wpc = "deliver"
  /\ done[wop] = None
  /\ done' = [done EXCEPT ![wop] = ferr]
  /\ wake' = 1
  /\ wop' = None /\ requested' = "no" /\ wpc' = "next" /\ ferr' = "ok"
  /\ UNCHANGED <<pc, ctxDone, runDone, queueVars, active, view, watch, age, fpc,
                 leaseVars>>
-----------------------------------------------------------------------------
FnReturns(err) ==
  /\ fpc' = "returned" /\ ferr' = err
  /\ UNCHANGED <<pc, ctxDone, runDone, done, queueVars, activeVars, wake,
                 workVars>>

FnGoesTo(state) ==
  /\ fpc' = state
  /\ UNCHANGED <<pc, ctxDone, runDone, done, queueVars, activeVars, wake,
                 workVars, ferr>>

\* The body of an ordinary operation ends; it may notice that runCtx is done.
BodyReturns(err) ==
  /\ fpc = "body"
  /\ err = "canceled" => RunCtxDone(wop)
  /\ FnReturns(err)
  /\ UNCHANGED leaseVars

\* Acquire's op.fn offers runCtx to the caller: the first select.
LeaseOffered ==
  /\ fpc = "start"
  /\ started' = started \cup {wop}
  /\ FnGoesTo("claim")
  /\ UNCHANGED <<apc, claimed, release>>

\* Mutant of LeaseClaimed: op.fn returns once the lease is handed over.
LeaseHandedOver ==
  /\ fpc = "claim" /\ wop \in claimed
  /\ FnReturns("ok")
  /\ UNCHANGED leaseVars

\* Acquire's op.fn sees that the caller has taken the lease: second select.
LeaseClaimed ==
  /\ fpc = "claim" /\ wop \in claimed
  /\ FnGoesTo("hold")
  /\ UNCHANGED leaseVars

\* Acquire's op.fn gives the slot up when runCtx is done before that.
LeaseAbandoned ==
  /\ fpc \in {"start", "claim"} /\ RunCtxDone(wop)
  /\ FnReturns("canceled")
  /\ UNCHANGED leaseVars

\* Mutant of LeaseDrains: a cancelled lease does not wait for Finish.
LeaseDropped ==
  /\ fpc = "hold" /\ RunCtxDone(wop)
  /\ FnReturns("canceled")
  /\ UNCHANGED leaseVars

\* Acquire's op.fn sees runCtx done and waits for Finish: third select.
LeaseDrains ==
  /\ fpc = "hold" /\ RunCtxDone(wop)
  /\ FnGoesTo("drain")
  /\ UNCHANGED leaseVars

\* Acquire's op.fn receives what Finish sent and returns.
LeaseReleased ==
  /\ fpc \in {"hold", "drain"} /\ release[wop] # None
  /\ release' = [release EXCEPT ![wop] = None]
  /\ FnReturns(IF fpc = "drain" THEN "canceled" ELSE release[wop])
  /\ UNCHANGED <<apc, started, claimed>>

\* Acquire's caller receives runCtx: it claims the lease, or gives up if its
\* own context is done.
AcquireTakes(op) ==
  /\ apc[op] = "wait" /\ op \in started
  /\ started' = started \ {op}
  /\ IF op \in ctxDone
     THEN /\ apc' = [apc EXCEPT ![op] = "out"]
          /\ UNCHANGED claimed
     ELSE /\ apc' = [apc EXCEPT ![op] = "owner"]
          /\ claimed' = claimed \cup {op}
  /\ UNCHANGED <<pc, ctxDone, runDone, done, queueVars, activeVars, wake,
                 workVars, fnVars, release>>

\* Acquire's caller learns that Run has returned, and returns without a lease.
AcquireCompleted(op) ==
  /\ apc[op] = "wait" /\ pc[op] \in {"out", "skipped"}
  /\ apc' = [apc EXCEPT ![op] = "out"]
  /\ pc' = [pc EXCEPT ![op] = "out"]
  /\ UNCHANGED <<ctxDone, runDone, done, queueVars, activeVars, wake, workVars,
                 fnVars, started, claimed, release>>

\* Acquire's caller sees ctx.Done and returns without a lease.
AcquireGivesUp(op) ==
  /\ apc[op] = "wait" /\ op \in ctxDone
  /\ apc' = [apc EXCEPT ![op] = "out"]
  /\ UNCHANGED <<pc, ctxDone, runDone, done, queueVars, activeVars, wake,
                 workVars, fnVars, started, claimed, release>>

\* The owner calls Finish: sync.Once and the buffer make it one send.  It works
\* under the context of the lease, the only one whose cancel it can report.
Finish(op, err) ==
  /\ apc[op] = "owner"
  /\ err = "canceled" => RunCtxDone(op)
  /\ apc' = [apc EXCEPT ![op] = "out"]
  /\ release' = [release EXCEPT ![op] = err]
  /\ UNCHANGED <<pc, ctxDone, runDone, done, queueVars, activeVars, wake,
                 workVars, fnVars, started, claimed>>
-----------------------------------------------------------------------------
\* StallLimit passes since the last report of the active operation.
Silence ==
  /\ active # None /\ age = "fresh"
  /\ age' = "old"
  /\ UNCHANGED <<pc, ctxDone, runDone, done, queueVars, active, view, watch,
                 requested, wake, workVars, fnVars, leaseVars>>

\* The body reports its progress.
Report ==
  /\ fpc = "body" /\ active = wop
  /\ age' = "fresh"
  /\ UNCHANGED <<pc, ctxDone, runDone, done, queueVars, active, view, watch,
                 requested, wake, workVars, fnVars, leaseVars>>

\* The owner of a lease reports progress for the active operation of its kind.
Progress(op) ==
  /\ apc[op] = "owner" /\ MuFree
  /\ active # None /\ KindOf[active] = KindOf[op]
  /\ age' = "fresh"
  /\ UNCHANGED <<pc, ctxDone, runDone, done, queueVars, active, view, watch,
                 requested, wake, workVars, fnVars, leaseVars>>

\* watchStall finds the active operation silent, cancels it and returns.
WatchStall ==
  /\ active # None /\ watch = "on" /\ age = "old"
  /\ view' = "stalled" /\ watch' = "off" /\ age' = "fresh"
  /\ runDone' = runDone \cup {active}
  /\ UNCHANGED <<pc, ctxDone, done, queueVars, active, requested, wake, workVars,
                 fnVars, leaseVars>>

\* What CancelActive and CancelKind do to the active operation.
CancelsActive ==
  /\ active \in Cancellable
  /\ requested' = "yes" /\ view' = "cancelling" /\ age' = "fresh"
  /\ runDone' = runDone \cup {active}
  /\ UNCHANGED <<pc, ctxDone, done, queueVars, active, watch, wake,
                 workVars, fnVars, leaseVars>>

CancelActive == MuFree /\ CancelsActive

CancelKindActive(kind) ==
  /\ MuFree /\ active # None /\ KindOf[active] = kind
  /\ CancelsActive

\* Mutant of CancelKindQueued: finishQueuedLocked is not called.
CancelKindKeepsKey(kind) ==
  /\ MuFree
  /\ ~(active \in Cancellable /\ KindOf[active] = kind)
  /\ \E i \in DOMAIN queue :
       LET Matches(op) == op \in Cancellable /\ KindOf[op] = kind
       IN /\ Matches(queue[i])
          /\ \A j \in 1..(i - 1) : ~Matches(queue[j])
          /\ done[queue[i]] = None
          /\ queue' = Without(queue, i)
          /\ done' = [done EXCEPT ![queue[i]] = "cancelled"]
  /\ wake' = 1
  /\ UNCHANGED <<pc, ctxDone, runDone, dedupe, activeVars, workVars, fnVars,
                 leaseVars>>

\* CancelKind removes the first queued cancellable operation of the kind.
CancelKindQueued(kind) ==
  /\ MuFree
  /\ ~(active \in Cancellable /\ KindOf[active] = kind)
  /\ \E i \in DOMAIN queue :
       LET Matches(op) == op \in Cancellable /\ KindOf[op] = kind
       IN /\ Matches(queue[i])
          /\ \A j \in 1..(i - 1) : ~Matches(queue[j])
          /\ done[queue[i]] = None
          /\ queue' = Without(queue, i)
          /\ dedupe' = Forget(queue[i])
          /\ done' = [done EXCEPT ![queue[i]] = "cancelled"]
  /\ wake' = 1
  /\ UNCHANGED <<pc, ctxDone, runDone, activeVars, workVars, fnVars,
                 leaseVars>>
-----------------------------------------------------------------------------
Caller(op) ==
  \/ RunDeduped(op) \/ RunQueued(op) \/ Signal(op) \/ RunAnswered(op)
  \/ RunWithdrawn(op) \/ RunAwaits(op)

Owner(op) ==
  \/ AcquireTakes(op) \/ AcquireCompleted(op) \/ AcquireGivesUp(op)
  \/ \E err \in Errors : Finish(op, err)

Worker ==
  \/ NextDrops \/ NextPicks \/ NextEmpty \/ WorkerWakes
  \/ ExecuteBegins \/ ExecuteEnds \/ ExecuteDelivers

Fn ==
  \/ \E err \in Errors : BodyReturns(err)
  \/ LeaseOffered \/ LeaseClaimed \/ LeaseAbandoned \/ LeaseDrains
  \/ LeaseReleased

Watchdog == Silence \/ Report \/ WatchStall \/ \E op \in Lease : Progress(op)

Cancel ==
  \/ CancelActive
  \/ \E kind \in Kinds : CancelKindActive(kind) \/ CancelKindQueued(kind)
  \/ \E op \in Ops : CtxCancelled(op)

Next ==
  \/ \E op \in Ops : Caller(op)
  \/ \E op \in Lease : Owner(op)
  \/ Worker \/ Fn \/ Watchdog \/ Cancel

Spec == Init /\ [][Next]_vars

\* The goroutines keep running: a caller does not stop inside Run, the worker
\* never exits, every op.fn returns (its network calls carry timeouts and
\* honour runCtx) and an owner calls Finish (a deferred call).  Nobody has to
\* make a call, cancel one, or fall silent.
Fairness ==
  /\ WF_vars(Worker) /\ WF_vars(Fn)
  /\ \A op \in Ops :
       WF_vars(Signal(op) \/ RunAnswered(op) \/ RunWithdrawn(op) \/ RunAwaits(op))
  /\ \A op \in Lease : WF_vars(Owner(op))

FairSpec == Spec /\ Fairness
-----------------------------------------------------------------------------
\* Every variable has its type: an answer that Run delivers is one that
\* execute() or next() can give, and c.wake holds at most one token.
TypeOK ==
  /\ pc \in [Ops -> CallStates]
  /\ ctxDone \subseteq Ops /\ runDone \subseteq Ops
  /\ done \in [Ops -> Answers \cup {None}]
  /\ queue \in Seq(Ops) /\ dedupe \subseteq Keys /\ wake \in 0..1
  /\ active \in Ops \cup {None}
  /\ view \in {"none", "running", "cancelling", "stalled"}
  /\ watch \in {"off", "on"} /\ age \in {"fresh", "old"}
  /\ requested \in {"no", "yes"}
  /\ wpc \in WorkerStates /\ wop \in Ops \cup {None}
  /\ fpc \in FnStates /\ ferr \in Errors \cup Answers
  /\ apc \in [Ops -> OwnerStates]
  /\ started \subseteq Lease /\ claimed \subseteq Lease
  /\ release \in [Ops -> Errors \cup {None}]

\* The operation is waiting in the queue, or the worker has not finished it.
Pending(op) == Queued(op) \/ (wop = op /\ wpc # "deliver")

\* Every operation gets exactly one answer: while it is queued or in the
\* worker's hands its caller is still inside Run and the buffer of op.done is
\* empty, so the send of next() - made under c.mu - and that of execute()
\* cannot block the worker, and once Run has returned, whatever the reason,
\* its function is not running and never will.
OneAnswer ==
  \A op \in Ops :
    /\ Queued(op) \/ wop = op => done[op] = None
    /\ Queued(op) \/ wop = op \/ done[op] # None
         => pc[op] \in {"signal", "wait", "await"}

\* A key is reserved in c.dedupe exactly while one operation with that key is
\* queued or being executed: duplicates never pile up and no path forgets to
\* free the key, which would refuse that background work for ever.
DedupeExact ==
  /\ dedupe = {KeyOf[op] : op \in {o \in Ops : Pending(o)}} \ {NoKey}
  /\ \A o1, o2 \in Ops :
       Pending(o1) /\ Pending(o2) /\ KeyOf[o1] = KeyOf[o2] /\ KeyOf[o1] # NoKey
         => o1 = o2

\* A worker that waits for c.wake while operations are queued has a token in
\* the channel or a caller about to put one there.
NoLostWakeup ==
  wpc = "parked" /\ queue # <<>> =>
    wake = 1 \/ \E op \in Ops : pc[op] = "signal"

\* A lease whose context is still live owns the slot: its operation is the
\* active one and waits for the owner.
LiveLeaseOwnsSlot ==
  \A op \in Lease :
    apc[op] = "owner" /\ ~RunCtxDone(op) => active = op /\ fpc \in {"claim", "hold"}

\* Once op.fn of a lease has seen the claim, cancellation alone does not free
\* the slot: it stays occupied until the owner has called Finish.
SlotUntilFinish ==
  [][(fpc \in {"hold", "drain"} /\ fpc' \notin {"hold", "drain"})
       => release[wop] # None]_vars

\* An operation is reported as cancelled only if its request went away, if
\* CancelActive or CancelKind has reached it while it ran (CancelRequested), or
\* if CancelKind takes it out of the queue: never because the watchdog fired,
\* although the watchdog cancels runCtx as they do and op.fn returns the same
\* error, nor because of a cancel that was meant for another operation.
CancelHasCause ==
  [][\A op \in Ops : done[op] = None /\ done'[op] = "cancelled" =>
       \/ op \in ctxDone
       \/ wop = op /\ requested = "yes"
       \/ op \in Cancellable /\ Queued(op) /\ ~Queued(op)']_vars

\* What the worker has in its hands: an operation from next() to the end of
\* execute(), the active one and the running op.fn only inside execute().
WorkerShape ==
  /\ wop # None <=> wpc \in {"start", "fn", "deliver"}
  /\ active = IF wpc = "fn" THEN wop ELSE None
  /\ fpc # "none" <=> wpc = "fn"
  /\ fpc \in {"start", "claim", "hold", "drain"} => wop \in Lease
  /\ wpc = "deliver" => ferr \in Answers

\* An operation is in the queue once, and not while the worker has it.
QueueOnce ==
  /\ \A i, j \in DOMAIN queue : queue[i] = queue[j] => i = j
  /\ ~Queued(wop)

\* The handshake of Acquire: nothing is sent before op.fn runs, an offer with
\* a live context finds op.fn waiting for the claim, and is claimed once.
LeaseShape ==
  \A op \in Lease :
    /\ Queued(op) \/ (wop = op /\ fpc \in {"none", "start"} /\ wpc # "deliver")
         => op \notin started \cup claimed
    /\ op \in started => op \notin claimed
    /\ op \in started /\ ~RunCtxDone(op) => active = op /\ fpc = "claim"
    /\ apc[op] # "out" => release[op] = None

\* The inductive invariant behind the theorems of OperationsProofs.
IInv ==
  /\ TypeOK /\ WorkerShape /\ QueueOnce /\ OneAnswer /\ DedupeExact
  /\ NoLostWakeup /\ LeaseShape /\ LiveLeaseOwnsSlot

\* How the coordinator's state is seen by its callers: an operation has the
\* slot from the moment next() returns it to the end of execute().
Holder == IF wpc \in {"start", "fn"} THEN wop ELSE None

Phase ==
  [op \in Ops |->
    IF pc[op] = "out" THEN "idle"
    ELSE IF Queued(op) THEN "waiting"
    ELSE IF Holder = op THEN "holding" ELSE "over"]

Slot == INSTANCE HeavySlot WITH phase <- Phase, holder <- Holder

\* The coordinator implements the slot: one holder at a time, manual calls
\* first, one turn per call and none after the call is over.
ImplementsSlot == Slot!SlotSpec

\* Every manual call of Run returns, that of an abandoned Acquire included,
\* however often others call after it: next() serves the manual ones in order.
UserCallReturns ==
  \A op \in Ops \ Background : pc[op] # "out" ~> pc[op] = "out"

\* A background call, which next() defers for as long as there are manual
\* ones, returns once those stop coming.
BackgroundCallReturns ==
  <>[](\A op \in Ops \ Background : pc[op] = "out")
    => \A op \in Background : pc[op] # "out" ~> pc[op] = "out"

\* What the comment on Acquire promises: the returned lease owns the slot
\* until Finish is called.
LeaseOwnsSlot ==
  \A op \in Lease : apc[op] = "owner" => active = op
=============================================================================
