-------------------------- MODULE OperationsLemmas --------------------------
(***************************************************************************)
(* Lemmas about the coordinator of heavy operations: what its queue        *)
(* operations do, and that every step keeps each part of IInv but the one  *)
(* about leases.                                                           *)
(***************************************************************************)
EXTENDS Operations, SequenceTheorems, TLAPS

\* Taking the element at i out of a sequence.
LEMMA Removal ==
  ASSUME NEW S, NEW s \in Seq(S), NEW i \in DOMAIN s
  PROVE  /\ Without(s, i) \in Seq(S)
         /\ DOMAIN Without(s, i) = 1..(Len(s) - 1)
         /\ \A j \in 1..(Len(s) - 1) :
              Without(s, i)[j] = IF j < i THEN s[j] ELSE s[j + 1]
<1> DEFINE n == Len(s)
           a == SubSeq(s, 1, i - 1)
           b == SubSeq(s, i + 1, n)
<1>1. n \in Nat /\ i \in 1..n /\ DOMAIN s = 1..n
  OBVIOUS
<1>s. \A k \in 1..n : s[k] \in S
  OBVIOUS
<1>2. a \in Seq(S) /\ Len(a) = i - 1 /\ \A k \in 1..(i - 1) : a[k] = s[k]
  <2>1. 1 \in Int /\ i - 1 \in Int /\ \A k \in 1..(i - 1) : s[k] \in S
    BY <1>1, <1>s
  <2> HIDE DEF n
  <2> QED BY <1>1, <2>1, SubSeqProperties
<1>3. b \in Seq(S) /\ Len(b) = n - i /\ \A k \in 1..(n - i) : b[k] = s[i + k]
  <2>1. i + 1 \in Int /\ n \in Int /\ \A k \in (i + 1)..n : s[k] \in S
    BY <1>1, <1>s
  <2> HIDE DEF n
  <2>2. /\ b \in Seq(S) /\ Len(b) = IF i + 1 <= n THEN n - (i + 1) + 1 ELSE 0
        /\ \A k \in 1..(n - (i + 1) + 1) : b[k] = s[(i + 1) + k - 1]
    BY <2>1, SubSeqProperties
  <2> HIDE DEF b
  <2>3. Len(b) = n - i /\ n - (i + 1) + 1 = n - i
    BY <1>1, <2>2
  <2>4. \A k \in 1..(n - i) : (i + 1) + k - 1 = i + k
    BY <1>1
  <2> QED BY <2>2, <2>3, <2>4
<1> HIDE DEF n, a, b
<1>4. /\ a \o b \in Seq(S)
      /\ Len(a \o b) = Len(a) + Len(b)
      /\ \A j \in 1..(Len(a) + Len(b)) :
           (a \o b)[j] = IF j <= Len(a) THEN a[j] ELSE b[j - Len(a)]
  BY <1>2, <1>3, ConcatProperties
<1>5. DOMAIN (a \o b) = 1..(n - 1)
  <2>1. Len(a) + Len(b) = n - 1
    BY <1>1, <1>2, <1>3
  <2> QED BY <2>1, <1>4
<1>6. ASSUME NEW j \in 1..(n - 1)
      PROVE  (a \o b)[j] = IF j < i THEN s[j] ELSE s[j + 1]
  <2>1. CASE j < i
    <3>1. j \in 1..(Len(a) + Len(b)) /\ j <= Len(a) /\ j \in 1..(i - 1)
      BY <2>1, <1>1, <1>2, <1>3
    <3> QED BY <2>1, <3>1, <1>2, <1>4
  <2>2. CASE ~(j < i)
    <3>1. j - (i - 1) \in 1..(n - i) /\ i + (j - (i - 1)) = j + 1
      BY <2>2, <1>1
    <3>2. (a \o b)[j] = b[j - (i - 1)]
      <4>1. Len(a) = i - 1 /\ Len(a) + Len(b) = n - 1
        BY <1>1, <1>2, <1>3
      <4>2. ~(j <= i - 1)
        BY <2>2, <1>1
      <4> QED BY <4>1, <4>2, <1>4
    <3>3. b[j - (i - 1)] = s[i + (j - (i - 1))]
      BY <3>1, <1>3
    <3>4. (a \o b)[j] = s[j + 1]
      BY <3>1, <3>2, <3>3
    <3> QED BY <2>2, <3>4
  <2> QED BY <2>1, <2>2
<1>7. Without(s, i) = a \o b
  BY DEF Without, a, b, n
<1> QED
  BY <1>4, <1>5, <1>6, <1>7 DEF n

\* The entries of the queue are operations.
LEMMA QueueEntry ==
  ASSUME TypeOK, NEW i \in DOMAIN queue
  PROVE  queue[i] \in Ops /\ Queued(queue[i])
<1>1. queue \in Seq(Ops)
  BY DEF TypeOK
<1>2. queue[i] \in Ops
  BY <1>1
<1> QED BY <1>2 DEF Queued

\* The queue after one of its entries is taken out.
LEMMA QueueRemoval ==
  ASSUME TypeOK, QueueOnce, NEW i \in DOMAIN queue, queue' = Without(queue, i)
  PROVE  /\ queue' \in Seq(Ops)
         /\ \A k, l \in DOMAIN queue' : queue'[k] = queue'[l] => k = l
         /\ \A op : Queued(op)' <=> Queued(op) /\ op # queue[i]
<1> DEFINE n == Len(queue)
<1>1. queue \in Seq(Ops) /\ n \in Nat /\ DOMAIN queue = 1..n /\ i \in 1..n
  BY DEF TypeOK
<1>2. /\ queue' \in Seq(Ops)
      /\ DOMAIN queue' = 1..(n - 1)
      /\ \A j \in 1..(n - 1) :
           queue'[j] = IF j < i THEN queue[j] ELSE queue[j + 1]
  BY <1>1, Removal
<1>3. \A k, l \in 1..n : queue[k] = queue[l] => k = l
  BY <1>1 DEF QueueOnce
<1>4. ASSUME NEW k \in DOMAIN queue', NEW l \in DOMAIN queue', queue'[k] = queue'[l]
      PROVE  k = l
  <2> DEFINE from(j) == IF j < i THEN j ELSE j + 1
  <2>1. /\ k \in 1..(n - 1) /\ from(k) \in 1..n
        /\ l \in 1..(n - 1) /\ from(l) \in 1..n
    BY <1>1, <1>2
  <2>2. queue'[k] = queue[from(k)] /\ queue'[l] = queue[from(l)]
    BY <2>1, <1>2
  <2>3. from(k) = from(l)
    <3> HIDE DEF from
    <3> QED BY <2>1, <2>2, <1>3, <1>4
  <2> QED BY <2>1, <2>3, <1>1
<1>5. ASSUME NEW op, Queued(op)' PROVE Queued(op) /\ op # queue[i]
  <2>1. PICK j \in 1..(n - 1) : queue'[j] = op
    BY <1>2, <1>5 DEF Queued
  <2>2. CASE j < i
    BY <2>1, <2>2, <1>1, <1>2, <1>3 DEF Queued
  <2>3. CASE ~(j < i)
    <3>1. j + 1 \in 1..n /\ op = queue[j + 1] /\ j + 1 # i
      BY <2>1, <2>3, <1>1, <1>2
    <3> QED BY <3>1, <1>1, <1>3 DEF Queued
  <2> QED BY <2>2, <2>3
<1>6. ASSUME NEW op, Queued(op), op # queue[i] PROVE Queued(op)'
  <2>1. PICK j \in 1..n : queue[j] = op /\ j # i
    BY <1>1, <1>6 DEF Queued
  <2>2. CASE j < i
    <3>1. j \in 1..(n - 1) /\ queue'[j] = op
      BY <2>1, <2>2, <1>1, <1>2
    <3> QED BY <3>1, <1>2 DEF Queued
  <2>3. CASE ~(j < i)
    <3>1. j - 1 \in 1..(n - 1) /\ queue'[j - 1] = queue[j - 1 + 1]
      BY <2>1, <2>3, <1>1, <1>2
    <3>2. queue'[j - 1] = op
      BY <2>1, <3>1
    <3> QED BY <3>1, <3>2, <1>2 DEF Queued
  <2> QED BY <2>2, <2>3
<1> QED
  BY <1>2, <1>4, <1>5, <1>6

\* The queue after an operation that was not in it is appended.
LEMMA QueueAppended ==
  ASSUME TypeOK, QueueOnce, NEW op \in Ops, ~Queued(op), queue' = Append(queue, op)
  PROVE  /\ queue' \in Seq(Ops)
         /\ \A k, l \in DOMAIN queue' : queue'[k] = queue'[l] => k = l
         /\ \A o : Queued(o)' <=> Queued(o) \/ o = op
<1> DEFINE n == Len(queue)
<1>1. queue \in Seq(Ops) /\ n \in Nat /\ DOMAIN queue = 1..n
  BY DEF TypeOK
<1>2. /\ queue' \in Seq(Ops) /\ DOMAIN queue' = 1..(n + 1)
      /\ \A k \in 1..n : queue'[k] = queue[k]
      /\ queue'[n + 1] = op
  BY <1>1
<1>3. \A k \in 1..n : queue[k] # op
  BY <1>1 DEF Queued
<1>4. \A k, l \in 1..n : queue[k] = queue[l] => k = l
  BY <1>1 DEF QueueOnce
<1>5. \A k, l \in DOMAIN queue' : queue'[k] = queue'[l] => k = l
  BY <1>1, <1>2, <1>3, <1>4
<1>6. \A o : Queued(o)' <=> Queued(o) \/ o = op
  <2>1. n + 1 \in DOMAIN queue' /\ 1..n \subseteq DOMAIN queue'
    BY <1>1, <1>2
  <2>2. \A k \in DOMAIN queue' : k \in 1..n \/ k = n + 1
    BY <1>1, <1>2
  <2> QED BY <1>1, <1>2, <2>1, <2>2 DEF Queued
<1> QED
  BY <1>2, <1>5, <1>6
-----------------------------------------------------------------------------
(* Each part of IInv is preserved by every step.  A step of the proof is a  *)
(* group of actions, split further where the group disturbs the part.       *)

\* Every step keeps the types.
LEMMA TypePreserved ==
  ASSUME IInv, [Next]_vars
  PROVE  TypeOK'
<1> USE OpsAssumption DEF OpsAssumption, queueVars, activeVars, workVars,
      fnVars, leaseVars, CallStates, WorkerStates, FnStates, OwnerStates, Errors, Answers
<1>1. ASSUME NEW op \in Ops, Caller(op) PROVE TypeOK'
  <2>1. CASE RunDeduped(op)
    BY <2>1 DEF IInv, TypeOK, RunDeduped, CallBegins
  <2>2. CASE RunQueued(op)
    BY <2>2 DEF IInv, TypeOK, RunQueued, CallBegins
  <2>3. CASE Signal(op) \/ RunAnswered(op) \/ RunAwaits(op)
    BY <2>3 DEF IInv, TypeOK, Signal, RunAnswered, RunAwaits
  <2>4. CASE RunWithdrawn(op)
    <3>1. queue' \in Seq(Ops)
      BY <2>4, QueueRemoval DEF IInv, RunWithdrawn
    <3> QED BY <2>4, <3>1 DEF IInv, TypeOK, RunWithdrawn, Forget
  <2> QED BY <1>1, <2>1, <2>2, <2>3, <2>4 DEF Caller
<1>2. ASSUME NEW op \in Lease, Owner(op) PROVE TypeOK'
  <2>1. CASE AcquireTakes(op)
    BY <2>1 DEF IInv, TypeOK, AcquireTakes
  <2>2. CASE AcquireCompleted(op) \/ AcquireGivesUp(op)
    BY <2>2 DEF IInv, TypeOK, AcquireCompleted, AcquireGivesUp
  <2>3. ASSUME NEW err \in Errors, Finish(op, err) PROVE TypeOK'
    BY <2>3 DEF IInv, TypeOK, Finish
  <2> QED
    BY <1>2, <2>1, <2>2, <2>3 DEF Owner
<1>3. CASE Worker
  <2>1. CASE NextDrops
    <3>1. queue' \in Seq(Ops)
      BY <2>1, QueueRemoval DEF IInv, NextDrops
    <3> QED BY <2>1, <3>1 DEF IInv, TypeOK, NextDrops, Forget
  <2>2. CASE NextPicks
    <3>1. queue' \in Seq(Ops)
      BY <2>2, QueueRemoval DEF IInv, NextPicks
    <3> QED BY <2>2, <3>1 DEF IInv, TypeOK, NextPicks
  <2>3. CASE NextEmpty \/ WorkerWakes \/ ExecuteBegins
    BY <2>3 DEF IInv, TypeOK, NextEmpty, WorkerWakes, ExecuteBegins
  <2>4. CASE ExecuteEnds
    BY <2>4 DEF IInv, TypeOK, WorkerShape, ExecuteEnds, Verdict, Forget
  <2>5. CASE ExecuteDelivers
    BY <2>5 DEF IInv, TypeOK, WorkerShape, ExecuteDelivers
  <2> QED BY <1>3, <2>1, <2>2, <2>3, <2>4, <2>5 DEF Worker
<1>4. CASE Fn
  <2>1. CASE \E err \in Errors : BodyReturns(err)
    BY <2>1 DEF IInv, TypeOK, BodyReturns, FnReturns
  <2>2. CASE LeaseOffered \/ LeaseClaimed \/ LeaseDrains
    BY <2>2 DEF IInv, TypeOK, WorkerShape, LeaseOffered, LeaseClaimed,
      LeaseDrains, FnGoesTo
  <2>3. CASE LeaseAbandoned \/ LeaseReleased
    BY <2>3 DEF IInv, TypeOK, WorkerShape, LeaseAbandoned, LeaseReleased, FnReturns
  <2> QED BY <1>4, <2>1, <2>2, <2>3 DEF Fn
<1>5. CASE Watchdog
  BY <1>5 DEF IInv, TypeOK, Watchdog, Silence, Report, WatchStall, Progress
<1>6. CASE Cancel
  <2>1. CASE CancelsActive
    BY <2>1 DEF IInv, TypeOK, CancelsActive
  <2>2. ASSUME NEW kind \in Kinds, CancelKindQueued(kind) PROVE TypeOK'
    <3>1. queue' \in Seq(Ops)
      BY <2>2, QueueRemoval DEF IInv, CancelKindQueued
    <3> QED BY <2>2, <3>1 DEF IInv, TypeOK, CancelKindQueued, Forget
  <2>3. CASE \E op \in Ops : CtxCancelled(op)
    BY <2>3 DEF IInv, TypeOK, CtxCancelled
  <2> QED
    BY <1>6, <2>1, <2>2, <2>3 DEF Cancel, CancelActive, CancelKindActive
<1>7. CASE UNCHANGED vars
  BY <1>7 DEF IInv, TypeOK, vars
<1> QED
  BY <1>1, <1>2, <1>3, <1>4, <1>5, <1>6, <1>7 DEF Next

\* Every step keeps what the worker has in its hands in step with c.active.
LEMMA WorkerPreserved ==
  ASSUME IInv, [Next]_vars
  PROVE  WorkerShape'
<1> USE OpsAssumption DEF OpsAssumption, queueVars, activeVars, workVars,
      fnVars, leaseVars, WorkerStates, FnStates, Errors, Answers
<1>1. ASSUME NEW op \in Ops, Caller(op) PROVE WorkerShape'
  BY <1>1 DEF IInv, WorkerShape, Caller, RunDeduped, RunQueued, CallBegins,
    Signal, RunAnswered, RunWithdrawn, RunAwaits
<1>2. ASSUME NEW op \in Lease, Owner(op) PROVE WorkerShape'
  BY <1>2 DEF IInv, WorkerShape, Owner, AcquireTakes, AcquireCompleted,
    AcquireGivesUp, Finish
<1>3. CASE Worker
  <2>1. CASE NextDrops \/ NextEmpty \/ WorkerWakes
    BY <2>1 DEF IInv, TypeOK, WorkerShape, NextDrops, NextEmpty, WorkerWakes
  <2>2. CASE NextPicks
    <3>1. wop' \in Ops
      BY <2>2 DEF IInv, TypeOK, NextPicks
    <3> QED BY <2>2, <3>1 DEF IInv, TypeOK, WorkerShape, NextPicks
  <2>3. CASE ExecuteBegins
    BY <2>3 DEF IInv, TypeOK, WorkerShape, ExecuteBegins
  <2>4. CASE ExecuteEnds
    BY <2>4 DEF IInv, TypeOK, WorkerShape, ExecuteEnds, Verdict
  <2>5. CASE ExecuteDelivers
    BY <2>5 DEF IInv, TypeOK, WorkerShape, ExecuteDelivers
  <2> QED BY <1>3, <2>1, <2>2, <2>3, <2>4, <2>5 DEF Worker
<1>4. CASE Fn
  <2>1. CASE \E err \in Errors : BodyReturns(err)
    BY <2>1 DEF IInv, TypeOK, WorkerShape, BodyReturns, FnReturns
  <2>2. CASE LeaseOffered \/ LeaseClaimed \/ LeaseDrains
    BY <2>2 DEF IInv, TypeOK, WorkerShape, LeaseOffered, LeaseClaimed,
      LeaseDrains, FnGoesTo
  <2>3. CASE LeaseAbandoned \/ LeaseReleased
    BY <2>3 DEF IInv, TypeOK, WorkerShape, LeaseAbandoned, LeaseReleased, FnReturns
  <2> QED BY <1>4, <2>1, <2>2, <2>3 DEF Fn
<1>5. CASE Watchdog
  BY <1>5 DEF IInv, WorkerShape, Watchdog, Silence, Report, WatchStall, Progress
<1>6. CASE Cancel
  BY <1>6 DEF IInv, WorkerShape, Cancel, CancelActive, CancelKindActive,
    CancelsActive, CancelKindQueued, CtxCancelled
<1>7. CASE UNCHANGED vars
  BY <1>7 DEF IInv, WorkerShape, vars
<1> QED
  BY <1>1, <1>2, <1>3, <1>4, <1>5, <1>6, <1>7 DEF Next

\* The steps that move an operation into the queue or out of it.
Moves ==
  \/ \E op \in Ops : RunQueued(op) \/ RunWithdrawn(op)
  \/ NextDrops \/ NextPicks
  \/ \E kind \in Kinds : CancelKindQueued(kind)

\* The other steps leave the queue, the keys and the operation of the worker
\* alone, or end the call that they answer.
LEMMA OtherSteps ==
  ASSUME [Next]_vars, ~Moves
  PROVE  \/ UNCHANGED <<queueVars, wpc, wop, pc, done>>
         \/ \E op \in Ops : Signal(op) \/ RunAnswered(op) \/ RunAwaits(op)
         \/ \E op \in Ops : RunDeduped(op) \/ (op \in Lease /\ AcquireCompleted(op))
         \/ NextEmpty \/ WorkerWakes \/ ExecuteBegins \/ ExecuteEnds \/ ExecuteDelivers
<1> USE DEF queueVars, activeVars, workVars, fnVars, leaseVars
<1>1. ASSUME NEW op \in Lease, Owner(op), ~AcquireCompleted(op)
      PROVE  UNCHANGED <<queueVars, wpc, wop, pc, done>>
  BY <1>1 DEF Owner, AcquireTakes, AcquireGivesUp, Finish
<1>2. CASE Fn
  BY <1>2 DEF Fn, BodyReturns, LeaseOffered, LeaseClaimed, LeaseAbandoned,
    LeaseDrains, LeaseReleased, FnReturns, FnGoesTo
<1>3. CASE Watchdog
  BY <1>3 DEF Watchdog, Silence, Report, WatchStall, Progress
<1>4. CASE CancelsActive \/ \E op \in Ops : CtxCancelled(op)
  BY <1>4 DEF CancelsActive, CtxCancelled
<1>5. CASE UNCHANGED vars
  BY <1>5 DEF vars
<1> QED
  BY <1>1, <1>2, <1>3, <1>4, <1>5, OpsAssumption
  DEF OpsAssumption, Next, Caller, Worker, Cancel, CancelActive, CancelKindActive, Moves

\* Every step keeps the single answer of an operation.
LEMMA AnswerPreserved ==
  ASSUME IInv, [Next]_vars
  PROVE  QueueOnce' /\ OneAnswer'
<1> USE DEF queueVars, activeVars, workVars, fnVars, leaseVars
<1>0. TypeOK /\ WorkerShape /\ QueueOnce /\ OneAnswer
  BY DEF IInv
<1>1. ASSUME NEW op \in Ops, RunQueued(op) PROVE QueueOnce' /\ OneAnswer'
  <2>1. ~Queued(op) /\ wop # op /\ wop \in Ops \cup {None}
    BY <1>0, <1>1 DEF TypeOK, OneAnswer, RunQueued, CallBegins
  <2>2. /\ \A k, l \in DOMAIN queue' : queue'[k] = queue'[l] => k = l
        /\ \A o : Queued(o)' <=> Queued(o) \/ o = op
    BY <1>0, <1>1, <2>1, QueueAppended DEF RunQueued
  <2>3. wop' = wop /\ pc' = [pc EXCEPT ![op] = "signal"] /\ done' = done
    BY <1>1 DEF RunQueued, CallBegins
  <2>4. QueueOnce'
    BY <1>0, <2>1, <2>2, <2>3 DEF QueueOnce
  <2>5. done[op] = None
    BY <1>0, <1>1 DEF OneAnswer, RunQueued, CallBegins
  <2>6. OneAnswer'
    BY <1>0, <2>1, <2>2, <2>3, <2>5 DEF TypeOK, OneAnswer
  <2> QED BY <2>4, <2>6
<1>2. ASSUME NEW op \in Ops, RunWithdrawn(op) PROVE QueueOnce' /\ OneAnswer'
  <2>1. PICK i \in DOMAIN queue : queue[i] = op /\ queue' = Without(queue, i)
    BY <1>2 DEF RunWithdrawn
  <2>2. /\ \A k, l \in DOMAIN queue' : queue'[k] = queue'[l] => k = l
        /\ \A o : Queued(o)' <=> Queued(o) /\ o # op
    BY <1>0, <2>1, QueueRemoval
  <2>3. Queued(op) /\ wop # op
    BY <1>0, <2>1 DEF QueueOnce, Queued
  <2>4. wop' = wop /\ done' = done /\ pc' = [pc EXCEPT ![op] = "out"]
    BY <1>2 DEF RunWithdrawn
  <2>5. QueueOnce'
    BY <1>0, <2>2, <2>4 DEF QueueOnce
  <2>6. OneAnswer'
    BY <1>0, <2>2, <2>3, <2>4 DEF TypeOK, OneAnswer
  <2> QED BY <2>5, <2>6
<1>3. ASSUME NEW i \in DOMAIN queue, queue' = Without(queue, i), wop' = wop,
             pc' = pc, \E a : done' = [done EXCEPT ![queue[i]] = a]
      PROVE  QueueOnce' /\ OneAnswer'
  <2>1. /\ \A k, l \in DOMAIN queue' : queue'[k] = queue'[l] => k = l
        /\ \A o : Queued(o)' <=> Queued(o) /\ o # queue[i]
    BY <1>0, <1>3, QueueRemoval
  <2>2. Queued(queue[i]) /\ wop # queue[i] /\ queue[i] \in Ops
    BY <1>0 DEF TypeOK, QueueOnce, Queued
  <2>3. QueueOnce'
    BY <1>0, <1>3, <2>1 DEF QueueOnce
  <2>4. PICK a : done' = [done EXCEPT ![queue[i]] = a]
    BY <1>3
  <2>5. OneAnswer'
    BY <1>0, <1>3, <2>1, <2>2, <2>4 DEF TypeOK, OneAnswer
  <2> QED BY <2>3, <2>5
<1>4. CASE NextDrops
  BY <1>3, <1>4 DEF NextDrops
<1>5. ASSUME NEW kind \in Kinds, CancelKindQueued(kind) PROVE QueueOnce' /\ OneAnswer'
  BY <1>3, <1>5 DEF CancelKindQueued
<1>6. CASE NextPicks
  <2>1. PICK i \in DOMAIN queue : queue' = Without(queue, i) /\ wop' = queue[i]
    BY <1>6 DEF NextPicks
  <2>2. /\ \A k, l \in DOMAIN queue' : queue'[k] = queue'[l] => k = l
        /\ \A o : Queued(o)' <=> Queued(o) /\ o # queue[i]
    BY <1>0, <2>1, QueueRemoval
  <2>3. Queued(queue[i])
    BY DEF Queued
  <2> QED BY <1>0, <1>6, <2>1, <2>2, <2>3 DEF QueueOnce, OneAnswer, NextPicks
<1>7. CASE ~Moves
  <2>1. CASE UNCHANGED <<queueVars, wpc, wop, pc, done>>
    BY <1>0, <2>1 DEF QueueOnce, OneAnswer, Queued
  <2>2. ASSUME NEW op \in Ops, Signal(op) \/ RunAnswered(op) \/ RunAwaits(op)
        PROVE  QueueOnce' /\ OneAnswer'
    BY <1>0, <2>2 DEF TypeOK, QueueOnce, OneAnswer, Queued, Signal, RunAnswered, RunAwaits
  <2>3. ASSUME NEW op \in Ops, RunDeduped(op) \/ AcquireCompleted(op)
        PROVE  QueueOnce' /\ OneAnswer'
    <3>1. /\ pc[op] \in {"out", "skipped"}
          /\ queue' = queue /\ wop' = wop /\ done' = done
          /\ \A o \in Ops \ {op} : pc'[o] = pc[o]
      BY <1>0, <2>3 DEF TypeOK, RunDeduped, CallBegins, AcquireCompleted
    <3>2. \A o : Queued(o)' <=> Queued(o)
      BY <3>1 DEF Queued
    <3>3. ~Queued(op) /\ wop # op /\ done[op] = None
      BY <1>0, <3>1 DEF OneAnswer
    <3>4. QueueOnce'
      BY <1>0, <3>1, <3>2 DEF QueueOnce
    <3>5. OneAnswer'
      BY <1>0, <3>1, <3>2, <3>3 DEF OneAnswer
    <3> QED BY <3>4, <3>5
  <2>4. CASE NextEmpty \/ WorkerWakes \/ ExecuteBegins \/ ExecuteEnds
    BY <1>0, <2>4 DEF QueueOnce, OneAnswer, Queued, NextEmpty, WorkerWakes,
      ExecuteBegins, ExecuteEnds
  <2>5. CASE ExecuteDelivers
    <3>1. ~Queued(None)
      BY <1>0, QueueEntry, OpsAssumption DEF OpsAssumption, Queued
    <3>2. /\ wop' = None /\ queue' = queue /\ pc' = pc
          /\ done' = [done EXCEPT ![wop] = ferr]
      BY <2>5 DEF ExecuteDelivers
    <3>3. wop \in Ops /\ ~Queued(wop)
      BY <1>0, <2>5 DEF TypeOK, WorkerShape, QueueOnce, ExecuteDelivers
    <3>4. \A o : Queued(o)' <=> Queued(o)
      BY <3>2 DEF Queued
    <3>5. QueueOnce'
      BY <1>0, <3>1, <3>2, <3>4 DEF QueueOnce
    <3>6. OneAnswer'
      BY <1>0, <3>2, <3>3, <3>4, OpsAssumption DEF OpsAssumption, TypeOK, OneAnswer
    <3> QED BY <3>5, <3>6
  <2> QED BY <1>7, <2>1, <2>2, <2>3, <2>4, <2>5, OtherSteps
<1> QED
  BY <1>1, <1>2, <1>4, <1>5, <1>6, <1>7 DEF Moves
-----------------------------------------------------------------------------
\* The keys stay exact while the pending operations stay the same.
LEMMA KeysKept ==
  ASSUME DedupeExact, dedupe' = dedupe, \A op \in Ops : Pending(op)' <=> Pending(op)
  PROVE  DedupeExact'
BY DEF DedupeExact

\* The keys stay exact when an operation that ends gives its key back.
LEMMA KeyForgotten ==
  ASSUME DedupeExact, NEW x \in Ops, Pending(x), dedupe' = Forget(x),
         \A op \in Ops : Pending(op)' <=> Pending(op) /\ op # x
  PROVE  DedupeExact'
BY DEF DedupeExact, Forget

\* Every step keeps c.dedupe exact.
LEMMA KeysPreserved ==
  ASSUME IInv, [Next]_vars
  PROVE  DedupeExact'
<1> USE DEF queueVars, activeVars, workVars, fnVars, leaseVars
<1>0. TypeOK /\ WorkerShape /\ QueueOnce /\ OneAnswer /\ DedupeExact
  BY DEF IInv
<1>1. ASSUME NEW op \in Ops, RunQueued(op) PROVE DedupeExact'
  <2>1. ~Queued(op) /\ wop # op
    BY <1>0, <1>1 DEF OneAnswer, RunQueued, CallBegins
  <2>2. \A o : Queued(o)' <=> Queued(o) \/ o = op
    BY <1>0, <1>1, <2>1, QueueAppended DEF RunQueued
  <2>3. wop' = wop /\ wpc' = wpc
    BY <1>1 DEF RunQueued
  <2>4. \A o : Pending(o)' <=> Pending(o) \/ o = op
    BY <2>2, <2>3 DEF Pending
  <2>5. /\ KeyOf[op] \notin dedupe
        /\ dedupe' = IF KeyOf[op] = NoKey THEN dedupe ELSE dedupe \cup {KeyOf[op]}
    BY <1>1 DEF RunQueued
  <2>6. dedupe' = {KeyOf[o] : o \in {q \in Ops : Pending(q)'}} \ {NoKey}
    BY <1>0, <2>4, <2>5 DEF DedupeExact
  <2>7. \A o1, o2 \in Ops :
          Pending(o1)' /\ Pending(o2)' /\ KeyOf[o1] = KeyOf[o2] /\ KeyOf[o1] # NoKey
            => o1 = o2
    BY <1>0, <2>4, <2>5 DEF DedupeExact
  <2> QED BY <2>6, <2>7 DEF DedupeExact
<1>2. ASSUME NEW i \in DOMAIN queue, queue' = Without(queue, i),
             wop' = wop, wpc' = "deliver" <=> wpc = "deliver",
             dedupe' = Forget(queue[i])
      PROVE  DedupeExact'
  <2>1. \A o : Queued(o)' <=> Queued(o) /\ o # queue[i]
    BY <1>0, <1>2, QueueRemoval
  <2>2. queue[i] \in Ops /\ Queued(queue[i]) /\ wop # queue[i]
    BY <1>0 DEF TypeOK, QueueOnce, Queued
  <2>3. \A o : Pending(o)' <=> Pending(o) /\ o # queue[i]
    BY <1>2, <2>1, <2>2 DEF Pending
  <2> QED BY <1>0, <1>2, <2>2, <2>3, KeyForgotten DEF Pending
<1>4. ASSUME NEW op \in Ops, RunWithdrawn(op) PROVE DedupeExact'
  BY <1>2, <1>4 DEF RunWithdrawn
<1>5. ASSUME NEW kind \in Kinds, CancelKindQueued(kind) PROVE DedupeExact'
  BY <1>2, <1>5 DEF CancelKindQueued
<1>6. CASE NextDrops
  BY <1>2, <1>6 DEF NextDrops
<1>7. CASE NextPicks
  <2>1. PICK i \in DOMAIN queue : queue' = Without(queue, i) /\ wop' = queue[i]
    BY <1>7 DEF NextPicks
  <2>2. \A o : Queued(o)' <=> Queued(o) /\ o # queue[i]
    BY <1>0, <2>1, QueueRemoval
  <2>3. Queued(queue[i]) /\ wop = None /\ wpc' = "start" /\ dedupe' = dedupe
    BY <1>0, <1>7 DEF WorkerShape, Queued, NextPicks
  <2>4. \A o \in Ops : Pending(o)' <=> Pending(o)
    BY <2>1, <2>2, <2>3, OpsAssumption DEF OpsAssumption, Pending
  <2> QED BY <1>0, <2>3, <2>4, KeysKept
<1>8. CASE ExecuteEnds
  <2>1. wop \in Ops /\ wpc = "fn" /\ ~Queued(wop)
    BY <1>0, <1>8 DEF TypeOK, WorkerShape, QueueOnce, ExecuteEnds
  <2>2. wop' = wop /\ wpc' = "deliver" /\ queue' = queue /\ dedupe' = Forget(wop)
    BY <1>8 DEF ExecuteEnds
  <2>3. Pending(wop) /\ \A o \in Ops : Pending(o)' <=> Pending(o) /\ o # wop
    BY <2>1, <2>2 DEF Pending, Queued
  <2> QED BY <1>0, <2>1, <2>2, <2>3, KeyForgotten
<1>9. CASE ~Moves /\ ~ExecuteEnds
  <2>1. dedupe' = dedupe /\ queue' = queue
    BY <1>9, OtherSteps DEF Signal, RunAnswered, RunAwaits, RunDeduped,
      AcquireCompleted, NextEmpty, WorkerWakes, ExecuteBegins, ExecuteDelivers
  <2>2. \/ wop' = wop /\ wpc' = wpc
        \/ wop' = wop /\ wpc # "deliver" /\ wpc' # "deliver"
        \/ wop' = None /\ wpc = "deliver"
    BY <1>9, OtherSteps DEF Signal, RunAnswered, RunAwaits, RunDeduped,
      AcquireCompleted, NextEmpty, WorkerWakes, ExecuteBegins, ExecuteDelivers
  <2>3. \A o \in Ops : Pending(o)' <=> Pending(o)
    BY <2>1, <2>2, OpsAssumption DEF OpsAssumption, Pending, Queued
  <2> QED BY <1>0, <2>1, <2>3, KeysKept
<1> QED
  BY <1>1, <1>4, <1>5, <1>6, <1>7, <1>8, <1>9 DEF Moves

\* Every step keeps a wake-up on its way while an operation is queued.
LEMMA WakeupPreserved ==
  ASSUME IInv, [Next]_vars
  PROVE  NoLostWakeup'
<1> USE DEF queueVars, activeVars, workVars, fnVars, leaseVars
<1>0. TypeOK /\ NoLostWakeup
  BY DEF IInv
<1>1. ASSUME NEW op \in Ops, Caller(op) PROVE NoLostWakeup'
  <2>1. CASE RunQueued(op)
    BY <1>0, <2>1 DEF TypeOK, NoLostWakeup, RunQueued
  <2>2. CASE RunWithdrawn(op)
    <3>1. queue # <<>>
      BY <1>0, <2>2 DEF TypeOK, RunWithdrawn
    <3> QED BY <1>0, <2>2, <3>1 DEF TypeOK, NoLostWakeup, RunWithdrawn
  <2>3. CASE RunDeduped(op) \/ Signal(op) \/ RunAnswered(op) \/ RunAwaits(op)
    BY <1>0, <2>3 DEF TypeOK, NoLostWakeup, RunDeduped, CallBegins, Signal,
      RunAnswered, RunAwaits
  <2> QED BY <1>1, <2>1, <2>2, <2>3 DEF Caller
<1>2. CASE Worker
  BY <1>0, <1>2 DEF NoLostWakeup, Worker, NextDrops, NextPicks, NextEmpty,
    WorkerWakes, ExecuteBegins, ExecuteEnds, ExecuteDelivers
<1>3. ASSUME NEW kind \in Kinds, CancelKindQueued(kind) PROVE NoLostWakeup'
  BY <1>3 DEF NoLostWakeup, CancelKindQueued
<1>4. ASSUME NEW op \in Lease, AcquireCompleted(op) PROVE NoLostWakeup'
  BY <1>0, <1>4 DEF TypeOK, NoLostWakeup, AcquireCompleted
<1>5. CASE UNCHANGED <<queue, wake, wpc, pc>>
  BY <1>0, <1>5 DEF NoLostWakeup
<1>6. ASSUME NEW op \in Lease, Owner(op), ~AcquireCompleted(op)
      PROVE  UNCHANGED <<queue, wake, wpc, pc>>
  BY <1>6 DEF Owner, AcquireTakes, AcquireGivesUp, Finish
<1>7. CASE Fn
  BY <1>5, <1>7 DEF Fn, BodyReturns, LeaseOffered, LeaseClaimed, LeaseAbandoned,
    LeaseDrains, LeaseReleased, FnReturns, FnGoesTo
<1>8. CASE Watchdog
  BY <1>5, <1>8 DEF Watchdog, Silence, Report, WatchStall, Progress
<1>9. CASE CancelsActive \/ \E op \in Ops : CtxCancelled(op)
  BY <1>5, <1>9 DEF CancelsActive, CtxCancelled
<1>10. CASE UNCHANGED vars
  BY <1>5, <1>10 DEF vars
<1> QED
  BY <1>1, <1>2, <1>3, <1>4, <1>5, <1>6, <1>7, <1>8, <1>9, <1>10
  DEF Next, Cancel, CancelActive, CancelKindActive
=============================================================================
