------------------------------ MODULE ServiceLog ------------------------------
(***************************************************************************)
(* The service log: a ring buffer of the last events, which a reader polls *)
(* with the number of the last event it has seen.  The ring keeps neither  *)
(* the position nor the number of its first event: Entries works both out  *)
(* from head, count and seq, which wrap, saturate and survive a clear.     *)
(***************************************************************************)
EXTENDS Integers, Sequences

CONSTANTS
  logBufSize,
  MaxSeq       \* bound on the number of events

ASSUME LogAssumption == logBufSize \in Nat \ {0} /\ MaxSeq \in Nat

VARIABLES
  entries,     \* the slots of the ring: the number of the event in each, or 0
  head, count,
  seq,         \* the number of the last event
  cleared      \* the number of the last event when the log was last cleared

logVars == <<entries, head, count, seq, cleared>>

Slots == 0..(logBufSize - 1)
At(x) == x % logBufSize

LogInit ==
  /\ entries = [i \in Slots |-> 0]
  /\ head = 0 /\ count = 0 /\ seq = 0 /\ cleared = 0

\* Mutant of appendEventLocked: head stays where it is when the ring is full.
appendEventLockedKeepsHead ==
  /\ seq < MaxSeq /\ seq' = seq + 1
  /\ entries' = [entries EXCEPT ![At(head + count)] = seq']
  /\ count' = IF count = logBufSize THEN count ELSE count + 1
  /\ UNCHANGED <<head, cleared>>

\* An event that the level lets through.
appendEventLocked ==
  /\ seq < MaxSeq /\ seq' = seq + 1
  /\ IF count = logBufSize
     THEN /\ entries' = [entries EXCEPT ![head] = seq']
          /\ head' = At(head + 1)
          /\ UNCHANGED count
     ELSE /\ entries' = [entries EXCEPT ![At(head + count)] = seq']
          /\ count' = count + 1
          /\ UNCHANGED head
  /\ UNCHANGED cleared

\* DELETE /api/logs, or a new level.  seq goes on.
clear ==
  /\ entries' = [i \in Slots |-> 0]
  /\ head' = 0 /\ count' = 0 /\ cleared' = seq
  /\ UNCHANGED seq

\* What a reader is sent that has seen the events up to since.
Entries(since) ==
  IF since >= seq \/ count = 0 THEN << >>
  ELSE LET start == seq - count
           offset == IF since > start THEN since - start ELSE 0
       IN [i \in 1..(count - offset) |-> entries[At(head + offset + i - 1)]]

LogNext == appendEventLocked \/ clear

LogSpec == LogInit /\ [][LogNext]_logVars
------------------------------------------------------------------------------
\* Every variable has its type: head and count stay within the ring.
LogTypeOK ==
  /\ entries \in [Slots -> Nat] /\ head \in Slots
  /\ count \in 0..logBufSize /\ seq \in 0..MaxSeq /\ cleared \in 0..seq

\* The last event that a reader at since is not sent: one it has seen, one that
\* was cleared, or one that newer events have pushed out.
LastMissing(since) ==
  CHOOSE n \in {since, cleared, seq - logBufSize} : n >= since /\ n >= cleared /\ n >= seq - logBufSize

\* A reader is sent every event after since that was not cleared or pushed out,
\* once and in order, and no other, at any wrap of the ring and after any clear,
\* also when it asks with a number from before a clear or from an earlier run.
ReaderSeesTail ==
  \A since \in -1..(MaxSeq + 1) :
    Entries(since) = IF since >= seq THEN << >>
                     ELSE [i \in 1..(seq - LastMissing(since)) |-> LastMissing(since) + i]
==============================================================================
