----------------------------- MODULE HeavySlot -----------------------------
(***************************************************************************)
(* What the coordinator of heavy operations promises its callers: one slot *)
(* that at most one of them holds at a time, that is never given to a      *)
(* background caller while a manual one waits, and that a caller gets at   *)
(* most once per call and never after its call is over.                    *)
(***************************************************************************)
CONSTANTS Ops, Background, None

VARIABLES
  phase,   \* "idle", "waiting", "holding" or "over", for each caller
  holder   \* the caller that holds the slot, or None

slotVars == <<phase, holder>>

Moves(op, from, to) ==
  /\ phase[op] = from
  /\ phase' = [phase EXCEPT ![op] = to]

SlotInit ==
  /\ phase = [op \in Ops |-> "idle"]
  /\ holder = None

\* A call asks for the slot, or is turned away because the same work waits.
Ask(op) ==
  /\ \E to \in {"waiting", "over"} : Moves(op, "idle", to)
  /\ UNCHANGED holder

\* A waiting call is cancelled: it ends at once, or once it has its answer.
Leave(op) ==
  /\ \E to \in {"over", "idle"} : Moves(op, "waiting", to)
  /\ UNCHANGED holder

Take(op) ==
  /\ holder = None
  /\ op \in Background => \A o \in Ops \ Background : phase[o] # "waiting"
  /\ Moves(op, "waiting", "holding")
  /\ holder' = op

Free(op) ==
  /\ holder = op
  /\ Moves(op, "holding", "over")
  /\ holder' = None

Return(op) ==
  /\ Moves(op, "over", "idle")
  /\ UNCHANGED holder

SlotNext ==
  \E op \in Ops : Ask(op) \/ Leave(op) \/ Take(op) \/ Free(op) \/ Return(op)

SlotSpec == SlotInit /\ [][SlotNext]_slotVars
=============================================================================
