---------------------------- MODULE MCOperations ----------------------------
(***************************************************************************)
(* Instances of Operations for TLC.  The callers are a subset of: a user's *)
(* subscription refresh, a user's refresh of the bypass lists (the only    *)
(* use of Acquire), and two background refreshes that share a key.         *)
(***************************************************************************)
EXTENDS Operations

CONSTANTS user, lease, bg1, bg2, subscription, bypass, ks

MCKinds == {subscription, bypass}
MCKindOf == [op \in Ops |-> IF op = lease THEN bypass ELSE subscription]
MCKeyOf == [op \in Ops |-> IF op \in Background THEN ks ELSE NoKey]
=============================================================================
