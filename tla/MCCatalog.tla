------------------------------ MODULE MCCatalog ------------------------------
(***************************************************************************)
(* The catalog of TLC's run: the provider behind u adds a second profile   *)
(* with the name and address of the first, the one behind v offers it      *)
(* alone.  A configuration is sent whose selection has no entry, unless    *)
(* the present list of servers has it.                                     *)
(***************************************************************************)
EXTENDS Catalog

CONSTANTS u, v, a1, a2, m

MCPlace == [x \in Servers |-> "p"]
MCOffers == [x \in Urls |-> IF x = u THEN {{a1, a2}} ELSE {{a2}}]
MCInstalled == {<<[id |-> u, servers |-> {a1}, disabled |-> "no", off |-> {}]>>}
MCPosts == {[active |-> a2, servers |-> {[id |-> a1, prof |-> m]}]}
==============================================================================
