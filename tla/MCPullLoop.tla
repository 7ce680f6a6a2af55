------------------------------ MODULE MCPullLoop ------------------------------
(***************************************************************************)
(* Two peers.  A budget of b bytes holds b items; the filter's size steps  *)
(* by eight bytes, with a break at 16 bytes.  The two caller sizes leave   *)
(* budgets of 8 and 32 bytes: four partitions and one, for 32 items.       *)
(***************************************************************************)
EXTENDS PullLoop

MCMaxItems == [b \in BloomBytes |-> b]
MCFilterSize == [b \in BloomBytes |-> 8 * ((b + 7) \div 8) + IF b < 16 THEN 3 ELSE 4]
MCPullEvery == [p \in Programs |-> IF p = "library" THEN 3 ELSE 2]
MCPruneEvery == [p \in Programs |-> IF p = "library" THEN 3 ELSE 4]
=============================================================================
