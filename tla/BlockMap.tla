------------------------------ MODULE BlockMap ------------------------------
(***************************************************************************)
(* What a node promises of the blocks it has, and nothing of where it      *)
(* keeps them: one map from slots to blocks.  A slot gets a block of its   *)
(* own, and may get another of its own; it never loses one.  There are no  *)
(* evictions here, no tiers, no files and no restarts.                     *)
(*                                                                         *)
(* A slot may be given up, for good: nothing is promised of it any more.   *)
(***************************************************************************)
CONSTANTS Slots, NULL,
          BlocksOf    \* per slot, the blocks it may have

VARIABLES blocks,     \* per slot, its block, NULL before it has one or when given up
          givenUp     \* the slots nothing is promised of

vars == <<blocks, givenUp>>

Init == blocks = [s \in Slots |-> NULL] /\ givenUp = {}

Store(s, block) ==
  /\ s \notin givenUp
  /\ blocks' = [blocks EXCEPT ![s] = block]
  /\ UNCHANGED givenUp

GiveUp(s) ==
  /\ blocks' = [blocks EXCEPT ![s] = NULL]
  /\ givenUp' = givenUp \cup {s}

Next == \E s \in Slots : GiveUp(s) \/ \E block \in BlocksOf[s] : Store(s, block)

Spec == Init /\ [][Next]_vars
=============================================================================
