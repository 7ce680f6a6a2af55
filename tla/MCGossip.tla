------------------------------ MODULE MCGossip ------------------------------
(***************************************************************************)
(* Two nodes and ourselves.  A announces itself, moves, and votes; B       *)
(* announces itself without a repair socket, then in the old format, and   *)
(* votes without a slot; our own contact info comes back to us.  The clock *)
(* makes the early values older than 15 minutes.                           *)
(***************************************************************************)
EXTENDS Gossip

CONSTANTS A, B, Me

Value(key, kind, secs, slot, addr, repair) ==
  [key |-> key, kind |-> kind, wallclock |-> secs * 1000, slot |-> slot,
   addr |-> addr, repair |-> repair]

MCValues ==
  {Value(A, "contact", 2000, NULL, "a1", "r1"),
   Value(A, "contact", 2600, NULL, "a2", "r2"),
   Value(A, "vote", 3200, 1, NULL, NULL),
   Value(B, "contact", 2000, NULL, "b1", NULL),
   Value(Me, "legacy", 2600, NULL, "m1", NULL)}

MCKeys == {A, B, Me}
MCClocks == {2600, 3200}
=============================================================================
