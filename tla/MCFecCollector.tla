--------------------------- MODULE MCFecCollector ---------------------------
(***************************************************************************)
(* Three sets against default dimensions 3 + 1, so that a poll asks for    *)
(* the indexes 0 to 3 of a slot: one with fewer data and more code shreds; *)
(* behind it one as expected, that ends with the last index asked for; and *)
(* in a slot of its own one with more data shreds, the last one out of     *)
(* reach.  Short is the set of data positions with a short payload in the  *)
(* set of the default dimensions.                                          *)
(***************************************************************************)
EXTENDS FecCollector

CONSTANT Short

MCErasureSets ==
  {[slot |-> 10, fec_set_index |-> 0], [slot |-> 10, fec_set_index |-> 1],
   [slot |-> 12, fec_set_index |-> 1]}

MCDims == [id \in MCErasureSets |->
             CASE id.fec_set_index = 0 -> [num_data |-> 1, num_code |-> 2]
               [] id.slot = 12         -> [num_data |-> 4, num_code |-> 1]
               [] OTHER                -> [num_data |-> 3, num_code |-> 1]]

MCShortData == [id \in MCErasureSets |->
                  IF id = [slot |-> 10, fec_set_index |-> 1] THEN Short ELSE {}]

MCTrueParent == [id \in MCErasureSets |-> id.slot - 2]
=============================================================================
