------------------------------ MODULE MCCodec -------------------------------
(***************************************************************************)
(* Sets of the default dimensions 3 + 2 with no, one, two and only short   *)
(* payloads, one with fewer data and more code shreds, one with more data. *)
(* Transactions: a small legacy one, and a versioned one with lookups and  *)
(* an instruction whose length takes two bytes.                            *)
(***************************************************************************)
EXTENDS Codec

MCErasureSets == {[slot |-> 10, fec_set_index |-> 3 * n] : n \in 0 .. 6}

MCDims == [id \in MCErasureSets |->
             CASE id.fec_set_index \in {12, 18} -> [num_data |-> 2, num_code |-> 3]
               [] id.fec_set_index = 15 -> [num_data |-> 4, num_code |-> 1]
               [] OTHER -> [num_data |-> 3, num_code |-> 2]]

MCShortData == [id \in MCErasureSets |->
                  CASE id.fec_set_index = 3 -> {2}
                    [] id.fec_set_index = 6 -> {1, 2}
                    [] id.fec_set_index = 9 -> {0, 1, 2}
                    [] id.fec_set_index = 18 -> {1}
                    [] OTHER -> {}]

MCTrueParent == [id \in MCErasureSets |-> id.slot - 1]

MCTransactions ==
  {[signatures |-> 1, versioned |-> FALSE, keys |-> 2, lookups |-> <<>>,
    instructions |-> <<[accounts |-> 1, data |-> 4]>>],
   [signatures |-> 2, versioned |-> TRUE, keys |-> 1,
    lookups |-> <<[writable |-> 1, readonly |-> 0]>>,
    instructions |-> <<[accounts |-> 0, data |-> 130], [accounts |-> 2, data |-> 0]>>]}
=============================================================================
