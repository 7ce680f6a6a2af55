----------------------------- MODULE MCPipeline -----------------------------
(***************************************************************************)
(* Slots 2 and 4 share a cell of the two-cell ring, and slot 4 descends    *)
(* from slot 2 (slot 3 was skipped).  The first transaction of slot 2      *)
(* cannot be deserialized; garbled payloads hold no complete entry or an   *)
(* empty one.  Wide adds a second set of slot 4, with no complete entry,   *)
(* and slot 5.  Tall makes the set of slot 4 two data shreds larger than   *)
(* the default dimensions, its last one short.                             *)
(***************************************************************************)
EXTENDS Pipeline

CONSTANTS Wide, Tall

S2  == [slot |-> 2, fec_set_index |-> 0]
S4  == [slot |-> 4, fec_set_index |-> 0]
S4b == [slot |-> 4, fec_set_index |-> 32]
S5  == [slot |-> 5, fec_set_index |-> 0]

MCErasureSets == {S2, S4} \cup (IF Wide THEN {S4b, S5} ELSE {})
MCStoreSlots == {id.slot : id \in MCErasureSets}
MCDims == [id \in MCErasureSets |->
             [num_data |-> NUM_DATA_SHREDS + (IF Tall /\ id = S4 THEN 2 ELSE 0),
              num_code |-> NUM_CODE_SHREDS]]
MCShortData == [id \in MCErasureSets |-> IF Tall /\ id = S4 THEN {NUM_DATA_SHREDS + 1} ELSE {}]
MCTrueParent == [id \in MCErasureSets |-> IF id = S4 \/ id = S4b THEN 2 ELSE id.slot - 1]
MCTxCount == [id \in MCErasureSets |->
                CASE id = S2 -> 2 [] id = S4b -> NoEntries [] OTHER -> 1]
MCGarbledTxs == {NoEntries, 0}
MCOpaque == {[set |-> S2, whole |-> TRUE, i |-> 1]}
=============================================================================
