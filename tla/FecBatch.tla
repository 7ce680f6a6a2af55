------------------------------ MODULE FecBatch ------------------------------
(***************************************************************************)
(* One erasure (FEC) set being collected, crates/dc-tvu/src/fec_batch.rs,  *)
(* with the arrival part of process_shred (main.rs) and what decode        *)
(* (reed_solomon.rs) makes of the shreds chosen.                           *)
(*                                                                         *)
(* Data is abstracted to what the control flow tells apart.  All shreds of *)
(* a set carry the leader's payload for their position, so a filled cell   *)
(* of data_shreds or code_shreds is its position in a set; a payload       *)
(* matters only through its length: full, or short (the last data shreds   *)
(* of an entry batch, whose header size is smaller).                       *)
(*                                                                         *)
(* The leader codes each data shred from byte 64 on, 24 bytes of headers   *)
(* and then the payload (TVU_DESIGN.md, 7.3); parse_from_bytes (shred.rs)  *)
(* cuts the headers off a data shred and not out of a code shred.  So a    *)
(* code payload is longer than every data payload, and its columns belong  *)
(* to bytes 24 places further on: module Codec has the bytes.              *)
(***************************************************************************)
EXTENDS Integers, FiniteSets, FiniteSetsExt, Optional

CONSTANTS NUM_DATA_SHREDS,   \* 32 in reed_solomon.rs
          NUM_CODE_SHREDS,   \* 32
          ErasureSets,       \* ErasureSetId: records with a slot and a fec_set_index
          Dims,              \* true [num_data, num_code] of each set (its code headers)
          ShortData,         \* per set, the data positions with a short payload
          TrueParent         \* per set, slot - parent_offset

ASSUME FecAssumption ==
  /\ NUM_DATA_SHREDS \in Nat \ {0} /\ NUM_CODE_SHREDS \in Nat
  /\ \A id \in ErasureSets :
       /\ id.slot \in Nat /\ TrueParent[id] \in 0 .. id.slot
       /\ Dims[id].num_data \in Nat \ {0} /\ Dims[id].num_code \in Nat
       /\ ShortData[id] \subseteq 0 .. Dims[id].num_data - 1

(* Batches: their dimensions, and the positions filled so far.             *)
FecBatches ==
  [num_data : Nat \ {0}, num_code : Nat, parent_slot : Nat,
   data_shreds : SUBSET Nat, code_shreds : SUBSET Nat]

(* What try_recover makes of a batch it recovers: all payloads of the set, *)
(* only the first of them, or bytes of which nothing is promised.          *)
Outcomes == {"whole", "partial", "garbled"}

ASSUME FecNullAssumption == NULL \notin FecBatches /\ NULL \notin Outcomes \cup {"panic"}

(* The shreds the leader made of a set.                                    *)
ShredsOf(id) ==
  [set : {id}, kind : {"data"}, pos : 0 .. Dims[id].num_data - 1]
    \cup [set : {id}, kind : {"code"}, pos : 0 .. Dims[id].num_code - 1]

Shreds == UNION {ShredsOf(id) : id \in ErasureSets}

FecBatchNew(nd, nc) ==
  [num_data |-> nd, num_code |-> nc, parent_slot |-> 0,
   data_shreds |-> {}, code_shreds |-> {}]

(* process_shred, batches.entry(..).or_insert_with: a batch opened by a    *)
(* code shred takes that shred's dimensions, one opened by a data shred    *)
(* the default ones, and they never change afterwards.                     *)
OpenBatch(shred) ==
  IF shred.kind = "code"
  THEN FecBatchNew(Dims[shred.set].num_data, Dims[shred.set].num_code)
  ELSE FecBatchNew(NUM_DATA_SHREDS, NUM_CODE_SHREDS)

(* Faulty variant, for the mutation runs: the position is not checked.     *)
AddDataShredUnchecked(batch, index) == [batch EXCEPT !.data_shreds = @ \cup {index}]

(* A position outside the batch or already filled is ignored.              *)
AddDataShred(batch, index) ==
  IF index < batch.num_data
  THEN [batch EXCEPT !.data_shreds = @ \cup {index}] ELSE batch

AddCodeShred(batch, position) ==
  IF position < batch.num_code
  THEN [batch EXCEPT !.code_shreds = @ \cup {position}] ELSE batch

(* Set by data shreds only, and only while it is 0.                        *)
SetParent(batch, id) ==
  IF batch.parent_slot = 0
  THEN [batch EXCEPT !.parent_slot = TrueParent[id]] ELSE batch

AddShred(batch, shred) ==
  IF shred.kind = "data"
  THEN SetParent(AddDataShred(batch, shred.pos), shred.set)
  ELSE AddCodeShred(batch, shred.pos)

ReceivedCount(batch) ==
  Cardinality(batch.data_shreds) + Cardinality(batch.code_shreds)

(* The code rows decode is given: the lowest positions, as many as data    *)
(* shreds are missing.                                                     *)
CodeRows(batch) ==
  {p \in batch.code_shreds :
     Cardinality(batch.data_shreds) + Cardinality({q \in batch.code_shreds : q < p})
       < batch.num_data}

(***************************************************************************)
(* decode, given at least one code row.  First the matrix is inverted: the *)
(* rows of positions below num_data are Cauchy rows and solve, as long as  *)
(* num_data + j fits a byte; rows with x_i = y_j have a zero entry and may *)
(* not solve, which gives None.  Then shred_size, the length of            *)
(* received[0] (the lowest data shred or, without one, a code shred), is   *)
(* read of every received shred: a shorter one panics; two short ones may  *)
(* differ in length.  What comes out mixes columns of code payloads with   *)
(* columns of data payloads that they were not made from, or, without a    *)
(* data shred, is the shreds from byte 64 on with their headers in front:  *)
(* nothing is promised of it.                                              *)
(***************************************************************************)
DecodeOutcomes(batch, id) ==
  LET short == ShortData[id] \cap batch.data_shreds
      firstIsShort == batch.data_shreds # {} /\ Min(batch.data_shreds) \in short
      solves == /\ batch.num_data <= 128
                /\ \A p \in CodeRows(batch) : p < batch.num_data
  IN  (IF solves THEN {} ELSE {NULL}) \cup
      IF short # {} /\ ~firstIsShort THEN {"panic"}
      ELSE {"garbled"} \cup (IF Cardinality(short) > 1 THEN {"panic"} ELSE {})

(* What the payloads of the first num_data positions are.                  *)
AllData(batch, id) ==
  IF batch.num_data = Dims[id].num_data THEN "whole" ELSE "partial"

(* Faulty variants, for the mutation runs: one shred too early, and        *)
(* decoding although every data shred is there.                            *)
TryRecoverEager(batch, id) ==
  IF ReceivedCount(batch) + 1 < batch.num_data THEN {NULL}
  ELSE IF Cardinality(batch.data_shreds) = batch.num_data
  THEN {AllData(batch, id)}
  ELSE DecodeOutcomes(batch, id)

TryRecoverAlwaysDecodes(batch, id) ==
  IF ReceivedCount(batch) < batch.num_data THEN {NULL}
  ELSE IF batch.code_shreds = {} THEN {AllData(batch, id)}
  ELSE DecodeOutcomes(batch, id)

(* try_recover: NULL for None, else what the recovered payloads are.       *)
TryRecover(batch, id) ==
  IF ReceivedCount(batch) < batch.num_data THEN {NULL}
  ELSE IF Cardinality(batch.data_shreds) = batch.num_data
  THEN {AllData(batch, id)}
  ELSE DecodeOutcomes(batch, id)
=============================================================================
