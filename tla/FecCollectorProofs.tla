------------------------- MODULE FecCollectorProofs -------------------------
(***************************************************************************)
(* What the receive loop's batches promise, for every choice of erasure    *)
(* sets, dimensions, default dimensions and payload lengths, and every     *)
(* order, repetition and loss of shreds.                                   *)
(***************************************************************************)
EXTENDS FecCollector, DataLemmas

-----------------------------------------------------------------------------
(* Shreds and how many of them there are.                                  *)

ShredAt(id, kind, pos) == [set |-> id, kind |-> kind, pos |-> pos]

LEMMA ShredFacts ==
  ASSUME NEW shred \in Shreds
  PROVE  /\ shred.set \in ErasureSets /\ shred \in ShredsOf(shred.set)
         /\ shred.kind \in Kinds /\ shred.pos \in Nat
         /\ shred = ShredAt(shred.set, shred.kind, shred.pos)
<1>1. PICK id \in ErasureSets : shred \in ShredsOf(id)
  BY DEF Shreds
<1>2. Dims[id].num_data \in Nat /\ Dims[id].num_code \in Nat
  BY FecAssumption
<1> QED
  BY <1>1, <1>2 DEF ShredsOf, Kinds, ShredAt

(* As many shreds of a kind as positions.                                  *)
LEMMA ShredsAtPositions ==
  ASSUME NEW id, NEW kind, NEW P, IsFiniteSet(P)
  PROVE  LET S == {ShredAt(id, kind, p) : p \in P}
         IN  IsFiniteSet(S) /\ Cardinality(S) = Cardinality(P)
<1> DEFINE S == {ShredAt(id, kind, p) : p \in P}
           at == [p \in P |-> ShredAt(id, kind, p)]
<1>1. at \in Bijection(P, S)
  BY DEF ShredAt, Bijection, Injection, Surjection, IsInjective
<1>2. ExistsBijection(P, S)
  BY <1>1 DEF ExistsBijection
<1> QED
  BY <1>2, FS_Bijection

(* Data and code shreds are different ones.                                *)
LEMMA CountByKind ==
  ASSUME NEW id, NEW D, IsFiniteSet(D), NEW C, IsFiniteSet(C), NEW A, IsFiniteSet(A),
         \A p \in D : ShredAt(id, "data", p) \in A,
         \A p \in C : ShredAt(id, "code", p) \in A
  PROVE  Cardinality(D) + Cardinality(C) <= Cardinality(A)
<1> DEFINE SD == {ShredAt(id, "data", p) : p \in D}
           SC == {ShredAt(id, "code", p) : p \in C}
<1>1. IsFiniteSet(SD) /\ Cardinality(SD) = Cardinality(D)
  BY ShredsAtPositions
<1>2. IsFiniteSet(SC) /\ Cardinality(SC) = Cardinality(C)
  BY ShredsAtPositions
<1>3. SD \cap SC = {}
  BY DEF ShredAt
<1>4. SD \cup SC \in SUBSET A
  OBVIOUS
<1> HIDE DEF SD, SC
<1>5. Cardinality(SD \cup SC) = Cardinality(SD) + Cardinality(SC) - Cardinality(SD \cap SC)
  BY <1>1, <1>2, FS_Union
<1>6. Cardinality(SD \cap SC) = 0
  BY <1>3, FS_EmptySet
<1>7. Cardinality(SD \cup SC) <= Cardinality(A)
  BY <1>4, FS_Subset
<1>8. Cardinality(D) \in Nat /\ Cardinality(C) \in Nat
  BY FS_CardinalityType
<1> QED
  BY <1>1, <1>2, <1>5, <1>6, <1>7, <1>8

LEMMA ShredsFinite ==
  ASSUME NEW id \in ErasureSets
  PROVE  IsFiniteSet(ShredsOf(id))
<1> DEFINE D == 0 .. Dims[id].num_data - 1
           C == 0 .. Dims[id].num_code - 1
<1>1. 0 \in Int /\ Dims[id].num_data - 1 \in Int /\ Dims[id].num_code - 1 \in Int
  BY FecAssumption
<1>2. IsFiniteSet(D) /\ IsFiniteSet(C)
  BY <1>1, FS_Interval
<1>3. /\ IsFiniteSet({ShredAt(id, "data", p) : p \in D})
      /\ IsFiniteSet({ShredAt(id, "code", p) : p \in C})
  BY <1>2, ShredsAtPositions
<1>4. ShredsOf(id) = {ShredAt(id, "data", p) : p \in D} \cup {ShredAt(id, "code", p) : p \in C}
  BY DEF ShredsOf, ShredAt
<1> QED
  BY <1>3, <1>4, FS_Union

-----------------------------------------------------------------------------
(***************************************************************************)
(* The inductive invariant: what a batch holds has arrived for it, of the  *)
(* data shreds that arrived it holds all it has a place for, and the first *)
(* shred decided its dimensions.                                           *)
(***************************************************************************)
BatchOrigin(id, batch, from, kind) ==
  /\ \A p \in batch.data_shreds : ShredAt(id, "data", p) \in from
  /\ \A p \in batch.code_shreds : ShredAt(id, "code", p) \in from
  /\ \A shred \in from : shred.kind = "data" /\ shred.pos < batch.num_data =>
       shred.pos \in batch.data_shreds
  /\ kind \in Kinds
  /\ batch.num_data = IF kind = "code" THEN Dims[id].num_data ELSE NUM_DATA_SHREDS

WellFormed(batch) ==
  /\ batch \in FecBatches
  /\ batch.data_shreds \subseteq 0 .. batch.num_data - 1
  /\ batch.code_shreds \subseteq 0 .. batch.num_code - 1

Origin ==
  \A id \in ErasureSets :
    IF batches[id] = NULL THEN arrived[id] = {}
    ELSE BatchOrigin(id, batches[id], arrived[id], opener[id])

(* A shred added to its batch, new or not.                                 *)
LEMMA AddShredFacts ==
  ASSUME NEW shred \in Shreds, NEW batch, WellFormed(batch),
         NEW from, NEW kind, BatchOrigin(shred.set, batch, from, kind)
  PROVE  /\ WellFormed(AddShred(batch, shred))
         /\ BatchOrigin(shred.set, AddShred(batch, shred), from \cup {shred}, kind)
<1>1. /\ shred.set \in ErasureSets /\ shred.kind \in Kinds /\ shred.pos \in Nat
      /\ shred = ShredAt(shred.set, shred.kind, shred.pos)
  BY ShredFacts
<1>2. TrueParent[shred.set] \in Nat
  BY <1>1, FecAssumption
<1>3. CASE shred.kind = "code"
  <2>1. AddShred(batch, shred) = AddCodeShred(batch, shred.pos)
    BY <1>3 DEF AddShred
  <2>2. CASE shred.pos < batch.num_code
    <3>1. AddShred(batch, shred) = [batch EXCEPT !.code_shreds = @ \cup {shred.pos}]
      BY <2>1, <2>2 DEF AddCodeShred
    <3>2. WellFormed(AddShred(batch, shred))
      BY <1>1, <2>2, <3>1 DEF WellFormed, FecBatches
    <3>3. BatchOrigin(shred.set, AddShred(batch, shred), from \cup {shred}, kind)
      BY <1>1, <1>3, <3>1 DEF WellFormed, FecBatches, BatchOrigin
    <3> QED
      BY <3>2, <3>3
  <2>3. CASE ~(shred.pos < batch.num_code)
    BY <1>3, <2>1, <2>3 DEF AddCodeShred, BatchOrigin
  <2> QED
    BY <2>2, <2>3
<1>4. CASE shred.kind = "data"
  <2> DEFINE added == AddDataShred(batch, shred.pos)
  <2>1. AddShred(batch, shred) = SetParent(added, shred.set)
    BY <1>4 DEF AddShred
  <2>2. WellFormed(added) /\ BatchOrigin(shred.set, added, from \cup {shred}, kind)
    <3>1. CASE shred.pos < batch.num_data
      <4>1. added = [batch EXCEPT !.data_shreds = @ \cup {shred.pos}]
        BY <3>1 DEF AddDataShred
      <4>2. WellFormed(added)
        BY <1>1, <3>1, <4>1 DEF WellFormed, FecBatches
      <4>3. BatchOrigin(shred.set, added, from \cup {shred}, kind)
        BY <1>1, <1>4, <4>1 DEF WellFormed, FecBatches, BatchOrigin
      <4> QED
        BY <4>2, <4>3
    <3>2. CASE ~(shred.pos < batch.num_data)
      BY <3>2 DEF AddDataShred, BatchOrigin
    <3> QED
      BY <3>1, <3>2
  <2> HIDE DEF added
  <2>3. \/ SetParent(added, shred.set) = added
        \/ SetParent(added, shred.set) = [added EXCEPT !.parent_slot = TrueParent[shred.set]]
    BY DEF SetParent
  <2> QED
    BY <1>2, <2>1, <2>2, <2>3 DEF WellFormed, FecBatches, BatchOrigin
<1> QED
  BY <1>1, <1>3, <1>4 DEF Kinds

(* The batch of a shred after it was added.                                *)
LEMMA BatchWithFacts ==
  ASSUME TypeOK, Origin, NEW shred \in Shreds
  PROVE  /\ WellFormed(BatchWith(shred))
         /\ BatchOrigin(shred.set, BatchWith(shred), arrived[shred.set] \cup {shred}, OpenerOf(shred))
<1>1. shred.set \in ErasureSets /\ shred.kind \in Kinds
  BY ShredFacts
<1>2. CASE batches[shred.set] = NULL
  <2>1. WellFormed(OpenBatch(shred))
    BY <1>1, FecAssumption DEF OpenBatch, FecBatchNew, WellFormed, FecBatches
  <2>2. BatchOrigin(shred.set, OpenBatch(shred), arrived[shred.set], shred.kind)
    BY <1>1, <1>2 DEF Origin, OpenBatch, FecBatchNew, BatchOrigin, Kinds
  <2> QED
    BY <1>2, <2>1, <2>2, AddShredFacts DEF BatchWith, OpenerOf
<1>3. CASE batches[shred.set] # NULL
  <2>1. WellFormed(batches[shred.set])
    BY <1>1, <1>3 DEF TypeOK, WellFormed
  <2>2. BatchOrigin(shred.set, batches[shred.set], arrived[shred.set], opener[shred.set])
    BY <1>1, <1>3 DEF Origin
  <2> QED
    BY <1>3, <2>1, <2>2, AddShredFacts DEF BatchWith, OpenerOf
<1> QED
  BY <1>2, <1>3

-----------------------------------------------------------------------------
(* What try_recover needs, and what it gives.                              *)

LEMMA CountType ==
  ASSUME NEW batch, WellFormed(batch)
  PROVE  /\ IsFiniteSet(batch.data_shreds) /\ IsFiniteSet(batch.code_shreds)
         /\ ReceivedCount(batch) \in Nat
<1>1. /\ 0 \in Int /\ batch.num_data - 1 \in Int /\ batch.num_code - 1 \in Int
      /\ batch.data_shreds \in SUBSET (0 .. batch.num_data - 1)
      /\ batch.code_shreds \in SUBSET (0 .. batch.num_code - 1)
  BY DEF WellFormed, FecBatches
<1>2. IsFiniteSet(0 .. batch.num_data - 1) /\ IsFiniteSet(0 .. batch.num_code - 1)
  BY <1>1, FS_Interval
<1>3. IsFiniteSet(batch.data_shreds) /\ IsFiniteSet(batch.code_shreds)
  BY <1>1, <1>2, FS_Subset
<1> QED
  BY <1>3, FS_CardinalityType DEF ReceivedCount

(* A batch is given back only with too few shreds, or where rows may fail  *)
(* to solve: more code than data positions, or over 128 data positions.    *)
LEMMA KeptFor ==
  ASSUME NEW batch, WellFormed(batch), NEW id \in ErasureSets, NULL \in TryRecover(batch, id)
  PROVE  \/ ReceivedCount(batch) < batch.num_data
         \/ batch.num_code > batch.num_data \/ batch.num_data > 128
<1>1. CASE ReceivedCount(batch) < batch.num_data
  BY <1>1
<1>2. CASE ~(ReceivedCount(batch) < batch.num_data)
  <2>1. NULL \in DecodeOutcomes(batch, id)
    <3>1. AllData(batch, id) # NULL
      BY FecNullAssumption DEF AllData, Outcomes
    <3> QED
      BY <1>2, <3>1 DEF TryRecover
  <2>2. \/ batch.num_data > 128
        \/ \E p \in CodeRows(batch) : ~(p < batch.num_data)
    <3>1. batch.num_data \in Nat
      BY DEF WellFormed, FecBatches
    <3>2. ~(/\ batch.num_data <= 128
            /\ \A p \in CodeRows(batch) : p < batch.num_data)
      BY <2>1, FecNullAssumption DEF DecodeOutcomes, Outcomes
    <3> QED
      BY <3>1, <3>2
  <2>3. CASE \E p \in batch.code_shreds : ~(p < batch.num_data)
    <3>1. PICK p \in batch.code_shreds : ~(p < batch.num_data)
      BY <2>3
    <3>2. /\ p \in 0 .. batch.num_code - 1
          /\ batch.num_code \in Nat /\ batch.num_data \in Nat
      BY DEF WellFormed, FecBatches
    <3> QED
      BY <3>1, <3>2
  <2> QED
    BY <2>2, <2>3 DEF CodeRows
<1> QED
  BY <1>1, <1>2

(* What is recovered comes from enough shreds, and is whole exactly if     *)
(* every place for data is filled and there are as many as the set has.    *)
LEMMA RecoveredAs ==
  ASSUME NEW batch, WellFormed(batch), NEW id \in ErasureSets,
         NEW out \in TryRecover(batch, id) \cap Outcomes
  PROVE  /\ ReceivedCount(batch) >= batch.num_data
         /\ out = "whole" <=> /\ Cardinality(batch.data_shreds) = batch.num_data
                               /\ batch.num_data = Dims[id].num_data
<1>1. ReceivedCount(batch) \in Nat /\ batch.num_data \in Nat
  BY CountType DEF WellFormed, FecBatches
<1>2. ~(ReceivedCount(batch) < batch.num_data)
  BY FecNullAssumption DEF TryRecover, Outcomes
<1>3. CASE Cardinality(batch.data_shreds) = batch.num_data
  BY <1>1, <1>2, <1>3 DEF TryRecover, AllData
<1>4. CASE Cardinality(batch.data_shreds) # batch.num_data
  <2>1. out \in DecodeOutcomes(batch, id)
    BY <1>2, <1>4 DEF TryRecover
  <2>2. out # NULL /\ out # "panic"
    BY FecNullAssumption DEF Outcomes
  <2>3. out = "garbled"
    BY <2>1, <2>2 DEF DecodeOutcomes
  <2> QED
    BY <1>1, <1>2, <1>4, <2>3
<1> QED
  BY <1>3, <1>4

(* Every place for data is filled exactly if all of the set's data shreds  *)
(* have arrived, in a batch of the set's dimensions.                       *)
LEMMA FilledWhenArrived ==
  ASSUME NEW id \in ErasureSets, NEW batch, WellFormed(batch),
         NEW from, NEW kind, BatchOrigin(id, batch, from, kind),
         batch.num_data = Dims[id].num_data
  PROVE  Cardinality(batch.data_shreds) = batch.num_data
           <=> {shred \in ShredsOf(id) : shred.kind = "data"} \subseteq from
<1> DEFINE Places == 0 .. batch.num_data - 1
           Data == {shred \in ShredsOf(id) : shred.kind = "data"}
<1>1. /\ batch.num_data \in Nat /\ batch.num_data \geq 1
      /\ batch.data_shreds \in SUBSET Places
  BY DEF WellFormed, FecBatches
<1>2. IsFiniteSet(Places) /\ Cardinality(Places) = batch.num_data
  BY <1>1, FS_Interval
<1>3. Data = {ShredAt(id, "data", p) : p \in Places}
  BY DEF ShredsOf, ShredAt
<1>4. ASSUME Cardinality(batch.data_shreds) = batch.num_data
      PROVE  Data \subseteq from
  <2>1. batch.data_shreds = Places
    BY <1>1, <1>2, <1>4, FS_Subset
  <2> QED
    BY <1>3, <2>1 DEF BatchOrigin
<1>5. ASSUME Data \subseteq from
      PROVE  Cardinality(batch.data_shreds) = batch.num_data
  <2>1. ASSUME NEW p \in Places PROVE p \in batch.data_shreds
    <3>1. ShredAt(id, "data", p) \in from /\ p < batch.num_data
      BY <1>1, <1>3, <1>5
    <3> QED
      BY <3>1 DEF BatchOrigin, ShredAt
  <2>2. batch.data_shreds = Places
    BY <1>1, <2>1
  <2> QED
    BY <1>2, <2>2
<1> QED
  BY <1>4, <1>5

-----------------------------------------------------------------------------
(* The step that processes a shred, and the theorems.                      *)

FecInv == TypeOK /\ Origin /\ RecoveredWhenEnough /\ WholeIffAllData

LEMMA InvKeep ==
  ASSUME FecInv, NEW shred \in Shreds, Keep(shred), UNCHANGED asked
  PROVE  FecInv'
<1> DEFINE id == shred.set
           batch == BatchWith(shred)
<1>1. /\ id \in ErasureSets /\ shred \in ShredsOf(id) /\ shred \in Shreds
      /\ TypeOK /\ Origin /\ RecoveredWhenEnough
  BY ShredFacts DEF FecInv
<1>2. WellFormed(batch) /\ BatchOrigin(id, batch, arrived[id] \cup {shred}, OpenerOf(shred))
  BY <1>1, BatchWithFacts
<1>3. \/ ReceivedCount(batch) < batch.num_data
      \/ batch.num_code > batch.num_data \/ batch.num_data > 128
  BY <1>1, <1>2, KeptFor DEF Keep
<1>4. /\ batches' = [batches EXCEPT ![id] = batch]
      /\ opener' = [opener EXCEPT ![id] = OpenerOf(shred)]
      /\ arrived' = [arrived EXCEPT ![id] = @ \cup {shred}]
      /\ last' = NULL /\ alive' = alive
  BY DEF Keep
<1> HIDE DEF batch, id
<1>5. /\ batches'[id] = batch /\ opener'[id] = OpenerOf(shred)
      /\ arrived'[id] = arrived[id] \cup {shred}
      /\ \A other \in ErasureSets \ {id} :
           /\ batches'[other] = batches[other] /\ opener'[other] = opener[other]
           /\ arrived'[other] = arrived[other]
  BY <1>1, <1>4 DEF TypeOK
<1>6. TypeOK'
  <2>1. batch \in FecBatches /\ OpenerOf(shred) \in Kinds
    BY <1>2 DEF WellFormed, BatchOrigin
  <2> QED
    BY <1>1, <1>2, <1>4, <1>5, <2>1 DEF TypeOK, WellFormed
<1>7. Origin'
  <2>1. batch # NULL
    BY <1>2, FecNullAssumption DEF WellFormed
  <2> QED
    BY <1>1, <1>2, <1>5, <2>1 DEF Origin
<1>8. RecoveredWhenEnough'
  BY <1>1, <1>3, <1>4, <1>5 DEF RecoveredWhenEnough
<1> QED
  BY <1>4, <1>6, <1>7, <1>8 DEF FecInv, WholeIffAllData

LEMMA InvRecover ==
  ASSUME FecInv, NEW shred \in Shreds, Recover(shred), UNCHANGED asked
  PROVE  FecInv'
<1> DEFINE id == shred.set
           batch == BatchWith(shred)
           from == arrived[id] \cup {shred}
<1>1. /\ id \in ErasureSets /\ shred \in ShredsOf(id)
      /\ TypeOK /\ Origin /\ RecoveredWhenEnough
  BY ShredFacts DEF FecInv
<1>2. WellFormed(batch) /\ BatchOrigin(id, batch, from, OpenerOf(shred))
  BY <1>1, BatchWithFacts
<1>3. PICK out \in TryRecover(batch, id) \cap Outcomes :
        last' = [set |-> id, opener |-> OpenerOf(shred), outcome |-> out, from |-> from]
  BY DEF Recover
<1>4. /\ batches' = [batches EXCEPT ![id] = NULL]
      /\ opener' = [opener EXCEPT ![id] = NULL]
      /\ arrived' = [arrived EXCEPT ![id] = {}]
      /\ alive' = alive
  BY DEF Recover
<1> HIDE DEF batch, id, from
<1>5. /\ batches'[id] = NULL /\ opener'[id] = NULL /\ arrived'[id] = {}
      /\ \A other \in ErasureSets \ {id} :
           /\ batches'[other] = batches[other] /\ opener'[other] = opener[other]
           /\ arrived'[other] = arrived[other]
  BY <1>1, <1>4 DEF TypeOK
<1>6. IsFiniteSet(from)
  <2>1. from \in SUBSET ShredsOf(id)
    BY <1>1 DEF TypeOK, from
  <2> QED
    BY <1>1, <2>1, ShredsFinite, FS_Subset
<1>7. /\ ReceivedCount(batch) \in Nat /\ Cardinality(from) \in Nat
      /\ ReceivedCount(batch) <= Cardinality(from)
  BY <1>2, <1>6, CountType, CountByKind, FS_CardinalityType DEF BatchOrigin, ReceivedCount
<1>8. /\ ReceivedCount(batch) >= batch.num_data
      /\ out = "whole" <=> /\ Cardinality(batch.data_shreds) = batch.num_data
                            /\ batch.num_data = Dims[id].num_data
  BY <1>1, <1>2, <1>3, RecoveredAs
<1>9. OpenerOf(shred) \in Kinds
  BY <1>2 DEF BatchOrigin
<1>10. last' \in Recoveries /\ last'.set = id /\ last'.opener = OpenerOf(shred)
       /\ last'.outcome = out /\ last'.from = from
  <2>1. from \in SUBSET Shreds
    BY <1>1 DEF TypeOK, from
  <2> QED
    BY <1>1, <1>3, <1>9, <2>1 DEF Recoveries
<1>11. TypeOK'
  BY <1>1, <1>4, <1>5, <1>10 DEF TypeOK
<1>12. Origin'
  BY <1>1, <1>5 DEF Origin
<1>13. RecoveredWhenEnough'
  <2>1. /\ NUM_DATA_SHREDS \in Nat /\ Dims[id].num_data \in Nat
        /\ batch.num_data \in {NUM_DATA_SHREDS, Dims[id].num_data}
    BY <1>1, <1>2, FecAssumption DEF BatchOrigin
  <2>2. /\ Min({NUM_DATA_SHREDS, Dims[id].num_data}) \in Nat
        /\ Min({NUM_DATA_SHREDS, Dims[id].num_data}) <= batch.num_data
    BY <2>1, MinOfTwo
  <2>3. Cardinality(last'.from) >= Min({NUM_DATA_SHREDS, Dims[last'.set].num_data})
    BY <1>7, <1>8, <1>10, <2>1, <2>2
  <2> QED
    BY <1>1, <1>5, <2>3 DEF RecoveredWhenEnough
<1>14. WholeIffAllData'
  <2>1. batch.num_data = Dims[id].num_data
          <=> OpenerOf(shred) = "code" \/ Dims[id].num_data = NUM_DATA_SHREDS
    BY <1>2 DEF BatchOrigin
  <2>2. batch.num_data = Dims[id].num_data =>
          (Cardinality(batch.data_shreds) = batch.num_data
             <=> {s \in ShredsOf(id) : s.kind = "data"} \subseteq from)
    BY <1>1, <1>2, FilledWhenArrived
  <2> QED
    BY <1>8, <1>10, <2>1, <2>2 DEF WholeIffAllData
<1> QED
  BY <1>11, <1>12, <1>13, <1>14 DEF FecInv

LEMMA InvNext ==
  ASSUME FecInv, [Next]_vars
  PROVE  FecInv'
<1>1. ASSUME NEW shred \in Shreds, Panic(shred), UNCHANGED asked PROVE FecInv'
  BY <1>1 DEF FecInv, Panic, TypeOK, Origin, RecoveredWhenEnough, WholeIffAllData
<1>2. CASE Restart
  <2>1. TypeOK'
    BY <1>2 DEF FecInv, Restart, TypeOK
  <2> QED
    BY <1>2, <2>1 DEF FecInv, Restart, Origin, RecoveredWhenEnough, WholeIffAllData
<1>3. CASE UNCHANGED vars
  BY <1>3 DEF FecInv, vars, TypeOK, Origin, RecoveredWhenEnough, WholeIffAllData
<1>4. CASE Poll \/ Unasked
  <2>1. asked' \in Slots \cup {NULL}
    BY <1>4 DEF Poll, Unasked
  <2>2. UNCHANGED <<batches, alive, arrived, opener, last>>
    BY <1>4 DEF Poll, Unasked
  <2> QED
    BY <2>1, <2>2 DEF FecInv, TypeOK, Origin, RecoveredWhenEnough, WholeIffAllData
<1>5. ASSUME NEW shred \in Shreds, Answer(shred) \/ Unsolicited(shred) PROVE FecInv'
  BY <1>1, <1>5, InvKeep, InvRecover DEF Answer, Unsolicited, ProcessShred
<1> QED
  BY <1>2, <1>3, <1>4, <1>5 DEF Next

LEMMA Invariance == Spec => []FecInv
<1>1. Init => FecInv
  BY DEF Init, FecInv, TypeOK, Origin, RecoveredWhenEnough, WholeIffAllData
<1> QED
  BY <1>1, InvNext, PTL DEF Spec

(* A batch holds only positions it has room for, whatever dimensions its   *)
(* first shred gave it (add_data_shred and add_code_shred of fec_batch.rs).*)
THEOREM TypeCorrect == Spec => []TypeOK
BY Invariance, PTL DEF FecInv

(* try_recover acts on enough different shreds of the batch, no sooner and *)
(* no later: repeated shreds never count twice and none are left waiting.  *)
THEOREM RecoverySafe == Spec => []RecoveredWhenEnough
BY Invariance, PTL DEF FecInv

(* What try_recover returns is the leader's data exactly when all data     *)
(* shreds of the set came, in any order and mixed with any code shreds, to *)
(* a batch whose first shred gave it the set's dimensions (process_shred,  *)
(* or_insert_with): a code shred never stands in for a data shred.         *)
THEOREM RecoveredWhole == Spec => []WholeIffAllData
BY Invariance, PTL DEF FecInv
=============================================================================
