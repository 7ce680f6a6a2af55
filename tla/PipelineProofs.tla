--------------------------- MODULE PipelineProofs ---------------------------
(***************************************************************************)
(* What the node promises its RPC clients, for every choice of erasure     *)
(* sets, ring capacity, clients and bounds, across every interleaving of   *)
(* the main task with the handlers, failed saves and restarts.             *)
(***************************************************************************)
EXTENDS Pipeline, DataLemmas

-----------------------------------------------------------------------------
(* The ring.                                                               *)

(* Every slot has a cell (slot % capacity is a valid index).               *)
LEMMA CellInRange ==
  ASSUME NEW s \in Nat
  PROVE  CellOf(s) \in Cells
BY CapacityAssumption DEF CellOf, Cells

(* A lookup hits exactly when the slot is in the window and its cell holds *)
(* it, and then returns the cell.                                          *)
LEMMA GetHit ==
  ASSUME NEW r, NEW s, RingGet(r, s) # NULL
  PROVE  /\ ~(s < r.head) /\ ~(s >= r.tail)
         /\ r.slots[CellOf(s)] # NULL
         /\ r.slots[CellOf(s)].slot = s
         /\ RingGet(r, s) = r.slots[CellOf(s)]
BY DEF RingGet

(* The fields of a ring after a put.                                       *)
LEMMA PutEffect ==
  ASSUME NEW D, NEW r \in Rings(D),
         NEW data \in D, data.slot \in Nat, NEW q, q = RingPut(r, data)
  PROVE  /\ q \in Rings(D)
         /\ q.head >= r.head /\ q.tail >= r.tail /\ data.slot < q.tail
         /\ \A i \in Cells : q.slots[i] = IF i = CellOf(data.slot) THEN data ELSE r.slots[i]
<1>1. Capacity \in Nat /\ Capacity > 0 /\ CellOf(data.slot) \in Cells
  BY CapacityAssumption, CellInRange
<1>2. r.slots \in [Cells -> D] /\ r.head \in Nat /\ r.tail \in Nat
  BY DEF Rings
<1> QED
  BY <1>1, <1>2 DEF RingPut, Rings

(* After a put, another slot is found only if it was before, and then the  *)
(* same block is: moving the window never uncovers anything.               *)
LEMMA PutUncoversNothing ==
  ASSUME NEW D, NEW r \in Rings(D),
         \A i \in Cells : r.slots[i] # NULL =>
           r.slots[i].slot \in Nat /\ r.slots[i].slot < r.tail,
         NEW data \in D, data.slot \in Nat, NEW q, q = RingPut(r, data),
         NEW s \in Nat, s # data.slot, RingGet(q, s) # NULL
  PROVE  RingGet(q, s) = RingGet(r, s)
<1>0. /\ q \in Rings(D) /\ q.head >= r.head
      /\ \A i \in Cells : q.slots[i] = IF i = CellOf(data.slot) THEN data ELSE r.slots[i]
  BY PutEffect
<1>1. /\ q.head \in Nat /\ q.tail \in Nat /\ r.head \in Nat /\ r.tail \in Nat
      /\ q.head >= r.head
      /\ \A i \in Cells : q.slots[i] = IF i = CellOf(data.slot) THEN data ELSE r.slots[i]
  BY <1>0 DEF Rings
<1>2. /\ ~(s < q.head) /\ q.slots[CellOf(s)] # NULL /\ q.slots[CellOf(s)].slot = s
      /\ RingGet(q, s) = q.slots[CellOf(s)]
  BY GetHit
<1>3. q.slots[CellOf(s)] = r.slots[CellOf(s)] /\ CellOf(s) \in Cells
  BY <1>1, <1>2, CellInRange
<1>4. s < r.tail /\ ~(s < r.head)
  BY <1>1, <1>2, <1>3
<1>5. RingGet(r, s) = r.slots[CellOf(s)]
  BY <1>1, <1>2, <1>3, <1>4 DEF RingGet
<1> QED
  BY <1>2, <1>3, <1>5

-----------------------------------------------------------------------------
(* The inductive invariant.                                                *)

(* A file, or a block of the main task or the ring, is in full one of the  *)
(* blocks recovered of its slot; whole, it has all its set's transactions. *)
FileGood(slot, file, known) ==
  /\ file \in known /\ file \in MayBeMade(slot)
  /\ file.set.slot = slot
  /\ file.txs # NoEntries
  /\ file.whole => file.txs = TxCount[file.set]

GoodBlock(data, known) ==
  /\ FileGood(data.slot, FileOf(data), known)
  /\ data.parent_slot \in {0, TrueParent[data.set]}

BatchesGood ==
  \A id \in ErasureSets : batches[id] # NULL =>
    batches[id].parent_slot \in {0, TrueParent[id]}

BlockGood == block # NULL => GoodBlock(block, made)

RingGood ==
  \A i \in Cells : ring.slots[i] # NULL =>
    GoodBlock(ring.slots[i], made) /\ ring.slots[i].slot < ring.tail

(* Nothing but a write that was cut short leaves a file that is not one    *)
(* recovered, or one that is missing from the index.                       *)
FilesGood ==
  \A s \in StoreSlots \ torn : store.disk[s] # NULL =>
    s \in store.index /\ FileGood(s, store.disk[s], made)

(* Between the two writes the ring is ahead of the disk for one slot only, *)
(* with the block under way.                                               *)
SavedIsHot == pc = "save" => RingGet(ring, block.slot) \in {NULL, block}

(* A slot is made known only after its file was written or the write       *)
(* failed, and stays in the index from then on.                            *)
Announced ==
  /\ pc \in {"publish", "count"} => block.slot \in store.index \cup torn
  /\ stats.latest_slot \in store.index \cup torn \cup {0}
  /\ \A c \in Clients : told[c] \in store.index \cup torn \cup {0}

StatsSettled == ~statsLocked => stats = settled

(* The block a handler keeps while it waits for the second lookup.         *)
LoadedGood ==
  \A c \in Clients : rpc[c].at = "parent" /\ rpc[c].slot \notin torn =>
    FileGood(rpc[c].slot, rpc[c].file, made)

(* What is claimed of an answer: the three properties of the answers, for  *)
(* one of them, when these blocks were recovered, these slots have torn    *)
(* writes and its client was told that slot.                               *)
BlockMethods == {"getBlock", "getProof", "getTransactionByIndex"}

ServedGood(a, known) ==
  /\ a.file \in known /\ a.file.set.slot = a.slot
  /\ a.file.whole => a.file.txs = TxCount[a.file.set]
  /\ a.method = "getBlock" =>
       \/ a.body.parent \in {0, a.slot - 1}
       \/ \E id \in ErasureSets : id.slot = a.slot /\ a.body.parent = TrueParent[id]
  /\ a.method = "getTransactionByIndex" =>
       \E i \in 1 .. a.file.txs :
         a.body.transaction = RawTxs(a.file)[i] /\ RawTxs(a.file)[i] \notin Opaque

OutOfRange(a, known) ==
  \E file \in known : file.set.slot = a.slot /\ a.index + Cardinality(Opaque) >= file.txs

WithoutTransactions(slot, known) ==
  \E file \in known : file.set.slot = slot /\ file.txs = 0

GoodAnswer(a, known, tornSlots, toldSlot) == a # NULL =>
  /\ a.method = "stats" => a.stats = a.settled
  /\ a.method \in BlockMethods /\ a.slot \notin tornSlots =>
       /\ a.error = NULL => ServedGood(a, known)
       /\ a.error = "index" => OutOfRange(a, known)
       /\ a.error = "slot" /\ a.slot = toldSlot => WithoutTransactions(a.slot, known)

AnswersGood == \A c \in Clients : GoodAnswer(ans[c], made, torn, told[c])

NodeInv == /\ BatchesGood /\ BlockGood /\ RingGood /\ FilesGood /\ SavedIsHot
           /\ Announced /\ StatsSettled /\ HotColdAgree
-----------------------------------------------------------------------------
(* The constants.                                                          *)

LEMMA SlotFacts ==
  ASSUME NEW s \in StoreSlots
  PROVE  s \in Nat /\ s > 0 /\ s # 0
BY PipelineAssumption, FecAssumption

LEMMA SetFacts ==
  ASSUME NEW id \in ErasureSets
  PROVE  /\ id.slot \in StoreSlots
         /\ TxCount[id] \in Nat \cup {NoEntries}
         /\ TrueParent[id] \in Nat
BY PipelineAssumption, FecAssumption

LEMMA NullFacts ==
  /\ NULL \notin Files /\ NULL \notin SlotDatas /\ NULL \notin Shreds /\ NULL \notin FecBatches
  /\ NULL \notin Outcomes
  /\ NULL # "slot" /\ NULL # "index" /\ NULL # "none"
BY PipelineNullAssumption, FecNullAssumption

LEMMA ShredFacts ==
  ASSUME NEW shred \in Shreds
  PROVE  shred.set \in ErasureSets /\ shred.kind \in {"data", "code"} /\ shred.pos \in Nat
<1>1. PICK id \in ErasureSets : shred \in ShredsOf(id)
  BY DEF Shreds
<1>2. Dims[id].num_data \in Nat /\ Dims[id].num_code \in Nat
  BY FecAssumption
<1> QED
  BY <1>1, <1>2 DEF ShredsOf

-----------------------------------------------------------------------------
(* Batches.                                                                *)

(* The batch a shred is added to is a batch, and its parent the set's or   *)
(* none.                                                                   *)
LEMMA BatchWithFacts ==
  ASSUME TypeOK, BatchesGood, cur \in Shreds
  PROVE  /\ BatchWith(cur) \in FecBatches
         /\ BatchWith(cur).parent_slot \in {0, TrueParent[cur.set]}
<1> DEFINE id == cur.set
           old == IF batches[id] = NULL THEN OpenBatch(cur) ELSE batches[id]
           Good(b) == b \in FecBatches /\ b.parent_slot \in {0, TrueParent[id]}
<1>1. id \in ErasureSets /\ cur.kind \in {"data", "code"} /\ cur.pos \in Nat
  BY ShredFacts
<1>2. /\ TrueParent[id] \in Nat
      /\ Dims[id].num_data \in Nat \ {0} /\ Dims[id].num_code \in Nat
  BY <1>1, SetFacts, FecAssumption
<1>3. NUM_DATA_SHREDS \in Nat \ {0} /\ NUM_CODE_SHREDS \in Nat
  BY FecAssumption
<1>4. Good(old)
  <2>1. CASE batches[id] = NULL
    <3>1. \E nd \in Nat \ {0}, nc \in Nat : old = FecBatchNew(nd, nc)
      BY <1>2, <1>3, <2>1 DEF OpenBatch
    <3> QED
      BY <3>1 DEF FecBatchNew, FecBatches
  <2>2. CASE batches[id] # NULL
    BY <1>1, <2>2 DEF TypeOK, BatchesGood
  <2> QED
    BY <2>1, <2>2
<1>5. BatchWith(cur) = AddShred(old, cur)
  BY DEF BatchWith
<1> HIDE DEF old
<1>6. Good(AddDataShred(old, cur.pos)) /\ Good(AddCodeShred(old, cur.pos))
  BY <1>1, <1>4 DEF AddDataShred, AddCodeShred, FecBatches
<1>7. Good(SetParent(AddDataShred(old, cur.pos), id))
  <2> DEFINE b == AddDataShred(old, cur.pos)
  <2>1. Good(b)
    BY <1>6
  <2> HIDE DEF b
  <2>2. Good(SetParent(b, id))
    BY <1>2, <2>1 DEF SetParent, FecBatches
  <2> QED
    BY <2>2 DEF b
<1>8. Good(AddShred(old, cur))
  BY <1>6, <1>7 DEF AddShred
<1> QED
  BY <1>5, <1>8

-----------------------------------------------------------------------------
(* The file store.                                                         *)

(* What a save, whole or cut short, does to the files.                     *)
LEMMA SaveFacts ==
  ASSUME NEW st \in Stores, NEW slot \in StoreSlots, NEW file \in Files,
         NEW left, left = SaveSlot(st, slot, file)
  PROVE  /\ left \in Stores /\ left.index = st.index \cup {slot}
         /\ left.disk[slot] = file
         /\ \A s \in StoreSlots \ {slot} : left.disk[s] = st.disk[s]
         /\ DatFiles(left) = DatFiles(st) \cup {slot}
<1>1. /\ left \in Stores /\ left.index = st.index \cup {slot}
      /\ left.disk[slot] = file
      /\ \A s \in StoreSlots \ {slot} : left.disk[s] = st.disk[s]
  BY DEF SaveSlot, Stores
<1>2. file # NULL
  BY NullFacts
<1> QED
  BY <1>1, <1>2 DEF DatFiles

LEMMA PartialFacts ==
  ASSUME NEW st \in Stores, NEW slot \in StoreSlots, NEW file \in Files,
         NEW left \in PartialSaves(st, slot, file)
  PROVE  /\ left \in Stores /\ left.index = st.index
         /\ \A s \in StoreSlots \ {slot} : left.disk[s] = st.disk[s]
         /\ DatFiles(st) \subseteq DatFiles(left)
         /\ DatFiles(left) \subseteq DatFiles(st) \cup {slot}
<1>1. CASE left = st
  BY <1>1
<1>2. CASE \E f \in Truncations(file) \cup {file} : left = [st EXCEPT !.disk[slot] = f]
  <2>1. PICK f \in Truncations(file) \cup {file} : left = [st EXCEPT !.disk[slot] = f]
    BY <1>2
  <2>2. f \in Files
    <3>1. \A n \in NoEntries .. file.txs - 1 : n \in Nat \cup {NoEntries}
      BY DEF Files, NoEntries
    <3> QED
      BY <3>1 DEF Truncations, Files
  <2>3. /\ left \in Stores /\ left.index = st.index
        /\ left.disk[slot] = f
        /\ \A s \in StoreSlots \ {slot} : left.disk[s] = st.disk[s]
    BY <2>1, <2>2 DEF Stores
  <2>4. f # NULL
    BY <2>2, NullFacts
  <2> QED
    BY <2>3, <2>4 DEF DatFiles
<1> QED
  BY <1>1, <1>2 DEF PartialSaves

(* The files stay finitely many.                                           *)
LEMMA OneMoreFile ==
  ASSUME NEW S, IsFiniteSet(S), NEW s, NEW T, T \subseteq S \cup {s}
  PROVE  IsFiniteSet(T)
BY FS_AddElement, FS_Subset

-----------------------------------------------------------------------------
(* The initial state.                                                      *)

(* An empty ring finds nothing.                                            *)
LEMMA RingNewFacts ==
  /\ RingNew \in Rings(SlotDatas \cup {NULL})
  /\ \A i \in Cells : RingNew.slots[i] = NULL
  /\ \A s \in StoreSlots : RingGet(RingNew, s) = NULL
<1>1. RingNew = [slots |-> [i \in Cells |-> NULL], head |-> 0, tail |-> 0]
  BY DEF RingNew
<1>2. RingNew \in Rings(SlotDatas \cup {NULL}) /\ \A i \in Cells : RingNew.slots[i] = NULL
  BY <1>1 DEF Rings
<1>3. ASSUME NEW s \in StoreSlots PROVE RingGet(RingNew, s) = NULL
  <2>1. CellOf(s) \in Cells
    BY SlotFacts, CellInRange
  <2> QED
    BY <1>2, <2>1 DEF RingGet
<1> QED
  BY <1>2, <1>3

LEMMA NoStatsFacts == NoStats \in Snapshots
BY DEF NoStats, Snapshots

LEMMA InitInv == Init => TypeOK /\ NodeInv /\ LoadedGood
<1> SUFFICES ASSUME Init PROVE TypeOK /\ NodeInv /\ LoadedGood
  OBVIOUS
<1>1. /\ store \in Stores /\ store.index = {} /\ DatFiles(store) = {}
      /\ \A s \in StoreSlots : store.disk[s] = NULL
  BY DEF Init, FileStoreNew, Stores, DatFiles
<1>2. IsFiniteSet(DatFiles(store))
  BY <1>1, FS_EmptySet
<1>3. rpc \in [Clients -> Pending] /\ told \in [Clients -> StoreSlots \cup {0}]
  BY DEF Init, Pending
<1>4. TypeOK
  BY <1>1, <1>2, <1>3, RingNewFacts, NoStatsFacts DEF Init, TypeOK
<1>5. BatchesGood /\ BlockGood /\ SavedIsHot /\ StatsSettled
  BY DEF Init, BatchesGood, BlockGood, SavedIsHot, StatsSettled
<1>6. RingGood /\ HotColdAgree
  BY RingNewFacts DEF Init, RingGood, HotColdAgree
<1>7. FilesGood /\ Announced
  BY <1>1 DEF Init, FilesGood, Announced, NoStats
<1>8. LoadedGood
  BY DEF Init, LoadedGood, Idle
<1> QED
  BY <1>4, <1>5, <1>6, <1>7, <1>8 DEF NodeInv

-----------------------------------------------------------------------------
(* The main task.                                                          *)

LEMMA ReceiveShredStep ==
  ASSUME TypeOK, NodeInv, NEW shred \in Shreds, ReceiveShred(shred)
  PROVE  TypeOK' /\ NodeInv'
<1> USE DEF ReceiveShred
<1>1. TypeOK'
  BY NullFacts DEF TypeOK, history, clientVars, DatFiles
<1>2. NodeInv'
  BY DEF NodeInv, BatchesGood, BlockGood, RingGood, FilesGood, SavedIsHot, Announced,
         StatsSettled, HotColdAgree, history, clientVars, TypeOK
<1> QED
  BY <1>1, <1>2

(* The block of a recovered batch is one of those that may be recovered.   *)
LEMMA RecoveredIsGood ==
  ASSUME NEW id \in ErasureSets, NEW batch \in FecBatches,
         batch.parent_slot \in {0, TrueParent[id]},
         NEW out \in Outcomes, NEW n \in TxsFound(out, id) \ {NoEntries},
         NEW data, data = SlotDataOf(id, batch, out, n)
  PROVE  /\ data \in SlotDatas /\ GoodBlock(data, {FileOf(data)})
         /\ FileOf(data) \in Files
<1>1. id.slot \in StoreSlots /\ TxCount[id] \in Nat \cup {NoEntries}
  BY SetFacts
<1> DEFINE w == (out = "whole")
           file == [set |-> id, whole |-> w, txs |-> n]
<1>2. n \in Nat /\ w \in BOOLEAN /\ (w => n = TxCount[id])
  <2>1. TxsFound(out, id) \subseteq Nat \cup {NoEntries}
    BY <1>1, PipelineAssumption DEF TxsFound, Outcomes, NoEntries
  <2> QED
    BY <2>1 DEF TxsFound
<1>3. file \in MayBeMade(id.slot)
  <2> DEFINE M(i, o) == {[set |-> i, whole |-> o = "whole", txs |-> m] :
                           m \in TxsFound(o, i) \ {NoEntries}}
  <2>1. file \in M(id, out)
    OBVIOUS
  <2>2. MayBeMade(id.slot) =
          UNION {M(i, o) : i \in {e \in ErasureSets : e.slot = id.slot}, o \in Outcomes}
    BY DEF MayBeMade
  <2> HIDE DEF M, file
  <2> QED
    BY <2>1, <2>2
<1>4. data = [slot |-> id.slot, parent_slot |-> batch.parent_slot, set |-> id, whole |-> w,
              txs |-> n]
  BY DEF SlotDataOf
<1> HIDE DEF w
<1>5. /\ data.slot = id.slot /\ data.parent_slot = batch.parent_slot /\ data.set = id
      /\ data \in SlotDatas /\ FileOf(data) = file
  BY <1>1, <1>2, <1>4 DEF SlotDatas, FecBatches, FileOf
<1>6. /\ file \in Files /\ file.set = id /\ file.txs # NoEntries
      /\ file.whole => file.txs = TxCount[id]
  BY <1>2 DEF Files, NoEntries
<1> HIDE DEF file
<1> QED
  BY <1>3, <1>5, <1>6 DEF GoodBlock, FileGood

(* What was recovered stays recovered.                                     *)
LEMMA StaysGood ==
  ASSUME NEW known, NEW more, known \subseteq more
  PROVE  /\ \A slot, file : FileGood(slot, file, known) => FileGood(slot, file, more)
         /\ \A data : GoodBlock(data, known) => GoodBlock(data, more)
BY DEF FileGood, GoodBlock

LEMMA AddAndRecoverStep ==
  ASSUME TypeOK, NodeInv, AddAndRecover
  PROVE  TypeOK' /\ NodeInv'
<1> DEFINE id == cur.set
           batch == BatchWith(cur)
<1>1. cur \in Shreds /\ id \in ErasureSets /\ pc = "shred" /\ block = NULL
  BY ShredFacts DEF TypeOK, AddAndRecover
<1>2. batch \in FecBatches /\ batch.parent_slot \in {0, TrueParent[id]}
  BY <1>1, BatchWithFacts DEF NodeInv
<1>3. \/ /\ pc' = "put" /\ UNCHANGED cur
         /\ \E out \in Outcomes : \E n \in TxsFound(out, id) \ {NoEntries} :
              block' = SlotDataOf(id, batch, out, n)
         /\ made' = made \cup {FileOf(block')}
         /\ batches' = [batches EXCEPT ![id] = batch]
      \/ /\ pc' = "recv" /\ cur' = NULL /\ UNCHANGED <<block, made>>
         /\ \E b \in {batch, NULL} : batches' = [batches EXCEPT ![id] = b]
  BY DEF AddAndRecover
<1> HIDE DEF batch
<1>4. \/ /\ pc' = "put" /\ UNCHANGED cur /\ made' = made \cup {FileOf(block')}
         /\ block' \in SlotDatas /\ GoodBlock(block', made') /\ FileOf(block') \in Files
      \/ pc' = "recv" /\ cur' = NULL /\ UNCHANGED <<block, made>>
  <2>1. ASSUME NEW out \in Outcomes, NEW n \in TxsFound(out, id) \ {NoEntries},
               block' = SlotDataOf(id, batch, out, n), made' = made \cup {FileOf(block')}
        PROVE  block' \in SlotDatas /\ GoodBlock(block', made') /\ FileOf(block') \in Files
    <3>1. block' \in SlotDatas /\ GoodBlock(block', {FileOf(block')}) /\ FileOf(block') \in Files
      BY <1>1, <1>2, <2>1, RecoveredIsGood
    <3> QED
      BY <2>1, <3>1, StaysGood
  <2> QED
    BY <1>3, <2>1
<1>5. batches \in [ErasureSets -> FecBatches \cup {NULL}]
  BY DEF TypeOK
<1>6. batches' \in [ErasureSets -> FecBatches \cup {NULL}] /\ BatchesGood'
  BY <1>1, <1>2, <1>3, <1>5 DEF NodeInv, BatchesGood
<1>7. UNCHANGED <<ring, store, stats, statsLocked, rpc, ans, crashes, failures, settled, torn, told>>
  BY DEF AddAndRecover, clientVars
<1>8. /\ pc' \in {"recv", "put"} /\ made' \subseteq Files /\ made \subseteq made'
      /\ cur' \in Shreds \cup {NULL} /\ (cur' = NULL) = (pc' = "recv")
      /\ block' \in SlotDatas \cup {NULL} /\ (block' = NULL) = (pc' \in {"recv", "shred"})
      /\ BlockGood'
  BY <1>1, <1>4, NullFacts DEF BlockGood, TypeOK
<1>9. TypeOK'
  BY <1>1, <1>6, <1>7, <1>8 DEF TypeOK, DatFiles
<1>10. RingGood' /\ FilesGood'
  BY <1>7, <1>8, StaysGood DEF NodeInv, RingGood, FilesGood
<1>11. (SavedIsHot /\ Announced /\ StatsSettled /\ HotColdAgree)'
  BY <1>1, <1>7, <1>8 DEF NodeInv, SavedIsHot, Announced, StatsSettled, HotColdAgree
<1> QED
  BY <1>6, <1>8, <1>9, <1>10, <1>11 DEF NodeInv

(* The main task's block while it has one.                                 *)
LEMMA BlockFacts ==
  ASSUME TypeOK, NodeInv, pc \in {"put", "save", "publish", "count"}
  PROVE  /\ block \in SlotDatas /\ block # NULL /\ GoodBlock(block, made)
         /\ block.slot \in StoreSlots /\ block.slot \in Nat
         /\ FileOf(block) \in Files /\ FileGood(block.slot, FileOf(block), made)
         /\ cur \in Shreds /\ cur.set \in ErasureSets
<1>1. block \in SlotDatas /\ block # NULL /\ GoodBlock(block, made) /\ cur \in Shreds
  BY DEF TypeOK, NodeInv, BlockGood
<1>2. block.slot \in StoreSlots /\ block.txs \in Nat /\ block.set \in ErasureSets
  BY <1>1 DEF SlotDatas
<1>3. FileOf(block) \in Files /\ FileGood(block.slot, FileOf(block), made)
  BY <1>1, <1>2 DEF FileOf, Files, GoodBlock, SlotDatas
<1> QED
  BY <1>1, <1>2, <1>3, SlotFacts, ShredFacts

LEMMA PutRingStep ==
  ASSUME TypeOK, NodeInv, PutRing
  PROVE  TypeOK' /\ NodeInv'
<1>1. /\ block \in SlotDatas /\ GoodBlock(block, made) /\ block # NULL
      /\ block.slot \in StoreSlots /\ block.slot \in Nat
  BY BlockFacts DEF PutRing
<1>2. ring \in Rings(SlotDatas \cup {NULL}) /\ RingGood
  BY DEF TypeOK, NodeInv
<1>3. ring' = RingPut(ring, block)
  BY DEF PutRing
<1>4. /\ ring' \in Rings(SlotDatas \cup {NULL})
      /\ ring'.tail >= ring.tail /\ block.slot < ring'.tail
      /\ \A i \in Cells : ring'.slots[i] = IF i = CellOf(block.slot) THEN block ELSE ring.slots[i]
  BY <1>1, <1>2, <1>3, PutEffect
<1>5. \A i \in Cells : ring.slots[i] # NULL =>
        ring.slots[i].slot \in Nat /\ ring.slots[i].slot < ring.tail
  BY <1>2, SlotFacts DEF Rings, RingGood, SlotDatas
<1>6. UNCHANGED <<cur, block, batches, store, stats, statsLocked, rpc, ans, crashes, failures,
                  settled, made, torn, told>> /\ pc = "put" /\ pc' = "save"
  BY DEF PutRing, history, clientVars
<1>7. TypeOK'
  BY <1>4, <1>6 DEF TypeOK, DatFiles
<1>8. RingGood'
  <2> SUFFICES ASSUME NEW i \in Cells, ring'.slots[i] # NULL
               PROVE  GoodBlock(ring'.slots[i], made') /\ ring'.slots[i].slot < ring'.tail
    BY DEF RingGood
  <2>1. ring.tail \in Nat /\ ring'.tail \in Nat
    BY <1>2, <1>4 DEF Rings
  <2>2. CASE i = CellOf(block.slot)
    BY <1>1, <1>4, <1>6, <2>2
  <2>3. CASE i # CellOf(block.slot)
    BY <1>2, <1>4, <1>5, <1>6, <2>1, <2>3 DEF RingGood
  <2> QED
    BY <2>2, <2>3
<1>9. SavedIsHot'
  <2>1. CellOf(block.slot) \in Cells
    BY <1>1, CellInRange
  <2> QED
    BY <1>4, <1>6, <2>1, GetHit DEF SavedIsHot
<1>10. HotColdAgree'
  <2> SUFFICES ASSUME NEW s \in StoreSlots \ torn, RingGet(ring', s) # NULL, s # block.slot
               PROVE  LoadSlot(store, s) = FileOf(RingGet(ring', s))
    BY <1>6 DEF HotColdAgree
  <2>1. RingGet(ring', s) = RingGet(ring, s)
    BY <1>1, <1>2, <1>3, <1>5, SlotFacts, PutUncoversNothing
  <2> QED
    BY <1>6, <2>1 DEF NodeInv, HotColdAgree
<1>11. (BatchesGood /\ BlockGood /\ FilesGood /\ Announced /\ StatsSettled)'
  BY <1>6 DEF NodeInv, BatchesGood, BlockGood, FilesGood, Announced, StatsSettled
<1> QED
  BY <1>7, <1>8, <1>9, <1>10, <1>11 DEF NodeInv

LEMMA SaveFileStep ==
  ASSUME TypeOK, NodeInv, SaveFile
  PROVE  TypeOK' /\ NodeInv'
<1> DEFINE slot == block.slot
<1>1. /\ slot \in StoreSlots /\ FileOf(block) \in Files /\ FileGood(slot, FileOf(block), made)
      /\ block # NULL
  BY BlockFacts DEF SaveFile
<1>2. /\ store' \in Stores /\ store'.index = store.index \cup {slot}
      /\ store'.disk[slot] = FileOf(block)
      /\ \A s \in StoreSlots \ {slot} : store'.disk[s] = store.disk[s]
      /\ DatFiles(store') = DatFiles(store) \cup {slot}
  BY <1>1, SaveFacts DEF SaveFile, TypeOK
<1>3. UNCHANGED <<cur, block, batches, ring, stats, statsLocked, rpc, ans, crashes, failures,
                  settled, made, torn, told>> /\ pc = "save" /\ pc' = "publish"
  BY DEF SaveFile, history, clientVars
<1>4. TypeOK'
  <2>1. IsFiniteSet(DatFiles(store'))
    BY <1>2, OneMoreFile DEF TypeOK
  <2> QED
    BY <1>2, <1>3, <2>1 DEF TypeOK
<1>5. FilesGood' /\ Announced'
  BY <1>1, <1>2, <1>3 DEF NodeInv, FilesGood, Announced
<1>6. HotColdAgree'
  <2> SUFFICES ASSUME NEW s \in StoreSlots \ torn, RingGet(ring, s) # NULL
               PROVE  LoadSlot(store', s) = FileOf(RingGet(ring, s))
    BY <1>3 DEF HotColdAgree
  <2>1. CASE s = slot
    BY <1>2, <1>3, <2>1 DEF NodeInv, SavedIsHot, LoadSlot
  <2>2. CASE s # slot
    <3>1. LoadSlot(store, s) = FileOf(RingGet(ring, s))
      BY <2>2 DEF NodeInv, HotColdAgree
    <3> QED
      BY <1>2, <2>2, <3>1 DEF LoadSlot
  <2> QED
    BY <2>1, <2>2
<1>7. (BatchesGood /\ BlockGood /\ RingGood /\ SavedIsHot /\ StatsSettled)'
  BY <1>3 DEF NodeInv, BatchesGood, BlockGood, RingGood, SavedIsHot, StatsSettled
<1> QED
  BY <1>4, <1>5, <1>6, <1>7 DEF NodeInv

LEMMA SaveFileFailsStep ==
  ASSUME TypeOK, NodeInv, SaveFileFails
  PROVE  TypeOK' /\ NodeInv'
<1> DEFINE slot == block.slot
<1>1. slot \in StoreSlots /\ FileOf(block) \in Files /\ block # NULL
  BY BlockFacts DEF SaveFileFails
<1>2. /\ store' \in Stores /\ store'.index = store.index
      /\ \A s \in StoreSlots \ {slot} : store'.disk[s] = store.disk[s]
      /\ DatFiles(store) \subseteq DatFiles(store')
      /\ DatFiles(store') \subseteq DatFiles(store) \cup {slot}
  BY <1>1, PartialFacts DEF SaveFileFails, TypeOK
<1>3. /\ UNCHANGED <<cur, block, batches, ring, stats, statsLocked, rpc, ans, crashes, settled, made, told>>
      /\ pc = "save" /\ pc' = "publish" /\ torn' = torn \cup {slot} /\ failures' = failures + 1
  BY DEF SaveFileFails, clientVars
<1>4. TypeOK'
  <2>1. IsFiniteSet(DatFiles(store'))
    BY <1>2, OneMoreFile DEF TypeOK
  <2>2. failures' \in Nat /\ torn' \subseteq StoreSlots
    BY <1>1, <1>3 DEF TypeOK
  <2> QED
    BY <1>2, <1>3, <2>1, <2>2 DEF TypeOK
<1>5. FilesGood' /\ Announced'
  BY <1>1, <1>2, <1>3 DEF NodeInv, FilesGood, Announced
<1>6. HotColdAgree'
  <2> SUFFICES ASSUME NEW s \in StoreSlots \ torn', RingGet(ring, s) # NULL
               PROVE  LoadSlot(store', s) = FileOf(RingGet(ring, s))
    BY <1>3 DEF HotColdAgree
  <2>1. LoadSlot(store, s) = FileOf(RingGet(ring, s))
    BY <1>3 DEF NodeInv, HotColdAgree
  <2> QED
    BY <1>2, <1>3, <2>1 DEF LoadSlot
<1>7. (BatchesGood /\ BlockGood /\ RingGood /\ SavedIsHot /\ StatsSettled)'
  BY <1>3 DEF NodeInv, BatchesGood, BlockGood, RingGood, SavedIsHot, StatsSettled
<1> QED
  BY <1>4, <1>5, <1>6, <1>7 DEF NodeInv

LEMMA PublishStep ==
  ASSUME TypeOK, NodeInv, Publish
  PROVE  TypeOK' /\ NodeInv'
<1>1. block.slot \in StoreSlots /\ FileOf(block) \in Files /\ block # NULL
  BY BlockFacts DEF Publish
<1>2. /\ UNCHANGED <<cur, block, batches, ring, store, rpc, ans, crashes, failures, settled, made, torn, told>>
      /\ pc = "publish" /\ pc' = "count" /\ statsLocked' = TRUE
  BY DEF Publish, clientVars, history
<1>3. stats' \in Snapshots /\ stats'.latest_slot = block.slot
  <2> DEFINE file == FileOf(block)
             slot == block.slot
             n == stats.total + 1
  <2>1. stats' = [stats EXCEPT !.total = n, !.latest_slot = slot, !.latest = file]
    BY DEF Publish
  <2>2. file \in Files /\ slot \in StoreSlots /\ n \in Nat /\ stats \in Snapshots
    BY <1>1 DEF TypeOK, Snapshots
  <2> HIDE DEF n, slot, file
  <2>3. stats' \in Snapshots /\ stats'.latest_slot = slot
    BY <2>1, <2>2 DEF Snapshots
  <2> QED
    BY <2>3 DEF slot
<1>4. TypeOK'
  <2>1. statsLocked' = (pc' = "count")
    BY <1>2
  <2> QED
    BY <1>1, <1>2, <1>3, <2>1 DEF TypeOK, DatFiles
<1>5. Announced'
  BY <1>2, <1>3 DEF NodeInv, Announced
<1>6. (BatchesGood /\ BlockGood /\ RingGood /\ FilesGood /\ SavedIsHot /\ StatsSettled
         /\ HotColdAgree)'
  BY <1>2 DEF NodeInv, BatchesGood, BlockGood, RingGood, FilesGood, SavedIsHot, StatsSettled,
              HotColdAgree
<1> QED
  BY <1>4, <1>5, <1>6 DEF NodeInv

LEMMA FinishPublishStep ==
  ASSUME TypeOK, NodeInv, FinishPublish
  PROVE  TypeOK' /\ NodeInv'
<1>1. cur.set \in ErasureSets
  BY BlockFacts DEF FinishPublish
<1>2. /\ UNCHANGED <<ring, store, rpc, ans, crashes, failures, made, torn, told>>
      /\ pc = "count" /\ pc' = "recv" /\ cur' = NULL /\ block' = NULL
      /\ statsLocked' = FALSE /\ settled' = stats'
      /\ batches' = [batches EXCEPT ![cur.set] = NULL]
  BY DEF FinishPublish, clientVars
<1>3. RingLen(ring) \in Nat
  BY DEF TypeOK, Rings, RingLen
<1>4. Cardinality(DatFiles(store)) \in Nat
  BY FS_CardinalityType DEF TypeOK
<1>5. stats' \in Snapshots /\ stats'.latest_slot = stats.latest_slot
  <2> DEFINE n == Cardinality(DatFiles(store))
             len == RingLen(ring)
  <2>1. stats' = [stats EXCEPT !.ring_len = len, !.files = n]
    BY DEF FinishPublish
  <2>2. n \in Nat /\ len \in Nat
    BY <1>3, <1>4
  <2> HIDE DEF n, len
  <2> QED
    BY <2>1, <2>2 DEF TypeOK, Snapshots
<1>6. batches' \in [ErasureSets -> FecBatches \cup {NULL}] /\ BatchesGood'
  BY <1>1, <1>2 DEF TypeOK, NodeInv, BatchesGood
<1>7. TypeOK'
  BY <1>2, <1>5, <1>6 DEF TypeOK, DatFiles
<1>8. (BlockGood /\ RingGood /\ FilesGood /\ SavedIsHot /\ StatsSettled /\ Announced
         /\ HotColdAgree)'
  BY <1>2, <1>5 DEF NodeInv, BlockGood, RingGood, FilesGood, SavedIsHot, StatsSettled,
                    Announced, HotColdAgree
<1> QED
  BY <1>6, <1>7, <1>8 DEF NodeInv

-----------------------------------------------------------------------------
(* Killed and started again.                                               *)

(* The new process finds the files the old one left, whatever the reason   *)
(* the old one ended.                                                      *)
LEMMA RestartStep ==
  ASSUME TypeOK, NodeInv, NEW left \in Stores, Restarted(left.disk),
         \A s \in StoreSlots \ torn' : left.disk[s] = store.disk[s],
         DatFiles(store) \subseteq DatFiles(left), IsFiniteSet(DatFiles(left)),
         torn \subseteq torn', torn' \subseteq StoreSlots, crashes' \in Nat
  PROVE  TypeOK' /\ NodeInv' /\ LoadedGood'
<1>1. store' = FileStoreNew(left.disk)
  BY DEF Restarted
<1>2. /\ pc' = "recv" /\ cur' = NULL /\ block' = NULL
      /\ batches' = [id \in ErasureSets |-> NULL] /\ ring' = RingNew
      /\ stats' = NoStats /\ statsLocked' = FALSE /\ settled' = NoStats
      /\ rpc' = [c \in Clients |-> Idle] /\ ans' = [c \in Clients |-> NULL]
      /\ UNCHANGED <<failures, made, told>>
  BY DEF Restarted
<1>4. /\ store' \in Stores /\ store'.disk = left.disk
      /\ store'.index = DatFiles(left) /\ DatFiles(store') = DatFiles(left)
  BY <1>1 DEF FileStoreNew, Stores, DatFiles
<1>5. rpc' \in [Clients -> Pending] /\ LoadedGood'
  BY <1>2 DEF Pending, LoadedGood, Idle
<1>6. TypeOK'
  BY <1>2, <1>4, <1>5, RingNewFacts, NoStatsFacts DEF TypeOK
<1>7. FilesGood'
  BY <1>2, <1>4 DEF NodeInv, FilesGood, DatFiles
<1>8. Announced'
  BY <1>2, <1>4 DEF TypeOK, NodeInv, Announced, NoStats
<1>9. (BatchesGood /\ BlockGood /\ RingGood /\ SavedIsHot /\ StatsSettled /\ HotColdAgree)'
  BY <1>2, RingNewFacts DEF BatchesGood, BlockGood, RingGood, SavedIsHot, StatsSettled,
                            HotColdAgree
<1> QED
  BY <1>5, <1>6, <1>7, <1>8, <1>9 DEF NodeInv

(* What a killed process leaves on disk.                                   *)
LEMMA CrashLeaves ==
  ASSUME TypeOK, NodeInv, CrashRestart
  PROVE  /\ torn \subseteq torn' /\ torn' \subseteq StoreSlots
         /\ \E left \in Stores :
              /\ Restarted(left.disk)
              /\ \A s \in StoreSlots \ torn' : left.disk[s] = store.disk[s]
              /\ DatFiles(store) \subseteq DatFiles(left) /\ IsFiniteSet(DatFiles(left))
<1>1. PICK left \in IF pc = "save" THEN PartialSaves(store, block.slot, FileOf(block)) ELSE {store} :
        Restarted(left.disk)
  BY DEF CrashRestart
<1>2. torn' = IF pc = "save" THEN torn \cup {block.slot} ELSE torn
  BY DEF CrashRestart
<1>3. CASE pc = "save"
  <2>1. block.slot \in StoreSlots /\ FileOf(block) \in Files
    BY <1>3, BlockFacts
  <2>2. left \in PartialSaves(store, block.slot, FileOf(block))
    BY <1>1, <1>3
  <2>3. /\ left \in Stores
        /\ \A s \in StoreSlots \ {block.slot} : left.disk[s] = store.disk[s]
        /\ DatFiles(store) \subseteq DatFiles(left)
        /\ DatFiles(left) \subseteq DatFiles(store) \cup {block.slot}
    BY <2>1, <2>2, PartialFacts DEF TypeOK
  <2>4. IsFiniteSet(DatFiles(left))
    BY <2>3, OneMoreFile DEF TypeOK
  <2> QED
    BY <1>1, <1>2, <1>3, <2>1, <2>3, <2>4 DEF TypeOK
<1>4. CASE pc # "save"
  BY <1>1, <1>2, <1>4 DEF TypeOK
<1> QED
  BY <1>3, <1>4

LEMMA CrashRestartStep ==
  ASSUME TypeOK, NodeInv, CrashRestart
  PROVE  TypeOK' /\ NodeInv' /\ LoadedGood'
<1>1. crashes' \in Nat
  BY DEF CrashRestart, TypeOK
<1> QED
  BY <1>1, CrashLeaves, RestartStep

LEMMA RecoverPanicsStep ==
  ASSUME TypeOK, NodeInv, RecoverPanics
  PROVE  TypeOK' /\ NodeInv' /\ LoadedGood'
<1>1. Restarted(store.disk) /\ UNCHANGED <<crashes, torn>>
  BY DEF RecoverPanics
<1>2. store \in Stores /\ IsFiniteSet(DatFiles(store)) /\ torn \subseteq StoreSlots /\ crashes \in Nat
  BY DEF TypeOK
<1> QED
  BY <1>1, <1>2, RestartStep

-----------------------------------------------------------------------------
(* The transactions of a block.                                            *)

(* parse_transactions keeps transactions of the block that deserialize,    *)
(* and leaves out at most the opaque ones.                                 *)
TxsOf(file) == {RawTxs(file)[i] : i \in 1 .. file.txs}

LEMMA ParsedFacts ==
  ASSUME NEW file, file.txs \in Nat
  PROVE  LET parsed == ParseTransactions(RawTxs(file))
         IN  /\ parsed \in Seq(TxsOf(file) \ Opaque)
             /\ Len(parsed) + Cardinality(Opaque) >= file.txs
<1> DEFINE txs == RawTxs(file)
           T == {txs[i] : i \in 1 .. file.txs}
           tx(i) == [set |-> file.set, whole |-> file.whole, i |-> i]
           len == Len(txs)
           parsed == ParseTransactions(txs)
           f == CHOOSE g : Filters(g, txs, Opaque, len)
<1>0. txs \in [1 .. file.txs -> T] /\ \A i \in 1 .. file.txs : txs[i] = tx(i)
  BY DEF RawTxs
<1> HIDE DEF txs
<1>1. txs \in Seq(T) /\ Len(txs) = file.txs
  <2> HIDE DEF T
  <2> QED
    BY <1>0
<1>2. Filters(f, txs, Opaque, len)
  <2>1. \E g : Filters(g, txs, Opaque, len)
    BY <1>1, FilterExists
  <2> QED
    BY <2>1
<1>3. parsed = f[len]
  BY DEF ParseTransactions, Filters
<1> HIDE DEF f, parsed
<1> DEFINE Out == LeftOut(txs, Opaque, len)
<1>4. parsed \in Seq(T \ Opaque) /\ Len(parsed) = len - Cardinality(Out) /\ IsFiniteSet(Out)
  <2>1. len \in 0 .. Len(txs)
    BY <1>1
  <2>2. txs \in Seq(T)
    BY <1>1
  <2> HIDE DEF T
  <2>3. /\ f[len] \in Seq(T \ Opaque) /\ IsFiniteSet(LeftOut(txs, Opaque, len))
        /\ ShortBy(f, txs, Opaque, len)
    BY <1>2, <2>1, <2>2, FilterFacts
  <2> QED
    BY <1>3, <2>3 DEF ShortBy
<1>5. Cardinality(Out) <= Cardinality(Opaque)
  <2> DEFINE h == [i \in Out |-> txs[i]]
  <2>1. \A i \in Out : i \in 1 .. file.txs /\ txs[i] \in Opaque /\ txs[i].i = i
    <3>1. len = file.txs
      BY <1>1
    <3>2. \A i \in Out : i \in 1 .. len /\ txs[i] \in Opaque
      BY DEF LeftOut
    <3> HIDE DEF Out, len
    <3>3. \A i \in 1 .. file.txs : txs[i].i = i
      <4>1. \A i : tx(i).i = i
        OBVIOUS
      <4>2. \A i \in 1 .. file.txs : txs[i] = tx(i)
        BY <1>0
      <4> HIDE DEF tx
      <4> QED
        BY <4>1, <4>2
    <3> QED
      BY <3>1, <3>2, <3>3
  <2> HIDE DEF Out
  <2>2. h \in [Out -> Opaque] /\ \A a, b \in Out : h[a] = h[b] => a = b
    BY <2>1
  <2>3. h \in Injection(Out, Opaque)
    BY <2>2 DEF Injection, IsInjective
  <2>4. IsFiniteSet(Opaque)
    BY PipelineAssumption
  <2> QED
    BY <2>3, <2>4, FS_Injection
<1>6. Cardinality(Out) \in Nat /\ Cardinality(Opaque) \in Nat
  BY <1>4, PipelineAssumption, FS_CardinalityType
<1>7. Len(parsed) + Cardinality(Opaque) >= file.txs
  BY <1>1, <1>4, <1>5, <1>6
<1> QED
  BY <1>4, <1>7 DEF parsed, txs, TxsOf

-----------------------------------------------------------------------------
(* The handlers.                                                           *)

Inv == TypeOK /\ NodeInv /\ LoadedGood /\ AnswersGood

(* A step that changes nothing but one client's request, answer and what   *)
(* it was told.                                                            *)
LEMMA ClientFrame ==
  ASSUME Inv, NEW c \in Clients, UNCHANGED nodeVars,
         rpc' \in [Clients -> Pending], DOMAIN ans' = Clients,
         told' \in [Clients -> StoreSlots \cup {0}],
         \A d \in Clients : d # c => rpc'[d] = rpc[d] /\ ans'[d] = ans[d] /\ told'[d] = told[d],
         told'[c] \in store.index \cup torn \cup {0},
         GoodAnswer(ans'[c], made, torn, told'[c]),
         rpc'[c].at = "parent" /\ rpc'[c].slot \notin torn => FileGood(rpc'[c].slot, rpc'[c].file, made)
  PROVE  Inv'
<1>1. UNCHANGED <<pc, cur, block, batches, ring, store, stats, statsLocked, crashes, failures,
                  settled, made, torn>>
  BY DEF nodeVars, mainVars
<1>2. TypeOK'
  BY <1>1 DEF Inv, TypeOK, DatFiles
<1>3. NodeInv'
  <2>1. \A d \in Clients : told'[d] \in store.index \cup torn \cup {0}
    BY DEF Inv, NodeInv, Announced
  <2>2. Announced'
    BY <1>1, <2>1 DEF Inv, NodeInv, Announced
  <2>3. (BatchesGood /\ BlockGood /\ RingGood /\ FilesGood /\ SavedIsHot /\ StatsSettled
           /\ HotColdAgree)'
    BY <1>1 DEF Inv, NodeInv, BatchesGood, BlockGood, RingGood, FilesGood, SavedIsHot,
                StatsSettled, HotColdAgree
  <2> QED
    BY <2>2, <2>3 DEF NodeInv
<1>4. LoadedGood' /\ AnswersGood'
  BY <1>1 DEF Inv, LoadedGood, AnswersGood
<1> QED
  BY <1>2, <1>3, <1>4 DEF Inv

(* A handler answers.                                                      *)
LEMMA AnswerStep ==
  ASSUME Inv, NEW c \in Clients, NEW a, Answer(c, a), UNCHANGED nodeVars, UNCHANGED told,
         GoodAnswer(a, made, torn, told[c])
  PROVE  Inv'
<1>1. Idle \in Pending /\ Idle.at = "idle"
  BY DEF Pending, Idle
<1>2. rpc \in [Clients -> Pending] /\ DOMAIN ans = Clients /\ told \in [Clients -> StoreSlots \cup {0}]
  BY DEF Inv, TypeOK
<1>3. /\ rpc' = [rpc EXCEPT ![c] = Idle] /\ ans' = [ans EXCEPT ![c] = a] /\ told' = told
  BY DEF Answer
<1>4. /\ rpc' \in [Clients -> Pending] /\ DOMAIN ans' = Clients
      /\ rpc'[c] = Idle /\ ans'[c] = a
      /\ \A d \in Clients : d # c => rpc'[d] = rpc[d] /\ ans'[d] = ans[d] /\ told'[d] = told[d]
  BY <1>1, <1>2, <1>3
<1>5. told'[c] \in store.index \cup torn \cup {0}
  BY <1>3 DEF Inv, NodeInv, Announced
<1>6. rpc'[c].at # "parent"
  BY <1>1, <1>4
<1> QED
  BY <1>2, <1>3, <1>4, <1>5, <1>6, ClientFrame

(* A handler goes on to its next lock.                                     *)
LEMMA GoOnStep ==
  ASSUME Inv, NEW c \in Clients, NEW p \in Pending, rpc' = [rpc EXCEPT ![c] = p],
         UNCHANGED nodeVars, UNCHANGED <<ans, told>>,
         p.at = "parent" /\ p.slot \notin torn => FileGood(p.slot, p.file, made)
  PROVE  Inv'
<1>2. rpc \in [Clients -> Pending] /\ DOMAIN ans = Clients /\ told \in [Clients -> StoreSlots \cup {0}]
  BY DEF Inv, TypeOK
<1>4. /\ rpc' \in [Clients -> Pending] /\ DOMAIN ans' = Clients
      /\ rpc'[c] = p
      /\ \A d \in Clients : d # c => rpc'[d] = rpc[d] /\ ans'[d] = ans[d] /\ told'[d] = told[d]
  BY <1>2
<1>5. told'[c] \in store.index \cup torn \cup {0} /\ GoodAnswer(ans'[c], made, torn, told'[c])
  BY DEF Inv, NodeInv, Announced, AnswersGood
<1> QED
  BY <1>2, <1>4, <1>5, ClientFrame

LEMMA RequestStep ==
  ASSUME Inv, NEW c \in Clients, NEW r \in Requests, Request(c, r)
  PROVE  Inv'
<1> DEFINE p == [at |-> IF r.method \in {"getSlot", "stats"} THEN "stats" ELSE "ring",
                 method |-> r.method, slot |-> r.slot, index |-> r.index, file |-> NULL]
<1>1. p \in Pending /\ p.at # "parent"
  <2>1. CASE r \in [method : {"getSlot", "stats"}, slot : {0}, index : {0}]
    BY <2>1 DEF Pending
  <2>2. CASE r \in [method : {"getBlock"}, slot : StoreSlots, index : {0}]
    BY <2>2 DEF Pending
  <2>3. CASE r \in [method : {"getProof", "getTransactionByIndex"}, slot : StoreSlots, index : Indexes]
    BY <2>3, PipelineAssumption DEF Pending
  <2> QED
    BY <2>1, <2>2, <2>3 DEF Requests
<1>2. rpc \in [Clients -> Pending] /\ DOMAIN ans = Clients /\ told \in [Clients -> StoreSlots \cup {0}]
  BY DEF Inv, TypeOK
<1>3. rpc' = [rpc EXCEPT ![c] = p] /\ ans' = [ans EXCEPT ![c] = NULL] /\ UNCHANGED <<nodeVars, told>>
  BY DEF Request
<1> HIDE DEF p
<1>4. /\ rpc' \in [Clients -> Pending] /\ DOMAIN ans' = Clients
      /\ rpc'[c] = p /\ ans'[c] = NULL
      /\ \A d \in Clients : d # c => rpc'[d] = rpc[d] /\ ans'[d] = ans[d] /\ told'[d] = told[d]
  BY <1>1, <1>2, <1>3
<1>5. told'[c] \in store.index \cup torn \cup {0} /\ GoodAnswer(ans'[c], made, torn, told'[c])
  BY <1>3, <1>4 DEF Inv, NodeInv, Announced, GoodAnswer
<1> QED
  BY <1>1, <1>2, <1>3, <1>4, <1>5, ClientFrame

(* The figures of a /stats answer are those the last update left.          *)
LEMMA AnswerStatsStep ==
  ASSUME Inv, NEW c \in Clients, AnswerStats(c)
  PROVE  Inv'
<1> DEFINE a == [method |-> "stats", stats |-> stats, settled |-> settled]
<1>1. GoodAnswer(a, made, torn, told[c])
  BY DEF AnswerStats, Inv, NodeInv, StatsSettled, GoodAnswer, BlockMethods
<1>2. Answer(c, a) /\ UNCHANGED nodeVars /\ UNCHANGED told
  BY DEF AnswerStats
<1> HIDE DEF a
<1> QED
  BY <1>1, <1>2, AnswerStep

(* getSlot tells a slot whose file was written, or the write of it failed. *)
LEMMA AnswerSlotStep ==
  ASSUME Inv, NEW c \in Clients, NEW slot \in store.index \cup torn \cup {0},
         AnswerSlot(c, slot), UNCHANGED nodeVars
  PROVE  Inv'
<1>1. CASE slot = 0
  <2> DEFINE a == [method |-> "getSlot", error |-> "none"]
  <2>1. GoodAnswer(a, made, torn, told[c])
    BY DEF GoodAnswer, BlockMethods
  <2>2. Answer(c, a) /\ UNCHANGED told
    BY <1>1 DEF AnswerSlot
  <2> HIDE DEF a
  <2> QED
    BY <2>1, <2>2, AnswerStep
<1>2. CASE slot # 0
  <2> DEFINE a == [method |-> "getSlot", error |-> NULL, slot |-> slot]
  <2>1. GoodAnswer(a, made, torn, slot)
    BY DEF GoodAnswer, BlockMethods
  <2>2. Answer(c, a) /\ told' = [told EXCEPT ![c] = slot]
    BY <1>2 DEF AnswerSlot
  <2> HIDE DEF a
  <2>3. Idle \in Pending /\ Idle.at = "idle"
    BY DEF Pending, Idle
  <2>4. rpc \in [Clients -> Pending] /\ DOMAIN ans = Clients
        /\ told \in [Clients -> StoreSlots \cup {0}]
    BY DEF Inv, TypeOK
  <2>5. slot \in StoreSlots \cup {0}
    BY DEF Inv, TypeOK, Stores
  <2>6. rpc' = [rpc EXCEPT ![c] = Idle] /\ ans' = [ans EXCEPT ![c] = a]
    BY <2>2 DEF Answer
  <2>7. /\ rpc' \in [Clients -> Pending] /\ DOMAIN ans' = Clients
        /\ told' \in [Clients -> StoreSlots \cup {0}]
        /\ rpc'[c] = Idle /\ ans'[c] = a /\ told'[c] = slot
        /\ \A d \in Clients : d # c => rpc'[d] = rpc[d] /\ ans'[d] = ans[d] /\ told'[d] = told[d]
    BY <2>2, <2>3, <2>4, <2>5, <2>6
  <2>8. rpc'[c].at # "parent" /\ GoodAnswer(ans'[c], made, torn, told'[c])
    BY <2>1, <2>3, <2>7
  <2> QED
    BY <2>7, <2>8, ClientFrame
<1> QED
  BY <1>1, <1>2

LEMMA ReadLiveSlotStep ==
  ASSUME Inv, NEW c \in Clients, ReadLiveSlot(c)
  PROVE  Inv'
<1>1. CASE stats.latest_slot > 0
  <2>1. AnswerSlot(c, stats.latest_slot) /\ UNCHANGED nodeVars
    BY <1>1 DEF ReadLiveSlot
  <2>2. stats.latest_slot \in store.index \cup torn \cup {0}
    BY DEF Inv, NodeInv, Announced
  <2> QED
    BY <2>1, <2>2, AnswerSlotStep
<1>2. CASE ~(stats.latest_slot > 0)
  <2> DEFINE p == [rpc[c] EXCEPT !.at = "latest"]
  <2>1. rpc' = [rpc EXCEPT ![c] = p] /\ UNCHANGED nodeVars /\ UNCHANGED <<ans, told>>
    BY <1>2 DEF ReadLiveSlot, Proceed
  <2>2. rpc[c] \in Pending /\ rpc[c].at = "stats" /\ rpc[c].method = "getSlot"
    BY DEF Inv, TypeOK, ReadLiveSlot
  <2>3. p \in Pending /\ p.at = "latest"
    BY <2>2 DEF Pending, Idle
  <2> HIDE DEF p
  <2> QED
    BY <2>1, <2>3, GoOnStep
<1> QED
  BY <1>1, <1>2

LEMMA ReadLatestFileStep ==
  ASSUME Inv, NEW c \in Clients, ReadLatestFile(c)
  PROVE  Inv'
<1> DEFINE slot == IF StoreLatestSlot(store) = NULL THEN 0 ELSE StoreLatestSlot(store)
<1>1. slot \in store.index \cup torn \cup {0}
  <2>1. CASE store.index = {}
    BY <2>1 DEF StoreLatestSlot
  <2>2. CASE store.index # {}
    <3>1. store.index \subseteq StoreSlots /\ store.index \subseteq DatFiles(store)
          /\ IsFiniteSet(DatFiles(store))
      BY DEF Inv, TypeOK, Stores
    <3>2. store.index \in SUBSET Nat /\ IsFiniteSet(store.index)
      BY <3>1, SlotFacts, FS_Subset
    <3>3. Max(store.index) \in store.index
      BY <2>2, <3>2, MaxOfFinite
    <3> QED
      BY <2>2, <3>3 DEF StoreLatestSlot
  <2> QED
    BY <2>1, <2>2
<1>2. AnswerSlot(c, slot) /\ UNCHANGED nodeVars
  BY DEF ReadLatestFile
<1> HIDE DEF slot
<1> QED
  BY <1>1, <1>2, AnswerSlotStep

(* A request that waits for a block.                                       *)
LEMMA BlockRequest ==
  ASSUME Inv, NEW c \in Clients, rpc[c].at \in {"ring", "file", "parent"}
  PROVE  /\ rpc[c] \in Pending /\ rpc[c].method \in BlockMethods
         /\ rpc[c].slot \in StoreSlots /\ rpc[c].index \in Nat
         /\ rpc[c].at = "parent" => rpc[c].method = "getBlock" /\ rpc[c].file \in Files
BY DEF Inv, TypeOK, Pending, Idle, BlockMethods

LEMMA NotFoundStep ==
  ASSUME Inv, NEW c \in Clients, rpc[c].at \in {"ring", "file"},
         NotFound(c), UNCHANGED nodeVars, UNCHANGED told,
         rpc[c].slot = told[c] /\ rpc[c].slot \notin torn =>
           WithoutTransactions(rpc[c].slot, made)
  PROVE  Inv'
<1> DEFINE a == [method |-> rpc[c].method, slot |-> rpc[c].slot, index |-> rpc[c].index,
                 error |-> "slot"]
<1>1. rpc[c].method \in BlockMethods
  BY BlockRequest
<1>2. GoodAnswer(a, made, torn, told[c])
  BY <1>1, NullFacts DEF GoodAnswer, BlockMethods
<1>3. Answer(c, a)
  BY DEF NotFound, Refuse
<1> HIDE DEF a
<1> QED
  BY <1>2, <1>3, AnswerStep

(* The answer made from a block, or the wait for the second lookup.        *)
LEMMA LoadedStep ==
  ASSUME Inv, NEW c \in Clients, rpc[c].at \in {"ring", "file"},
         NEW file \in Files, file.txs # NoEntries,
         rpc[c].slot \notin torn => FileGood(rpc[c].slot, file, made),
         Loaded(c, file), UNCHANGED nodeVars, UNCHANGED told
  PROVE  Inv'
<1> DEFINE index == rpc[c].index
           parsed == ParseTransactions(RawTxs(file))
           verified == Verified(file.txs, index)
<1>1. /\ rpc[c] \in Pending /\ rpc[c].method \in BlockMethods
      /\ rpc[c].slot \in StoreSlots /\ index \in Nat
  BY BlockRequest
<1>2. file.txs \in Nat /\ file.set \in ErasureSets
  BY DEF Files
<1>3. /\ parsed \in Seq(TxsOf(file) \ Opaque)
      /\ Len(parsed) + Cardinality(Opaque) >= file.txs
  BY <1>2, ParsedFacts
<1>4. Cardinality(Opaque) \in Nat
  BY PipelineAssumption, FS_CardinalityType
<1> HIDE DEF parsed, verified
<1>5. CASE rpc[c].method = "getProof"
  <2> DEFINE a == Found(c, file, [verified |-> verified])
  <2>1. Answer(c, a)
    BY <1>5 DEF Loaded, verified
  <2>2. GoodAnswer(a, made, torn, told[c])
    BY <1>5, NullFacts DEF Found, GoodAnswer, BlockMethods, ServedGood, FileGood
  <2> HIDE DEF a
  <2> QED
    BY <2>1, <2>2, AnswerStep
<1>6. CASE rpc[c].method = "getTransactionByIndex" /\ index >= Len(parsed)
  <2> DEFINE a == [method |-> rpc[c].method, slot |-> rpc[c].slot, index |-> rpc[c].index,
                   error |-> "index"]
  <2>1. Answer(c, a)
    BY <1>6 DEF Loaded, Refuse, parsed
  <2>2. rpc[c].slot \notin torn =>
          /\ file \in made /\ file.set.slot = rpc[c].slot
          /\ index + Cardinality(Opaque) >= file.txs
    <3>1. Len(parsed) \in Nat
      BY <1>3
    <3> QED
      BY <1>1, <1>2, <1>3, <1>4, <1>6, <3>1 DEF FileGood
  <2>3. GoodAnswer(a, made, torn, told[c])
    BY <1>2, <1>6, <2>2, NullFacts DEF GoodAnswer, BlockMethods, OutOfRange
  <2> HIDE DEF a
  <2> QED
    BY <2>1, <2>3, AnswerStep
<1>7. CASE rpc[c].method = "getTransactionByIndex" /\ ~(index >= Len(parsed))
  <2> DEFINE tx == parsed[index + 1]
             a == Found(c, file, [verified |-> verified, transaction |-> tx])
  <2>1. Answer(c, a)
    BY <1>7 DEF Loaded, parsed, verified
  <2>2. tx \in TxsOf(file) /\ tx \notin Opaque
    <3>1. index + 1 \in 1 .. Len(parsed)
      BY <1>1, <1>3, <1>7
    <3>2. tx \in TxsOf(file) \ Opaque
      BY <1>3, <3>1
    <3> QED
      BY <3>2
  <2> HIDE DEF tx
  <2>3. GoodAnswer(a, made, torn, told[c])
    BY <1>7, <2>2, NullFacts DEF Found, GoodAnswer, BlockMethods, ServedGood, FileGood, TxsOf
  <2> HIDE DEF a
  <2> QED
    BY <2>1, <2>3, AnswerStep
<1>8. CASE rpc[c].method = "getBlock"
  <2> DEFINE p == [rpc[c] EXCEPT !.at = "parent", !.file = file]
  <2>1. rpc' = [rpc EXCEPT ![c] = p] /\ UNCHANGED <<ans, told>>
    BY <1>8 DEF Loaded
  <2>2. p.at = "parent" /\ p.slot = rpc[c].slot /\ p.file = file
        /\ p \in [at : {"parent"}, method : {"getBlock"}, slot : StoreSlots, index : Nat, file : Files]
    <3>1. rpc[c] \in [at : {"ring", "file"}, method : BlockMethods, slot : StoreSlots,
                      index : Nat, file : {NULL}]
      BY <1>1 DEF Pending, Idle, BlockMethods
    <3> HIDE DEF BlockMethods
    <3>2. rpc[c].method \in {"getBlock"}
      BY <1>8
    <3> QED
      BY <3>1, <3>2
  <2>3. p \in Pending
    BY <2>2 DEF Pending
  <2> HIDE DEF p
  <2> QED
    BY <2>1, <2>2, <2>3, GoOnStep
<1> QED
  BY <1>1, <1>5, <1>6, <1>7, <1>8 DEF BlockMethods

(* A block the ring serves is good, whoever asks and whatever was torn.    *)
LEMMA RingHitFacts ==
  ASSUME Inv, NEW s \in StoreSlots, NEW data, data = RingGet(ring, s), data # NULL
  PROVE  data \in SlotDatas /\ GoodBlock(data, made) /\ data.slot = s
<1>1. CellOf(s) \in Cells
  BY SlotFacts, CellInRange
<1>2. data = ring.slots[CellOf(s)] /\ data.slot = s
  BY GetHit
<1> QED
  BY <1>1, <1>2 DEF Inv, TypeOK, NodeInv, Rings, RingGood

LEMMA ReadRingStep ==
  ASSUME Inv, NEW c \in Clients, ReadRing(c)
  PROVE  Inv'
<1> DEFINE data == RingGet(ring, rpc[c].slot)
<1>1. /\ rpc[c].at = "ring" /\ rpc[c] \in Pending /\ rpc[c].slot \in StoreSlots
      /\ UNCHANGED nodeVars /\ UNCHANGED told
  BY BlockRequest DEF ReadRing
<1>2. CASE data = NULL
  <2> DEFINE p == [rpc[c] EXCEPT !.at = "file"]
  <2>1. rpc' = [rpc EXCEPT ![c] = p] /\ UNCHANGED <<ans, told>>
    BY <1>2 DEF ReadRing, Proceed
  <2>2. p \in Pending /\ p.at = "file"
    BY <1>1 DEF Pending, Idle
  <2> HIDE DEF p
  <2> QED
    BY <1>1, <2>1, <2>2, GoOnStep
<1>3. CASE data # NULL
  <2>1. data \in SlotDatas /\ GoodBlock(data, made) /\ data.slot = rpc[c].slot
    BY <1>1, <1>3, RingHitFacts
  <2>2. CASE data.txs = 0
    <3>1. NotFound(c)
      BY <1>3, <2>2 DEF ReadRing
    <3>2. WithoutTransactions(rpc[c].slot, made)
      BY <2>1, <2>2 DEF GoodBlock, FileGood, FileOf, WithoutTransactions
    <3> QED
      BY <1>1, <3>1, <3>2, NotFoundStep
  <2>3. CASE data.txs # 0
    <3> DEFINE file == FileOf(data)
    <3>1. Loaded(c, file)
      BY <1>3, <2>3 DEF ReadRing
    <3>2. file \in Files /\ file.txs # NoEntries /\ FileGood(rpc[c].slot, file, made)
      BY <2>1 DEF GoodBlock, SlotDatas, FileOf, Files, FileGood
    <3> HIDE DEF file
    <3> QED
      BY <1>1, <3>1, <3>2, LoadedStep
  <2> QED
    BY <2>2, <2>3
<1> QED
  BY <1>2, <1>3

LEMMA ReadFileStep ==
  ASSUME Inv, NEW c \in Clients, ReadFile(c)
  PROVE  Inv'
<1> DEFINE slot == rpc[c].slot
           file == LoadSlot(store, slot)
<1>1. /\ rpc[c].at = "file" /\ slot \in StoreSlots /\ slot # 0
      /\ UNCHANGED nodeVars /\ UNCHANGED told
  BY BlockRequest, SlotFacts DEF ReadFile
<1>2. file # NULL => file \in Files
  BY <1>1 DEF LoadSlot, Inv, TypeOK, Stores
<1>3. file # NULL /\ slot \notin torn => FileGood(slot, file, made)
  BY <1>1 DEF LoadSlot, Inv, NodeInv, FilesGood
<1>4. slot = told[c] /\ slot \notin torn => file # NULL
  <2>1. told[c] \in store.index \cup torn \cup {0} /\ store.index \subseteq DatFiles(store)
    BY DEF Inv, TypeOK, NodeInv, Announced
  <2> QED
    BY <1>1, <2>1 DEF LoadSlot, DatFiles
<1>5. CASE file = NULL
  <2>1. NotFound(c)
    BY <1>5 DEF ReadFile
  <2> QED
    BY <1>1, <1>4, <1>5, <2>1, NotFoundStep
<1>6. CASE file # NULL /\ file.txs = NoEntries
  <2>1. NotFound(c)
    BY <1>6 DEF ReadFile
  <2> QED
    BY <1>1, <1>3, <1>6, <2>1, NotFoundStep DEF FileGood
<1>7. CASE file # NULL /\ file.txs # NoEntries
  <2>1. Loaded(c, file)
    BY <1>7 DEF ReadFile
  <2> HIDE DEF file
  <2> QED
    BY <1>1, <1>2, <1>3, <1>7, <2>1, LoadedStep
<1> QED
  BY <1>5, <1>6, <1>7

LEMMA ReadParentStep ==
  ASSUME Inv, NEW c \in Clients, ReadParent(c)
  PROVE  Inv'
<1> DEFINE slot == rpc[c].slot
           data == RingGet(ring, slot)
           parent == IF data = NULL THEN slot - 1 ELSE data.parent_slot
           a == Found(c, rpc[c].file, [parent |-> parent])
<1>1. /\ rpc[c].at = "parent" /\ slot \in StoreSlots /\ rpc[c].method = "getBlock"
      /\ UNCHANGED nodeVars /\ UNCHANGED told /\ Answer(c, a)
  BY BlockRequest DEF ReadParent
<1>2. slot \notin torn => FileGood(slot, rpc[c].file, made)
  BY <1>1 DEF Inv, LoadedGood
<1>3. parent \in {0, slot - 1} \/ \E id \in ErasureSets : id.slot = slot /\ parent = TrueParent[id]
  <2>1. CASE data = NULL
    BY <2>1
  <2>2. CASE data # NULL
    <3>1. data \in SlotDatas /\ GoodBlock(data, made) /\ data.slot = slot
      BY <1>1, <2>2, RingHitFacts
    <3>2. data.set \in ErasureSets /\ data.set.slot = slot
      BY <3>1 DEF GoodBlock, FileGood, FileOf, SlotDatas
    <3> QED
      BY <2>2, <3>1, <3>2 DEF GoodBlock
  <2> QED
    BY <2>1, <2>2
<1> HIDE DEF parent
<1>4. GoodAnswer(a, made, torn, told[c])
  BY <1>1, <1>2, <1>3, NullFacts DEF Found, GoodAnswer, BlockMethods, ServedGood, FileGood
<1> HIDE DEF a
<1> QED
  BY <1>1, <1>4, AnswerStep

-----------------------------------------------------------------------------
(* The theorems.                                                           *)

(* The main task answers nobody, and what was recovered or torn stays so.  *)
LEMMA MainKeepsAnswers ==
  ASSUME Inv, MainStep \/ \E shred \in Shreds : ReceiveShred(shred), ~RecoverPanics
  PROVE  LoadedGood' /\ AnswersGood'
<1>1. UNCHANGED <<rpc, ans, told>> /\ torn \subseteq torn' /\ made \subseteq made'
  BY DEF MainStep, ReceiveShred, AddAndRecover, PutRing, SaveFile, SaveFileFails, Publish,
         FinishPublish, clientVars, history
<1>2. LoadedGood'
  BY <1>1, StaysGood DEF Inv, LoadedGood
<1>3. ASSUME NEW c \in Clients, ans[c] # NULL,
             ans[c].method \in BlockMethods, ans[c].slot \notin torn'
      PROVE  /\ ans[c].error = NULL => ServedGood(ans[c], made')
             /\ ans[c].error = "index" => OutOfRange(ans[c], made')
             /\ ans[c].error = "slot" /\ ans[c].slot = told[c] =>
                  WithoutTransactions(ans[c].slot, made')
  <2>1. /\ ans[c].error = NULL => ServedGood(ans[c], made)
        /\ ans[c].error = "index" => OutOfRange(ans[c], made)
        /\ ans[c].error = "slot" /\ ans[c].slot = told[c] =>
             WithoutTransactions(ans[c].slot, made)
    BY <1>1, <1>3 DEF Inv, AnswersGood, GoodAnswer
  <2> QED
    BY <1>1, <2>1 DEF ServedGood, OutOfRange, WithoutTransactions
<1>4. AnswersGood'
  BY <1>1, <1>3 DEF Inv, AnswersGood, GoodAnswer
<1> QED
  BY <1>2, <1>4

LEMMA InitAnswers == Init => AnswersGood
BY DEF Init, AnswersGood, GoodAnswer

LEMMA NextInv == Inv /\ [Next]_vars => Inv'
<1> SUFFICES ASSUME Inv, [Next]_vars PROVE Inv'
  OBVIOUS
<1>1. ASSUME NEW shred \in Shreds, ReceiveShred(shred) PROVE Inv'
  <2>1. ~RecoverPanics
    BY <1>1 DEF ReceiveShred, RecoverPanics
  <2> QED
    BY <1>1, <2>1, ReceiveShredStep, MainKeepsAnswers DEF Inv
<1>2. CASE MainStep /\ ~RecoverPanics
  <2>1. TypeOK' /\ NodeInv'
    BY <1>2, AddAndRecoverStep, PutRingStep, SaveFileStep, SaveFileFailsStep, PublishStep,
       FinishPublishStep DEF MainStep, Inv
  <2> QED
    BY <1>2, <2>1, MainKeepsAnswers DEF Inv
<1>3. ASSUME NEW c \in Clients, NEW r \in Requests, Request(c, r) PROVE Inv'
  BY <1>3, RequestStep
<1>4. ASSUME NEW c \in Clients, ClientStep(c) PROVE Inv'
  BY <1>4, AnswerStatsStep, ReadLiveSlotStep, ReadLatestFileStep, ReadRingStep, ReadFileStep,
     ReadParentStep DEF ClientStep
<1>5. CASE CrashRestart \/ RecoverPanics
  <2>1. TypeOK' /\ NodeInv' /\ LoadedGood'
    BY <1>5, CrashRestartStep, RecoverPanicsStep DEF Inv
  <2>2. \A c \in Clients : ans'[c] = NULL
    BY <1>5 DEF CrashRestart, RecoverPanics, Restarted
  <2>3. AnswersGood'
    BY <2>2 DEF AnswersGood, GoodAnswer
  <2> QED
    BY <2>1, <2>3 DEF Inv
<1>6. CASE UNCHANGED vars
  <2>1. UNCHANGED <<pc, cur, block, batches, ring, store, stats, statsLocked, rpc, ans, crashes,
                    failures, settled, made, torn, told>>
    BY <1>6 DEF vars, mainVars, clientVars, history
  <2>2. TypeOK' /\ LoadedGood' /\ AnswersGood'
    BY <2>1 DEF Inv, TypeOK, DatFiles, LoadedGood, AnswersGood
  <2>3. NodeInv'
    BY <2>1 DEF Inv, NodeInv, BatchesGood, BlockGood, RingGood, FilesGood, SavedIsHot,
                Announced, StatsSettled, HotColdAgree
  <2> QED
    BY <2>2, <2>3 DEF Inv
<1> QED
  BY <1>1, <1>2, <1>3, <1>4, <1>5, <1>6 DEF Next, MainStep

(* The inductive invariant holds in every state of the node.               *)
THEOREM Invariance == Spec => []Inv
<1>1. Init => Inv
  BY InitInv, InitAnswers DEF Inv
<1> QED
  BY <1>1, NextInv, PTL DEF Spec

(* The node's state keeps its shape across restarts and failed saves: the  *)
(* main task has a block exactly while it stores one, holds the stats lock *)
(* exactly while it counts, and the index names no slot without a file.    *)
THEOREM TypeCorrect == Spec => []TypeOK
<1>1. Inv => TypeOK
  BY DEF Inv
<1> QED
  BY <1>1, Invariance, PTL

(* Once the main task is past the file write, what the ring serves is what *)
(* is on disk, unless a write of that slot was cut short.                  *)
THEOREM TiersAgree == Spec => []HotColdAgree
<1>1. Inv => HotColdAgree
  BY DEF Inv, NodeInv
<1> QED
  BY <1>1, Invariance, PTL

(* A block answer is in full one of the blocks recovered of that slot, and *)
(* whole if only data shreds had a part in it; its parent is that of a set *)
(* of the slot or a stand-in, a transaction is one of the answer's block,  *)
(* and an index is refused only if a block of the slot does not reach it.  *)
THEOREM ServedSafe == Spec => []ServedWhole
<1>1. Inv => ServedWhole
  BY DEF Inv, AnswersGood, GoodAnswer, ServedGood, OutOfRange, BlockMethods, ServedWhole,
         BlockAnswers, Answers
<1> QED
  BY <1>1, Invariance, PTL

(* A slot that getSlot told a client is found whenever that client asks    *)
(* for it, across evictions, further blocks and restarts, unless a write   *)
(* of it was cut short or a block of it without transactions recovered.    *)
THEOREM AnnouncedSafe == Spec => []AnnouncedServed
<1>1. Inv => AnnouncedServed
  BY DEF Inv, AnswersGood, GoodAnswer, WithoutTransactions, BlockMethods, AnnouncedServed,
         BlockAnswers, Answers
<1> QED
  BY <1>1, Invariance, PTL

(* /stats never shows a half-made update.                                  *)
THEOREM SnapshotSafe == Spec => []SnapshotSettled
<1>1. Inv => SnapshotSettled
  BY DEF Inv, AnswersGood, GoodAnswer, SnapshotSettled, Answers
<1> QED
  BY <1>1, Invariance, PTL

-----------------------------------------------------------------------------
(* The two tiers as one map.                                               *)

(* What a handler finds for a slot is what the file store has for it,      *)
(* except between the two writes of a block, for its slot.                 *)
LEMMA ServedCold ==
  ASSUME HotColdAgree, NEW s \in StoreSlots \ torn, ~(pc = "save" /\ block.slot = s)
  PROVE  Served(s) = LoadSlot(store, s)
BY DEF HotColdAgree, Served

(* A block of the main task is one the map may hold.                       *)
LEMMA BlockMayBeHeld ==
  ASSUME TypeOK, NodeInv, pc \in {"put", "save"}
  PROVE  block.slot \in StoreSlots /\ FileOf(block) \in MayBeMade(block.slot)
BY BlockFacts DEF FileGood

(* The map as a handler reads it, the slots given up left out.             *)
Held == [s \in StoreSlots |-> IF s \in torn THEN NULL ELSE Served(s)]

(* A step that changes no slot but those it gives up or that of the block  *)
(* under way, which gets that block, is a step of the map.                 *)
LEMMA StoreMaps ==
  ASSUME NEW slot \in StoreSlots, NEW b \in MayBeMade(slot), UNCHANGED torn,
         \A s \in StoreSlots \ torn : Served(s)' = Served(s) \/ (s = slot /\ Served(s)' = b)
  PROVE  [Blocks!Next]_<<Held, torn>>
<1>1. CASE slot \notin torn /\ Served(slot)' = b
  <2>1. Held' = [Held EXCEPT ![slot] = b]
    BY <1>1 DEF Held
  <2>2. Blocks!Store(slot, b)
    BY <1>1, <2>1 DEF Blocks!Store, Held
  <2> QED
    BY <2>2 DEF Blocks!Next
<1>2. CASE ~(slot \notin torn /\ Served(slot)' = b)
  BY <1>2 DEF Held
<1> QED
  BY <1>1, <1>2

LEMMA GiveUpMaps ==
  ASSUME NEW slot \in StoreSlots, torn' = torn \cup {slot},
         \A s \in StoreSlots \ torn' : Served(s)' = Served(s)
  PROVE  [Blocks!Next]_<<Held, torn>>
<1>1. Held' = [Held EXCEPT ![slot] = NULL]
  BY DEF Held
<1>2. Blocks!GiveUp(slot)
  BY <1>1 DEF Blocks!GiveUp, Held
<1> QED
  BY <1>2 DEF Blocks!Next

LEMMA PutRingMaps ==
  ASSUME Inv, Inv', PutRing
  PROVE  [Blocks!Next]_<<Held, torn>>
<1>1. /\ pc = "put" /\ pc' = "save"
      /\ UNCHANGED <<block, store, torn>>
  BY DEF PutRing, history
<1>2. block.slot \in StoreSlots /\ FileOf(block) \in MayBeMade(block.slot)
  BY <1>1, BlockMayBeHeld DEF Inv
<1>3. ASSUME NEW s \in StoreSlots \ torn
      PROVE  Served(s)' = Served(s) \/ (s = block.slot /\ Served(s)' = FileOf(block))
  <2>1. Served(s) = LoadSlot(store, s)
    BY <1>1, ServedCold DEF Inv, NodeInv
  <2>2. CASE RingGet(ring', s) = NULL
    BY <1>1, <2>1, <2>2 DEF Served
  <2>3. CASE RingGet(ring', s) # NULL /\ s = block.slot
    BY <1>1, <2>3 DEF Inv, NodeInv, SavedIsHot, Served
  <2>4. CASE RingGet(ring', s) # NULL /\ s # block.slot
    <3>1. LoadSlot(store, s) = FileOf(RingGet(ring', s))
      BY <1>1, <2>4 DEF Inv, NodeInv, HotColdAgree
    <3> QED
      BY <2>1, <2>4, <3>1 DEF Served
  <2> QED
    BY <2>2, <2>3, <2>4
<1> QED
  BY <1>1, <1>2, <1>3, StoreMaps

LEMMA SaveFileMaps ==
  ASSUME Inv, Inv', SaveFile
  PROVE  [Blocks!Next]_<<Held, torn>>
<1>1. /\ pc = "save" /\ pc' = "publish" /\ store' = SaveSlot(store, block.slot, FileOf(block))
      /\ UNCHANGED <<block, ring, torn>>
  BY DEF SaveFile, history
<1>2. block.slot \in StoreSlots /\ FileOf(block) \in MayBeMade(block.slot)
  BY <1>1, BlockMayBeHeld DEF Inv
<1>3. /\ store'.index = store.index \cup {block.slot}
      /\ store'.disk[block.slot] = FileOf(block)
      /\ \A s \in StoreSlots \ {block.slot} : store'.disk[s] = store.disk[s]
  BY <1>1, BlockFacts, SaveFacts DEF Inv, TypeOK
<1>4. ASSUME NEW s \in StoreSlots \ torn
      PROVE  Served(s)' = Served(s) \/ (s = block.slot /\ Served(s)' = FileOf(block))
  <2>1. Served(s)' = LoadSlot(store', s)
    <3>1. HotColdAgree'
      BY DEF Inv, NodeInv
    <3> QED
      BY <1>1, <3>1 DEF HotColdAgree, Served
  <2>2. CASE s = block.slot
    BY <1>3, <2>1, <2>2 DEF LoadSlot
  <2>3. CASE s # block.slot
    <3>1. Served(s) = LoadSlot(store, s)
      BY <2>3, ServedCold DEF Inv, NodeInv
    <3> QED
      BY <1>3, <2>1, <2>3, <3>1 DEF LoadSlot
  <2> QED
    BY <2>2, <2>3
<1> QED
  BY <1>1, <1>2, <1>4, StoreMaps

LEMMA SaveFileFailsMaps ==
  ASSUME Inv, Inv', SaveFileFails
  PROVE  [Blocks!Next]_<<Held, torn>>
<1>1. /\ pc = "save" /\ pc' = "publish" /\ torn' = torn \cup {block.slot}
      /\ store' \in PartialSaves(store, block.slot, FileOf(block))
      /\ UNCHANGED <<block, ring>>
  BY DEF SaveFileFails
<1>2. block.slot \in StoreSlots
  BY <1>1, BlockFacts DEF Inv
<1>3. /\ store'.index = store.index
      /\ \A s \in StoreSlots \ {block.slot} : store'.disk[s] = store.disk[s]
  BY <1>1, BlockFacts, PartialFacts DEF Inv, TypeOK
<1>4. ASSUME NEW s \in StoreSlots \ torn' PROVE Served(s)' = Served(s)
  BY <1>1, <1>3 DEF Served, LoadSlot
<1> QED
  BY <1>1, <1>2, <1>4, GiveUpMaps

(* A restart finds every file again, and with them every slot that was not *)
(* given up.                                                               *)
LEMMA RestartServes ==
  ASSUME Inv, NEW left, Restarted(left.disk),
         NEW s \in StoreSlots \ torn, ~(pc = "save" /\ block.slot = s),
         left.disk[s] = store.disk[s]
  PROVE  Served(s)' = Served(s)
<1>1. Served(s) = LoadSlot(store, s)
  BY ServedCold DEF Inv, NodeInv
<1>2. Served(s)' = LoadSlot(store', s)
  BY RingNewFacts DEF Restarted, Served
<1>3. store.disk[s] # NULL <=> s \in store.index
  BY DEF Inv, NodeInv, FilesGood, TypeOK, DatFiles
<1>4. LoadSlot(store', s) = store.disk[s]
  BY DEF Restarted, FileStoreNew, LoadSlot
<1> QED
  BY <1>1, <1>2, <1>3, <1>4 DEF LoadSlot

(* For the map nothing happens, unless a save was under way.               *)
LEMMA CrashRestartMaps ==
  ASSUME Inv, CrashRestart
  PROVE  [Blocks!Next]_<<Held, torn>>
<1>1. torn' = IF pc = "save" THEN torn \cup {block.slot} ELSE torn
  BY DEF CrashRestart
<1>2. PICK left \in Stores :
        Restarted(left.disk) /\ \A s \in StoreSlots \ torn' : left.disk[s] = store.disk[s]
  BY CrashLeaves DEF Inv
<1>4. ASSUME NEW s \in StoreSlots \ torn' PROVE Served(s)' = Served(s)
  <2>1. s \notin torn /\ ~(pc = "save" /\ block.slot = s)
    BY <1>1
  <2> QED
    BY <1>2, <2>1, RestartServes
<1>5. CASE pc = "save"
  BY <1>1, <1>4, <1>5, BlockFacts, GiveUpMaps DEF Inv
<1>6. CASE pc # "save"
  BY <1>1, <1>4, <1>6 DEF Held
<1> QED
  BY <1>5, <1>6

LEMMA RecoverPanicsMaps ==
  ASSUME Inv, RecoverPanics
  PROVE  UNCHANGED <<Held, torn>>
<1>1. Restarted(store.disk) /\ pc = "shred" /\ UNCHANGED torn
  BY DEF RecoverPanics
<1>2. ASSUME NEW s \in StoreSlots \ torn PROVE Served(s)' = Served(s)
  BY <1>1, RestartServes
<1> QED
  BY <1>1, <1>2 DEF Held

(* Nothing else touches a tier.                                            *)
LEMMA TiersKept ==
  ASSUME UNCHANGED <<ring, store, torn>>
  PROVE  UNCHANGED <<Held, torn>>
BY DEF Held, Served

(* A node that serves from a ring and from files, across evictions, failed *)
(* saves and restarts, is one map from slots to blocks that only ever      *)
(* gains: every step is a step of the map or leaves it alone.              *)
THEOREM ImplementsBlockMap == Spec => BlockMapSpec
<1>1. Init => Blocks!Init
  <2> SUFFICES ASSUME Init PROVE Blocks!Init
    OBVIOUS
  <2>1. ASSUME NEW s \in StoreSlots PROVE Served(s) = NULL
    <3>1. RingGet(ring, s) = NULL
      BY RingNewFacts DEF Init
    <3>2. LoadSlot(store, s) = NULL
      BY DEF Init, FileStoreNew, LoadSlot
    <3> QED
      BY <3>1, <3>2 DEF Served
  <2>2. torn = {}
    BY DEF Init
  <2> QED
    BY <2>1, <2>2 DEF Blocks!Init
<1>2. Inv /\ Inv' /\ [Next]_vars => [Blocks!Next]_<<Held, torn>>
  <2> SUFFICES ASSUME Inv, Inv', [Next]_vars PROVE [Blocks!Next]_<<Held, torn>>
    OBVIOUS
  <2>1. ASSUME NEW shred \in Shreds, ReceiveShred(shred) PROVE UNCHANGED <<ring, store, torn>>
    BY <2>1 DEF ReceiveShred, history
  <2>2. CASE AddAndRecover \/ Publish \/ FinishPublish
    <3>1. UNCHANGED <<ring, store, torn>>
      BY <2>2 DEF AddAndRecover, Publish, FinishPublish, history
    <3> QED
      BY <3>1, TiersKept
  <2>3. CASE MainStep
    BY <2>2, <2>3, PutRingMaps, SaveFileMaps, SaveFileFailsMaps, RecoverPanicsMaps DEF MainStep
  <2>4. ASSUME NEW c \in Clients, NEW r \in Requests, Request(c, r)
        PROVE  UNCHANGED <<ring, store, torn>>
    BY <2>4 DEF Request, nodeVars
  <2>5. ASSUME NEW c \in Clients, ClientStep(c) PROVE UNCHANGED <<ring, store, torn>>
    BY <2>5 DEF ClientStep, AnswerStats, ReadLiveSlot, ReadLatestFile, ReadRing, ReadFile,
                ReadParent, nodeVars
  <2>6. CASE UNCHANGED vars
    <3>1. UNCHANGED <<ring, store, torn>>
      BY <2>6 DEF vars, history
    <3> QED
      BY <3>1, TiersKept
  <2> QED
    BY <2>1, <2>3, <2>4, <2>5, <2>6, CrashRestartMaps, TiersKept DEF Next
<1>3. Inv /\ Inv' /\ [Next]_vars => [Blocks!Next]_(Blocks!vars)
  BY <1>2 DEF Held, Blocks!vars
<1> QED
  BY <1>1, <1>3, Invariance, PTL DEF Spec, BlockMapSpec, Blocks!Spec
=============================================================================
