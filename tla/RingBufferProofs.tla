-------------------------- MODULE RingBufferProofs --------------------------
(***************************************************************************)
(* The ring buffer's invariants, its action properties and that it         *)
(* implements SlotCache, for every capacity, set of slots and set of       *)
(* block bodies.                                                           *)
(***************************************************************************)
EXTENDS RingBuffer, TLAPS

-----------------------------------------------------------------------------
(* Cells and lookups.                                                      *)

(* Two slots that share a cell of the ring are a whole capacity apart.     *)
LEMMA SameCellApart ==
  ASSUME NEW s \in Nat, NEW t \in Nat, CellOf(s) = CellOf(t), s < t
  PROVE  s + Capacity <= t
<1>1. Capacity \in Nat /\ Capacity > 0
  BY CapacityAssumption
<1>2. s = Capacity * (s \div Capacity) + (s % Capacity)
  BY <1>1
<1>3. t = Capacity * (t \div Capacity) + (t % Capacity)
  BY <1>1
<1>4. s % Capacity = t % Capacity
  BY DEF CellOf
<1> DEFINE p == s \div Capacity
           q == t \div Capacity
<1>5. p \in Nat /\ q \in Nat
  BY <1>1
<1>6. t - s = Capacity * (q - p)
  BY <1>1, <1>2, <1>3, <1>4, <1>5
<1>7. q - p >= 1
  BY <1>1, <1>5, <1>6
<1>8. Capacity * (q - p) >= Capacity
  BY <1>1, <1>5, <1>7
<1> QED
  BY <1>1, <1>6, <1>8

(* Every slot has a cell (slot % capacity is a valid index).               *)
LEMMA CellInRange ==
  ASSUME NEW s \in Nat
  PROVE  CellOf(s) \in Cells
BY CapacityAssumption DEF CellOf, Cells

(* A lookup hits exactly when the slot is in the window and its cell holds *)
(* it, and then returns the cell.                                          *)
LEMMA GetHit ==
  ASSUME NEW r, NEW s, RingGet(r, s) # NULL
  PROVE  /\ ~(s < r.head) /\ ~(s >= r.tail)
         /\ r.slots[CellOf(s)] # NULL
         /\ r.slots[CellOf(s)].slot = s
         /\ RingGet(r, s) = r.slots[CellOf(s)]
BY DEF RingGet

(* A block that is in its cell and in the window is found.                 *)
LEMMA GetHolds ==
  ASSUME NEW r, NEW s, ~(s < r.head), ~(s >= r.tail),
         r.slots[CellOf(s)] # NULL, r.slots[CellOf(s)].slot = s
  PROVE  RingGet(r, s) = r.slots[CellOf(s)]
BY DEF RingGet

-----------------------------------------------------------------------------
(* What a put does to the window.                                          *)
LEMMA PutWindow ==
  ASSUME TypeOK, NEW data \in SlotData, Put(data)
  PROVE  /\ data.slot \in Nat
         /\ Capacity \in Nat /\ Capacity > 0
         /\ ring.head \in Nat /\ ring.tail \in Nat
         /\ data.slot >= ring.head + Capacity => ring'.head = data.slot - Capacity + 1
         /\ ~(data.slot >= ring.head + Capacity) => ring'.head = ring.head
         /\ data.slot >= ring.tail => ring'.tail = data.slot + 1
         /\ ~(data.slot >= ring.tail) => ring'.tail = ring.tail
<1>1. data.slot \in Nat
  BY SlotsAssumption DEF SlotData
<1>2. Capacity \in Nat /\ Capacity > 0
  BY CapacityAssumption
<1>3. ring.head \in Nat /\ ring.tail \in Nat
  BY DEF TypeOK
<1> QED
  BY <1>1, <1>2, <1>3 DEF Put, RingPut

(* What a put does to the cells and the history.                           *)
LEMMA PutFields ==
  ASSUME TypeOK, NEW data \in SlotData, Put(data)
  PROVE  /\ data.slot \in Slots /\ data # NULL
         /\ CellOf(data.slot) \in Cells
         /\ ring'.slots = [ring.slots EXCEPT ![CellOf(data.slot)] = data]
         /\ lastPut' = [lastPut EXCEPT ![data.slot] = data]
<1>1. data.slot \in Slots /\ data.slot \in Nat
  BY SlotsAssumption DEF SlotData
<1>2. data # NULL
  BY NullAssumption
<1>3. CellOf(data.slot) \in Cells
  BY <1>1, CellInRange
<1> QED
  BY <1>1, <1>2, <1>3 DEF Put, RingPut

(* put keeps the fields' types: head is not moved below zero.              *)
LEMMA PutTypeOK ==
  ASSUME TypeOK, NEW data \in SlotData, Put(data)
  PROVE  TypeOK'
<1>1. /\ ring.slots \in [Cells -> SlotData \cup {NULL}]
      /\ lastPut \in [Slots -> SlotData \cup {NULL}]
  BY DEF TypeOK
<1>2. /\ ring'.slots = [ring.slots EXCEPT ![CellOf(data.slot)] = data]
      /\ lastPut' = [lastPut EXCEPT ![data.slot] = data]
  BY PutFields
<1>3. ring'.slots \in [Cells -> SlotData \cup {NULL}]
  BY <1>1, <1>2
<1>4. lastPut' \in [Slots -> SlotData \cup {NULL}]
  BY <1>1, <1>2
<1>5. ring'.head \in Nat /\ ring'.tail \in Nat
  BY PutWindow
<1>6. ring' = [slots |-> ring'.slots, head |-> ring'.head, tail |-> ring'.tail]
  BY DEF Put, RingPut
<1> QED
  BY <1>3, <1>4, <1>5, <1>6 DEF TypeOK

(* put leaves every block in its own cell and below tail.                  *)
LEMMA PutCellsConsistent ==
  ASSUME TypeOK, CellsConsistent, NEW data \in SlotData, Put(data)
  PROVE  CellsConsistent'
<1> SUFFICES ASSUME NEW i \in Cells, ring'.slots[i] # NULL
             PROVE  /\ CellOf(ring'.slots[i].slot) = i
                    /\ ring'.slots[i].slot < ring'.tail
  BY DEF CellsConsistent
<1>1. ring.slots \in [Cells -> SlotData \cup {NULL}]
  BY DEF TypeOK
<1>2. CASE i = CellOf(data.slot)
  <2>1. ring'.slots[i] = data
    BY <1>1, <1>2, PutFields
  <2> QED
    BY <1>2, <2>1, PutWindow
<1>3. CASE i # CellOf(data.slot)
  <2>1. ring'.slots[i] = ring.slots[i]
    BY <1>1, <1>3, PutFields
  <2>2. ring.slots[i].slot \in Nat
    BY <1>1, <2>1, SlotsAssumption DEF SlotData
  <2>3. CellOf(ring.slots[i].slot) = i /\ ring.slots[i].slot < ring.tail
    BY <2>1 DEF CellsConsistent
  <2> QED
    BY <2>1, <2>2, <2>3, PutWindow
<1> QED
  BY <1>2, <1>3

(* A cell that a put did not write keeps its block; the one it wrote holds *)
(* the new block.                                                          *)
LEMMA CellAfterPut ==
  ASSUME TypeOK, NEW data \in SlotData, Put(data), NEW s \in Slots
  PROVE  /\ s \in Nat /\ CellOf(s) \in Cells
         /\ ring'.slots[CellOf(s)] =
              IF CellOf(s) = CellOf(data.slot) THEN data ELSE ring.slots[CellOf(s)]
         /\ lastPut'[s] = IF s = data.slot THEN data ELSE lastPut[s]
<1>1. s \in Nat /\ CellOf(s) \in Cells
  BY SlotsAssumption, CellInRange
<1>2. ring.slots \in [Cells -> SlotData \cup {NULL}] /\ lastPut \in [Slots -> SlotData \cup {NULL}]
  BY DEF TypeOK
<1> QED
  BY <1>1, <1>2, PutFields

(* put keeps the window at most Capacity wide and below it all that was    *)
(* put.                                                                    *)
LEMMA PutWindowInv ==
  ASSUME TypeOK, WindowInv, NEW data \in SlotData, Put(data)
  PROVE  WindowInv'
<1>1. /\ ring'.head <= ring'.tail
      /\ ring'.tail <= ring'.head + Capacity
      /\ ring'.head > 0 => ring'.tail = ring'.head + Capacity
  BY PutWindow DEF WindowInv
<1>2. ASSUME NEW s \in Slots, lastPut'[s] # NULL
      PROVE  s < ring'.tail
  <2>1. s \in Nat /\ lastPut'[s] = IF s = data.slot THEN data ELSE lastPut[s]
    BY CellAfterPut
  <2>2. s = data.slot \/ s < ring.tail
    BY <1>2, <2>1 DEF WindowInv
  <2> QED
    BY <2>1, <2>2, PutWindow
<1> QED
  BY <1>1, <1>2 DEF WindowInv

(* A slot the put did not touch is readable afterwards only if it was      *)
(* before, with the same block.                                            *)
LEMMA HitAfterPut ==
  ASSUME TypeOK, CellsConsistent, WindowInv, NEW data \in SlotData, Put(data),
         NEW s \in Slots, RingGet(ring', s) # NULL
  PROVE  IF s = data.slot THEN RingGet(ring', s) = data
                          ELSE RingGet(ring', s) = RingGet(ring, s)
<1>1. /\ ~(s < ring'.head) /\ ~(s >= ring'.tail)
      /\ ring'.slots[CellOf(s)] # NULL
      /\ ring'.slots[CellOf(s)].slot = s
      /\ RingGet(ring', s) = ring'.slots[CellOf(s)]
  BY GetHit
<1>2. /\ s \in Nat /\ CellOf(s) \in Cells
      /\ ring'.slots[CellOf(s)] =
           IF CellOf(s) = CellOf(data.slot) THEN data ELSE ring.slots[CellOf(s)]
  BY CellAfterPut
<1>3. CASE CellOf(s) = CellOf(data.slot)
  BY <1>1, <1>2, <1>3
<1>4. CASE CellOf(s) # CellOf(data.slot)
  <2>1. ring.slots[CellOf(s)] # NULL /\ ring.slots[CellOf(s)].slot = s
    BY <1>1, <1>2, <1>4
  <2>2. s < ring.tail
    BY <1>2, <2>1 DEF CellsConsistent
  <2>3. ~(s < ring.head) /\ ~(s >= ring.tail)
    BY <1>1, <1>2, <2>2, PutWindow
  <2>4. RingGet(ring, s) = ring.slots[CellOf(s)]
    BY <2>1, <2>3, GetHolds
  <2> QED
    BY <1>1, <1>2, <1>4, <2>4
<1> QED
  BY <1>3, <1>4

(* After a put, get returns only what was last put under a slot.           *)
LEMMA PutGetReturnsLastPut ==
  ASSUME TypeOK, CellsConsistent, WindowInv, GetReturnsLastPut,
         NEW data \in SlotData, Put(data)
  PROVE  GetReturnsLastPut'
<1> SUFFICES ASSUME NEW s \in Slots, RingGet(ring', s) # NULL
             PROVE  RingGet(ring', s) = lastPut'[s]
  BY DEF GetReturnsLastPut
<1>1. lastPut'[s] = IF s = data.slot THEN data ELSE lastPut[s]
  BY CellAfterPut
<1>2. IF s = data.slot THEN RingGet(ring', s) = data
                       ELSE RingGet(ring', s) = RingGet(ring, s)
  BY HitAfterPut
<1> QED
  BY <1>1, <1>2 DEF GetReturnsLastPut

(* If the put took another slot's cell, the two are a capacity apart: the  *)
(* new slot then either pushes the window past the old one, or lies below  *)
(* the window itself.                                                      *)
LEMMA PutLostOnlyToStalePut ==
  ASSUME TypeOK, WindowInv, LostOnlyToStalePut, NEW data \in SlotData, Put(data)
  PROVE  LostOnlyToStalePut'
<1> SUFFICES ASSUME NEW s \in Slots, lastPut'[s] # NULL, s >= ring'.head
             PROVE  LET cell == ring'.slots[CellOf(s)]
                    IN  cell # NULL /\ (cell = lastPut'[s] \/ cell.slot < ring'.head)
  BY DEF LostOnlyToStalePut
<1>1. /\ s \in Nat /\ CellOf(s) \in Cells
      /\ ring'.slots[CellOf(s)] =
           IF CellOf(s) = CellOf(data.slot) THEN data ELSE ring.slots[CellOf(s)]
      /\ lastPut'[s] = IF s = data.slot THEN data ELSE lastPut[s]
  BY CellAfterPut
<1>2. data # NULL
  BY PutFields
<1>3. ring'.head >= ring.head /\ ring'.head \in Nat /\ ring.head \in Nat
  BY PutWindow
<1>4. CASE s = data.slot
  BY <1>1, <1>2, <1>4
<1>5. CASE s # data.slot /\ CellOf(s) = CellOf(data.slot)
  <2>1. data.slot \in Nat
    BY PutWindow
  <2>2. CASE s < data.slot
    <3>1. s + Capacity <= data.slot
      BY <1>1, <1>5, <2>1, <2>2, SameCellApart
    <3> QED
      BY <1>1, <3>1, PutWindow
  <2>3. CASE data.slot < s
    <3>1. data.slot + Capacity <= s
      BY <1>1, <1>5, <2>1, <2>3, SameCellApart
    <3>2. s < ring.tail
      BY <1>1, <1>5 DEF WindowInv
    <3>3. data.slot < ring'.head
      BY <1>1, <1>3, <3>1, <3>2, PutWindow DEF WindowInv
    <3> QED
      BY <1>1, <1>2, <1>5, <3>3
  <2> QED
    BY <1>1, <1>5, <2>1, <2>2, <2>3
<1>6. CASE s # data.slot /\ CellOf(s) # CellOf(data.slot)
  <2>1. /\ ring.slots[CellOf(s)] # NULL
        /\ ring.slots[CellOf(s)] = lastPut[s] \/ ring.slots[CellOf(s)].slot < ring.head
    BY <1>1, <1>3, <1>6 DEF LostOnlyToStalePut
  <2>2. ring.slots[CellOf(s)].slot \in Nat
    BY <1>1, <2>1, SlotsAssumption DEF TypeOK, SlotData
  <2> QED
    BY <1>1, <1>3, <1>6, <2>1, <2>2
<1> QED
  BY <1>4, <1>5, <1>6

-----------------------------------------------------------------------------
(* SlotRingBuffer::new satisfies the invariant.                            *)
LEMMA InitInv == Init => Inv
<1> SUFFICES ASSUME Init PROVE Inv
  OBVIOUS
<1>1. /\ ring = [slots |-> [i \in Cells |-> NULL], head |-> 0, tail |-> 0]
      /\ lastPut = [s \in Slots |-> NULL]
  BY DEF Init, RingNew
<1>2. Capacity \in Nat /\ Capacity > 0
  BY CapacityAssumption
<1>3. TypeOK
  BY <1>1 DEF TypeOK
<1>4. CellsConsistent
  BY <1>1 DEF CellsConsistent
<1>5. WindowInv
  BY <1>1, <1>2 DEF WindowInv
<1>6. GetReturnsLastPut
  <2> SUFFICES ASSUME NEW s \in Slots, RingGet(ring, s) # NULL PROVE FALSE
    BY DEF GetReturnsLastPut
  <2>1. CellOf(s) \in Cells /\ ring.slots[CellOf(s)] # NULL
    BY GetHit, CellInRange, SlotsAssumption
  <2> QED
    BY <1>1, <2>1
<1>7. LostOnlyToStalePut
  BY <1>1 DEF LostOnlyToStalePut
<1> QED
  BY <1>3, <1>4, <1>5, <1>6, <1>7 DEF Inv

(* A put preserves it.                                                     *)
LEMMA NextInv == Inv /\ [Next]_vars => Inv'
<1> SUFFICES ASSUME Inv, [Next]_vars PROVE Inv'
  OBVIOUS
<1>1. CASE Next
  <2>1. PICK data \in SlotData : Put(data)
    BY <1>1 DEF Next
  <2>2. TypeOK'
    BY <2>1, PutTypeOK DEF Inv
  <2>3. CellsConsistent'
    BY <2>1, PutCellsConsistent DEF Inv
  <2>4. WindowInv'
    BY <2>1, PutWindowInv DEF Inv
  <2>5. GetReturnsLastPut'
    BY <2>1, PutGetReturnsLastPut DEF Inv
  <2>6. LostOnlyToStalePut'
    BY <2>1, PutLostOnlyToStalePut DEF Inv
  <2> QED
    BY <2>2, <2>3, <2>4, <2>5, <2>6 DEF Inv
<1>2. CASE UNCHANGED vars
  BY <1>2 DEF vars, Inv, TypeOK, CellsConsistent, WindowInv, GetReturnsLastPut,
              LostOnlyToStalePut
<1> QED
  BY <1>1, <1>2

(* The inductive invariant holds of the ring buffer in every state.        *)
THEOREM Invariance == Spec => []Inv
BY InitInv, NextInv, PTL DEF Spec

(* For every capacity: the ring's fields keep their types; the code's u64  *)
(* subtraction in put cannot wrap.                                         *)
THEOREM TypeCorrect == Spec => []TypeOK
<1>1. Inv => TypeOK
  BY DEF Inv
<1> QED
  BY <1>1, Invariance, PTL

(* For every capacity and every order of puts: a lookup that hits returns  *)
(* the block last put under that slot.                                     *)
THEOREM GetSafe == Spec => []GetReturnsLastPut
<1>1. Inv => GetReturnsLastPut
  BY DEF Inv
<1> QED
  BY <1>1, Invariance, PTL

(* For every capacity: the window is at most Capacity wide, and exactly    *)
(* that wide once head has moved.                                          *)
THEOREM WindowSafe == Spec => []WindowInv
<1>1. Inv => WindowInv
  BY DEF Inv
<1> QED
  BY <1>1, Invariance, PTL

(* For every capacity: a block of the window is lost only to a put from    *)
(* below the window.                                                       *)
THEOREM LossSafe == Spec => []LostOnlyToStalePut
<1>1. Inv => LostOnlyToStalePut
  BY DEF Inv
<1> QED
  BY <1>1, Invariance, PTL

(* For every capacity: head and tail never go back.                        *)
THEOREM WindowMonotone == Spec => WindowAdvances
<1>1. Inv /\ [Next]_vars => [ring'.head >= ring.head /\ ring'.tail >= ring.tail]_vars
  <2> SUFFICES ASSUME Inv, NEW data \in SlotData, Put(data)
               PROVE  ring'.head >= ring.head /\ ring'.tail >= ring.tail
    BY DEF Next
  <2> QED
    BY PutWindow DEF Inv
<1> QED
  BY <1>1, Invariance, PTL DEF Spec, WindowAdvances

(* The ring implements the abstract cache: every put is a cache put that   *)
(* drops some entries.                                                     *)
THEOREM ImplementsCache == Spec => CacheSpec
<1>1. Init => Cache!CacheInit
  <2> SUFFICES ASSUME Init, NEW s \in Slots PROVE RingGet(ring, s) = NULL
    BY DEF Cache!CacheInit
  <2>1. CellOf(s) \in Cells
    BY CellInRange, SlotsAssumption
  <2>2. ring.slots[CellOf(s)] = NULL
    BY <2>1 DEF Init, RingNew
  <2> QED
    BY <2>2 DEF RingGet
<1>2. Inv /\ [Next]_vars => [Cache!CacheNext]_([s \in Slots |-> RingGet(ring, s)])
  <2>1. ASSUME Inv, NEW data \in SlotData, Put(data)
        PROVE  Cache!CachePut(data)
    <3>1. ASSUME NEW s \in Slots
          PROVE  RingGet(ring', s) \in
                   {NULL, IF s = data.slot THEN data ELSE RingGet(ring, s)}
      BY <2>1, HitAfterPut DEF Inv
    <3> QED
      BY <3>1 DEF Cache!CachePut
  <2>2. ASSUME UNCHANGED vars
        PROVE  UNCHANGED [s \in Slots |-> RingGet(ring, s)]
    BY <2>2 DEF vars
  <2> QED
    BY <2>1, <2>2 DEF Next, Cache!CacheNext
<1> QED
  BY <1>1, <1>2, Invariance, PTL DEF Spec, CacheSpec, Cache!CacheSpec
=============================================================================
