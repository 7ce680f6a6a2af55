--------------------------- MODULE SlotRingBuffer ---------------------------
(***************************************************************************)
(* The hot tier of dc-tvu, crates/dc-tvu/src/ring_buffer.rs, as operators  *)
(* on a ring value.  A ring is the record of SlotRingBuffer's fields: the  *)
(* cells `slots` and the window `head`, `tail`.  A SlotData is any record  *)
(* with a field slot; what else it carries is the user's business.         *)
(* Slots are u64 in the code and naturals here: a Solana slot is some      *)
(* 2^29, so head + capacity and slot + 1 stay far below 2^64.              *)
(***************************************************************************)
EXTENDS Integers, Optional

CONSTANT Capacity   \* SlotRingBuffer::capacity (500 in main.rs)

ASSUME CapacityAssumption == Capacity \in Nat \ {0}

Cells == 0 .. Capacity - 1

(* Rings whose cells hold members of D.                                    *)
Rings(D) == [slots : [Cells -> D], head : Nat, tail : Nat]

CellOf(slot) == slot % Capacity

RingNew == [slots |-> [i \in Cells |-> NULL], head |-> 0, tail |-> 0]

(***************************************************************************)
(* Faulty variants of put and get, for the mutation runs.                  *)
(***************************************************************************)
RingPutHeadLags(ring, data) ==
  [slots |-> [ring.slots EXCEPT ![CellOf(data.slot)] = data],
   head  |-> IF data.slot > ring.head + Capacity
             THEN data.slot - Capacity + 1 ELSE ring.head,
   tail  |-> IF data.slot >= ring.tail THEN data.slot + 1 ELSE ring.tail]

RingPutKeepsFirst(ring, data) ==
  [slots |-> [ring.slots EXCEPT ![CellOf(data.slot)] =
                IF @ # NULL /\ @.slot = data.slot THEN @ ELSE data],
   head  |-> IF data.slot >= ring.head + Capacity
             THEN data.slot - Capacity + 1 ELSE ring.head,
   tail  |-> IF data.slot >= ring.tail THEN data.slot + 1 ELSE ring.tail]

RingPutUnguardedHead(ring, data) ==
  [slots |-> [ring.slots EXCEPT ![CellOf(data.slot)] = data],
   head  |-> data.slot - Capacity + 1,
   tail  |-> IF data.slot >= ring.tail THEN data.slot + 1 ELSE ring.tail]

RingGetUnchecked(ring, slot) ==
  IF slot < ring.head \/ slot >= ring.tail THEN NULL
  ELSE ring.slots[CellOf(slot)]

(***************************************************************************)
(* put: the cell is written first and whatever it held is lost, even when  *)
(* `slot` is older than the window; then head and tail move up.            *)
(***************************************************************************)
RingPut(ring, data) ==
  [slots |-> [ring.slots EXCEPT ![CellOf(data.slot)] = data],
   head  |-> IF data.slot >= ring.head + Capacity
             THEN data.slot - Capacity + 1 ELSE ring.head,
   tail  |-> IF data.slot >= ring.tail THEN data.slot + 1 ELSE ring.tail]

(* get: inside the window, and the cell must hold this very slot.          *)
RingGet(ring, slot) ==
  LET data == ring.slots[CellOf(slot)]
  IN  IF \/ slot < ring.head
         \/ slot >= ring.tail
         \/ data = NULL
      THEN NULL
      ELSE IF data.slot = slot THEN data ELSE NULL

(* len: the width of the window, which is not the number of blocks held.   *)
RingLen(ring) == IF ring.tail >= ring.head THEN ring.tail - ring.head ELSE 0
=============================================================================
