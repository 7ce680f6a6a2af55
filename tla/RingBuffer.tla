----------------------------- MODULE RingBuffer -----------------------------
(***************************************************************************)
(* The ring buffer as a state machine: blocks are put in any order, with   *)
(* any gaps and repetitions (repair answers arrive late, duplicated and    *)
(* for slots that went backwards), and readers may look up any slot in any *)
(* state.  lastPut is history: the block last put under each slot.         *)
(***************************************************************************)
EXTENDS SlotRingBuffer, FiniteSets

CONSTANTS Slots,    \* slots a block may carry
          Bodies    \* everything of a SlotData besides its slot

ASSUME SlotsAssumption == Slots \subseteq Nat

VARIABLES ring, lastPut

vars == <<ring, lastPut>>

SlotData == [slot : Slots, body : Bodies]

ASSUME NullAssumption == NULL \notin SlotData

Init == ring = RingNew /\ lastPut = [s \in Slots |-> NULL]

Put(data) == /\ ring' = RingPut(ring, data)
             /\ lastPut' = [lastPut EXCEPT ![data.slot] = data]

Next == \E data \in SlotData : Put(data)

Spec == Init /\ [][Next]_vars

-----------------------------------------------------------------------------
(* The fields keep their types: in particular `slot - capacity + 1` never  *)
(* goes below zero, where the code's u64 would wrap.                       *)
TypeOK ==
  /\ ring \in [slots : [Cells -> SlotData \cup {NULL}], head : Nat, tail : Nat]
  /\ lastPut \in [Slots -> SlotData \cup {NULL}]

(* A cell only ever holds a block whose slot belongs to that cell and lies *)
(* below tail, so get's `data.slot == slot` test is enough to tell the     *)
(* slots that share a cell apart.                                          *)
CellsConsistent ==
  \A i \in Cells : ring.slots[i] # NULL =>
    /\ CellOf(ring.slots[i].slot) = i
    /\ ring.slots[i].slot < ring.tail

(* The window never exceeds the capacity, and from the first time head     *)
(* moves (at once, for real slot numbers) it is exactly Capacity wide,     *)
(* whatever was put: RingLen then says nothing about the number of blocks. *)
(* Everything ever put lies below tail.                                    *)
WindowInv ==
  /\ ring.head <= ring.tail
  /\ ring.tail <= ring.head + Capacity
  /\ ring.head > 0 => ring.tail = ring.head + Capacity
  /\ \A s \in Slots : lastPut[s] # NULL => s < ring.tail

(* get never serves another slot's block or a superseded one: a hit is     *)
(* what was last put under that slot.                                      *)
GetReturnsLastPut ==
  \A s \in Slots : RingGet(ring, s) # NULL => RingGet(ring, s) = lastPut[s]

(* Inside the window a block that was put is still there, unless its cell  *)
(* has since been taken by a put from below the window: the one way put    *)
(* loses a recent block.                                                   *)
LostOnlyToStalePut ==
  \A s \in Slots :
    lastPut[s] # NULL /\ s >= ring.head =>
      LET cell == ring.slots[CellOf(s)]
      IN  cell # NULL /\ (cell = lastPut[s] \/ cell.slot < ring.head)

(* The inductive invariant behind the theorems.                            *)
Inv == TypeOK /\ CellsConsistent /\ WindowInv /\ GetReturnsLastPut /\ LostOnlyToStalePut

-----------------------------------------------------------------------------
(* The window only moves up: a slot that fell out of it never returns.     *)
WindowAdvances ==
  [][ring'.head >= ring.head /\ ring'.tail >= ring.tail]_vars

(* The ring implements the abstract cache.                                 *)
Cache == INSTANCE SlotCache
           WITH SlotDatas <- SlotData, cache <- [s \in Slots |-> RingGet(ring, s)]
CacheSpec == Cache!CacheSpec

=============================================================================
