---------------------------- MODULE FlatFileStore ----------------------------
(***************************************************************************)
(* The cold tier, crates/dc-tvu/src/flat_file_store.rs, as operators on a  *)
(* store value: disk, the .dat file of each slot (what survives a crash),  *)
(* and index, the slots of the in-memory BTreeMap.  The .meta files are    *)
(* written and never read: only the failure of that write matters.         *)
(*                                                                         *)
(* A file is the record of the erasure set it was recovered from, whether  *)
(* it holds all payloads of that set, and how many transactions            *)
(* deshred_into_txs finds in it; NoEntries when it finds no complete entry *)
(* and returns None.                                                       *)
(***************************************************************************)
EXTENDS Integers, FiniteSets, FiniteSetsExt, Optional

CONSTANT StoreSlots   \* slots a file may be written for

NoEntries == -1

(* Faulty variant, for the mutation runs: the directory is not scanned.    *)
FileStoreNewEmpty(disk) == [disk |-> disk, index |-> {}]

(* FlatFileStore::new: every .dat found is indexed, whatever it contains.  *)
FileStoreNew(disk) == [disk |-> disk, index |-> {s \in StoreSlots : disk[s] # NULL}]

StoreLatestSlot(store) == IF store.index = {} THEN NULL ELSE Max(store.index)

LoadSlot(store, slot) == IF slot \in store.index THEN store.disk[slot] ELSE NULL

(* Faulty variant, for the mutation runs: a slot is saved only once.       *)
SaveSlotOnce(store, slot, file) ==
  IF slot \in store.index THEN store
  ELSE [disk |-> [store.disk EXCEPT ![slot] = file], index |-> store.index \cup {slot}]

(* save_slot when all goes well: .dat, then .meta, then the index.         *)
SaveSlot(store, slot, file) ==
  [disk |-> [store.disk EXCEPT ![slot] = file], index |-> store.index \cup {slot}]

(***************************************************************************)
(* What a save that stops half way leaves on disk, because a write failed  *)
(* or the process died: nothing changed (the .dat could not be opened), a  *)
(* truncated .dat (fs::write truncates first, then writes), or the whole   *)
(* .dat without its .meta.  In no case is the index updated.               *)
(***************************************************************************)
Truncations(file) ==
  {[file EXCEPT !.whole = FALSE, !.txs = n] : n \in NoEntries .. file.txs - 1}

PartialSaves(store, slot, file) ==
  {store} \cup
  {[store EXCEPT !.disk[slot] = f] : f \in Truncations(file) \cup {file}}

DatFiles(store) == {s \in StoreSlots : store.disk[s] # NULL}
=============================================================================
