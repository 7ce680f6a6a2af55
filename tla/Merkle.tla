------------------------------- MODULE Merkle -------------------------------
(***************************************************************************)
(* The Merkle tree over a block's transactions, merkle_prover.rs, and the  *)
(* answers the RPC handlers make from it (rpc_server.rs) once the block is *)
(* loaded.  A block is the sequence of its raw transactions.               *)
(*                                                                         *)
(* SHA-256 is taken to be free of collisions: the digest of a transaction  *)
(* is the tuple of it, that of two digests the pair of them, and the 32    *)
(* zero bytes are the digest of nothing.  Indexes count from 0 as in the   *)
(* code, sequences from 1.  Hex strings are read back as they were written.*)
(***************************************************************************)
EXTENDS Integers, Sequences, FiniteSetsExt

CONSTANT Opaque   \* raw transactions that tx_len measures and bincode refuses

Digest(tx) == <<tx>>
HashPair(a, b) == <<a, b>>
ZeroDigest == <<>>

(* The layer above: an odd digest out is paired with itself.               *)
Parents(layer) ==
  [k \in 1 .. (Len(layer) + 1) \div 2 |->
     HashPair(layer[2 * k - 1], layer[IF 2 * k > Len(layer) THEN 2 * k - 1 ELSE 2 * k])]

(* MerkleTree::new: layers up to the first one that does not have two.     *)
MerkleTree(txs) ==
  LET layer[k \in 0 .. Len(txs)] ==
        IF k = 0 THEN [i \in 1 .. Len(txs) |-> Digest(txs[i])] ELSE Parents(layer[k - 1])
      height == Min({h \in 0 .. Len(txs) : Len(layer[h]) <= 1})
  IN  [leaves |-> layer[0],
       layers |-> [k \in 1 .. height + 1 |-> layer[k - 1]],
       root   |-> IF txs = <<>> THEN ZeroDigest ELSE layer[height][1]]

(* Faulty variant, for the mutation runs: the last of an odd layer is      *)
(* given the digest before it.                                             *)
SiblingBefore(layer, idx) ==
  IF idx % 2 = 0 /\ idx + 1 < Len(layer) THEN layer[idx + 2]
  ELSE IF idx > 0 THEN layer[idx] ELSE layer[1]

(* The digest next to position idx, or the one at it if it has no partner. *)
Sibling(layer, idx) ==
  IF idx % 2 = 1 THEN layer[idx]
  ELSE IF idx + 1 < Len(layer) THEN layer[idx + 2]
  ELSE layer[idx + 1]

(* prove: a sibling from every layer but the top; out of range None, which *)
(* every caller takes for an empty proof.                                  *)
Prove(tree, index) ==
  LET idx[k \in 0 .. Len(tree.layers) - 1] == IF k = 0 THEN index ELSE idx[k - 1] \div 2
  IN  IF index >= Len(tree.leaves) THEN <<>>
      ELSE [k \in 1 .. Len(tree.layers) - 1 |-> Sibling(tree.layers[k], idx[k - 1])]

(* Faulty variant, for the mutation runs: the index is not halved.         *)
UpFlat(at, sibling) ==
  [hash |-> IF at.idx % 2 = 0 THEN HashPair(at.hash, sibling) ELSE HashPair(sibling, at.hash),
   idx  |-> at.idx]

(* One step up: the hash so far goes left or right by the index's last bit.*)
Up(at, sibling) ==
  [hash |-> IF at.idx % 2 = 0 THEN HashPair(at.hash, sibling) ELSE HashPair(sibling, at.hash),
   idx  |-> at.idx \div 2]

(* verify: hashes up along the proof.                                      *)
Verify(root, leaf, proof, index) ==
  LET at[k \in 0 .. Len(proof)] ==
        IF k = 0 THEN [hash |-> leaf, idx |-> index] ELSE Up(at[k - 1], proof[k])
  IN  at[Len(proof)].hash = root

-----------------------------------------------------------------------------
(* The handlers, from the block load_slot_data found to their answer.      *)

(* Out of range, a zero leaf stands in.                                    *)
LeafAt(tree, index) ==
  IF index < Len(tree.leaves) THEN tree.leaves[index + 1] ELSE ZeroDigest

(* handle_get_proof.                                                       *)
GetProof(txs, index) ==
  LET tree == MerkleTree(txs)
  IN  [tx_index |-> index, leaf |-> LeafAt(tree, index), proof |-> Prove(tree, index),
       root |-> tree.root,
       verified |-> Verify(tree.root, LeafAt(tree, index), Prove(tree, index), index)]

(* parse_transactions: what does not deserialize is left out, so that the  *)
(* transactions behind it move down while the leaves stay.                 *)
ParseTransactions(txs) ==
  LET parsed[n \in 0 .. Len(txs)] ==
        IF n = 0 THEN <<>>
        ELSE IF txs[n] \in Opaque THEN parsed[n - 1]
        ELSE Append(parsed[n - 1], txs[n])
  IN  parsed[Len(txs)]

(* What a call that fails leaves its caller with.                          *)
Failed == [found |-> FALSE]

(* Faulty variant, for the mutation runs: the index counts from one.       *)
GetTransactionFromOne(txs, index) ==
  LET parsed == ParseTransactions(txs)
  IN  IF index = 0 \/ index > Len(parsed) THEN Failed
      ELSE [found |-> TRUE, transaction |-> parsed[index], proof |-> GetProof(txs, index)]

(* handle_get_transaction_by_index; it fails with "tx_index out of range".  *)
GetTransactionByIndex(txs, index) ==
  LET parsed == ParseTransactions(txs)
  IN  IF index >= Len(parsed) THEN Failed
      ELSE [found |-> TRUE, transaction |-> parsed[index + 1], proof |-> GetProof(txs, index)]

(* handle_get_block_with_proofs, without the parent slot.                  *)
GetBlockWithProofs(txs) ==
  LET tree == MerkleTree(txs)
      parsed == ParseTransactions(txs)
  IN  [num_transactions |-> Len(parsed), merkle_root |-> tree.root,
       transactions |-> [i \in DOMAIN parsed |->
          [index |-> i - 1, transaction |-> parsed[i],
           leaf |-> LeafAt(tree, i - 1), proof |-> Prove(tree, i - 1)]]]
=============================================================================
