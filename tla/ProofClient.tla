---------------------------- MODULE ProofClient ----------------------------
(***************************************************************************)
(* A user of the TypeScript SDK (sdk/src/index.ts) and the proofs of one   *)
(* block: every call of Sg32Client that involves a proof, the node's       *)
(* answer included.  The block is any sequence of transactions, repeated   *)
(* ones and ones the node cannot deserialize among them, as the file store *)
(* serves it (the ring refuses an empty one).                              *)
(***************************************************************************)
EXTENDS Merkle

CONSTANTS Transactions,   \* raw transactions
          MaxTxs,         \* bound: transactions of the block
          MaxIndex        \* bound: indexes asked for

ASSUME ClientAssumption == Opaque \subseteq Transactions /\ MaxTxs \in Nat /\ MaxIndex \in Nat

VARIABLES txs,      \* the block
          answer    \* what the last call returned

vars == <<txs, answer>>

Init ==
  /\ txs \in UNION {[1 .. n -> Transactions] : n \in 0 .. MaxTxs}
  /\ answer = [call |-> "none"]

(* NaN, which JavaScript makes of the index undefined: not even, and its   *)
(* half is NaN again.  -1 is the integer for which % and \div say so.      *)
NaN == -1

(* The txIndex the SDK reads from an answer; a missing property is         *)
(* undefined, and so NaN in arithmetic.                                    *)
TxIndexOf(proof) == IF "txIndex" \in DOMAIN proof THEN proof.txIndex ELSE NaN

(* verifyMerkleProof: the loop of MerkleTree::verify, in the client.       *)
VerifyMerkleProof(root, leaf, proof, index) == Verify(root, leaf, proof, index)

(* getProofAndVerify.                                                      *)
GetProofAndVerify(index) ==
  LET p == GetProof(txs, index)
  IN  /\ answer' = [call |-> "proof", index |-> index, proof |-> p,
                    clientVerified |-> VerifyMerkleProof(p.root, p.leaf, p.proof, TxIndexOf(p))]
      /\ UNCHANGED txs

(* getVerifiedTransaction: throws on the node's error and when the node's  *)
(* verified is false.                                                      *)
GetVerifiedTransaction(index) ==
  LET tx == GetTransactionByIndex(txs, index)
      ok == tx.found /\ tx.proof.verified
  IN  /\ answer' = [call |-> "transaction", index |-> index,
                    result |-> IF ok THEN tx ELSE Failed]
      /\ UNCHANGED txs

(* getBlockWithProofs: the node's answer under the node's names.  The      *)
(* numTransactions and merkleRoot of the SDK's BlockWithProofs are not     *)
(* among them, so that a caller has no root of this call to verify with.   *)
FetchBlockWithProofs ==
  /\ answer' = [call |-> "block", result |-> GetBlockWithProofs(txs)]
  /\ UNCHANGED txs

Next ==
  \/ \E index \in 0 .. MaxIndex : GetProofAndVerify(index) \/ GetVerifiedTransaction(index)
  \/ FetchBlockWithProofs

Spec == Init /\ [][Next]_vars

-----------------------------------------------------------------------------
Answered(call) == answer.call = call

(* Transactions the node cannot deserialize at or before this index.       *)
Shifted(index) == \E k \in 1 .. index + 1 : k <= Len(txs) /\ txs[k] \in Opaque

(* verified is true for exactly the indexes of the block's transactions,   *)
(* whatever the shape of the tree, except in a block without any, where    *)
(* the zero leaf meets the zero root at every index.                       *)
VerifiedExactly ==
  Answered("proof") => (answer.proof.verified <=> answer.index < Len(txs) \/ txs = <<>>)

(* A transaction getVerifiedTransaction returns is the one at the index    *)
(* that was asked for, and the proof beside it is its own: it leads from   *)
(* its digest to the root.  Unless parse_transactions dropped one before   *)
(* it; and nothing in range is withheld.  Every leaf of getBlockWithProofs *)
(* verifies in the client under its index, whatever was dropped, against   *)
(* the one root a caller can get: that of getProof.                        *)
TransactionProven ==
  /\ Answered("transaction") /\ ~Shifted(answer.index) =>
       IF answer.index < Len(txs)
       THEN /\ answer.result.found
            /\ answer.result.transaction = txs[answer.index + 1]
            /\ VerifyMerkleProof(MerkleTree(txs).root, Digest(answer.result.transaction),
                                 answer.result.proof.proof, answer.index)
       ELSE ~answer.result.found
  /\ Answered("block") =>
       \A i \in DOMAIN answer.result.transactions :
         LET tx == answer.result.transactions[i]
         IN  VerifyMerkleProof(GetProof(txs, tx.index).root, tx.leaf, tx.proof, tx.index)

(* A proof binds its position: of the leaves and the proofs of one block,  *)
(* none verify together under an index of the block that holds another     *)
(* transaction -- although an odd layer is completed with a copy.          *)
ProofBindsIndex ==
  Answered("block") =>
    LET tree == MerkleTree(txs)
        indexes == 0 .. Len(txs) - 1
    IN  \A i, j, k \in indexes :
          VerifyMerkleProof(tree.root, LeafAt(tree, j), Prove(tree, k), i) =>
            txs[i + 1] = txs[j + 1]

-----------------------------------------------------------------------------
(* index.ts:198 "Fetches proof and independently verifies it client-side": *)
(* the client then comes to the verdict that the proof deserves.           *)
ClientVerdict ==
  Answered("proof") => answer.clientVerified = answer.proof.verified
=============================================================================
