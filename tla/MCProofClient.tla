---------------------------- MODULE MCProofClient ----------------------------
(***************************************************************************)
(* Blocks of up to five transactions -- trees of up to four layers, with   *)
(* an odd digest out on the lowest, the next, or both -- drawn from three, *)
(* one of which the node cannot deserialize.                               *)
(***************************************************************************)
EXTENDS ProofClient
=============================================================================
