----------------------------- MODULE ShredWire -----------------------------
(***************************************************************************)
(* What the node makes of a datagram on its repair socket: the receive arm *)
(* of dc-tvu/src/main.rs with repair.rs (parse_response, build_pong),      *)
(* shred.rs and shred_header.rs.                                           *)
(*                                                                         *)
(* A packet is its length and the header fields a parser may read; the     *)
(* bytes beyond the headers matter only by where they are, so a part cut   *)
(* out of a packet is a range <<first, end>> of offsets.  Fields that      *)
(* share their bytes (those of the data and of the coding header) are      *)
(* separate fields here; a packet too short for one does not have it.      *)
(***************************************************************************)
EXTENDS Integers, Sequences, Optional

PACKET_DATA_SIZE == 1232
SIZE_OF_SIGNATURE == 64
SIZE_OF_COMMON_HEADER == 83
SIZE_OF_DATA_HEADER == 5
SIZE_OF_CODING_HEADER == 6
SIZE_OF_DATA_SHRED == 1203
SIZE_OF_CODING_SHRED == 1228
SIZE_OF_MERKLE_ROOT == 32
SIZE_OF_MERKLE_PROOF_ENTRY == 20
PING_BYTES == 4 + 32 + 32 + 64
NONCE_BYTES == 4

-----------------------------------------------------------------------------
(* ShredVariant: kind, number of proof entries and whether it is resigned, *)
(* in the two halves of a byte (masks 0xF0 and 0x0F).                      *)

Variants == [kind : {"data", "code"}, resigned : BOOLEAN, proof_size : 0 .. 15]

FromU8(byte) ==
  LET variant(kind, resigned) ==
        [kind |-> kind, resigned |-> resigned, proof_size |-> byte % 16]
      high == 16 * (byte \div 16)
  IN  CASE high = 144 -> variant("data", FALSE)
        [] high = 176 -> variant("data", TRUE)
        [] high = 96  -> variant("code", FALSE)
        [] high = 112 -> variant("code", TRUE)
        [] OTHER -> NULL

ToU8(v) ==
  (CASE v.kind = "data" /\ ~v.resigned -> 144
     [] v.kind = "data" /\ v.resigned  -> 176
     [] v.kind = "code" /\ ~v.resigned -> 96
     [] v.kind = "code" /\ v.resigned  -> 112) + v.proof_size

-----------------------------------------------------------------------------
(* slice::get(first..end), None when it is out of range.                   *)
InSlice(p, first, end) == first <= end /\ end <= p.len

RetransmitterSignature(v) == IF v.resigned THEN SIZE_OF_SIGNATURE ELSE 0

(* The root at an offset and the proof after it.                           *)
Root(off) == <<off, off + SIZE_OF_MERKLE_ROOT>>
Proof(off, v) ==
  <<off + SIZE_OF_MERKLE_ROOT,
    off + SIZE_OF_MERKLE_ROOT + v.proof_size * SIZE_OF_MERKLE_PROOF_ENTRY>>

(* The shred with its payload in the given range, the root at `off`; None  *)
(* when the packet ends before the last proof entry.                       *)
ShredOf(p, v, payload, off) ==
  IF InSlice(p, payload[1], payload[2]) /\ InSlice(p, off, Proof(off, v)[2])
  THEN [kind |-> v.kind, slot |-> p.slot, index |-> p.index,
        fec_set_index |-> p.fec_set_index, payload |-> payload,
        root |-> Root(off), proof |-> Proof(off, v)]
  ELSE NULL

(* Faulty variant, for the mutation runs: the size leaves out the headers. *)
ParseDataBare(p, v) ==
  LET data_off == SIZE_OF_COMMON_HEADER + SIZE_OF_DATA_HEADER
  IN  ShredOf(p, v, <<data_off, data_off + p.size>>,
              data_off + p.size + RetransmitterSignature(v))

(* Data ends where the header's size says, counted from the start of the   *)
(* shred; a size inside the headers means no data.                         *)
ParseData(p, v) ==
  LET data_off == SIZE_OF_COMMON_HEADER + SIZE_OF_DATA_HEADER
  IN  IF p.len < data_off THEN NULL
      ELSE ShredOf(p, v,
             IF p.size > data_off THEN <<data_off, p.size>> ELSE <<data_off, data_off>>,
             p.size + RetransmitterSignature(v))

(* Code fills what headers, root, proof and signature leave of a coding    *)
(* shred.                                                                  *)
ParseCode(p, v) ==
  LET code_off == SIZE_OF_COMMON_HEADER + SIZE_OF_CODING_HEADER
      code_len == SIZE_OF_CODING_SHRED - code_off - SIZE_OF_MERKLE_ROOT
                    - v.proof_size * SIZE_OF_MERKLE_PROOF_ENTRY - RetransmitterSignature(v)
  IN  IF p.len < code_off THEN NULL
      ELSE ShredOf(p, v, <<code_off, code_off + code_len>>,
                   code_off + code_len + RetransmitterSignature(v))

(* get_shred_variant, ShredCommonHeader::from_bytes, then by kind.         *)
ParseFromBytes(p) ==
  LET v == IF p.len > SIZE_OF_SIGNATURE THEN FromU8(p.variant) ELSE NULL
  IN  IF v = NULL \/ p.len < SIZE_OF_COMMON_HEADER THEN NULL
      ELSE IF v.kind = "data" THEN ParseData(p, v) ELSE ParseCode(p, v)

-----------------------------------------------------------------------------
(* Faulty variant, for the mutation runs: the nonce counts as shred bytes. *)
ParseResponseWhole(p) ==
  IF p.len = PING_BYTES /\ p.zeros
  THEN [response |-> "ping", token |-> <<36, 68>>, pubkey |-> <<4, 36>>]
  ELSE IF p.len < 5 THEN [response |-> "none"]
  ELSE [response |-> "shred", bytes |-> p]

(* zeros: the first four bytes are.                                        *)
ParseResponse(p) ==
  IF p.len = PING_BYTES /\ p.zeros
  THEN [response |-> "ping", token |-> <<36, 68>>, pubkey |-> <<4, 36>>]
  ELSE IF p.len < 5 THEN [response |-> "none"]
  ELSE [response |-> "shred", bytes |-> [p EXCEPT !.len = @ - NONCE_BYTES]]

(* The receive arm: a ping is answered with the hash of its token, signed; *)
(* anything else is tried as a shred.                                      *)
Receive(packet) ==
  LET p == [packet EXCEPT !.len = IF @ < PACKET_DATA_SIZE THEN @ ELSE PACKET_DATA_SIZE]
      r == ParseResponse(p)
  IN  CASE r.response = "ping"  -> [pong |-> r.token, shred |-> NULL]
        [] r.response = "shred" -> [pong |-> NULL, shred |-> ParseFromBytes(r.bytes)]
        [] r.response = "none"  -> [pong |-> NULL, shred |-> ParseFromBytes(p)]

-----------------------------------------------------------------------------
(***************************************************************************)
(* What validators send (external; TVU_DESIGN.md of dc-tvu, 4.4, 4.5): a   *)
(* ping is a tag, the sender's key, the token and a signature; a shred     *)
(* comes with the nonce behind it, and its headers say what it holds.      *)
(***************************************************************************)
PingPacket(zeros, variant) ==
  [len |-> PING_BYTES, zeros |-> zeros, variant |-> variant, slot |-> 0, index |-> 0,
   fec_set_index |-> 0, size |-> 0]

TokenOfPing == <<4 + 32, 4 + 32 + 32>>

DataCapacity(v) ==
  SIZE_OF_DATA_SHRED - (SIZE_OF_COMMON_HEADER + SIZE_OF_DATA_HEADER) - SIZE_OF_MERKLE_ROOT
    - v.proof_size * SIZE_OF_MERKLE_PROOF_ENTRY - RetransmitterSignature(v)

CodeCapacity(v) ==
  SIZE_OF_CODING_SHRED - (SIZE_OF_COMMON_HEADER + SIZE_OF_CODING_HEADER) - SIZE_OF_MERKLE_ROOT
    - v.proof_size * SIZE_OF_MERKLE_PROOF_ENTRY - RetransmitterSignature(v)

LeaderPacket(v, zeros, fill, fec_set_index, position) ==
  [len |-> NONCE_BYTES + IF v.kind = "data" THEN SIZE_OF_DATA_SHRED ELSE SIZE_OF_CODING_SHRED,
   zeros |-> zeros, variant |-> ToU8(v), slot |-> 10, index |-> fec_set_index + position,
   fec_set_index |-> fec_set_index,
   size |-> SIZE_OF_COMMON_HEADER + SIZE_OF_DATA_HEADER + fill]
=============================================================================
