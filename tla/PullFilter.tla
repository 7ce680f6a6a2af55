------------------------------ MODULE PullFilter ------------------------------
(***************************************************************************)
(* The filters of the PullRequests, crates/dc-gossip/src/crds_filter.rs    *)
(* and pull_request.rs: how large a bloom filter leaves the request within *)
(* one packet, in how many partitions that splits the peer's table, and    *)
(* the mask that names each partition.                                     *)
(*                                                                         *)
(* The sizes that come out of floating-point arithmetic and of the bloom   *)
(* library are constants, given for every budget of bytes.  Words have     *)
(* WordBits bits where the code has 64.                                    *)
(***************************************************************************)
EXTENDS Integers, FiniteSetsExt

CONSTANTS WordBits,      \* bits of a hash prefix and of a mask: 64
          PacketSize,    \* PACKET_DATA_SIZE: 1232
          TagSize,       \* bytes of the enum tag: 4
          MinItems,      \* MIN_NUM_BLOOM_ITEMS: 65536
          MaxItems,      \* budget in bytes -> items such a bloom filter holds
          FilterSize     \* budget in bytes -> serialized size of the filter

BloomBytes == 1 .. PacketSize

ASSUME PullFilterAssumption ==
  /\ WordBits \in Nat \ {0} /\ PacketSize \in Nat /\ TagSize \in Nat /\ MinItems \in Nat
  /\ MaxItems \in [BloomBytes -> Nat \ {0}]
  /\ FilterSize \in [BloomBytes -> Nat \ {0}]   \* the mask alone takes 8 bytes

(* 1 << n.                                                                 *)
Pow2(n) ==
  LET pow[k \in 0 .. n] == IF k = 0 THEN 1 ELSE 2 * pow[k - 1]
  IN  pow[n]

Hashes == 0 .. Pow2(WordBits) - 1

-----------------------------------------------------------------------------
(* The largest budget whose filter has exactly this size, 0 in a gap.      *)
BudgetOfSize(size) == Max({b \in BloomBytes : FilterSize[b] = size} \cup {0})

(* The cache, gaps filled from below.                                      *)
MaxBloomBytesCache ==
  [size \in 0 .. PacketSize |->
     BudgetOfSize(Max({s \in 0 .. size : BudgetOfSize(s) # 0} \cup {0}))]

(* Faulty variant, for the mutation runs: forgets the enum tag.            *)
GetMaxBloomFilterBytesUntagged(caller) ==
  MaxBloomBytesCache[IF caller <= PacketSize THEN PacketSize - caller ELSE 0]

GetMaxBloomFilterBytes(caller) ==
  MaxBloomBytesCache[IF TagSize + caller <= PacketSize THEN PacketSize - (TagSize + caller) ELSE 0]

-----------------------------------------------------------------------------
(* ceil(log2(items / max)), and never below 0.                             *)
ComputeMaskBits(items, max) == CHOOSE b \in 0 .. items :
  max * Pow2(b) >= items /\ \A c \in 0 .. b - 1 : max * Pow2(c) < items

NumPartitions(bits) == Pow2(Min({bits, WordBits - 1}))

(* The seed in the top bits, ones below; the two do not overlap, so `|` is *)
(* `+`.                                                                    *)
ComputeMask(seed, bits) ==
  LET low == Pow2(WordBits - bits)
  IN  IF bits = 0 THEN Pow2(WordBits) - 1 ELSE seed * low + (low - 1)

(* num_items is 0 at every call, so MinItems are assumed.                  *)
MaskBits(bytes) == ComputeMaskBits(MinItems, MaxItems[bytes])

NewSeeded(bytes, seed) ==
  LET bits == MaskBits(bytes)
  IN  [mask_bits |-> bits, mask |-> ComputeMask(seed % NumPartitions(bits), bits)]

(* What the peer does with a filter: it answers with the values whose hash *)
(* agrees with the mask in the top mask_bits bits.                         *)
Matches(filter, hash) ==
  LET low == Pow2(WordBits - filter.mask_bits) IN hash \div low = filter.mask \div low

-----------------------------------------------------------------------------
(***************************************************************************)
(* One request for each partition, as functions of the seed: the filter    *)
(* and the size of the whole message.  create_pull_request_message makes   *)
(* the first of them, SingleMask.                                          *)
(***************************************************************************)
CreatePullRequestMessages(caller) ==
  LET bytes == GetMaxBloomFilterBytes(caller)
      parts == NumPartitions(MaskBits(bytes))
  IN  [seed \in 0 .. parts - 1 |->
         [filter |-> NewSeeded(bytes, seed), size |-> TagSize + caller + FilterSize[bytes]]]

SingleMask == 0
=============================================================================
