----------------------------- MODULE GossipWire -----------------------------
(***************************************************************************)
(* Wire formats of gossip: short_vec.rs, protocol.rs (decode_from),        *)
(* contact_info.rs (the socket list and its cache) and crds_data.rs (the   *)
(* slot of a vote, signed values).                                         *)
(***************************************************************************)
EXTENDS Integers, Sequences, FiniteSetsExt, Optional, Totals

(* What a one counts for in each byte of a length: 128^0, 128^1, ...        *)
Place == <<1, 128, 16384, 2097152, 268435456>>

(* encode_len: seven bits a byte, lowest first, the high bit in all but    *)
(* the last.  Lengths below 2^28.                                          *)
EncodeLen(len) ==
  LET n == Min({k \in 1 .. 4 : len < Place[k + 1]})
  IN  [i \in 1 .. n |-> ((len \div Place[i]) % 128) + IF i < n THEN 128 ELSE 0]

(* decode_len: up to the first byte without the high bit, or all of them.  *)
DecodeLen(bytes) ==
  LET lasts == {k \in 1 .. Len(bytes) : bytes[k] < 128} \cup {Len(bytes)}
      n == Min(lasts)
  IN  [value |-> SumTo([k \in 1 .. n |-> (bytes[k] % 128) * Place[k]], n), read |-> n]

-----------------------------------------------------------------------------
(***************************************************************************)
(* Protocol::decode_from.  A message is its tag, its list of values (the   *)
(* size of each, and whether this node's CrdsValue can read it) and the    *)
(* number `len` of its bytes that arrived.  For the other tags `whole`     *)
(* says whether the body can be read.                                      *)
(*                                                                         *)
(* bincode writes the number of values in eight bytes.  Reading a value at *)
(* an offset where none begins fails: what stands in place of the kind of  *)
(* value is part of a signature.                                           *)
(***************************************************************************)
TagBytes == 4
PubkeyBytes == 32
CountBytes == 8
SignatureBytes == 64

ListTags == {1, 2}         \* PullResponse, PushMessage
OtherTags == {0, 3, 4, 5}  \* PullRequest, PruneMessage, PingMessage, PongMessage

ValueStart(values, i) ==
  TagBytes + PubkeyBytes + CountBytes + SumTo([j \in DOMAIN values |-> values[j].size], i - 1)

MessageLen(values) == ValueStart(values, Len(values) + 1)

(* bincode::deserialize of the whole message; trailing bytes are allowed.  *)
FastPath(msg) ==
  IF msg.tag \in ListTags
  THEN (\A i \in DOMAIN msg.values : msg.values[i].good) /\ msg.len >= MessageLen(msg.values)
  ELSE msg.tag \in OtherTags /\ msg.whole

(* The value that can be read at a position: its number, or 0.             *)
ValueAt(msg, pos) ==
  LET here == {i \in DOMAIN msg.values : /\ ValueStart(msg.values, i) = pos
                                         /\ msg.values[i].good
                                         /\ pos + msg.values[i].size <= msg.len}
  IN  IF here = {} THEN 0 ELSE Min(here)

(* Faulty variant, for the mutation runs: skips two signatures' length.    *)
SlowStepFar(msg, state) ==
  IF state.panic \/ state.cursor > msg.len THEN [state EXCEPT !.panic = TRUE]
  ELSE LET i == ValueAt(msg, state.cursor)
       IN  IF i = 0 THEN [state EXCEPT !.cursor = @ + 2 * SignatureBytes]
           ELSE [state EXCEPT !.cursor = @ + msg.values[i].size, !.values = Append(@, i)]

(* One round of the slow path.  &bytes[start..] panics when the cursor has *)
(* left the message.  Where no value can be read, neither can the data     *)
(* after a signature's 64 bytes, and those 64 bytes are skipped.           *)
SlowStep(msg, state) ==
  IF state.panic \/ state.cursor > msg.len THEN [state EXCEPT !.panic = TRUE]
  ELSE LET i == ValueAt(msg, state.cursor)
       IN  IF i = 0 THEN [state EXCEPT !.cursor = @ + SignatureBytes]
           ELSE [state EXCEPT !.cursor = @ + msg.values[i].size, !.values = Append(@, i)]

(* The number of values is read with decode_len, so of the eight bytes     *)
(* bincode wrote the first (there are fewer than 128 values in a packet),  *)
(* and the cursor is left seven bytes before the first value.              *)
SlowPath(msg) ==
  LET count_at == TagBytes + PubkeyBytes
      count == IF msg.len = count_at THEN [value |-> 0, read |-> 0]
               ELSE DecodeLen(<<Len(msg.values)>> \o [i \in 1 .. 7 |-> 0])
      start == [cursor |-> count_at + count.read, values |-> <<>>, panic |-> FALSE]
  IN  IF msg.len < count_at THEN [outcome |-> "error", values |-> <<>>]
      ELSE LET after[k \in 0 .. count.value] ==
                 IF k = 0 THEN start ELSE SlowStep(msg, after[k - 1])
               end == after[count.value]
           IN  [outcome |-> IF end.panic THEN "panic" ELSE "message", values |-> end.values]

(* The message with the numbers of the values it holds, an error, Unknown, *)
(* or a panic.                                                             *)
DecodeFrom(msg) ==
  IF FastPath(msg) THEN [outcome |-> "message", values |-> [i \in DOMAIN msg.values |-> i]]
  ELSE IF msg.len < TagBytes \/ msg.tag \in OtherTags THEN [outcome |-> "error", values |-> <<>>]
  ELSE IF msg.tag \in ListTags THEN SlowPath(msg)
  ELSE [outcome |-> "unknown", values |-> <<>>]

-----------------------------------------------------------------------------
(* Sockets of a contact info: entries of key, index of the address, and    *)
(* the port's distance from that of the entry before.                      *)
SOCKET_CACHE_SIZE == 14
SOCKET_ADDR_UNSPECIFIED == [ip |-> NULL, port |-> 0]

PortSum(sockets, n) ==
  SumTo([i \in DOMAIN sockets |-> sockets[i].offset], n)

(* ContactInfo::deserialize: for each key below 14 the last entry whose    *)
(* address is listed; ports wrap.                                          *)
SocketCache(ci) ==
  [key \in 0 .. SOCKET_CACHE_SIZE - 1 |->
     LET hits == {i \in DOMAIN ci.sockets :
                    ci.sockets[i].key = key /\ ci.sockets[i].index < Len(ci.addrs)}
     IN  IF hits = {} THEN SOCKET_ADDR_UNSPECIFIED
         ELSE [ip |-> ci.addrs[ci.sockets[Max(hits)].index + 1],
               port |-> PortSum(ci.sockets, Max(hits)) % 65536]]

(* Faulty variant, for the mutation runs: the offset is taken for the port. *)
SocketByKeyOffset(ci, key) ==
  LET hits == {i \in DOMAIN ci.sockets : ci.sockets[i].key = key}
  IN  IF hits = {} \/ ci.sockets[Min(hits)].index >= Len(ci.addrs) THEN NULL
      ELSE [ip |-> ci.addrs[ci.sockets[Min(hits)].index + 1],
            port |-> ci.sockets[Min(hits)].offset]

(* socket_by_key, and with key 0 gossip_addr: the first entry with the     *)
(* key; None when ports overflow before it or its address is not listed.   *)
SocketByKey(ci, key) ==
  LET hits == {i \in DOMAIN ci.sockets : ci.sockets[i].key = key}
  IN  IF \/ hits = {}
         \/ PortSum(ci.sockets, Min(hits)) >= 65536
         \/ ci.sockets[Min(hits)].index >= Len(ci.addrs) THEN NULL
      ELSE [ip |-> ci.addrs[ci.sockets[Min(hits)].index + 1],
            port |-> PortSum(ci.sockets, Min(hits))]

-----------------------------------------------------------------------------
VoteKinds == {"Vote", "VoteSwitch", "UpdateVoteState", "UpdateVoteStateSwitch",
              "CompactUpdateVoteState", "CompactUpdateVoteStateSwitch",
              "TowerSync", "TowerSyncSwitch"}

(* extract_slot_from_vote_tx: the last slot voted for in the first         *)
(* instruction, if the vote program's account is its program.              *)
ExtractSlot(tx) ==
  IF tx.instructions = <<>> THEN NULL
  ELSE LET ix == tx.instructions[1]
       IN  IF \/ ix.program_id_index >= Len(tx.account_keys)
              \/ tx.account_keys[ix.program_id_index + 1] # "vote program"
              \/ ix.kind \notin VoteKinds THEN NULL
           ELSE ix.last_voted_slot

(***************************************************************************)
(* Signed values.  What is signed and sent is the data without the fields  *)
(* that deserialize fills in: the cache of a contact info, a vote's slot.  *)
(* A signature is who signed what.                                         *)
(***************************************************************************)
Signature(keypair, bytes) == [by |-> keypair, over |-> bytes]

(* ContactInfo::new leaves the cache empty.                                *)
ContactInfoNew(pubkey, gossip) ==
  [kind |-> "ContactInfo", from |-> pubkey, addrs |-> <<gossip.ip>>,
   sockets |-> <<[key |-> 0, index |-> 0, offset |-> gossip.port]>>,
   derived |-> [k \in 0 .. SOCKET_CACHE_SIZE - 1 |-> SOCKET_ADDR_UNSPECIFIED]]

(* Faulty variant, for the mutation runs: the cache is sent too.           *)
SerializeAll(data) == data

Serialize(data) == [data EXCEPT !.derived = NULL]

Deserialize(bytes) ==
  [bytes EXCEPT !.derived = IF bytes.kind = "ContactInfo" THEN SocketCache(bytes)
                            ELSE ExtractSlot(bytes.transaction)]

(* new_contact_info, sign.                                                 *)
SignedValue(data, keypair) == [data |-> data, signature |-> Signature(keypair, Serialize(data))]

(* The value as its receiver has it.                                       *)
Received(value) == [value EXCEPT !.data = Deserialize(Serialize(value.data))]

Verify(value) == value.signature = Signature(value.data.from, Serialize(value.data))
=============================================================================
