---------------------------- MODULE CodecProofs -----------------------------
(***************************************************************************)
(* What the conversions between bytes and values promise, for every length *)
(* of packets, streams, messages and lists the constants may allow.  But   *)
(* for the decoder they keep no state, so one invariant serves them all:   *)
(* what a call returned is what the conversion makes of an input it may be *)
(* given.  The decoder works column by column and has an invariant of its  *)
(* own, in the last sections, after the field it computes in.              *)
(***************************************************************************)
EXTENDS Codec, DataLemmas

-----------------------------------------------------------------------------
(* The invariant.                                                          *)

(* What the conversion `name` returns of what it may be given.             *)
Converted(name, given, result) ==
  /\ name = "multiply" => given \in Byte /\ result = [b \in Byte |-> GfMul(given, b)]
  /\ name = "variant" => given \in Byte /\ result = FromU8(given)
  /\ name = "shred" =>
       \E v \in SentShreds, zeros \in BOOLEAN, position \in {0, NUM_DATA_SHREDS - 1} :
         \E fill \in Fills(v) :
           /\ given = [v |-> v, fill |-> fill, position |-> position]
           /\ result = Receive(LeaderPacket(v, zeros, fill, 64, position))
  /\ name = "ping" => given \in Byte /\ result = Receive(PingPacket(TRUE, given))
  /\ name = "packet" =>
       \E v \in SentShreds, len \in PacketLens, size \in SizeFields, zeros \in BOOLEAN :
         /\ given = [PingPacket(zeros, ToU8(v)) EXCEPT !.len = len, !.size = size]
         /\ result = Receive(given)
  /\ name = "deshred" =>
       \E entries \in Streams, announced \in 0 .. MaxEntries + 1 : \E len \in Cuts(entries) :
         /\ given = [entries |-> entries, announced |-> announced, len |-> len]
         /\ result = DeshredIntoTxs(given)
  /\ name = "length" =>
       /\ given \in Lengths
       /\ result = [wide |-> DecodeLen(EncodeLen(given)), short |-> ReadShortU16(EncodeLen(given))]
  /\ name = "message" =>
       \E tag \in 0 .. 7, values \in GossipValues, whole \in BOOLEAN, len \in Int :
         /\ tag \notin ListTags => values = <<>>
         /\ given = [tag |-> tag, values |-> values, whole |-> whole, len |-> len]
         /\ result = DecodeFrom(given)
  /\ name = "sockets" =>
       \E addrs \in {<<>>, <<"a">>, <<"a", "b">>}, sockets \in SocketLists :
         /\ given = [addrs |-> addrs, sockets |-> sockets]
         /\ result = [cache |-> SocketCache(given),
                      by_key |-> [k \in 0 .. SOCKET_CACHE_SIZE |-> SocketByKey(given, k)]]
  /\ name = "signed" =>
       \E keypair \in {"self", "other"} :
         \E data \in VoteData
              \cup {ContactInfoNew("self", [ip |-> "a", port |-> port]) : port \in Ports} :
           /\ given = [value |-> SignedValue(data, keypair), by |-> keypair]
           /\ result = Received(given.value)

Answered == Converted(task, input, output)

(* The sequences that the model's inputs are made of.                      *)
LEMMA Enumerated ==
  ASSUME NEW S, NEW n \in Nat, NEW seq \in SeqOf(S, n)
  PROVE  /\ seq \in Seq(S) /\ Len(seq) \in 0 .. n /\ DOMAIN seq = 1 .. Len(seq)
         /\ \A i \in 1 .. Len(seq) : seq[i] \in S
<1>1. PICK m \in 0 .. n : seq \in [1 .. m -> S]
  BY DEF SeqOf
<1>2. m \in Nat
  OBVIOUS
<1>3. Len(seq) = m /\ DOMAIN seq = 1 .. m /\ seq \in Seq(S)
  BY <1>1, <1>2
<1> QED
  BY <1>1, <1>3

-----------------------------------------------------------------------------
(* Sums.                                                                   *)

(* The totals l of f, one after the other.                                 *)
Totalled(l, f, n) == l = [k \in 0 .. n |-> IF k = 0 THEN 0 ELSE l[k - 1] + f[k]]

(* Every list of numbers has such totals: SumTo is what it says.           *)
LEMMA TotalsExist ==
  ASSUME NEW f, NEW n \in Nat, \A k \in 1 .. n : f[k] \in Nat
  PROVE  \E l \in [0 .. n -> Nat] : Totalled(l, f, n)
<1> DEFINE step == [k \in 1 .. n |-> [x \in Nat |-> x + f[k]]]
<1>1. step \in [1 .. n -> [Nat -> Nat]]
  OBVIOUS
<1>2. \A k \in 1 .. n, x \in Nat : step[k][x] = x + f[k]
  OBVIOUS
<1> HIDE DEF step
<1>3. PICK l \in [0 .. n -> Nat] : Loops(l, 0, step, n)
  BY <1>1, LoopExists
<1>4. \A k \in 1 .. n : l[k - 1] \in Nat
  OBVIOUS
<1>5. \A k \in 1 .. n : step[k][l[k - 1]] = l[k - 1] + f[k]
  BY <1>2, <1>4
<1>6. l = [k \in 0 .. n |-> IF k = 0 THEN 0 ELSE l[k - 1] + f[k]]
  BY <1>3, <1>5 DEF Loops
<1> QED
  BY <1>6 DEF Totalled

(* The sums of a list of numbers: from nothing, each number on top of the  *)
(* sum before it.                                                          *)
LEMMA SumFacts ==
  ASSUME NEW f, NEW n \in Nat, \A k \in 1 .. n : f[k] \in Nat
  PROVE  /\ SumTo(f, 0) = 0
         /\ \A k \in 0 .. n : SumTo(f, k) \in Nat
         /\ \A k \in 1 .. n : SumTo(f, k) = SumTo(f, k - 1) + f[k]
<1>1. PICK l \in [0 .. n -> Nat] : Totalled(l, f, n)
  BY TotalsExist
<1>2. l[0] = 0 /\ \A k \in 1 .. n : l[k] = l[k - 1] + f[k]
  BY <1>1 DEF Totalled
<1>3. ASSUME NEW m \in 0 .. n
      PROVE  SumTo(f, m) = l[m]
  <2> DEFINE c == CHOOSE t : Totalled(t, f, m)
             S == {k \in 0 .. m : c[k] = l[k]}
  <2>0. m \in Nat /\ \A k \in 1 .. m : f[k] \in Nat
    OBVIOUS
  <2>1. \E t : Totalled(t, f, m)
    BY <2>0, TotalsExist
  <2>2. Totalled(c, f, m)
    BY <2>1
  <2>3. SumTo(f, m) = c[m]
    BY DEF SumTo, Totalled
  <2> HIDE DEF c
  <2>4. c[0] = 0 /\ \A k \in 1 .. m : c[k] = c[k - 1] + f[k]
    BY <2>2 DEF Totalled
  <2>5. 0 \in S
    BY <1>2, <2>4
  <2>6. ASSUME NEW k \in 1 .. m, k - 1 \in S PROVE k \in S
    BY <1>2, <2>4, <2>6
  <2> HIDE DEF S
  <2>7. \A k \in 0 .. m : k \in S
    BY <2>0, <2>5, <2>6, UpTo
  <2>8. m \in S
    BY <2>7
  <2> QED
    BY <2>3, <2>8 DEF S
<1> QED
  BY <1>2, <1>3

(* No sum is less than one before it.                                      *)
LEMMA SumGrows ==
  ASSUME NEW f, NEW n \in Nat, \A k \in 1 .. n : f[k] \in Nat, NEW i \in 0 .. n
  PROVE  SumTo(f, i) <= SumTo(f, n)
<1> DEFINE S == {k \in 0 .. n : i <= k => SumTo(f, i) <= SumTo(f, k)}
<1>1. /\ SumTo(f, 0) = 0
      /\ \A k \in 0 .. n : SumTo(f, k) \in Nat
      /\ \A k \in 1 .. n : SumTo(f, k) = SumTo(f, k - 1) + f[k]
  BY SumFacts
<1>2. 0 \in S
  <2>1. i <= 0 => i = 0
    OBVIOUS
  <2> QED
    BY <1>1, <2>1
<1>3. ASSUME NEW k \in 1 .. n, k - 1 \in S PROVE k \in S
  <2>1. CASE i = k
    BY <1>1, <2>1
  <2>2. CASE i < k
    <3>1. i <= k - 1 /\ k - 1 \in 0 .. n /\ k \in 0 .. n
      BY <2>2
    <3>2. SumTo(f, i) <= SumTo(f, k - 1)
      BY <1>3, <3>1
    <3> QED
      BY <1>1, <3>1, <3>2
  <2>3. CASE ~(i <= k)
    BY <2>3
  <2> QED
    BY <2>1, <2>2, <2>3
<1> HIDE DEF S
<1>4. n \in S
  BY <1>2, <1>3, UpTo
<1> QED
  BY <1>4 DEF S

(* Where the values of a gossip message begin: the first behind the count, *)
(* each of the others behind the one before.                               *)
LEMMA ValueStarts ==
  ASSUME NEW values \in GossipValues
  PROVE  /\ Len(values) \in 0 .. MaxValues /\ DOMAIN values = 1 .. Len(values)
         /\ \A i \in DOMAIN values : values[i].size \in Nat /\ values[i].size > SignatureBytes
         /\ ValueStart(values, 1) = 44
         /\ \A i \in 1 .. Len(values) + 1 : ValueStart(values, i) \in Nat
         /\ \A i \in DOMAIN values :
              ValueStart(values, i + 1) = ValueStart(values, i) + values[i].size
<1> DEFINE sizes == [j \in DOMAIN values |-> values[j].size]
<1>0. MaxValues \in Nat /\ \A n \in ValueSizes : n \in Nat /\ n > SignatureBytes
  BY MessageAssumption
<1>1. PICK m \in 0 .. MaxValues : values \in [1 .. m -> [good : BOOLEAN, size : ValueSizes]]
  BY DEF GossipValues, SeqOf
<1>2. m \in Nat /\ Len(values) = m /\ DOMAIN values = 1 .. m
  <2>1. m \in Nat
    BY <1>0
  <2> QED
    BY <1>1, <2>1
<1>3. ASSUME NEW i \in 1 .. m
      PROVE  values[i].size \in Nat /\ values[i].size > SignatureBytes
  <2>1. values[i] \in [good : BOOLEAN, size : ValueSizes]
    BY <1>1
  <2> QED
    BY <1>0, <2>1
<1>4. \A i \in 1 .. m : sizes[i] = values[i].size
  BY <1>2
<1>5. \A n : ValueStart(values, n) = 44 + SumTo(sizes, n - 1)
  BY DEF ValueStart, TagBytes, PubkeyBytes, CountBytes
<1> HIDE DEF sizes
<1>6. /\ SumTo(sizes, 0) = 0
      /\ \A k \in 0 .. m : SumTo(sizes, k) \in Nat
      /\ \A k \in 1 .. m : SumTo(sizes, k) = SumTo(sizes, k - 1) + sizes[k]
  BY <1>2, <1>3, <1>4, SumFacts
<1>7. ValueStart(values, 1) = 44
  BY <1>5, <1>6
<1>8. ASSUME NEW i \in 1 .. m + 1 PROVE ValueStart(values, i) \in Nat
  BY <1>2, <1>5, <1>6
<1>9. ASSUME NEW i \in 1 .. m
      PROVE  ValueStart(values, i + 1) = ValueStart(values, i) + values[i].size
  <2>1. SumTo(sizes, i) = SumTo(sizes, i - 1) + values[i].size /\ SumTo(sizes, i - 1) \in Nat
    BY <1>2, <1>4, <1>6
  <2>2. (i + 1) - 1 = i
    OBVIOUS
  <2> QED
    BY <1>3, <1>5, <2>1, <2>2
<1> QED
  BY <1>1, <1>2, <1>3, <1>7, <1>8, <1>9

(* Every call returns what its conversion makes of what it was given.      *)
LEMMA AnsweredInvariant == Spec => []Answered
<1>1. Init => Answered
  BY DEF Init, Answered, Converted
<1>2. Answered /\ [Next]_vars => Answered'
  <2> SUFFICES ASSUME Answered, [Next]_vars PROVE Converted(task', input', output')
    BY DEF Answered
  <2>1. CASE Decode
    BY <2>1 DEF Decode, StartDecode, Converted
  <2>2. CASE Multiply
    BY <2>2 DEF Multiply, Convert, Converted
  <2>3. CASE ReadVariant
    BY <2>3 DEF ReadVariant, Convert, Converted
  <2>4. CASE ReceiveShred
    <3>1. PICK v \in SentShreds, zeros \in BOOLEAN, position \in {0, NUM_DATA_SHREDS - 1} :
            \E fill \in Fills(v) :
              /\ task' = "shred" /\ input' = [v |-> v, fill |-> fill, position |-> position]
              /\ output' = Receive(LeaderPacket(v, zeros, fill, 64, position))
      BY <2>4, Zenon DEF ReceiveShred, Convert
    <3> QED
      BY <3>1, Zenon DEF Converted
  <2>5. CASE ReceivePing
    BY <2>5 DEF ReceivePing, Convert, Converted
  <2>6. CASE ReceivePacket
    <3>1. PICK v \in SentShreds, len \in PacketLens, size \in SizeFields, zeros \in BOOLEAN :
            /\ task' = "packet"
            /\ input' = [PingPacket(zeros, ToU8(v)) EXCEPT !.len = len, !.size = size]
            /\ output' = Receive(input')
      BY <2>6, Zenon DEF ReceivePacket, Convert
    <3> QED
      BY <3>1, Zenon DEF Converted
  <2>7. CASE Deshred
    <3>1. PICK entries \in Streams, announced \in 0 .. MaxEntries + 1 :
            \E len \in Cuts(entries) :
              /\ task' = "deshred"
              /\ input' = [entries |-> entries, announced |-> announced, len |-> len]
              /\ output' = DeshredIntoTxs(input')
      BY <2>7, Zenon DEF Deshred, Convert
    <3> QED
      BY <3>1, Zenon DEF Converted
  <2>8. CASE ReadLength
    BY <2>8 DEF ReadLength, Convert, Converted
  <2>9. CASE DecodeMessage
    <3>1. PICK tag \in 0 .. 7, values \in GossipValues, whole \in BOOLEAN :
            \E len \in {n \in {0, 3, 4, 35, 36, 37, 43, 44, 101, 102} : n <= MessageLen(values)}
                         \cup {MessageLen(values), MessageLen(values) - 1} :
            LET msg == [tag |-> tag, values |-> values, whole |-> whole, len |-> len]
            IN  /\ IF tag \in ListTags THEN whole
                   ELSE values = <<>> /\ (whole => len = MessageLen(values))
                /\ Convert("message", msg, DecodeFrom(msg))
      BY <2>9, Zenon DEF DecodeMessage
    <3>2. MessageLen(values) \in Int
      BY ValueStarts DEF MessageLen
    <3>3. PICK len \in Int :
            LET msg == [tag |-> tag, values |-> values, whole |-> whole, len |-> len]
            IN  /\ IF tag \in ListTags THEN whole
                   ELSE values = <<>> /\ (whole => len = MessageLen(values))
                /\ Convert("message", msg, DecodeFrom(msg))
      BY <3>1, <3>2
    <3>4. tag \notin ListTags => values = <<>>
      BY <3>3
    <3>5. /\ task' = "message"
          /\ input' = [tag |-> tag, values |-> values, whole |-> whole, len |-> len]
          /\ output' = DecodeFrom(input')
      BY <3>3 DEF Convert
    <3> QED
      BY <3>4, <3>5, Zenon DEF Converted
  <2>10. CASE ReadSockets
    <3>1. PICK addrs \in {<<>>, <<"a">>, <<"a", "b">>}, sockets \in SocketLists :
            /\ task' = "sockets"
            /\ input' = [addrs |-> addrs, sockets |-> sockets]
            /\ output' = [cache |-> SocketCache(input'),
                          by_key |-> [k \in 0 .. SOCKET_CACHE_SIZE |-> SocketByKey(input', k)]]
      BY <2>10, Zenon DEF ReadSockets, Convert
    <3> QED
      BY <3>1, Zenon DEF Converted
  <2>11. CASE SignData
    <3>1. PICK keypair \in {"self", "other"},
               data \in VoteData
                 \cup {ContactInfoNew("self", [ip |-> "a", port |-> port]) : port \in Ports} :
            /\ task' = "signed"
            /\ input' = [value |-> SignedValue(data, keypair), by |-> keypair]
            /\ output' = Received(SignedValue(data, keypair))
      BY <2>11, Zenon DEF SignData, Convert
    <3>2. input'.value = SignedValue(data, keypair)
      BY <3>1, Zenon
    <3> QED
      BY <3>1, <3>2, Zenon DEF Converted
  <2>12. CASE EliminateColumn
    BY <2>12 DEF EliminateColumn, Converted
  <2>13. CASE FinishDecode
    BY <2>13 DEF FinishDecode, Converted
  <2>14. CASE Return
    BY <2>14 DEF Return, Converted
  <2>15. CASE UNCHANGED vars
    BY <2>15 DEF vars, Answered
  <2> QED
    BY <2>1, <2>2, <2>3, <2>4, <2>5, <2>6, <2>7, <2>8, <2>9, <2>10, <2>11, <2>12, <2>13,
       <2>14, <2>15 DEF Next, Call
<1> QED
  BY <1>1, <1>2, PTL DEF Spec

-----------------------------------------------------------------------------
(* The repair socket.                                                      *)

(* What from_u8 reads.                                                     *)
LEMMA VariantRead ==
  ASSUME NEW byte \in Nat
  PROVE  /\ FromU8(byte) # NULL => FromU8(byte) \in Variants /\ ToU8(FromU8(byte)) = byte
         /\ \A v \in Variants : ToU8(v) = byte => FromU8(byte) = v
<1>1. byte = 16 * (byte \div 16) + (byte % 16) /\ byte % 16 \in 0 .. 15
  OBVIOUS
<1>2. CASE 16 * (byte \div 16) = 144
  BY <1>1, <1>2 DEF FromU8, ToU8, Variants
<1>3. CASE 16 * (byte \div 16) = 176
  BY <1>1, <1>3 DEF FromU8, ToU8, Variants
<1>4. CASE 16 * (byte \div 16) = 96
  BY <1>1, <1>4 DEF FromU8, ToU8, Variants
<1>5. CASE 16 * (byte \div 16) = 112
  BY <1>1, <1>5 DEF FromU8, ToU8, Variants
<1>6. CASE 16 * (byte \div 16) \notin {144, 176, 96, 112}
  <2>1. FromU8(byte) = NULL
    BY <1>6 DEF FromU8
  <2>2. ASSUME NEW v \in Variants PROVE ToU8(v) # byte
    <3>1. v.proof_size \in 0 .. 15 /\ v.kind \in {"data", "code"} /\ v.resigned \in BOOLEAN
      BY DEF Variants
    <3>2. PICK h \in {144, 176, 96, 112} : ToU8(v) = h + v.proof_size
      BY <3>1 DEF ToU8
    <3>3. (h + v.proof_size) \div 16 = h \div 16
      BY <3>1
    <3> QED
      BY <1>6, <3>2, <3>3
  <2> QED
    BY <2>1, <2>2
<1> QED
  BY <1>2, <1>3, <1>4, <1>5, <1>6

(* The byte written for a variant is read as that variant.                 *)
LEMMA VariantWritten ==
  ASSUME NEW v \in Variants
  PROVE  ToU8(v) \in Byte /\ FromU8(ToU8(v)) = v /\ v # NULL
<1>1. ToU8(v) \in Byte
  BY DEF ToU8, Variants, Byte
<1>2. ToU8(v) \in Nat
  BY <1>1 DEF Byte
<1>3. NULL \notin Variants
  BY CodecNullAssumption
<1> HIDE DEF Variants
<1> QED
  BY <1>1, <1>2, <1>3, VariantRead

(* from_u8 reads exactly the bytes to_u8 writes, for each of the 256       *)
(* bytes.                                                                  *)
THEOREM VariantsExact == Spec => []VariantExact
<1>1. Answered => VariantExact
  <2> SUFFICES ASSUME Answered, task = "variant" PROVE VariantExact
    BY DEF VariantExact
  <2>1. input \in Nat /\ output = FromU8(input)
    BY DEF Answered, Converted, Byte
  <2> QED
    BY <2>1, VariantRead, VariantWritten DEF VariantExact
<1> QED
  BY <1>1, AnsweredInvariant, PTL

(* The parts a shred was cut into.                                         *)
Parts(s) == {s.payload, s.root, s.proof}

(* What parse_from_bytes cuts out lies within the bytes it is given, and   *)
(* the payload behind the common header.                                   *)
LEMMA ParsedInside ==
  ASSUME NEW p, p.len \in Nat, p.size \in Nat, p.variant \in Nat, ParseFromBytes(p) # NULL
  PROVE  /\ \A part \in Parts(ParseFromBytes(p)) :
              0 <= part[1] /\ part[1] <= part[2] /\ part[2] <= p.len
         /\ ParseFromBytes(p).payload[1] > SIZE_OF_COMMON_HEADER
<1> DEFINE v == FromU8(p.variant)
<1>1. p.len > SIZE_OF_SIGNATURE /\ v # NULL
  BY DEF ParseFromBytes
<1>2. v \in Variants
  BY <1>1, VariantRead
<1>3. v.proof_size \in 0 .. 15 /\ RetransmitterSignature(v) \in {0, 64}
  BY <1>2 DEF Variants, RetransmitterSignature, SIZE_OF_SIGNATURE
<1>4. ASSUME NEW first \in Nat, NEW end \in Nat, NEW off \in Nat, first > 83,
             ShredOf(p, v, <<first, end>>, off) # NULL,
             ParseFromBytes(p) = ShredOf(p, v, <<first, end>>, off)
      PROVE  /\ \A part \in Parts(ParseFromBytes(p)) :
                  0 <= part[1] /\ part[1] <= part[2] /\ part[2] <= p.len
             /\ ParseFromBytes(p).payload[1] > SIZE_OF_COMMON_HEADER
  <2>1. first <= end /\ end <= p.len /\ off + 32 + v.proof_size * 20 <= p.len
    BY <1>4 DEF ShredOf, InSlice, Proof, SIZE_OF_MERKLE_ROOT, SIZE_OF_MERKLE_PROOF_ENTRY
  <2>2. /\ ParseFromBytes(p).payload = <<first, end>>
        /\ ParseFromBytes(p).root = <<off, off + 32>>
        /\ ParseFromBytes(p).proof = <<off + 32, off + 32 + v.proof_size * 20>>
    BY <1>4 DEF ShredOf, Root, Proof, SIZE_OF_MERKLE_ROOT, SIZE_OF_MERKLE_PROOF_ENTRY
  <2> QED
    BY <1>3, <1>4, <2>1, <2>2 DEF Parts, SIZE_OF_COMMON_HEADER
<1> HIDE DEF v
<1>5. CASE v.kind = "data"
  <2>1. ParseFromBytes(p) = ParseData(p, v)
    BY <1>1, <1>5 DEF ParseFromBytes, v
  <2> DEFINE end == IF p.size > 88 THEN p.size ELSE 88
             off == p.size + RetransmitterSignature(v)
  <2>2. ParseData(p, v) = ShredOf(p, v, <<88, end>>, off)
    BY <2>1 DEF ParseData, SIZE_OF_COMMON_HEADER, SIZE_OF_DATA_HEADER
  <2>3. end \in Nat /\ off \in Nat
    BY <1>3
  <2> HIDE DEF end, off
  <2> QED
    BY <1>4, <2>1, <2>2, <2>3
<1>6. CASE v.kind # "data"
  <2>1. ParseFromBytes(p) = ParseCode(p, v)
    BY <1>1, <1>6 DEF ParseFromBytes, v
  <2> DEFINE end == 89 + (1228 - 89 - 32 - v.proof_size * 20 - RetransmitterSignature(v))
             off == end + RetransmitterSignature(v)
  <2>2. ParseCode(p, v) = ShredOf(p, v, <<89, end>>, off)
    BY <2>1 DEF ParseCode, SIZE_OF_COMMON_HEADER, SIZE_OF_CODING_HEADER, SIZE_OF_CODING_SHRED,
                SIZE_OF_MERKLE_ROOT, SIZE_OF_MERKLE_PROOF_ENTRY
  <2>3. end \in Nat /\ off \in Nat
    BY <1>3
  <2> HIDE DEF end, off
  <2> QED
    BY <1>4, <2>1, <2>2, <2>3
<1> QED
  BY <1>5, <1>6

(* Whatever a datagram claims of itself, the receive arm cuts the shred    *)
(* only out of the bytes that arrived before the nonce: a size field from  *)
(* the wire never leads parse_from_bytes out of its buffer.                *)
THEOREM PacketsInBounds == Spec => []InBounds
<1>1. Answered => InBounds
  <2> SUFFICES ASSUME Answered, task = "packet", output.shred # NULL PROVE InBounds
    BY DEF InBounds
  <2>1. PICK v \in SentShreds, len \in PacketLens, size \in SizeFields, zeros \in BOOLEAN :
          /\ input = [PingPacket(zeros, ToU8(v)) EXCEPT !.len = len, !.size = size]
          /\ output = Receive(input)
    BY DEF Answered, Converted
  <2>2. len \in Nat /\ size \in Nat /\ ToU8(v) \in Nat
    <3>1. v \in Variants
      BY DEF SentShreds
    <3>2. ToU8(v) \in Nat
      BY <3>1, VariantWritten DEF Byte
    <3>3. len \in Nat /\ size \in Nat
      BY PacketAssumption
    <3> QED
      BY <3>2, <3>3
  <2>3. input = [len |-> len, zeros |-> zeros, variant |-> ToU8(v), slot |-> 0, index |-> 0,
                 fec_set_index |-> 0, size |-> size]
    BY <2>1 DEF PingPacket
  <2> DEFINE cut == IF len < PACKET_DATA_SIZE THEN len ELSE PACKET_DATA_SIZE
             p == [input EXCEPT !.len = cut]
             q == [p EXCEPT !.len = p.len - NONCE_BYTES]
  <2>4. /\ cut \in Nat /\ cut = Min({len, PACKET_DATA_SIZE})
        /\ p.len = cut /\ p.size = size /\ p.variant = ToU8(v)
        /\ q.len = cut - 4 /\ q.size = size /\ q.variant = ToU8(v)
    <3>1. cut \in Nat
      BY <2>2 DEF PACKET_DATA_SIZE
    <3>2. Min({len, 1232}) \in {len, 1232} /\ Min({len, 1232}) <= len /\ Min({len, 1232}) <= 1232
      BY <2>2, MinOfTwo
    <3> QED
      BY <2>2, <2>3, <3>1, <3>2 DEF PACKET_DATA_SIZE, NONCE_BYTES
  <2>5. output = Receive(input) /\ Receive(input) =
          (CASE ParseResponse(p).response = "ping" ->
                  [pong |-> ParseResponse(p).token, shred |-> NULL]
             [] ParseResponse(p).response = "shred" ->
                  [pong |-> NULL, shred |-> ParseFromBytes(ParseResponse(p).bytes)]
             [] ParseResponse(p).response = "none" ->
                  [pong |-> NULL, shred |-> ParseFromBytes(p)])
    BY <2>1, <2>3 DEF Receive
  <2> HIDE DEF p
  <2>6. CASE p.len = PING_BYTES /\ p.zeros
    BY <2>5, <2>6 DEF ParseResponse
  <2>7. CASE ~(p.len = PING_BYTES /\ p.zeros) /\ p.len < 5
    <3>1. output.shred = ParseFromBytes(p)
      BY <2>5, <2>7 DEF ParseResponse
    <3>2. ParseFromBytes(p) = NULL
      BY <2>2, <2>4, <2>7 DEF ParseFromBytes, SIZE_OF_SIGNATURE
    <3> QED
      BY <3>1, <3>2
  <2>8. CASE ~(p.len = PING_BYTES /\ p.zeros) /\ ~(p.len < 5)
    <3>1. output.shred = ParseFromBytes(q)
      BY <2>5, <2>8 DEF ParseResponse
    <3> HIDE DEF q
    <3>2. q.len \in Nat /\ q.size \in Nat /\ q.variant \in Nat
      BY <2>2, <2>4, <2>8
    <3>3. /\ \A part \in Parts(output.shred) :
                0 <= part[1] /\ part[1] <= part[2] /\ part[2] <= q.len
          /\ output.shred.payload[1] > SIZE_OF_COMMON_HEADER
      BY <3>1, <3>2, ParsedInside
    <3> QED
      BY <2>3, <2>4, <3>3 DEF InBounds, Parts, NONCE_BYTES
  <2> QED
    BY <2>6, <2>7, <2>8
<1> QED
  BY <1>1, AnsweredInvariant, PTL

(* A ping is taken for one whatever its bytes are, and its token returned. *)
THEOREM PingsAnswered == Spec => []PingAnswered
<1>1. Answered => PingAnswered
  <2> SUFFICES ASSUME Answered, task = "ping" PROVE PingAnswered
    BY DEF PingAnswered
  <2>1. output = Receive(PingPacket(TRUE, input))
    BY DEF Answered, Converted
  <2> DEFINE p == [len |-> 132, zeros |-> TRUE, variant |-> input, slot |-> 0, index |-> 0,
                   fec_set_index |-> 0, size |-> 0]
  <2>2. PingPacket(TRUE, input) = p
    BY DEF PingPacket, PING_BYTES
  <2>3. p.len = 132 /\ p.zeros = TRUE
    OBVIOUS
  <2>6. [p EXCEPT !.len = IF @ < PACKET_DATA_SIZE THEN @ ELSE PACKET_DATA_SIZE] = p
    <3>1. (IF p.len < PACKET_DATA_SIZE THEN p.len ELSE PACKET_DATA_SIZE) = 132
      BY <2>3 DEF PACKET_DATA_SIZE
    <3>2. [p EXCEPT !.len = 132] = p
      BY <2>3
    <3> QED
      BY <3>1, <3>2
  <2> HIDE DEF p
  <2> DEFINE r == ParseResponse(p)
  <2>4. r.response = "ping" /\ r.token = <<36, 68>>
    BY <2>3 DEF ParseResponse, PING_BYTES
  <2>5. Receive(p) = [pong |-> r.token, shred |-> NULL]
    BY <2>4, <2>6 DEF Receive
  <2> QED
    <3>1. output = [pong |-> <<36, 68>>, shred |-> NULL]
      BY <2>1, <2>2, <2>4, <2>5
    <3>2. TokenOfPing = <<36, 68>>
      BY DEF TokenOfPing
    <3> QED
      BY <3>1, <3>2 DEF PingAnswered
<1> QED
  BY <1>1, AnsweredInvariant, PTL

(* A shred as a leader fills it, behind the nonce, is neither taken for a  *)
(* ping nor refused, and its payload is what the leader put in, for every  *)
(* variant and every filling.                                              *)
THEOREM ShredsAsSent == Spec => []ShredAsSent
<1>1. Answered => ShredAsSent
  <2> SUFFICES ASSUME Answered, task = "shred" PROVE ShredAsSent
    BY DEF ShredAsSent
  <2>1. PICK v \in SentShreds, zeros \in BOOLEAN, position \in {0, NUM_DATA_SHREDS - 1} :
          \E fill \in Fills(v) :
            /\ input = [v |-> v, fill |-> fill, position |-> position]
            /\ output = Receive(LeaderPacket(v, zeros, fill, 64, position))
    BY DEF Answered, Converted
  <2>2. PICK fill \in Fills(v) :
          /\ input = [v |-> v, fill |-> fill, position |-> position]
          /\ output = Receive(LeaderPacket(v, zeros, fill, 64, position))
    BY <2>1
  <2>3. /\ v \in Variants /\ v.kind \in {"data", "code"}
        /\ v.proof_size \in 0 .. 15 /\ RetransmitterSignature(v) \in {0, 64}
    BY DEF SentShreds, Variants, RetransmitterSignature, SIZE_OF_SIGNATURE
  <2>4. position \in Nat
    BY FecAssumption
  <2>5. fill \in Nat /\ (v.kind = "data" => fill <= DataCapacity(v))
    BY <2>3 DEF Fills, DataCapacity, SIZE_OF_DATA_SHRED, SIZE_OF_COMMON_HEADER,
                SIZE_OF_DATA_HEADER, SIZE_OF_MERKLE_ROOT, SIZE_OF_MERKLE_PROOF_ENTRY
  <2> DEFINE full == IF v.kind = "data" THEN 1203 ELSE 1228
             p == [len |-> 4 + full, zeros |-> zeros, variant |-> ToU8(v), slot |-> 10,
                   index |-> 64 + position, fec_set_index |-> 64, size |-> 88 + fill]
             q == [p EXCEPT !.len = p.len - NONCE_BYTES]
  <2>6. LeaderPacket(v, zeros, fill, 64, position) = p
    BY DEF LeaderPacket, NONCE_BYTES, SIZE_OF_DATA_SHRED, SIZE_OF_CODING_SHRED,
           SIZE_OF_COMMON_HEADER, SIZE_OF_DATA_HEADER
  <2>7. /\ p.len = 4 + full /\ full \in {1203, 1228}
        /\ q = [len |-> full, zeros |-> zeros, variant |-> ToU8(v), slot |-> 10,
                index |-> 64 + position, fec_set_index |-> 64, size |-> 88 + fill]
    BY DEF NONCE_BYTES
  <2>8. ParseResponse(p) = [response |-> "shred", bytes |-> q]
    BY <2>7 DEF ParseResponse, PING_BYTES
  <2>9. [p EXCEPT !.len = IF @ < PACKET_DATA_SIZE THEN @ ELSE PACKET_DATA_SIZE] = p
    BY <2>7 DEF PACKET_DATA_SIZE
  <2> HIDE DEF p
  <2>10. Receive(p) = [pong |-> NULL, shred |-> ParseFromBytes(q)]
    BY <2>8, <2>9 DEF Receive
  <2> HIDE DEF q
  <2>11. q.len > SIZE_OF_SIGNATURE /\ ~(q.len < SIZE_OF_COMMON_HEADER) /\ q.variant = ToU8(v)
    BY <2>7 DEF SIZE_OF_SIGNATURE, SIZE_OF_COMMON_HEADER
  <2>12. ParseFromBytes(q) = IF v.kind = "data" THEN ParseData(q, v) ELSE ParseCode(q, v)
    BY <2>3, <2>11, VariantWritten DEF ParseFromBytes
  <2> DEFINE first == IF v.kind = "data" THEN 88 ELSE 89
             end == first + IF v.kind = "data" THEN fill ELSE CodeCapacity(v)
             off == end + RetransmitterSignature(v)
  <2>13. ParseFromBytes(q) = ShredOf(q, v, <<first, end>>, off)
    <3>1. CASE v.kind = "data"
      <4>1. q.size = 88 + fill /\ ~(q.len < 88) /\ (q.size > 88 \/ q.size = 88)
        BY <2>5, <2>7, <3>1
      <4>2. ParseData(q, v) = ShredOf(q, v, <<88, 88 + fill>>, 88 + fill + RetransmitterSignature(v))
        BY <4>1 DEF ParseData, SIZE_OF_COMMON_HEADER, SIZE_OF_DATA_HEADER
      <4> QED
        BY <2>12, <3>1, <4>2
    <3>2. CASE v.kind # "data"
      BY <2>3, <2>7, <2>12, <3>2
         DEF ParseCode, CodeCapacity, SIZE_OF_COMMON_HEADER, SIZE_OF_CODING_HEADER,
             SIZE_OF_CODING_SHRED, SIZE_OF_MERKLE_ROOT, SIZE_OF_MERKLE_PROOF_ENTRY
    <3> QED
      BY <3>1, <3>2
  <2>14. /\ first \in Nat /\ end \in Nat /\ off \in Nat
         /\ first <= end /\ end <= full /\ off + 32 + v.proof_size * 20 <= full
    BY <2>3, <2>5
       DEF DataCapacity, CodeCapacity, SIZE_OF_DATA_SHRED, SIZE_OF_COMMON_HEADER,
           SIZE_OF_DATA_HEADER, SIZE_OF_CODING_HEADER,
           SIZE_OF_CODING_SHRED, SIZE_OF_MERKLE_ROOT, SIZE_OF_MERKLE_PROOF_ENTRY
  <2>15. first = IF input.v.kind = "data" THEN 88 ELSE 89
    BY <2>2
  <2> DEFINE shred == [kind |-> v.kind, slot |-> 10, index |-> 64 + position,
                       fec_set_index |-> 64, payload |-> <<first, end>>, root |-> Root(off),
                       proof |-> Proof(off, v)]
  <2>16. ParseFromBytes(q) = shred
    <3> HIDE DEF first, end, off
    <3>1. InSlice(q, first, end) /\ InSlice(q, off, Proof(off, v)[2])
      BY <2>3, <2>7, <2>14 DEF InSlice, Proof, SIZE_OF_MERKLE_ROOT, SIZE_OF_MERKLE_PROOF_ENTRY
    <3>2. /\ q.slot = 10 /\ q.index = 64 + position /\ q.fec_set_index = 64
          /\ <<first, end>>[1] = first /\ <<first, end>>[2] = end
      BY <2>7
    <3> QED
      BY <2>13, <3>1, <3>2 DEF ShredOf
  <2>17. shred # NULL
    <3> HIDE DEF first, end, off
    <3>1. Root(off) \in Nat \X Nat /\ Proof(off, v) \in Nat \X Nat /\ <<first, end>> \in Nat \X Nat
      BY <2>3, <2>14 DEF Root, Proof, SIZE_OF_MERKLE_ROOT, SIZE_OF_MERKLE_PROOF_ENTRY
    <3> QED
      BY <2>3, <2>4, <3>1, CodecNullAssumption
  <2>18. output = [pong |-> NULL, shred |-> shred]
    BY <2>2, <2>6, <2>10, <2>16
  <2>19. end = first + IF shred.kind = "data" THEN input.fill ELSE CodeCapacity(input.v)
    BY <2>2
  <2>20. shred.index - shred.fec_set_index = input.position
    BY <2>2, <2>4
  <2>21. shred.kind = input.v.kind /\ shred.slot = 10
    BY <2>2
  <2>22. shred.payload = <<first, end>>
    OBVIOUS
  <2> HIDE DEF shred, first, end, off
  <2> QED
    BY <2>15, <2>17, <2>18, <2>19, <2>20, <2>21, <2>22 DEF ShredAsSent
<1> QED
  BY <1>1, AnsweredInvariant, PTL

(* Every variant byte, shred and ping is taken for what was sent.          *)
THEOREM SentReceived == Spec => []ReceivedAsSent
<1>1. VariantExact /\ ShredAsSent /\ PingAnswered => ReceivedAsSent
  BY DEF ReceivedAsSent
<1> QED
  BY <1>1, VariantsExact, ShredsAsSent, PingsAnswered, PTL

-----------------------------------------------------------------------------
(* Gossip.                                                                 *)

(* What is signed is what remains of the value at its receiver.            *)
LEMMA SerializedAgain ==
  ASSUME NEW kind, NEW derived, NEW data,
         \/ \E from, transaction :
              data = [kind |-> "Vote", from |-> from, derived |-> derived,
                      transaction |-> transaction]
         \/ \E from, addrs, sockets :
              data = [kind |-> "ContactInfo", from |-> from, addrs |-> addrs,
                      sockets |-> sockets, derived |-> derived]
  PROVE  LET sent == Serialize(data)
             got  == Deserialize(sent)
         IN  /\ Serialize(got) = sent /\ got.from = data.from /\ got.kind = data.kind
             /\ data.kind = "Vote" =>
                  /\ got.transaction = data.transaction
                  /\ got.derived = ExtractSlot(data.transaction)
<1>1. CASE \E from, transaction :
             data = [kind |-> "Vote", from |-> from, derived |-> derived,
                     transaction |-> transaction]
  <2>1. PICK from, transaction :
          data = [kind |-> "Vote", from |-> from, derived |-> derived,
                  transaction |-> transaction]
    BY <1>1
  <2>2. Serialize(data) = [kind |-> "Vote", from |-> from, derived |-> NULL,
                           transaction |-> transaction]
    BY <2>1 DEF Serialize
  <2> DEFINE slot == ExtractSlot(transaction)
  <2>3. Deserialize(Serialize(data)) = [kind |-> "Vote", from |-> from, derived |-> slot,
                                        transaction |-> transaction]
    BY <2>2 DEF Deserialize
  <2> HIDE DEF slot
  <2>4. Serialize(Deserialize(Serialize(data))) = Serialize(data)
    BY <2>2, <2>3 DEF Serialize
  <2> QED
    BY <2>1, <2>2, <2>3, <2>4 DEF slot
<1>2. CASE \E from, addrs, sockets :
             data = [kind |-> "ContactInfo", from |-> from, addrs |-> addrs,
                     sockets |-> sockets, derived |-> derived]
  <2>1. PICK from, addrs, sockets :
          data = [kind |-> "ContactInfo", from |-> from, addrs |-> addrs,
                  sockets |-> sockets, derived |-> derived]
    BY <1>2
  <2> DEFINE sent == [kind |-> "ContactInfo", from |-> from, addrs |-> addrs,
                      sockets |-> sockets, derived |-> NULL]
             cache == SocketCache(sent)
  <2>2. Serialize(data) = sent
    BY <2>1 DEF Serialize
  <2> HIDE DEF cache
  <2>3. Deserialize(sent) = [kind |-> "ContactInfo", from |-> from, addrs |-> addrs,
                             sockets |-> sockets, derived |-> cache]
    BY DEF Deserialize, cache
  <2>4. Serialize(Deserialize(sent)) = sent
    BY <2>3 DEF Serialize
  <2> QED
    BY <2>1, <2>2, <2>3, <2>4
<1> QED
  BY <1>1, <1>2

(* The slot read from a vote is the last one its transaction votes for,    *)
(* through the vote program.                                               *)
VotedFor(slot, tx, ix) ==
  /\ slot = ix.last_voted_slot /\ ix.kind \in VoteKinds
  /\ ix.program_id_index < Len(tx.account_keys)
  /\ tx.account_keys[ix.program_id_index + 1] = "vote program"

LEMMA SlotExtracted ==
  ASSUME NEW data \in VoteData, ExtractSlot(data.transaction) # NULL
  PROVE  VotedFor(ExtractSlot(data.transaction), data.transaction,
                  data.transaction.instructions[1])
<1> DEFINE tx == data.transaction
           ix == tx.instructions[1]
           keys == tx.account_keys
           index == ix.program_id_index
<1>1. /\ keys \in SeqOf({"vote program", "payer"}, 2)
      /\ tx.instructions = <<>> \/ \E i \in VoteInstructions : tx.instructions = <<i>>
  BY Zenon DEF VoteData
<1> HIDE DEF tx, keys
<1>2. Len(keys) \in 0 .. 2
  BY <1>1, Enumerated
<1>3. Len(keys) \in Nat
  BY <1>2
<1>4. tx.instructions # <<>>
  BY DEF ExtractSlot, tx
<1>5. PICK i \in VoteInstructions : tx.instructions = <<i>>
  BY <1>1, <1>4
<1>6. index \in Nat
  BY <1>5 DEF VoteInstructions
<1>7. ExtractSlot(tx) # NULL
  BY DEF tx
<1> HIDE DEF ix, index
<1>8. ExtractSlot(tx) = IF index >= Len(keys) \/ keys[index + 1] # "vote program"
                           \/ ix.kind \notin VoteKinds THEN NULL
                       ELSE ix.last_voted_slot
  BY <1>4 DEF ExtractSlot, ix, keys, index
<1>9. /\ ~(index >= Len(keys)) /\ keys[index + 1] = "vote program"
      /\ ix.kind \in VoteKinds /\ ExtractSlot(tx) = ix.last_voted_slot
  BY <1>7, <1>8
<1>10. index < Len(keys)
  <2> DEFINE n == Len(keys)
  <2>1. n \in Nat /\ ~(index >= n)
    BY <1>3, <1>9
  <2> HIDE DEF n
  <2>2. index < n
    BY <1>6, <2>1
  <2> QED
    BY <2>2 DEF n
<1> QED
  BY <1>9, <1>10, Zenon DEF VotedFor, tx, ix, keys, index

(* A value verifies where it arrives exactly if its owner signed it, and a *)
(* vote counts with the slot the signed transaction votes for.             *)
THEOREM SignedReceived == Spec => []ReceivedAsSigned
<1>1. Answered => ReceivedAsSigned
  <2> SUFFICES ASSUME Answered, task = "signed" PROVE ReceivedAsSigned
    BY DEF ReceivedAsSigned
  <2>1. PICK keypair \in {"self", "other"},
             data \in VoteData
               \cup {ContactInfoNew("self", [ip |-> "a", port |-> port]) : port \in Ports} :
          /\ input = [value |-> SignedValue(data, keypair), by |-> keypair]
          /\ output = Received(input.value)
    BY Zenon DEF Answered, Converted
  <2> DEFINE sent == Serialize(data)
             got == Deserialize(sent)
             signature == [by |-> keypair, over |-> sent]
  <2>2. \/ data \in VoteData
        \/ \E port \in Ports : data = ContactInfoNew("self", [ip |-> "a", port |-> port])
    BY <2>1
  <2>3. /\ sent = Serialize(got) /\ got.from = data.from /\ got.kind = data.kind
        /\ data.kind = "Vote" =>
             got.transaction = data.transaction /\ got.derived = ExtractSlot(data.transaction)
    <3>1. CASE data \in VoteData
      <4>1. data = [kind |-> "Vote", from |-> data.from, derived |-> data.derived,
                    transaction |-> data.transaction]
        BY <3>1 DEF VoteData
      <4> QED
        BY <4>1, SerializedAgain
    <3>2. CASE \E port \in Ports : data = ContactInfoNew("self", [ip |-> "a", port |-> port])
      <4>1. PICK port \in Ports : data = ContactInfoNew("self", [ip |-> "a", port |-> port])
        BY <3>2
      <4>2. \E from, addrs, sockets, derived :
              data = [kind |-> "ContactInfo", from |-> from, addrs |-> addrs,
                      sockets |-> sockets, derived |-> derived]
        BY <4>1, Zenon DEF ContactInfoNew
      <4> QED
        BY <4>2, SerializedAgain
    <3> QED
      BY <2>2, <3>1, <3>2
  <2> HIDE DEF sent, got
  <2>4. input.value = [data |-> data, signature |-> signature] /\ input.by = keypair
    BY <2>1 DEF SignedValue, Signature, sent
  <2>5. output = [data |-> got, signature |-> signature]
    BY <2>1, <2>4 DEF Received, sent, got
  <2>6. Verify(output) <=> signature = [by |-> got.from, over |-> Serialize(got)]
    BY <2>5 DEF Verify, Signature
  <2>7. Verify(output) <=> keypair = data.from
    BY <2>3, <2>6
  <2>8. ASSUME got.kind = "Vote", got.derived # NULL
        PROVE  VotedFor(got.derived, got.transaction, got.transaction.instructions[1])
    <3>1. data.kind = "Vote"
      BY <2>3, <2>8
    <3>2. data \in VoteData
      BY <2>2, <3>1 DEF ContactInfoNew
    <3>3. got.transaction = data.transaction /\ got.derived = ExtractSlot(data.transaction)
      BY <2>3, <3>1
    <3> QED
      BY <2>8, <3>2, <3>3, SlotExtracted
  <2>9. Verify(output) <=> input.by = input.value.data.from
    BY <2>4, <2>7
  <2>10. output.data = got
    BY <2>5
  <2> QED
    BY <2>8, <2>9, <2>10 DEF ReceivedAsSigned, VotedFor
<1> QED
  BY <1>1, AnsweredInvariant, PTL

AddrLists == {<<>>, <<"a">>, <<"a", "b">>}

(* Both readings of a contact info find for the key what its entry e says. *)
ReadAs(ci, key, e) ==
  LET entry == ci.sockets[e]
      port  == PortSum(ci.sockets, e)
      total == PortSum(ci.sockets, Len(ci.sockets))
  IN  /\ port \in Nat /\ total \in Nat /\ port <= total
      /\ SocketByKey(ci, key) # NULL <=> port < 65536 /\ entry.index < Len(ci.addrs)
      /\ SocketByKey(ci, key) # NULL => SocketCache(ci)[key] = SocketByKey(ci, key)
      /\ ~(entry.index < Len(ci.addrs)) => SocketCache(ci)[key] = SOCKET_ADDR_UNSPECIFIED

(* The only entry for a key, if there is one, is what both readings use.   *)
LEMMA OneEntry ==
  ASSUME NEW addrs \in AddrLists, NEW sockets \in SocketLists,
         \A i, j \in DOMAIN sockets : sockets[i].key = sockets[j].key => i = j,
         NEW key \in 0 .. SOCKET_CACHE_SIZE - 1, NEW e \in DOMAIN sockets,
         sockets[e].key = key,
         NEW ci, ci = [addrs |-> addrs, sockets |-> sockets]
  PROVE  ReadAs(ci, key, e)
<1> DEFINE n == Len(sockets)
           offsets == [i \in DOMAIN sockets |-> sockets[i].offset]
           port == PortSum(sockets, e)
           index == sockets[e].index
           hits == {i \in DOMAIN sockets : sockets[i].key = key}
           listed == {i \in DOMAIN sockets : sockets[i].key = key /\ sockets[i].index < Len(addrs)}
<1>1. /\ n \in Nat /\ DOMAIN sockets = 1 .. n
      /\ \A i \in 1 .. n : sockets[i] \in [key : {0, 4, SOCKET_CACHE_SIZE}, index : {0, 1},
                                          offset : Ports]
  <2>1. MaxSockets \in Nat
    BY SocketAssumption
  <2> DEFINE S == [key : {0, 4, SOCKET_CACHE_SIZE}, index : {0, 1}, offset : Ports]
  <2>2. sockets \in SeqOf(S, MaxSockets)
    BY DEF SocketLists
  <2> HIDE DEF S
  <2>3. /\ Len(sockets) \in 0 .. MaxSockets /\ DOMAIN sockets = 1 .. Len(sockets)
        /\ \A i \in 1 .. Len(sockets) : sockets[i] \in S
    BY <2>1, <2>2, Enumerated
  <2>4. n \in Nat
    BY <2>1, <2>3
  <2> QED
    BY <2>3, <2>4 DEF S
<1>2. e \in 0 .. n /\ e \in 1 .. n /\ index \in {0, 1}
  BY <1>1
<1>3. \A i \in 1 .. n : offsets[i] \in Nat
  BY <1>1, SocketAssumption
<1>4. PortSum(sockets, e) = SumTo(offsets, e) /\ PortSum(sockets, n) = SumTo(offsets, n)
  BY DEF PortSum
<1> HIDE DEF offsets
<1>5. SumTo(offsets, e) \in Nat /\ SumTo(offsets, n) \in Nat
  <2>1. n \in 0 .. n
    BY <1>1
  <2> QED
    BY <1>1, <1>2, <1>3, <2>1, SumFacts
<1>6. SumTo(offsets, e) <= SumTo(offsets, n)
  BY <1>1, <1>2, <1>3, SumGrows
<1>7. hits = {e} /\ (listed = IF index < Len(addrs) THEN {e} ELSE {})
  OBVIOUS
<1>8. Min(hits) = e /\ hits # {}
  BY <1>7 DEF Min
<1>9. index < Len(addrs) => Max(listed) = e /\ listed # {}
  BY <1>7 DEF Max
<1>10. ~(index < Len(addrs)) => listed = {}
  BY <1>7
<1>11. Len(addrs) \in Nat /\ (index < Len(addrs) => addrs[index + 1] \in {"a", "b"})
  BY <1>2 DEF AddrLists
<1> DEFINE addr == [ip |-> addrs[index + 1], port |-> port]
<1>12. SocketByKey(ci, key) =
         IF port >= 65536 \/ index >= Len(addrs) THEN NULL ELSE addr
  <2>1. ci.addrs = addrs /\ ci.sockets = sockets
    OBVIOUS
  <2> HIDE DEF port, index
  <2> QED
    BY <1>8, <2>1 DEF SocketByKey, port, index
<1>13. SocketCache(ci)[key] =
         IF listed = {} THEN SOCKET_ADDR_UNSPECIFIED
         ELSE [ip |-> addrs[sockets[Max(listed)].index + 1],
               port |-> PortSum(sockets, Max(listed)) % 65536]
  BY DEF SocketCache
<1> HIDE DEF listed, hits
<1>14. port \in Nat
  BY <1>4, <1>5
<1>15. index < Len(addrs) => addr # NULL
  BY <1>11, <1>14, CodecNullAssumption
<1> HIDE DEF port, index, addr
<1>16. SocketByKey(ci, key) # NULL <=> port < 65536 /\ index < Len(addrs)
  <2>1. index \in Nat
    BY <1>2
  <2> QED
    BY <1>11, <1>12, <1>14, <1>15, <2>1
<1>17. ASSUME SocketByKey(ci, key) # NULL
       PROVE  SocketCache(ci)[key] = SocketByKey(ci, key)
  <2>1. port < 65536 /\ index < Len(addrs)
    BY <1>16, <1>17
  <2>2. port % 65536 = port
    BY <1>14, <2>1
  <2>3. SocketByKey(ci, key) = addr
    BY <1>12, <1>17
  <2>4. SocketCache(ci)[key] = [ip |-> addrs[index + 1], port |-> port % 65536]
    BY <1>9, <1>13, <2>1 DEF port, index
  <2> QED
    BY <2>2, <2>3, <2>4 DEF addr
<1>18. ~(index < Len(addrs)) => SocketCache(ci)[key] = SOCKET_ADDR_UNSPECIFIED
  BY <1>10, <1>13
<1> QED
  <2>1. ci.addrs = addrs /\ ci.sockets = sockets
    OBVIOUS
  <2>2. PortSum(sockets, Len(sockets)) = SumTo(offsets, n)
    BY <1>4
  <2> QED
    BY <1>4, <1>5, <1>6, <1>16, <1>17, <1>18, <2>1, <2>2 DEF ReadAs, port, index

(* An address found by key is the cached one, and without a port overflow  *)
(* the cache holds no other.                                               *)
THEOREM SocketReadingsAgree == Spec => []SocketsAgree
<1>1. Answered => SocketsAgree
  <2> SUFFICES ASSUME Answered, task = "sockets",
                      \A i, j \in DOMAIN input.sockets :
                        input.sockets[i].key = input.sockets[j].key => i = j,
                      NEW key \in 0 .. SOCKET_CACHE_SIZE - 1
               PROVE  IF output.by_key[key] # NULL THEN output.cache[key] = output.by_key[key]
                      ELSE PortSum(input.sockets, Len(input.sockets)) < 65536 =>
                             output.cache[key] = SOCKET_ADDR_UNSPECIFIED
    BY DEF SocketsAgree
  <2>1. PICK addrs \in {<<>>, <<"a">>, <<"a", "b">>}, sockets \in SocketLists :
          /\ input = [addrs |-> addrs, sockets |-> sockets]
          /\ output = [cache |-> SocketCache(input),
                       by_key |-> [k \in 0 .. SOCKET_CACHE_SIZE |-> SocketByKey(input, k)]]
    BY Zenon DEF Answered, Converted
  <2>2. key \in 0 .. SOCKET_CACHE_SIZE
    BY DEF SOCKET_CACHE_SIZE
  <2>3. /\ input.sockets = sockets /\ output.cache = SocketCache(input)
        /\ output.by_key[key] = SocketByKey(input, key)
    BY <2>1, <2>2
  <2>4. CASE \E e \in DOMAIN sockets : sockets[e].key = key
    <3>1. PICK e \in DOMAIN sockets : sockets[e].key = key
      BY <2>4
    <3>2. \A i, j \in DOMAIN sockets : sockets[i].key = sockets[j].key => i = j
      BY <2>3
    <3>3. addrs \in AddrLists
      BY Zenon DEF AddrLists
    <3>4. ReadAs(input, key, e)
      BY <2>1, <3>1, <3>2, <3>3, OneEntry
    <3> QED
      BY <2>3, <3>4 DEF ReadAs
  <2>5. CASE \A e \in DOMAIN sockets : sockets[e].key # key
    <3> DEFINE listed == {i \in DOMAIN sockets : sockets[i].key = key
                                                  /\ sockets[i].index < Len(addrs)}
    <3>1. listed = {} /\ {i \in DOMAIN sockets : sockets[i].key = key} = {}
      BY <2>5
    <3>2. input.addrs = addrs
      BY <2>1
    <3> HIDE DEF listed
    <3>3. SocketCache(input)[key] = SOCKET_ADDR_UNSPECIFIED
      BY <2>3, <3>1, <3>2 DEF SocketCache, listed
    <3>4. SocketByKey(input, key) = NULL
      BY <2>3, <3>1 DEF SocketByKey
    <3> QED
      BY <2>3, <3>3, <3>4
  <2> QED
    BY <2>4, <2>5
<1> QED
  BY <1>1, AnsweredInvariant, PTL

-----------------------------------------------------------------------------
(* Compact lengths.                                                        *)

(* A least member is the minimum.                                          *)
LEMMA MinIs ==
  ASSUME NEW S \in SUBSET Nat, NEW m \in S, \A y \in S : m <= y
  PROVE  Min(S) = m
<1>1. Min(S) \in S /\ Min(S) <= m
  BY MinOfNats
<1>2. Min(S) \in Nat /\ m \in Nat /\ m <= Min(S)
  BY <1>1
<1> QED
  BY <1>1, <1>2

(* The sum of up to three terms.                                           *)
LEMMA SumOfFew ==
  ASSUME NEW f, NEW n \in 1 .. 3, \A k \in 1 .. n : f[k] \in Nat
  PROVE  /\ n = 1 => SumTo(f, n) = f[1]
         /\ n = 2 => SumTo(f, n) = f[1] + f[2]
         /\ n = 3 => SumTo(f, n) = f[1] + f[2] + f[3]
<1>1. /\ SumTo(f, 0) = 0
      /\ \A k \in 0 .. n : SumTo(f, k) \in Nat
      /\ \A k \in 1 .. n : SumTo(f, k) = SumTo(f, k - 1) + f[k]
  BY SumFacts
<1>2. SumTo(f, 1) = f[1]
  <2>1. SumTo(f, 1) = SumTo(f, 0) + f[1] /\ f[1] \in Nat
    BY <1>1
  <2> QED
    BY <1>1, <2>1
<1>3. n > 1 => SumTo(f, 2) = f[1] + f[2]
  <2>1. n > 1 => SumTo(f, 2) = SumTo(f, 1) + f[2]
    BY <1>1
  <2> QED
    BY <1>2, <2>1
<1>4. n > 2 => SumTo(f, 3) = f[1] + f[2] + f[3]
  <2>1. n > 2 => SumTo(f, 3) = SumTo(f, 2) + f[3]
    BY <1>1
  <2> QED
    BY <1>3, <2>1
<1> QED
  BY <1>2, <1>3, <1>4

(* The first m bytes are those of the length n.                            *)
Writes(bytes, n, m) ==
  /\ bytes \in [1 .. m -> Nat] /\ Len(bytes) = m
  /\ bytes[m] < 128 /\ \A i \in 1 .. m : i < m => bytes[i] >= 128
  /\ m = 1 => bytes[1] % 128 = n
  /\ m = 2 => (bytes[1] % 128) + ((bytes[2] % 128) * 128) = n
  /\ m = 3 => (bytes[1] % 128) + ((bytes[2] % 128) * 128) + ((bytes[3] % 128) * 16384) = n

(* encode_len with its number of bytes at hand.                            *)
LEMMA LengthForm ==
  ASSUME NEW n, NEW m, Min({k \in 1 .. 4 : n < Place[k + 1]}) = m
  PROVE  EncodeLen(n) = [i \in 1 .. m |-> ((n \div Place[i]) % 128) + IF i < m THEN 128 ELSE 0]
BY DEF EncodeLen

(* The bytes of a length that fits 16 bits.                                *)
LEMMA LengthWritten ==
  ASSUME NEW n \in Nat, n < 65536, NEW bytes, bytes = EncodeLen(n)
  PROVE  Writes(bytes, n, 1) \/ Writes(bytes, n, 2) \/ Writes(bytes, n, 3)
<1> DEFINE m == IF n < 128 THEN 1 ELSE IF n < 16384 THEN 2 ELSE 3
           S == {k \in 1 .. 4 : n < Place[k + 1]}
<1>1. /\ Place[1] = 1 /\ Place[2] = 128 /\ Place[3] = 16384 /\ Place[4] = 2097152
      /\ Place[5] = 268435456
  BY DEF Place
<1>2. m \in {1, 2, 3} /\ n < Place[m + 1] /\ \A k \in 1 .. 4 : n < Place[k + 1] => m <= k
  BY <1>1
<1>3. Min(S) = m
  <2>1. S \in SUBSET Nat /\ m \in S /\ \A y \in S : m <= y
    BY <1>2
  <2> HIDE DEF m, S
  <2> QED
    BY <2>1, MinIs
<1>4. bytes = [i \in 1 .. m |-> ((n \div Place[i]) % 128) + IF i < m THEN 128 ELSE 0]
  BY <1>3, LengthForm
<1>5. CASE m = 1
  <2>1. bytes = [i \in 1 .. 1 |-> ((n \div Place[i]) % 128) + IF i < 1 THEN 128 ELSE 0]
    BY <1>4, <1>5
  <2>2. n < 128 /\ bytes[1] = n
    BY <1>1, <1>5, <2>1
  <2>3. bytes \in [1 .. 1 -> Nat] /\ Len(bytes) = 1
    BY <2>1, <2>2
  <2>4. bytes[1] % 128 = n
    BY <2>2
  <2> QED
    <3>1. Writes(bytes, n, 1)
      BY <2>2, <2>3, <2>4 DEF Writes
    <3> QED
      BY <3>1
<1>6. CASE m = 2
  <2>1. bytes = [i \in 1 .. 2 |-> ((n \div Place[i]) % 128) + IF i < 2 THEN 128 ELSE 0]
    BY <1>4, <1>6
  <2>2. n < 16384 /\ bytes[1] = (n % 128) + 128 /\ bytes[2] = (n \div 128) % 128
    BY <1>1, <1>6, <2>1
  <2>3. bytes[1] \in Nat /\ bytes[2] \in Nat /\ bytes[1] >= 128 /\ bytes[2] < 128
    BY <2>2
  <2>4. bytes \in [1 .. 2 -> Nat] /\ Len(bytes) = 2
    BY <2>1, <2>3
  <2>5. bytes[1] % 128 = n % 128 /\ bytes[2] % 128 = n \div 128
    BY <2>2
  <2>6. (n % 128) + ((n \div 128) * 128) = n
    OBVIOUS
  <2> QED
    <3>1. bytes \in [1 .. m -> Nat] /\ Len(bytes) = m
      BY <1>6, <2>4
    <3>2. bytes[m] < 128 /\ \A i \in 1 .. m : i < m => bytes[i] >= 128
      BY <1>6, <2>3
    <3>3. m # 1 /\ m # 3 /\ (m = 2 => (bytes[1] % 128) + ((bytes[2] % 128) * 128) = n)
      BY <1>6, <2>3, <2>5, <2>6
    <3> HIDE DEF m
    <3>4. Writes(bytes, n, m)
      BY <3>1, <3>2, <3>3 DEF Writes
    <3> QED
      BY <1>6, <3>4
<1>7. CASE m = 3
  <2>1. bytes = [i \in 1 .. 3 |-> ((n \div Place[i]) % 128) + IF i < 3 THEN 128 ELSE 0]
    BY <1>4, <1>7
  <2>2. /\ bytes[1] = (n % 128) + 128 /\ bytes[2] = ((n \div 128) % 128) + 128
        /\ bytes[3] = (n \div 16384) % 128
    BY <1>1, <1>7, <2>1
  <2>3. /\ bytes[1] \in Nat /\ bytes[2] \in Nat /\ bytes[3] \in Nat
        /\ bytes[1] >= 128 /\ bytes[2] >= 128 /\ bytes[3] < 128
    BY <2>2
  <2>4. bytes \in [1 .. 3 -> Nat] /\ Len(bytes) = 3
    BY <2>1, <2>3
  <2>5. /\ bytes[1] % 128 = n % 128 /\ bytes[2] % 128 = (n \div 128) % 128
        /\ bytes[3] % 128 = n \div 16384
    BY <2>2
  <2>6. (n % 128) + (((n \div 128) % 128) * 128) + ((n \div 16384) * 16384) = n
    OBVIOUS
  <2> QED
    <3>1. bytes \in [1 .. m -> Nat] /\ Len(bytes) = m
      BY <1>7, <2>4
    <3>2. bytes[m] < 128 /\ \A i \in 1 .. m : i < m => bytes[i] >= 128
      BY <1>7, <2>3
    <3>3. m # 1 /\ m # 2 /\ (m = 3 => (bytes[1] % 128) + ((bytes[2] % 128) * 128) + ((bytes[3] % 128) * 16384) = n)
      BY <1>7, <2>3, <2>5, <2>6
    <3> HIDE DEF m
    <3>4. Writes(bytes, n, m)
      BY <3>1, <3>2, <3>3 DEF Writes
    <3> QED
      BY <1>7, <3>4
<1> QED
  BY <1>2, <1>5, <1>6, <1>7

(* What the bytes count for adds up to the length.                         *)
LEMMA WorthOf ==
  ASSUME NEW bytes, NEW n, NEW m \in {1, 2, 3}, Writes(bytes, n, m), NEW worth,
         \A k \in 1 .. m : worth[k] \in Nat /\ worth[k] = (bytes[k] % 128) * Place[k]
  PROVE  SumTo(worth, m) = n
<1>1. Place[1] = 1 /\ Place[2] = 128 /\ Place[3] = 16384
  BY DEF Place
<1>2. /\ m = 1 => SumTo(worth, m) = worth[1]
      /\ m = 2 => SumTo(worth, m) = worth[1] + worth[2]
      /\ m = 3 => SumTo(worth, m) = worth[1] + worth[2] + worth[3]
  <2>1. m \in 1 .. 3
    OBVIOUS
  <2> QED
    BY <2>1, SumOfFew
<1>3. CASE m = 1
  <2>1. worth[1] = (bytes[1] % 128) * 1 /\ bytes[1] \in Nat
    BY <1>1, <1>3 DEF Writes
  <2> QED
    BY <1>2, <1>3, <2>1 DEF Writes
<1>4. CASE m = 2
  <2>1. /\ worth[1] = (bytes[1] % 128) * 1 /\ bytes[1] \in Nat
        /\ worth[2] = (bytes[2] % 128) * 128
    BY <1>1, <1>4 DEF Writes
  <2>2. (bytes[1] % 128) * 1 = bytes[1] % 128
    BY <2>1
  <2> QED
    BY <1>2, <1>4, <2>1, <2>2 DEF Writes
<1>5. CASE m = 3
  <2>1. /\ worth[1] = (bytes[1] % 128) * 1 /\ bytes[1] \in Nat
        /\ worth[2] = (bytes[2] % 128) * 128 /\ worth[3] = (bytes[3] % 128) * 16384
    BY <1>1, <1>5 DEF Writes
  <2>2. (bytes[1] % 128) * 1 = bytes[1] % 128
    BY <2>1
  <2> QED
    BY <1>2, <1>5, <2>1, <2>2 DEF Writes
<1> QED
  BY <1>3, <1>4, <1>5

(* decode_len with the number of bytes it reads at hand.                   *)
LEMMA WideForm ==
  ASSUME NEW bytes, NEW m,
         Min({k \in 1 .. Len(bytes) : bytes[k] < 128} \cup {Len(bytes)}) = m
  PROVE  DecodeLen(bytes) =
           [value |-> SumTo([k \in 1 .. m |-> (bytes[k] % 128) * Place[k]], m), read |-> m]
BY DEF DecodeLen

(* What read_shortu16 adds up, and how much of it its result holds.        *)
Low16(n) == n % 65536
ShortWorth(bytes) == [k \in 1 .. 3 |-> (bytes[k] % 128) * <<1, 128, 16384>>[k]]

(* read_shortu16 likewise.                                                 *)
LEMMA ShortForm ==
  ASSUME NEW bytes, NEW m, NEW lasts,
         lasts = {k \in 1 .. 3 : k <= Len(bytes) /\ bytes[k] < 128}, lasts # {}, Min(lasts) = m
  PROVE  ReadShortU16(bytes) = [value |-> Low16(SumTo(ShortWorth(bytes), m)), read |-> m]
<1>1. ReadShortU16(bytes) =
        IF lasts = {} THEN NULL
        ELSE [value |-> Low16(SumTo(ShortWorth(bytes), Min(lasts))), read |-> Min(lasts)]
  BY DEF ReadShortU16, ShortWorth, Low16
<1> QED
  BY <1>1

(* Both readers get the length that was written, and where it ends.        *)
LEMMA WrittenRead ==
  ASSUME NEW bytes, NEW n, NEW m \in {1, 2, 3}, Writes(bytes, n, m)
  PROVE  /\ DecodeLen(bytes) = [value |-> n, read |-> m]
         /\ ReadShortU16(bytes) = [value |-> Low16(n), read |-> m]
         /\ Len(bytes) = m
<1>1. /\ Len(bytes) = m /\ bytes[m] < 128
      /\ \A i \in 1 .. m : bytes[i] \in Nat /\ (i < m => bytes[i] >= 128)
  BY DEF Writes
<1> DEFINE wides == {k \in 1 .. Len(bytes) : bytes[k] < 128} \cup {Len(bytes)}
           shorts == {k \in 1 .. 3 : k <= Len(bytes) /\ bytes[k] < 128}
           wide == [k \in 1 .. m |-> (bytes[k] % 128) * Place[k]]
           short == ShortWorth(bytes)
<1>2. wides = {m} /\ shorts = {m}
  BY <1>1
<1>3. Min({m}) = m
  BY MinIs
<1>4. DecodeLen(bytes) = [value |-> SumTo(wide, m), read |-> m]
  BY <1>2, <1>3, WideForm
<1>5. ReadShortU16(bytes) = [value |-> Low16(SumTo(short, m)), read |-> m]
  <2>1. /\ shorts = {k \in 1 .. 3 : k <= Len(bytes) /\ bytes[k] < 128}
        /\ shorts # {} /\ Min(shorts) = m
    BY <1>2, <1>3
  <2> HIDE DEF shorts
  <2> QED
    BY <2>1, ShortForm
<1>6. \A k \in 1 .. m : Place[k] = <<1, 128, 16384>>[k] /\ Place[k] \in {1, 128, 16384}
  BY DEF Place
<1>7. \A k \in 1 .. m : (bytes[k] % 128) * Place[k] \in Nat
  <2> SUFFICES ASSUME NEW k \in 1 .. m PROVE (bytes[k] % 128) * Place[k] \in Nat
    OBVIOUS
  <2> DEFINE b == bytes[k]
  <2>1. b \in Nat /\ b % 128 \in Nat
    BY <1>1
  <2> HIDE DEF b
  <2>2. (b % 128) * 1 \in Nat /\ (b % 128) * 128 \in Nat /\ (b % 128) * 16384 \in Nat
    BY <2>1
  <2> QED
    BY <1>6, <2>2 DEF b
<1>8. \A k \in 1 .. m : wide[k] \in Nat /\ wide[k] = (bytes[k] % 128) * Place[k]
  BY <1>7
<1>9. \A k \in 1 .. m : short[k] \in Nat /\ short[k] = (bytes[k] % 128) * Place[k]
  <2>1. \A k \in 1 .. m : k \in 1 .. 3
    OBVIOUS
  <2>2. \A k \in 1 .. m : short[k] = (bytes[k] % 128) * <<1, 128, 16384>>[k]
    BY <2>1 DEF ShortWorth
  <2> HIDE DEF short
  <2> QED
    BY <1>6, <1>7, <2>2
<1> HIDE DEF wide, short
<1>10. SumTo(wide, m) = n /\ SumTo(short, m) = n
  BY <1>8, <1>9, WorthOf
<1> QED
  BY <1>1, <1>4, <1>5, <1>10

(* Both readers get the length that was written, and stop behind it.       *)
LEMMA LengthRead ==
  ASSUME NEW n \in Nat, n < 65536
  PROVE  LET right == [value |-> n, read |-> Len(EncodeLen(n))]
         IN  DecodeLen(EncodeLen(n)) = right /\ ReadShortU16(EncodeLen(n)) = right
<1>1. PICK m \in {1, 2, 3} : Writes(EncodeLen(n), n, m)
  BY LengthWritten
<1>2. Low16(n) = n
  BY DEF Low16
<1>3. /\ DecodeLen(EncodeLen(n)) = [value |-> n, read |-> m]
      /\ ReadShortU16(EncodeLen(n)) = [value |-> Low16(n), read |-> m]
      /\ Len(EncodeLen(n)) = m
  <2> DEFINE bytes == EncodeLen(n)
  <2>1. Writes(bytes, n, m)
    BY <1>1
  <2> HIDE DEF bytes
  <2>2. DecodeLen(bytes) = [value |-> n, read |-> m]
    BY <2>1, WrittenRead
  <2>4. Len(bytes) = m
    BY <2>1 DEF Writes
  <2>3. ReadShortU16(bytes) = [value |-> Low16(n), read |-> m]
    BY <2>1, WrittenRead
  <2> QED
    BY <2>2, <2>3, <2>4 DEF bytes
<1> QED
  BY <1>2, <1>3

(* decode_len and read_shortu16 agree with encode_len on every length of   *)
(* 16 bits.                                                                *)
THEOREM LengthsRead == Spec => []LengthsAgree
<1>1. Answered => LengthsAgree
  <2> SUFFICES ASSUME Answered, task = "length" PROVE LengthsAgree
    BY DEF LengthsAgree
  <2>1. input \in Nat /\ input < 65536
    BY StreamAssumption DEF Answered, Converted
  <2>2. output = [wide |-> DecodeLen(EncodeLen(input)), short |-> ReadShortU16(EncodeLen(input))]
    BY DEF Answered, Converted
  <2> QED
    BY <2>1, <2>2, LengthRead DEF LengthsAgree
<1> QED
  BY <1>1, AnsweredInvariant, PTL

-----------------------------------------------------------------------------
(* The slow path of decode_from.                                           *)

(* What a sequence is made of.                                             *)
LEMMA Elements ==
  ASSUME NEW S, NEW seq \in Seq(S)
  PROVE  Len(seq) \in Nat /\ DOMAIN seq = 1 .. Len(seq) /\ \A i \in DOMAIN seq : seq[i] \in S
OBVIOUS

(* Later values begin later.                                               *)
LEMMA StartsGrow ==
  ASSUME NEW values \in GossipValues, NEW j \in 1 .. Len(values) + 1, NEW i \in 1 .. j
  PROVE  /\ ValueStart(values, i) <= ValueStart(values, j)
         /\ i < j => ValueStart(values, i) < ValueStart(values, j)
<1> DEFINE n == Len(values)
           at(k) == ValueStart(values, k)
<1>1. /\ n \in Nat /\ \A k \in 1 .. n + 1 : at(k) \in Nat
      /\ \A k \in 1 .. n : at(k + 1) = at(k) + values[k].size
      /\ \A k \in 1 .. n : values[k].size \in Nat /\ values[k].size > 0
  BY ValueStarts, MessageAssumption DEF SignatureBytes
<1> HIDE DEF n, at
<1>2. i \in Nat /\ i >= 1 /\ j \in Nat /\ i <= j /\ j <= n + 1
  BY <1>1 DEF n
<1> DEFINE m == j - i
           S == {k \in 0 .. m : at(i) <= at(i + k) /\ (k > 0 => at(i) < at(i + k))}
<1>3. m \in Nat
  BY <1>2
<1>4. 0 \in S
  BY <1>1, <1>2
<1>5. ASSUME NEW k \in 1 .. m, k - 1 \in S PROVE k \in S
  <2> DEFINE l == i + (k - 1)
  <2>1. l \in 1 .. n /\ l + 1 = i + k
    BY <1>1, <1>2
  <2>2. at(l + 1) = at(l) + values[l].size /\ values[l].size > 0 /\ values[l].size \in Nat
    BY <1>1, <2>1
  <2>3. at(i) <= at(l)
    BY <1>5
  <2>4. at(i) \in Nat /\ at(l) \in Nat
    BY <1>1, <1>2, <2>1
  <2>5. at(i) < at(i + k)
    BY <2>1, <2>2, <2>3, <2>4
  <2> QED
    BY <2>1, <2>2, <2>4, <2>5
<1> HIDE DEF S
<1>6. m \in S
  <2>1. \A k \in 0 .. m : k \in S
    BY <1>3, <1>4, <1>5, UpTo
  <2> QED
    BY <1>3, <2>1
<1>7. i + m = j
  BY <1>2
<1> QED
  BY <1>6, <1>7 DEF S, at

(* The value read at a position begins there and is one this node can read. *)
LEMMA ValueRead ==
  ASSUME NEW msg, msg.values \in GossipValues, NEW pos, ValueAt(msg, pos) # 0
  PROVE  LET i == ValueAt(msg, pos)
         IN  i \in DOMAIN msg.values /\ ValueStart(msg.values, i) = pos /\ msg.values[i].good
<1> DEFINE here == {i \in DOMAIN msg.values : /\ ValueStart(msg.values, i) = pos
                                              /\ msg.values[i].good
                                              /\ pos + msg.values[i].size <= msg.len}
<1>1. here # {} /\ ValueAt(msg, pos) = Min(here)
  BY DEF ValueAt
<1>2. here \in SUBSET Nat
  BY ValueStarts
<1> HIDE DEF here
<1>3. Min(here) \in here
  BY <1>1, <1>2, MinOfNats
<1> QED
  BY <1>1, <1>3 DEF here

(* The numbers of the values read so far, in order.                        *)
Honest(msg, read) ==
  \A i \in DOMAIN read :
    /\ read[i] \in DOMAIN msg.values /\ msg.values[read[i]].good
    /\ i > 1 => read[i - 1] < read[i]

(* Loop invariant: after k rounds the cursor is at or before the value     *)
(* k + 1, and behind those that were read.                                 *)
SlowPathAt(msg, k, state) ==
  /\ state \in [cursor : Nat, values : Seq(DOMAIN msg.values), panic : BOOLEAN]
  /\ state.cursor <= ValueStart(msg.values, k + 1)
  /\ Honest(msg, state.values)
  /\ \A i \in DOMAIN state.values :
       ValueStart(msg.values, state.values[i] + 1) <= state.cursor
  /\ state.panic => msg.len < MessageLen(msg.values)

(* A round that a value could be left for keeps the loop invariant.        *)
LEMMA SlowStepKeeps ==
  ASSUME NEW msg, msg.values \in GossipValues, msg.len \in Int,
         NEW k \in 1 .. Len(msg.values), NEW state, SlowPathAt(msg, k - 1, state)
  PROVE  SlowPathAt(msg, k, SlowStep(msg, state))
<1> DEFINE values == msg.values
           n == Len(values)
           at(j) == ValueStart(values, j)
           read == state.values
<1>1. /\ n \in Nat /\ DOMAIN values = 1 .. n /\ \A j \in 1 .. n + 1 : at(j) \in Nat
      /\ \A j \in 1 .. n : at(j + 1) = at(j) + values[j].size
      /\ \A j \in 1 .. n : values[j].size \in Nat /\ values[j].size > 64
  BY ValueStarts, MessageAssumption DEF SignatureBytes
<1>2. \A j \in 1 .. n + 1 : \A i \in 1 .. j : at(i) <= at(j) /\ (i < j => at(i) < at(j))
  BY StartsGrow
<1>3. MessageLen(values) = at(n + 1)
  BY DEF MessageLen
<1>4. /\ state = [cursor |-> state.cursor, values |-> read, panic |-> state.panic]
      /\ state.cursor \in Nat /\ read \in Seq(DOMAIN values) /\ state.panic \in BOOLEAN
      /\ state.cursor <= at(k) /\ Honest(msg, read)
      /\ \A i \in DOMAIN read : at(read[i] + 1) <= state.cursor
      /\ state.panic => msg.len < at(n + 1)
  <2>1. (k - 1) + 1 = k
    OBVIOUS
  <2> QED
    BY <1>3, <2>1 DEF SlowPathAt
<1> HIDE DEF values, n, at, read
<1>11. /\ Len(read) \in Nat /\ DOMAIN read = 1 .. Len(read) /\ read \in Seq(1 .. n)
       /\ \A i \in DOMAIN read : /\ read[i] \in 1 .. n /\ read[i] + 1 \in 1 .. n + 1
                                 /\ at(read[i] + 1) \in Nat
  <2>1. read \in Seq(1 .. n)
    BY <1>1, <1>4
  <2>2. /\ \A i \in DOMAIN read : read[i] \in 1 .. n
        /\ Len(read) \in Nat /\ DOMAIN read = 1 .. Len(read)
    BY <2>1, Elements
  <2>3. \A i \in DOMAIN read : read[i] + 1 \in 1 .. n + 1
    BY <1>1, <2>2
  <2> QED
    BY <1>1, <2>1, <2>2, <2>3
<1> DEFINE old == [cursor |-> state.cursor, values |-> read, panic |-> state.panic]
<1>5. k \in 1 .. n /\ k + 1 \in 1 .. n + 1 /\ k \in 1 .. n + 1 /\ n + 1 \in 1 .. n + 1
  BY <1>1 DEF n, values
<1>6. at(k) <= at(k + 1) /\ at(k + 1) <= at(n + 1) /\ at(k + 1) = at(k) + values[k].size
  BY <1>1, <1>2, <1>5
<1>7. at(k) \in Nat /\ at(k + 1) \in Nat /\ at(n + 1) \in Nat /\ values[k].size > 64
      /\ values[k].size \in Nat /\ state.cursor \in Nat /\ state.cursor <= at(k)
  BY <1>1, <1>4, <1>5
<1>8. CASE state.panic \/ state.cursor > msg.len
  <2>1. SlowStep(msg, state) = [cursor |-> state.cursor, values |-> read, panic |-> TRUE]
    <3>1. SlowStep(msg, old) = [cursor |-> state.cursor, values |-> read, panic |-> TRUE]
      BY <1>8 DEF SlowStep
    <3> QED
      BY <1>4, <3>1
  <2>2. msg.len < at(n + 1)
    BY <1>4, <1>6, <1>7, <1>8
  <2>3. state.cursor <= at(k + 1)
    BY <1>4, <1>6, <1>7
  <2> QED
    BY <1>3, <1>4, <2>1, <2>2, <2>3 DEF SlowPathAt, values, at
<1>9. CASE ~(state.panic \/ state.cursor > msg.len) /\ ValueAt(msg, state.cursor) = 0
  <2> DEFINE cursor == state.cursor + 64
  <2>1. SlowStep(msg, state) = [cursor |-> cursor, values |-> read, panic |-> state.panic]
    <3>1. SlowStep(msg, old) = [cursor |-> cursor, values |-> read, panic |-> state.panic]
      BY <1>9 DEF SlowStep, SignatureBytes
    <3> QED
      BY <1>4, <3>1
  <2>2. cursor <= at(k + 1) /\ cursor \in Nat /\ state.cursor <= cursor
    <3> DEFINE c == state.cursor
               a == at(k)
               b == at(k + 1)
               size == values[k].size
    <3>1. c \in Nat /\ a \in Nat /\ b \in Nat /\ size \in Nat
      BY <1>7
    <3>2. c <= a /\ b = a + size /\ size > 64
      BY <1>6, <1>7
    <3> HIDE DEF c, a, b, size
    <3>3. c + 64 <= b /\ c + 64 \in Nat /\ c <= c + 64
      BY <3>1, <3>2
    <3> QED
      BY <3>3 DEF c, b
  <2>3. \A i \in DOMAIN read : at(read[i] + 1) <= cursor
    BY <1>4, <1>7, <1>11, <2>2
  <2> HIDE DEF cursor
  <2> QED
    BY <1>3, <1>4, <1>9, <2>1, <2>2, <2>3 DEF SlowPathAt, values, at
<1>10. CASE ~(state.panic \/ state.cursor > msg.len) /\ ValueAt(msg, state.cursor) # 0
  <2> DEFINE j == ValueAt(msg, state.cursor)
             cursor == state.cursor + values[j].size
             more == Append(read, j)
  <2>1. j \in 1 .. n /\ at(j) = state.cursor /\ values[j].good
    BY <1>1, <1>10, ValueRead DEF values, at
  <2>2. SlowStep(msg, state) = [cursor |-> cursor, values |-> more, panic |-> state.panic]
    <3>1. ~(old.panic \/ old.cursor > msg.len) /\ ValueAt(msg, old.cursor) = j /\ j # 0
      BY <1>10
    <3> HIDE DEF j
    <3>2. SlowStep(msg, old) = [old EXCEPT !.cursor = @ + msg.values[j].size, !.values = Append(@, j)]
      BY <3>1 DEF SlowStep
    <3>3. SlowStep(msg, old) = [cursor |-> cursor, values |-> more, panic |-> state.panic]
      BY <3>2 DEF values
    <3> QED
      BY <1>4, <3>3
  <2> HIDE DEF j
  <2>3. /\ cursor = at(j + 1) /\ cursor \in Nat /\ state.cursor <= cursor
        /\ j + 1 \in 1 .. n + 1 /\ j \in 1 .. n + 1 /\ at(j) \in Nat
    <3>1. values[j].size \in Nat /\ at(j + 1) = at(j) + values[j].size
      BY <1>1, <2>1
    <3>2. j + 1 \in 1 .. n + 1 /\ j \in 1 .. n + 1
      BY <1>1, <2>1
    <3>3. at(j) \in Nat
      BY <1>1, <3>2
    <3> QED
      BY <2>1, <3>1, <3>2, <3>3
  <2>4. j <= k
    <3>1. k < j => at(k) < at(j)
      <4>1. k < j => k \in 1 .. j
        BY <1>5, <2>1
      <4> QED
        BY <1>2, <2>3, <4>1
    <3> QED
      <4> DEFINE a == at(k)
                 b == at(j)
      <4>1. a \in Nat /\ b \in Nat /\ b <= a /\ (k < j => a < b)
        BY <1>7, <2>1, <2>3, <3>1
      <4> HIDE DEF a, b
      <4>2. ~(k < j)
        BY <4>1
      <4> QED
        BY <1>5, <2>1, <4>2
  <2>5. cursor <= at(k + 1)
    <3>1. j + 1 \in 1 .. k + 1
      BY <1>5, <2>1, <2>4
    <3> QED
      BY <1>2, <1>5, <2>3, <3>1
  <2>6. \A i \in DOMAIN read : read[i] \in 1 .. n /\ read[i] < j
    <3> SUFFICES ASSUME NEW i \in DOMAIN read PROVE read[i] \in 1 .. n /\ read[i] < j
      OBVIOUS
    <3>1. /\ read[i] \in 1 .. n /\ read[i] + 1 \in 1 .. n + 1 /\ at(read[i] + 1) \in Nat
          /\ at(read[i] + 1) <= at(j)
      BY <1>4, <1>11, <2>1
    <3> DEFINE next == read[i] + 1
    <3>2. j < next => j \in 1 .. next
      BY <2>1, <3>1
    <3>3. j < next => at(j) < at(next)
      BY <1>2, <3>1, <3>2
    <3>4. ~(j < next)
      BY <2>3, <3>1, <3>3
    <3> QED
      BY <2>1, <3>1, <3>4
  <2>7. /\ more \in Seq(1 .. n) /\ DOMAIN more = 1 .. Len(read) + 1 /\ Len(read) \in Nat
        /\ DOMAIN read = 1 .. Len(read)
        /\ \A i \in 1 .. Len(read) + 1 : more[i] = IF i = Len(read) + 1 THEN j ELSE read[i]
    BY <1>11, <2>1
  <2> HIDE DEF cursor, more
  <2>8. \A i \in DOMAIN more : at(more[i] + 1) <= cursor
    <3> SUFFICES ASSUME NEW i \in DOMAIN more PROVE at(more[i] + 1) <= cursor
      OBVIOUS
    <3>1. more[i] \in 1 .. j
      BY <2>1, <2>6, <2>7
    <3>2. more[i] + 1 \in 1 .. j + 1
      BY <2>1, <3>1
    <3> QED
      BY <1>2, <2>3, <3>2
  <2>9. Honest(msg, more)
    <3> SUFFICES ASSUME NEW i \in DOMAIN more
                 PROVE  /\ more[i] \in DOMAIN values /\ values[more[i]].good
                        /\ i > 1 => more[i - 1] < more[i]
      BY DEF Honest, values
    <3>1. CASE i = Len(read) + 1
      <4>1. more[i] = j /\ (i > 1 => i - 1 \in DOMAIN read /\ more[i - 1] = read[i - 1])
        BY <2>7, <3>1
      <4> QED
        BY <1>1, <2>1, <2>6, <4>1
    <3>2. CASE i # Len(read) + 1
      <4>1. i \in DOMAIN read /\ more[i] = read[i]
            /\ (i > 1 => i - 1 \in DOMAIN read /\ more[i - 1] = read[i - 1])
        BY <2>7, <3>2
      <4> QED
        BY <1>4, <4>1 DEF Honest, values
    <3> QED
      BY <3>1, <3>2
  <2> QED
    BY <1>1, <1>3, <1>4, <1>10, <2>2, <2>3, <2>5, <2>7, <2>8, <2>9 DEF SlowPathAt, values, at
<1> QED
  BY <1>8, <1>9, <1>10

(* The loop of the slow path as a function of its rounds.                  *)
LoopStates(values) == [cursor : Nat, values : Seq(DOMAIN values), panic : BOOLEAN]

Rounds(l, msg, start, n) ==
  l = [k \in 0 .. n |-> IF k = 0 THEN start ELSE SlowStep(msg, l[k - 1])]

(* A round keeps the types of cursor, values and panic.                    *)
LEMMA SlowStepTyped ==
  ASSUME NEW msg, msg.values \in GossipValues, NEW state \in LoopStates(msg.values)
  PROVE  SlowStep(msg, state) \in LoopStates(msg.values)
<1> DEFINE T == DOMAIN msg.values
           old == [cursor |-> state.cursor, values |-> state.values, panic |-> state.panic]
<1>1. /\ state = old /\ state.cursor \in Nat /\ state.values \in Seq(T) /\ state.panic \in BOOLEAN
  BY DEF LoopStates
<1> HIDE DEF T
<1>2. CASE state.panic \/ state.cursor > msg.len
  <2>1. SlowStep(msg, old) = [cursor |-> state.cursor, values |-> state.values, panic |-> TRUE]
    <3>1. old.panic \/ old.cursor > msg.len
      BY <1>2
    <3>2. SlowStep(msg, old) = [old EXCEPT !.panic = TRUE]
      BY <3>1 DEF SlowStep
    <3> QED
      BY <3>2
  <2> QED
    <3>1. SlowStep(msg, state) = [cursor |-> state.cursor, values |-> state.values, panic |-> TRUE]
      BY <1>1, <2>1
    <3> HIDE DEF old
    <3> QED
      BY <1>1, <3>1 DEF LoopStates, T
<1>3. CASE ~(state.panic \/ state.cursor > msg.len) /\ ValueAt(msg, state.cursor) = 0
  <2>1. SlowStep(msg, old) = [cursor |-> state.cursor + 64, values |-> state.values,
                              panic |-> state.panic]
    BY <1>3 DEF SlowStep, SignatureBytes
  <2> QED
    BY <1>1, <2>1 DEF LoopStates, T
<1>4. CASE ~(state.panic \/ state.cursor > msg.len) /\ ValueAt(msg, state.cursor) # 0
  <2> DEFINE j == ValueAt(msg, state.cursor)
             size == msg.values[j].size
             more == Append(state.values, j)
  <2>1. ~(old.panic \/ old.cursor > msg.len) /\ ValueAt(msg, old.cursor) = j /\ j # 0
    BY <1>4
  <2>2. j \in T
    BY <1>4, ValueRead DEF T
  <2> HIDE DEF j
  <2>3. SlowStep(msg, old) = [old EXCEPT !.cursor = @ + msg.values[j].size, !.values = Append(@, j)]
    BY <2>1 DEF SlowStep
  <2>4. SlowStep(msg, old) = [cursor |-> state.cursor + size, values |-> more,
                              panic |-> state.panic]
    BY <2>3
  <2>5. size \in Nat
    BY <2>2, ValueStarts DEF T
  <2>6. more \in Seq(T)
    BY <1>1, <2>2
  <2> HIDE DEF size, more
  <2> QED
    BY <1>1, <2>4, <2>5, <2>6 DEF LoopStates, T
<1> QED
  BY <1>2, <1>3, <1>4

(* The rounds of the slow path keep its invariant.                         *)
LEMMA RoundsKeep ==
  ASSUME NEW msg, msg.values \in GossipValues, msg.len \in Int,
         NEW n \in 0 .. Len(msg.values), NEW start \in LoopStates(msg.values),
         SlowPathAt(msg, 0, start), NEW end,
         end = LET after[k \in 0 .. n] ==
                     IF k = 0 THEN start ELSE SlowStep(msg, after[k - 1])
               IN  after[n]
  PROVE  SlowPathAt(msg, n, end)
<1> DEFINE T == LoopStates(msg.values)
           step == [k \in 1 .. n |-> [state \in T |-> SlowStep(msg, state)]]
           c == CHOOSE l : Rounds(l, msg, start, n)
<1>1. n \in Nat /\ Len(msg.values) \in Nat
  BY ValueStarts
<1>2. \A state \in T : SlowStep(msg, state) \in T
  BY SlowStepTyped
<1> HIDE DEF T
<1>3. step \in [1 .. n -> [T -> T]]
  BY <1>2
<1>4. \A k \in 1 .. n, state \in T : step[k][state] = SlowStep(msg, state)
  OBVIOUS
<1>5. start \in T
  BY DEF T
<1> HIDE DEF step
<1>6. PICK l \in [0 .. n -> T] : Loops(l, start, step, n)
  BY <1>1, <1>3, <1>5, LoopExists
<1>7. l = [k \in 0 .. n |-> IF k = 0 THEN start ELSE step[k][l[k - 1]]]
  BY <1>6 DEF Loops
<1>8. \A k \in 1 .. n : step[k][l[k - 1]] = SlowStep(msg, l[k - 1])
  <2>1. \A k \in 1 .. n : l[k - 1] \in T
    BY <1>1, <1>6
  <2> QED
    BY <1>4, <2>1
<1>9. \A k \in 0 .. n : k # 0 => k \in 1 .. n
  BY <1>1
<1>10. l = [k \in 0 .. n |-> IF k = 0 THEN start ELSE SlowStep(msg, l[k - 1])]
  BY <1>7, <1>8, <1>9
<1>11. Rounds(c, msg, start, n)
  <2>1. \E f : Rounds(f, msg, start, n)
    BY <1>10 DEF Rounds
  <2> QED
    BY <2>1
<1>12. end = c[n]
  BY DEF Rounds
<1> HIDE DEF c
<1> DEFINE S == {k \in 0 .. n : SlowPathAt(msg, k, c[k])}
<1>13. 0 \in S
  <2>1. c[0] = start
    BY <1>1, <1>11 DEF Rounds
  <2> QED
    BY <1>1, <2>1
<1>14. ASSUME NEW k \in 1 .. n, k - 1 \in S PROVE k \in S
  <2>1. c[k] = SlowStep(msg, c[k - 1])
    BY <1>1, <1>11 DEF Rounds
  <2>2. k \in 1 .. Len(msg.values) /\ SlowPathAt(msg, k - 1, c[k - 1])
    BY <1>1, <1>14
  <2>3. SlowPathAt(msg, k, SlowStep(msg, c[k - 1]))
    BY <2>2, SlowStepKeeps
  <2> QED
    BY <1>1, <2>1, <2>3
<1> HIDE DEF S
<1>15. \A k \in 0 .. n : k \in S
  BY <1>1, <1>13, <1>14, UpTo
<1>16. n \in S
  BY <1>1, <1>15
<1> QED
  BY <1>12, <1>16 DEF S

(* The count is read from its lowest byte alone.                           *)
LEMMA CountRead ==
  ASSUME NEW n \in Nat, n < 128
  PROVE  DecodeLen(<<n>> \o [i \in 1 .. 7 |-> 0]) = [value |-> n, read |-> 1]
<1> DEFINE bytes == <<n>> \o [i \in 1 .. 7 |-> 0]
           wides == {k \in 1 .. Len(bytes) : bytes[k] < 128} \cup {Len(bytes)}
           worth == [k \in 1 .. 1 |-> (bytes[k] % 128) * Place[k]]
<1>1. Len(bytes) = 8 /\ bytes[1] = n
  OBVIOUS
<1> HIDE DEF bytes
<1>2. Min(wides) = 1
  <2>1. wides \in SUBSET Nat /\ 1 \in wides /\ \A y \in wides : 1 <= y
    BY <1>1
  <2> HIDE DEF wides
  <2> QED
    BY <2>1, MinIs
<1>3. DecodeLen(bytes) = [value |-> SumTo(worth, 1), read |-> 1]
  BY <1>2, WideForm
<1>4. Place[1] = 1 /\ n % 128 = n /\ n * 1 = n
  BY DEF Place
<1>5. worth[1] = n
  BY <1>1, <1>4
<1> HIDE DEF worth
<1>6. SumTo(worth, 1) = n
  BY <1>5, SumOfFew
<1> QED
  BY <1>3, <1>6 DEF bytes

(* The slow path returns values of the message, in order, and panics only  *)
(* on one cut short.                                                       *)
LEMMA SlowPathHonest ==
  ASSUME NEW msg, msg.values \in GossipValues, msg.len \in Int
  PROVE  /\ Honest(msg, SlowPath(msg).values)
         /\ SlowPath(msg).outcome = "panic" => msg.len < MessageLen(msg.values)
<1> DEFINE size == Len(msg.values)
           count == IF msg.len = 36 THEN [value |-> 0, read |-> 0]
                    ELSE DecodeLen(<<size>> \o [i \in 1 .. 7 |-> 0])
           n == count.value
           start == [cursor |-> 36 + count.read, values |-> <<>>, panic |-> FALSE]
           end == LET after[k \in 0 .. n] ==
                        IF k = 0 THEN start ELSE SlowStep(msg, after[k - 1])
                  IN  after[n]
<1>1. CASE msg.len < 36
  <2>1. SlowPath(msg) = [outcome |-> "error", values |-> <<>>]
    BY <1>1 DEF SlowPath, TagBytes, PubkeyBytes
  <2> QED
    BY <2>1 DEF Honest
<1>2. CASE ~(msg.len < 36)
  <2>1. SlowPath(msg) = [outcome |-> IF end.panic THEN "panic" ELSE "message",
                         values |-> end.values]
    BY <1>2 DEF SlowPath, TagBytes, PubkeyBytes
  <2>2. size \in Nat /\ size < 128
    BY ValueStarts, MessageAssumption
  <2> HIDE DEF size
  <2>3. n \in 0 .. size /\ count.read \in {0, 1}
    <3>1. CASE msg.len = 36
      <4>1. count.value = 0 /\ count.read = 0
        BY <3>1
      <4> QED
        BY <2>2, <4>1
    <3>2. CASE msg.len # 36
      <4>1. count = DecodeLen(<<size>> \o [i \in 1 .. 7 |-> 0])
        BY <3>2
      <4>2. count = [value |-> size, read |-> 1]
        BY <2>2, <4>1, CountRead
      <4> HIDE DEF count
      <4>3. count.value = size /\ count.read = 1
        BY <4>2
      <4> QED
        BY <2>2, <4>3
    <3> QED
      BY <3>1, <3>2
  <2> HIDE DEF count
  <2>4. start \in LoopStates(msg.values)
    BY <2>3 DEF LoopStates
  <2>5. SlowPathAt(msg, 0, start)
    <3>1. ValueStart(msg.values, 0 + 1) = 44
      BY ValueStarts
    <3>2. start.cursor <= 44
      BY <2>3
    <3>3. DOMAIN start.values = {}
      OBVIOUS
    <3> QED
      BY <2>4, <3>1, <3>2, <3>3 DEF SlowPathAt, LoopStates, Honest
  <2>6. SlowPathAt(msg, n, end)
    <3> HIDE DEF start
    <3> QED
      BY <2>3, <2>4, <2>5, RoundsKeep DEF size
  <2> HIDE DEF end
  <2>7. /\ end.panic => msg.len < MessageLen(msg.values)
        /\ Honest(msg, end.values)
    BY <2>6 DEF SlowPathAt
  <2> QED
    BY <2>1, <2>7
<1> QED
  BY <1>1, <1>2

(* decode_from returns values of the message that this node can read, in   *)
(* order, all of them if it can read all; and it panics only on a message  *)
(* cut short.                                                              *)
THEOREM MessagesDecoded == Spec => []DecodeHonest
<1>1. Answered => DecodeHonest
  <2> SUFFICES ASSUME Answered, task = "message" PROVE DecodeHonest
    BY DEF DecodeHonest
  <2>1. PICK tag \in 0 .. 7, values \in GossipValues, whole \in BOOLEAN, len \in Int :
          /\ tag \notin ListTags => values = <<>>
          /\ input = [tag |-> tag, values |-> values, whole |-> whole, len |-> len]
          /\ output = DecodeFrom(input)
    BY Zenon DEF Answered, Converted
  <2>2. /\ input.tag = tag /\ input.values = values /\ input.len = len
        /\ Len(values) \in Nat /\ DOMAIN values = 1 .. Len(values)
    BY <2>1, ValueStarts
  <2>3. /\ Honest(input, output.values)
        /\ FastPath(input) => output.outcome = "message" /\ Len(output.values) = Len(values)
        /\ output.outcome = "panic" => len < MessageLen(values)
    <3>1. CASE FastPath(input)
      <4>1. output = [outcome |-> "message", values |-> [i \in DOMAIN values |-> i]]
        BY <2>1, <2>2, <3>1 DEF DecodeFrom
      <4>2. \A i \in DOMAIN values : values[i].good
        <5>1. CASE tag \in ListTags
          BY <2>2, <3>1, <5>1 DEF FastPath
        <5>2. CASE tag \notin ListTags
          BY <2>1, <5>2
        <5> QED
          BY <5>1, <5>2
      <4>3. Len([i \in DOMAIN values |-> i]) = Len(values)
        BY <2>2
      <4> QED
        BY <2>2, <4>1, <4>2, <4>3 DEF Honest
    <3>2. CASE ~FastPath(input) /\ output.values = <<>> /\ output.outcome # "panic"
      BY <3>2 DEF Honest
    <3>3. CASE ~FastPath(input) /\ output = SlowPath(input)
      BY <2>1, <2>2, <3>3, SlowPathHonest
    <3> QED
      BY <2>1, <3>1, <3>2, <3>3 DEF DecodeFrom
  <2> QED
    BY <2>2, <2>3 DEF DecodeHonest, Honest
<1> QED
  BY <1>1, AnsweredInvariant, PTL

-----------------------------------------------------------------------------
(* tx_len.                                                                 *)

(* The steps of a walk, and the positions it comes to.                     *)
WalkSteps == [do : {"read", "skip"}, bytes : Nat] \cup {Peek}
Positions == Nat \cup {-1}

(* The positions l of a walk, one after the other.                         *)
Walked(l, len, start, w) ==
  l[0] = start /\ \A k \in 1 .. Len(w) : l[k] = Walk(l[k - 1], w[k], len)

(* A step leads from a position to a position.                             *)
LEMMA WalkPosition ==
  ASSUME NEW p \in Positions, NEW step \in WalkSteps, NEW len
  PROVE  Walk(p, step, len) \in Positions
<1>1. step.bytes \in Nat
  BY DEF WalkSteps, Peek
<1>2. p = -1 \/ p \in Nat
  BY DEF Positions
<1> QED
  BY <1>1, <1>2 DEF Walk, Positions

(* Every walk has such positions: WalkEnd is the last.                     *)
LEMMA WalkLoop ==
  ASSUME NEW w \in Seq(WalkSteps), NEW len, NEW start \in Positions
  PROVE  \E l \in [0 .. Len(w) -> Positions] : Walked(l, len, start, w)
<1> DEFINE n == Len(w)
           step == [k \in 1 .. n |-> [p \in Positions |-> Walk(p, w[k], len)]]
<1>1. n \in Nat /\ \A k \in 1 .. n : w[k] \in WalkSteps
  OBVIOUS
<1> HIDE DEF n
<1>2. \A k \in 1 .. n : [p \in Positions |-> Walk(p, w[k], len)] \in [Positions -> Positions]
  BY <1>1, WalkPosition
<1>3. step \in [1 .. n -> [Positions -> Positions]]
  BY <1>2
<1>4. \A k \in 1 .. n, p \in Positions : step[k][p] = Walk(p, w[k], len)
  OBVIOUS
<1> HIDE DEF step
<1>5. PICK l \in [0 .. n -> Positions] : Loops(l, start, step, n)
  BY <1>1, <1>3, LoopExists
<1>6. \A k \in 1 .. n : l[k - 1] \in Positions
  BY <1>1
<1>7. l[0] = start /\ \A k \in 1 .. n : l[k] = step[k][l[k - 1]]
  BY <1>1, <1>5 DEF Loops
<1>8. \A k \in 1 .. n : l[k] = Walk(l[k - 1], w[k], len)
  BY <1>4, <1>6, <1>7
<1> QED
  BY <1>7, <1>8 DEF Walked, n

(* WalkEnd is the last of any such positions.                              *)
LEMMA WalkValue ==
  ASSUME NEW w, Len(w) \in Nat, NEW len, NEW start, NEW l, Walked(l, len, start, w)
  PROVE  WalkEnd(len, start, w) = l[Len(w)]
<1> DEFINE n == Len(w)
           Made(g) == g = [k \in 0 .. n |-> IF k = 0 THEN start ELSE Walk(g[k - 1], w[k], len)]
           c == CHOOSE g : Made(g)
           l0 == [k \in 0 .. n |-> l[k]]
           S == {k \in 0 .. n : c[k] = l[k]}
<1>1. l[0] = start /\ \A k \in 1 .. n : l[k] = Walk(l[k - 1], w[k], len)
  BY DEF Walked
<1>2. WalkEnd(len, start, w) = c[n]
  BY DEF WalkEnd
<1>3. n \in Nat
  OBVIOUS
<1> HIDE DEF n
<1>4. \A k \in 0 .. n : l0[k] = IF k = 0 THEN start ELSE Walk(l0[k - 1], w[k], len)
  <2>1. \A k \in 1 .. n : k - 1 \in 0 .. n /\ k \in 0 .. n
    BY <1>3
  <2>2. \A k \in 1 .. n : l0[k] = l[k] /\ l0[k - 1] = l[k - 1]
    BY <2>1
  <2>3. 0 \in 0 .. n /\ l0[0] = start
    BY <1>1, <1>3
  <2> HIDE DEF l0
  <2> QED
    BY <1>1, <1>3, <2>2, <2>3
<1>5. Made(l0)
  BY <1>4
<1>6. Made(c)
  BY <1>5
<1> HIDE DEF c
<1>7. c[0] = start /\ \A k \in 1 .. n : c[k] = Walk(c[k - 1], w[k], len)
  BY <1>3, <1>6
<1>8. 0 \in S
  BY <1>1, <1>3, <1>7
<1>9. ASSUME NEW k \in 1 .. n, k - 1 \in S PROVE k \in S
  BY <1>1, <1>7, <1>9
<1> HIDE DEF S
<1>10. \A k \in 0 .. n : k \in S
  BY <1>3, <1>8, <1>9, UpTo
<1>11. n \in S
  BY <1>3, <1>10
<1>12. c[n] = l[n]
  BY <1>11 DEF S
<1> QED
  BY <1>2, <1>12 DEF n

(* A walk on from where another ended.                                     *)
LEMMA WalkJoined ==
  ASSUME NEW a \in Seq(WalkSteps), NEW b \in Seq(WalkSteps), NEW len, NEW start \in Positions
  PROVE  WalkEnd(len, start, a \o b) = WalkEnd(len, WalkEnd(len, start, a), b)
<1> DEFINE n == Len(a)
           m == Len(b)
<1>1. n \in Nat /\ m \in Nat /\ Len(a \o b) = n + m
  OBVIOUS
<1>2. /\ \A k \in 1 .. n : (a \o b)[k] = a[k]
      /\ \A k \in n + 1 .. n + m : (a \o b)[k] = b[k - n]
  OBVIOUS
<1>3. PICK la \in [0 .. n -> Positions] : Walked(la, len, start, a)
  BY WalkLoop
<1>4. la[n] \in Positions /\ WalkEnd(len, start, a) = la[n]
  BY <1>1, <1>3, WalkValue
<1>5. PICK lb \in [0 .. m -> Positions] : Walked(lb, len, la[n], b)
  BY <1>4, WalkLoop
<1>6. WalkEnd(len, la[n], b) = lb[m]
  BY <1>1, <1>5, WalkValue
<1> DEFINE l == [k \in 0 .. n + m |-> IF k <= n THEN la[k] ELSE lb[k - n]]
           w == a \o b
<1>7. la[0] = start /\ \A k \in 1 .. n : la[k] = Walk(la[k - 1], a[k], len)
  BY <1>3 DEF Walked
<1>8. lb[0] = la[n] /\ \A k \in 1 .. m : lb[k] = Walk(lb[k - 1], b[k], len)
  BY <1>5 DEF Walked
<1>9. Len(w) = n + m /\ Len(w) \in Nat
  BY <1>1
<1>10. /\ \A k \in 1 .. n : w[k] = a[k]
       /\ \A k \in n + 1 .. n + m : w[k] = b[k - n]
  BY <1>2
<1> HIDE DEF w, n, m
<1>11. l[0] = start
  BY <1>1, <1>7
<1>12. ASSUME NEW k \in 1 .. n + m PROVE l[k] = Walk(l[k - 1], w[k], len)
  <2>1. CASE k <= n
    <3>1. k \in 1 .. n /\ k \in 0 .. n + m /\ k - 1 \in 0 .. n + m /\ k - 1 <= n
      BY <1>1, <2>1
    <3>2. l[k] = la[k] /\ l[k - 1] = la[k - 1]
      BY <2>1, <3>1
    <3> HIDE DEF l
    <3> QED
      BY <1>7, <1>10, <3>1, <3>2
  <2>2. CASE ~(k <= n)
    <3>1. /\ k \in n + 1 .. n + m /\ k \in 0 .. n + m /\ k - 1 \in 0 .. n + m
          /\ k - n \in 1 .. m /\ (k - n) - 1 = (k - 1) - n
      BY <1>1, <2>2
    <3>2. l[k] = lb[k - n]
      BY <2>2, <3>1
    <3>3. l[k - 1] = lb[(k - 1) - n]
      <4>1. CASE k - 1 <= n
        <5>1. k - 1 = n /\ (k - 1) - n = 0
          BY <1>1, <2>2, <4>1
        <5>2. l[k - 1] = la[k - 1]
          BY <3>1, <4>1
        <5> QED
          BY <1>8, <5>1, <5>2
      <4>2. CASE ~(k - 1 <= n)
        BY <3>1, <4>2
      <4> QED
        BY <4>1, <4>2
    <3> HIDE DEF l
    <3>4. lb[k - n] = Walk(lb[(k - n) - 1], b[k - n], len)
      BY <1>8, <3>1
    <3> QED
      BY <1>10, <3>1, <3>2, <3>3, <3>4
  <2> QED
    BY <2>1, <2>2
<1>13. l[n + m] = lb[m]
  <2>1. CASE m = 0
    <3>1. l[n + m] = la[n]
      BY <1>1, <2>1
    <3> QED
      BY <1>8, <2>1, <3>1
  <2>2. CASE m # 0
    <3>1. ~(n + m <= n) /\ (n + m) - n = m /\ n + m \in 0 .. n + m
      BY <1>1, <2>2
    <3> QED
      BY <3>1
  <2> QED
    BY <2>1, <2>2
<1> HIDE DEF l
<1>14. Walked(l, len, start, w)
  BY <1>9, <1>11, <1>12 DEF Walked
<1>15. WalkEnd(len, start, w) = l[n + m]
  BY <1>9, <1>14, WalkValue
<1> QED
  BY <1>4, <1>6, <1>13, <1>15 DEF w

(* The lists l of a list of lists, joined one after the other.             *)
Joined(l, seqs) ==
  l[0] = <<>> /\ \A k \in 1 .. Len(seqs) : l[k] = l[k - 1] \o seqs[k]

(* There are such lists, and FlattenSeq is the last.                       *)
LEMMA FlattenLoop ==
  ASSUME NEW T, NEW seqs \in Seq(Seq(T))
  PROVE  \E l \in [0 .. Len(seqs) -> Seq(T)] : Joined(l, seqs)
<1> DEFINE n == Len(seqs)
           step == [k \in 1 .. n |-> [x \in Seq(T) |-> x \o seqs[k]]]
<1>1. n \in Nat /\ \A k \in 1 .. n : seqs[k] \in Seq(T)
  OBVIOUS
<1> HIDE DEF n
<1>2. <<>> \in Seq(T) /\ \A k \in 1 .. n : \A x \in Seq(T) : x \o seqs[k] \in Seq(T)
  BY <1>1
<1>3. step \in [1 .. n -> [Seq(T) -> Seq(T)]]
  BY <1>2
<1>4. \A k \in 1 .. n, x \in Seq(T) : step[k][x] = x \o seqs[k]
  OBVIOUS
<1> HIDE DEF step
<1>5. PICK l \in [0 .. n -> Seq(T)] : Loops(l, <<>>, step, n)
  BY <1>1, <1>2, <1>3, LoopExists
<1>6. \A k \in 1 .. n : l[k - 1] \in Seq(T)
  BY <1>1
<1>7. l[0] = <<>> /\ \A k \in 1 .. n : l[k] = step[k][l[k - 1]]
  BY <1>1, <1>5 DEF Loops
<1>8. \A k \in 1 .. n : l[k] = l[k - 1] \o seqs[k]
  BY <1>4, <1>6, <1>7
<1> QED
  BY <1>7, <1>8 DEF Joined, n

(* FlattenSeq is the last of any such lists.                               *)
LEMMA FlattenValue ==
  ASSUME NEW T, NEW seqs \in Seq(Seq(T)), NEW l \in [0 .. Len(seqs) -> Seq(T)], Joined(l, seqs)
  PROVE  FlattenSeq(seqs) = l[Len(seqs)]
<1> DEFINE n == Len(seqs)
           Made(g) == g = [k \in 1 .. n |-> IF k = 1 THEN seqs[k] ELSE g[k - 1] \o seqs[k]]
           c == CHOOSE g : Made(g)
           l0 == [k \in 1 .. n |-> l[k]]
           S == {k \in 0 .. n : k = 0 \/ c[k] = l[k]}
<1>1. l[0] = <<>> /\ \A k \in 1 .. n : l[k] = l[k - 1] \o seqs[k]
  BY DEF Joined
<1>2. n \in Nat /\ \A k \in 1 .. n : seqs[k] \in Seq(T)
  OBVIOUS
<1>3. FlattenSeq(seqs) = IF n = 0 THEN seqs ELSE c[n]
  BY DEF FlattenSeq
<1>4. n = 0 => seqs = <<>>
  OBVIOUS
<1> HIDE DEF n
<1>5. 1 \in 1 .. n => l[1] = seqs[1]
  <2>0. 1 - 1 = 0
    OBVIOUS
  <2>1. 1 \in 1 .. n => l[1] = <<>> \o seqs[1]
    BY <1>1, <2>0
  <2> QED
    BY <1>2, <2>1
<1>6. \A k \in 1 .. n : l0[k] = IF k = 1 THEN seqs[k] ELSE l0[k - 1] \o seqs[k]
  <2>1. \A k \in 1 .. n : k # 1 => k - 1 \in 1 .. n
    BY <1>2
  <2>2. \A k \in 1 .. n : l0[k] = l[k] /\ (k # 1 => l0[k - 1] = l[k - 1])
    BY <2>1
  <2> HIDE DEF l0
  <2> QED
    BY <1>1, <1>5, <2>2
<1>7. Made(l0)
  BY <1>6
<1>8. Made(c)
  <2> HIDE DEF Made
  <2>1. \E g : Made(g)
    BY <1>7
  <2> QED
    BY <2>1
<1> HIDE DEF c
<1>9. \A k \in 1 .. n : c[k] = IF k = 1 THEN seqs[k] ELSE c[k - 1] \o seqs[k]
  BY <1>2, <1>8
<1>10. 0 \in S
  BY <1>2
<1>11. ASSUME NEW k \in 1 .. n, k - 1 \in S PROVE k \in S
  <2>1. k \in 0 .. n
    BY <1>2
  <2>2. CASE k = 1
    BY <1>5, <1>9, <2>1, <2>2
  <2>3. CASE k # 1
    <3>1. c[k - 1] = l[k - 1]
      BY <1>2, <1>11, <2>3
    <3> QED
      BY <1>1, <1>9, <2>1, <2>3, <3>1
  <2> QED
    BY <2>2, <2>3
<1> HIDE DEF S
<1>12. \A k \in 0 .. n : k \in S
  BY <1>2, <1>10, <1>11, UpTo
<1>13. n = 0 \/ c[n] = l[n]
  BY <1>2, <1>12 DEF S
<1> QED
  BY <1>1, <1>3, <1>4, <1>13 DEF n

(* Lists joined are a list of the same elements.                           *)
LEMMA FlattenType ==
  ASSUME NEW T, NEW seqs \in Seq(Seq(T))
  PROVE  FlattenSeq(seqs) \in Seq(T)
<1>1. PICK l \in [0 .. Len(seqs) -> Seq(T)] : Joined(l, seqs)
  BY FlattenLoop
<1>2. Len(seqs) \in 0 .. Len(seqs)
  OBVIOUS
<1> QED
  BY <1>1, <1>2, FlattenValue

-----------------------------------------------------------------------------
(* A walk leads n bytes on if they are there; if not, it fails, or would   *)
(* with `spare` bytes more.                                                *)
Leads(w, len, n, spare) ==
  /\ w \in Seq(WalkSteps)
  /\ WalkEnd(len, -1, w) = -1
  /\ \A p \in Nat : WalkEnd(len, p, w) = p + n \/ (WalkEnd(len, p, w) = -1 /\ p + n + spare > len)

(* No steps lead nowhere.                                                  *)
LEMMA LeadsNowhere ==
  ASSUME NEW len \in Int, NEW spare \in Nat
  PROVE  Leads(<<>>, len, 0, spare)
<1>1. <<>> \in Seq(WalkSteps) /\ Len(<<>>) = 0
  OBVIOUS
<1>2. ASSUME NEW p \in Positions PROVE WalkEnd(len, p, <<>>) = p
  <2> DEFINE l == [k \in 0 .. 0 |-> p]
  <2>1. Walked(l, len, p, <<>>)
    BY <1>1 DEF Walked
  <2>2. WalkEnd(len, p, <<>>) = l[0]
    BY <1>1, <2>1, WalkValue
  <2> QED
    BY <2>2
<1> QED
  BY <1>1, <1>2 DEF Leads, Positions

(* What the second walk needs covers what the first could spare.           *)
LEMMA LeadsJoined ==
  ASSUME NEW len \in Int, NEW n \in Nat, NEW m \in Nat, NEW d \in Nat, NEW e \in Nat,
         d <= m + e, NEW a, NEW b, Leads(a, len, n, d), Leads(b, len, m, e)
  PROVE  Leads(a \o b, len, n + m, e)
<1>1. a \in Seq(WalkSteps) /\ b \in Seq(WalkSteps)
  BY DEF Leads
<1>2. a \o b \in Seq(WalkSteps)
  BY <1>1
<1>3. \A p \in Positions : WalkEnd(len, p, a \o b) = WalkEnd(len, WalkEnd(len, p, a), b)
  BY <1>1, WalkJoined
<1>4. WalkEnd(len, -1, a) = -1 /\ WalkEnd(len, -1, b) = -1
  BY DEF Leads
<1>5. WalkEnd(len, -1, a \o b) = -1
  BY <1>3, <1>4 DEF Positions
<1>6. ASSUME NEW p \in Nat
      PROVE  \/ WalkEnd(len, p, a \o b) = p + (n + m)
             \/ WalkEnd(len, p, a \o b) = -1 /\ p + (n + m) + e > len
  <2>1. p \in Positions /\ p + n \in Nat
    BY DEF Positions
  <2>2. WalkEnd(len, p, a) = p + n \/ (WalkEnd(len, p, a) = -1 /\ p + n + d > len)
    BY DEF Leads
  <2>3. CASE WalkEnd(len, p, a) = p + n
    <3>1. \/ WalkEnd(len, p + n, b) = (p + n) + m
          \/ WalkEnd(len, p + n, b) = -1 /\ (p + n) + m + e > len
      BY <2>1 DEF Leads
    <3>2. (p + n) + m = p + (n + m)
      OBVIOUS
    <3> QED
      BY <1>3, <2>1, <2>3, <3>1, <3>2
  <2>4. CASE WalkEnd(len, p, a) = -1 /\ p + n + d > len
    <3>1. p + (n + m) + e > len
      BY <2>4
    <3> QED
      BY <1>3, <1>4, <2>1, <2>4, <3>1
  <2> QED
    BY <2>2, <2>3, <2>4
<1> QED
  BY <1>2, <1>5, <1>6 DEF Leads

(* As many walks in a row.                                                 *)
LEMMA LeadsAll ==
  ASSUME NEW len \in Int, NEW walks, NEW f, NEW n \in Nat, DOMAIN walks = 1 .. n, Len(walks) = n,
         walks \in Seq(Seq(WalkSteps)),
         \A k \in 1 .. n : f[k] \in Nat /\ Leads(walks[k], len, f[k], 0)
  PROVE  Leads(FlattenSeq(walks), len, SumTo(f, n), 0) /\ SumTo(f, n) \in Nat
<1>1. PICK l \in [0 .. Len(walks) -> Seq(WalkSteps)] : Joined(l, walks)
  BY FlattenLoop
<1>2. FlattenSeq(walks) = l[n]
  BY <1>1, FlattenValue
<1>3. l[0] = <<>> /\ \A k \in 1 .. n : l[k] = l[k - 1] \o walks[k]
  BY <1>1 DEF Joined
<1>4. /\ SumTo(f, 0) = 0 /\ \A k \in 0 .. n : SumTo(f, k) \in Nat
      /\ \A k \in 1 .. n : SumTo(f, k) = SumTo(f, k - 1) + f[k]
  BY SumFacts
<1> DEFINE S == {k \in 0 .. n : Leads(l[k], len, SumTo(f, k), 0)}
<1>5. 0 \in S
  BY <1>3, <1>4, LeadsNowhere
<1>6. ASSUME NEW k \in 1 .. n, k - 1 \in S PROVE k \in S
  <2>1. Leads(l[k - 1], len, SumTo(f, k - 1), 0) /\ k - 1 \in 0 .. n /\ k \in 0 .. n
    BY <1>6
  <2>2. Leads(walks[k], len, f[k], 0) /\ f[k] \in Nat /\ SumTo(f, k - 1) \in Nat
    BY <1>4, <2>1
  <2> HIDE DEF S
  <2>3. 0 \in Nat /\ \A x \in Nat : 0 <= x + 0
    OBVIOUS
  <2>4. Leads(l[k - 1] \o walks[k], len, SumTo(f, k - 1) + f[k], 0)
    BY <2>1, <2>2, <2>3, LeadsJoined
  <2>5. Leads(l[k], len, SumTo(f, k), 0)
    BY <1>3, <1>4, <2>4
  <2> QED
    BY <2>1, <2>5 DEF S
<1> HIDE DEF S
<1>7. \A k \in 0 .. n : k \in S
  BY <1>5, <1>6, UpTo
<1>8. n \in 0 .. n /\ n \in S
  BY <1>7
<1> QED
  BY <1>2, <1>4, <1>8 DEF S

(* One step that reads or skips.                                           *)
LEMMA LeadsStep ==
  ASSUME NEW len \in Int, NEW n \in Nat, NEW step, step \in {[do |-> "read", bytes |-> n], Skip(n)}
  PROVE  Leads(<<step>>, len, n, 0)
<1>1. step \in WalkSteps /\ step.bytes = n /\ step.do \in {"read", "skip"}
  BY DEF Skip, WalkSteps
<1>2. <<step>> \in Seq(WalkSteps) /\ Len(<<step>>) = 1 /\ <<step>>[1] = step
  BY <1>1
<1>3. ASSUME NEW p \in Positions PROVE WalkEnd(len, p, <<step>>) = Walk(p, step, len)
  <2>1. PICK l \in [0 .. 1 -> Positions] : Walked(l, len, p, <<step>>)
    BY <1>2, <1>3, WalkLoop
  <2>2. 1 - 1 = 0 /\ 1 \in 1 .. 1
    OBVIOUS
  <2>3. l[1] = Walk(p, step, len)
    BY <1>2, <2>1, <2>2 DEF Walked
  <2> QED
    BY <1>2, <2>1, <2>3, WalkValue
<1>4. Walk(-1, step, len) = -1
  BY DEF Walk
<1>5. ASSUME NEW p \in Nat
      PROVE  Walk(p, step, len) = p + n \/ (Walk(p, step, len) = -1 /\ p + n + 0 > len)
  BY <1>1 DEF Walk
<1> QED
  BY <1>2, <1>3, <1>4, <1>5 DEF Leads, Positions

(* The message's first byte is only looked at.                             *)
LEMMA LeadsPeek ==
  ASSUME NEW len \in Int
  PROVE  Leads(<<Peek>>, len, 0, 1)
<1>1. Peek \in WalkSteps /\ Peek.bytes = 1 /\ Peek.do = "peek"
  BY DEF Peek, WalkSteps
<1>2. <<Peek>> \in Seq(WalkSteps) /\ Len(<<Peek>>) = 1 /\ <<Peek>>[1] = Peek
  BY <1>1
<1>3. ASSUME NEW p \in Positions PROVE WalkEnd(len, p, <<Peek>>) = Walk(p, Peek, len)
  <2>1. PICK l \in [0 .. 1 -> Positions] : Walked(l, len, p, <<Peek>>)
    BY <1>2, <1>3, WalkLoop
  <2>2. 1 - 1 = 0 /\ 1 \in 1 .. 1
    OBVIOUS
  <2>3. l[1] = Walk(p, Peek, len)
    BY <1>2, <2>1, <2>2 DEF Walked
  <2> QED
    BY <1>2, <2>1, <2>3, WalkValue
<1>4. Walk(-1, Peek, len) = -1
  BY DEF Walk
<1>5. ASSUME NEW p \in Nat
      PROVE  Walk(p, Peek, len) = p + 0 \/ (Walk(p, Peek, len) = -1 /\ p + 0 + 1 > len)
  BY <1>1 DEF Walk
<1> QED
  BY <1>2, <1>3, <1>4, <1>5 DEF Leads, Positions

(* Sequences of the same entries are the same.                             *)
LEMMA SameEntries ==
  ASSUME NEW S, NEW a \in Seq(S), NEW b \in Seq(S), NEW n \in Nat, Len(a) = n, Len(b) = n,
         \A k \in 1 .. n : a[k] = b[k]
  PROVE  a = b
<1>1. a = [k \in 1 .. n |-> a[k]] /\ b = [k \in 1 .. n |-> b[k]]
  OBVIOUS
<1>2. [k \in 1 .. n |-> a[k]] = [k \in 1 .. n |-> b[k]]
  OBVIOUS
<1> QED
  BY <1>1, <1>2

(* Tuples, one entry after the other.                                      *)
LEMMA JoinTwo ==
  ASSUME NEW S, NEW s \in S, NEW t \in S
  PROVE  <<s>> \o <<t>> = <<s, t>>
<1> DEFINE a == <<s>> \o <<t>>
           b == <<s, t>>
<1>1. Len(a) = 2 /\ Len(b) = 2 /\ a \in Seq(S) /\ b \in Seq(S)
  OBVIOUS
<1>2. a[1] = s /\ a[2] = t
  OBVIOUS
<1>3. b[1] = s /\ b[2] = t
  OBVIOUS
<1> HIDE DEF a, b
<1>4. \A k \in 1 .. 2 : a[k] = b[k]
  BY <1>2, <1>3
<1>5. a = b
  BY <1>1, <1>4, SameEntries
<1> QED
  BY <1>5 DEF a, b

(* Three entries.                                                          *)
LEMMA JoinThree ==
  ASSUME NEW S, NEW s \in S, NEW t \in S, NEW u \in S
  PROVE  <<s, t>> \o <<u>> = <<s, t, u>>
<1> DEFINE a == <<s, t>> \o <<u>>
           b == <<s, t, u>>
<1>1. Len(a) = 3 /\ Len(b) = 3 /\ a \in Seq(S) /\ b \in Seq(S)
  OBVIOUS
<1>2. a[1] = s /\ a[2] = t /\ a[3] = u
  OBVIOUS
<1>3. b[1] = s /\ b[2] = t /\ b[3] = u
  OBVIOUS
<1> HIDE DEF a, b
<1>4. \A k \in 1 .. 3 : a[k] = b[k]
  BY <1>2, <1>3
<1>5. a = b
  BY <1>1, <1>4, SameEntries
<1> QED
  BY <1>5 DEF a, b

(* Four entries.                                                           *)
LEMMA JoinFour ==
  ASSUME NEW S, NEW s \in S, NEW t \in S, NEW u \in S, NEW v \in S
  PROVE  <<s, t, u>> \o <<v>> = <<s, t, u, v>>
<1> DEFINE a == <<s, t, u>> \o <<v>>
           b == <<s, t, u, v>>
<1>1. Len(a) = 4 /\ Len(b) = 4 /\ a \in Seq(S) /\ b \in Seq(S)
  OBVIOUS
<1>2. a[1] = s /\ a[2] = t /\ a[3] = u /\ a[4] = v
  OBVIOUS
<1>3. b[1] = s /\ b[2] = t /\ b[3] = u /\ b[4] = v
  OBVIOUS
<1> HIDE DEF a, b
<1>4. \A k \in 1 .. 4 : a[k] = b[k]
  BY <1>2, <1>3
<1>5. a = b
  BY <1>1, <1>4, SameEntries
<1> QED
  BY <1>5 DEF a, b

(* Five entries.                                                           *)
LEMMA JoinFive ==
  ASSUME NEW S, NEW s \in S, NEW t \in S, NEW u \in S, NEW v \in S, NEW w \in S
  PROVE  <<s, t, u, v>> \o <<w>> = <<s, t, u, v, w>>
<1> DEFINE a == <<s, t, u, v>> \o <<w>>
           b == <<s, t, u, v, w>>
<1>1. Len(a) = 5 /\ Len(b) = 5 /\ a \in Seq(S) /\ b \in Seq(S)
  OBVIOUS
<1>2. a[1] = s /\ a[2] = t /\ a[3] = u /\ a[4] = v /\ a[5] = w
  OBVIOUS
<1>3. b[1] = s /\ b[2] = t /\ b[3] = u /\ b[4] = v /\ b[5] = w
  OBVIOUS
<1> HIDE DEF a, b
<1>4. \A k \in 1 .. 5 : a[k] = b[k]
  BY <1>2, <1>3
<1>5. a = b
  BY <1>1, <1>4, SameEntries
<1> QED
  BY <1>5 DEF a, b

(* A length that is read is as long as it is.                              *)
LEMMA LengthBytes ==
  ASSUME NEW n \in Nat
  PROVE  /\ ShortU16Bytes(n) \in Nat
         /\ Read(n) = [do |-> "read", bytes |-> ShortU16Bytes(n)]
BY DEF ShortU16Bytes, Read

(* A step that leads somewhere is a step.                                  *)
LEMMA StepOfLeads ==
  ASSUME NEW step, NEW len, NEW n, NEW spare, Leads(<<step>>, len, n, spare)
  PROVE  step \in WalkSteps
<1>1. <<step>> \in Seq(WalkSteps) /\ Len(<<step>>) = 1
  BY DEF Leads
<1>2. <<step>>[1] \in WalkSteps /\ <<step>>[1] = step
  BY <1>1
<1> QED
  BY <1>2

(* A part of k bytes, then two lists with their lengths: an instruction or *)
(* a lookup.                                                               *)
LEMMA LeadsLists ==
  ASSUME NEW len \in Int, NEW k \in Nat, NEW n \in Nat, NEW m \in Nat
  PROVE  /\ Leads(<<Skip(k), Read(n), Skip(n), Read(m), Skip(m)>>, len,
                  k + ShortU16Bytes(n) + n + ShortU16Bytes(m) + m, 0)
         /\ k + ShortU16Bytes(n) + n + ShortU16Bytes(m) + m \in Nat
<1> DEFINE a == ShortU16Bytes(n)
           b == ShortU16Bytes(m)
           s == Skip(k)
           t == Read(n)
           u == Skip(n)
           v == Read(m)
           w == Skip(m)
<1>1. a \in Nat /\ b \in Nat
  BY LengthBytes
<1>2. Leads(<<s>>, len, k, 0) /\ Leads(<<u>>, len, n, 0) /\ Leads(<<w>>, len, m, 0)
  BY LeadsStep
<1>3. Leads(<<t>>, len, a, 0)
  BY <1>1, LengthBytes, LeadsStep
<1>4. Leads(<<v>>, len, b, 0)
  BY <1>1, LengthBytes, LeadsStep
<1> HIDE DEF a, b, s, t, u, v, w
<1>5. /\ s \in WalkSteps /\ t \in WalkSteps /\ u \in WalkSteps /\ v \in WalkSteps /\ w \in WalkSteps
  BY <1>2, <1>3, <1>4, StepOfLeads
<1>6. /\ <<s>> \o <<t>> = <<s, t>> /\ <<s, t>> \o <<u>> = <<s, t, u>>
      /\ <<s, t, u>> \o <<v>> = <<s, t, u, v>> /\ <<s, t, u, v>> \o <<w>> = <<s, t, u, v, w>>
  BY <1>5, JoinTwo, JoinThree, JoinFour, JoinFive
<1>7. k + a \in Nat /\ k + a + n \in Nat /\ k + a + n + b \in Nat /\ k + a + n + b + m \in Nat
  BY <1>1
<1>8. 0 \in Nat /\ \A x \in Nat : 0 <= x + 0
  OBVIOUS
<1> DEFINE p2 == k + a
           p3 == k + a + n
           p4 == k + a + n + b
           p5 == k + a + n + b + m
<1> HIDE DEF p2, p3, p4, p5
<1>9. Leads(<<s, t>>, len, p2, 0)
  <2>1. Leads(<<s>> \o <<t>>, len, k + a, 0)
    BY <1>1, <1>2, <1>3, <1>8, LeadsJoined
  <2> QED
    BY <1>6, <2>1 DEF p2
<1>10. Leads(<<s, t, u>>, len, p3, 0)
  <2>1. Leads(<<s, t>> \o <<u>>, len, p2 + n, 0)
    BY <1>2, <1>7, <1>8, <1>9, LeadsJoined DEF p2
  <2> QED
    BY <1>6, <2>1 DEF p2, p3
<1>11. Leads(<<s, t, u, v>>, len, p4, 0)
  <2>1. p3 \in Nat
    BY <1>7 DEF p3
  <2>2. Leads(<<s, t, u>> \o <<v>>, len, p3 + b, 0)
    BY <1>1, <1>4, <1>8, <1>10, <2>1, LeadsJoined
  <2> QED
    BY <1>6, <2>2 DEF p3, p4
<1>12. Leads(<<s, t, u, v, w>>, len, p5, 0)
  <2>1. p4 \in Nat
    BY <1>7 DEF p4
  <2>2. Leads(<<s, t, u, v>> \o <<w>>, len, p4 + m, 0)
    BY <1>2, <1>8, <1>11, <2>1, LeadsJoined
  <2> QED
    BY <1>6, <2>2 DEF p4, p5
<1> QED
  BY <1>7, <1>12 DEF a, b, s, t, u, v, w, p5

(* A vector of walks, each as long as f says.                              *)
LEMMA LeadsVector ==
  ASSUME NEW len \in Int, NEW walks, NEW f, NEW n \in Nat, walks = [k \in 1 .. n |-> walks[k]],
         \A k \in 1 .. n : f[k] \in Nat /\ Leads(walks[k], len, f[k], 0)
  PROVE  /\ Leads(VectorWalk(walks), len, ShortU16Bytes(n) + SumTo(f, n), 0)
         /\ SumTo(f, n) \in Nat
<1>1. \A k \in 1 .. n : walks[k] \in Seq(WalkSteps)
  BY DEF Leads
<1>2. walks \in Seq(Seq(WalkSteps)) /\ Len(walks) = n /\ DOMAIN walks = 1 .. n
  BY <1>1
<1>3. Leads(FlattenSeq(walks), len, SumTo(f, n), 0) /\ SumTo(f, n) \in Nat
  BY <1>2, LeadsAll
<1>4. ShortU16Bytes(n) \in Nat
  BY LengthBytes
<1>5. Leads(<<Read(n)>>, len, ShortU16Bytes(n), 0)
  BY <1>4, LengthBytes, LeadsStep
<1>6. 0 \in Nat /\ \A x \in Nat : 0 <= x + 0
  OBVIOUS
<1>7. Leads(<<Read(n)>> \o FlattenSeq(walks), len, ShortU16Bytes(n) + SumTo(f, n), 0)
  BY <1>3, <1>4, <1>5, <1>6, LeadsJoined
<1> QED
  BY <1>2, <1>3, <1>7 DEF VectorWalk

(* What the transactions tried are made of.                                *)
IsTransaction(tx) ==
  /\ tx.signatures \in Nat /\ tx.versioned \in BOOLEAN /\ tx.keys \in Nat
  /\ tx.instructions \in Seq([accounts : Nat, data : Nat])
  /\ tx.lookups \in Seq([writable : Nat, readonly : Nat])

(* The bytes of each instruction and lookup.                               *)
InstructionBytes(tx) ==
  [i \in DOMAIN tx.instructions |->
     1 + ShortU16Bytes(tx.instructions[i].accounts) + tx.instructions[i].accounts
       + ShortU16Bytes(tx.instructions[i].data) + tx.instructions[i].data]
LookupBytes(tx) ==
  [i \in DOMAIN tx.lookups |->
     32 + ShortU16Bytes(tx.lookups[i].writable) + tx.lookups[i].writable
        + ShortU16Bytes(tx.lookups[i].readonly) + tx.lookups[i].readonly]

(* The parts of a transaction: up to the message's prefix, its header and  *)
(* keys, its instructions, its lookups.                                    *)
FrontBytes(tx) ==
  ShortU16Bytes(tx.signatures) + 64 * tx.signatures + 0 + IF tx.versioned THEN 1 ELSE 0
KeyBytes(tx) == 3 + ShortU16Bytes(tx.keys) + 32 * tx.keys + 32
InstructionsBytes(tx) ==
  ShortU16Bytes(Len(tx.instructions)) + SumTo(InstructionBytes(tx), Len(tx.instructions))
LookupsBytes(tx) ==
  IF tx.versioned THEN ShortU16Bytes(Len(tx.lookups)) + SumTo(LookupBytes(tx), Len(tx.lookups))
  ELSE 0

(* The fields of instructions and lookups.                                 *)
LEMMA PartFields ==
  ASSUME NEW tx, IsTransaction(tx)
  PROVE  /\ DOMAIN tx.instructions = 1 .. Len(tx.instructions)
         /\ DOMAIN tx.lookups = 1 .. Len(tx.lookups)
         /\ \A i \in 1 .. Len(tx.instructions) :
              tx.instructions[i].accounts \in Nat /\ tx.instructions[i].data \in Nat
         /\ \A i \in 1 .. Len(tx.lookups) :
              tx.lookups[i].writable \in Nat /\ tx.lookups[i].readonly \in Nat
<1>1. /\ tx.instructions \in Seq([accounts : Nat, data : Nat])
      /\ tx.lookups \in Seq([writable : Nat, readonly : Nat])
  BY DEF IsTransaction
<1>2. /\ DOMAIN tx.instructions = 1 .. Len(tx.instructions)
      /\ \A i \in 1 .. Len(tx.instructions) : tx.instructions[i] \in [accounts : Nat, data : Nat]
  BY <1>1, Elements
<1>3. /\ DOMAIN tx.lookups = 1 .. Len(tx.lookups)
      /\ \A i \in 1 .. Len(tx.lookups) : tx.lookups[i] \in [writable : Nat, readonly : Nat]
  BY <1>1, Elements
<1>4. \A i \in 1 .. Len(tx.instructions) :
        tx.instructions[i].accounts \in Nat /\ tx.instructions[i].data \in Nat
  BY <1>2
<1>5. \A i \in 1 .. Len(tx.lookups) : tx.lookups[i].writable \in Nat /\ tx.lookups[i].readonly \in Nat
  BY <1>3
<1> QED
  BY <1>2, <1>3, <1>4, <1>5

(* More may be spared.                                                     *)
LEMMA LeadsSpare ==
  ASSUME NEW w, NEW len \in Int, NEW n \in Nat, Leads(w, len, n, 0)
  PROVE  Leads(w, len, n, 1)
<1>1. ASSUME NEW p \in Nat, p + n + 0 > len PROVE p + n + 1 > len
  BY <1>1
<1> QED
  BY <1>1 DEF Leads

(* The signatures, and the look at the message's first byte, which an      *)
(* unversioned message's header begins with.                               *)
LEMMA LeadsFront ==
  ASSUME NEW len \in Int, NEW tx, IsTransaction(tx)
  PROVE  /\ Leads(<<Read(tx.signatures), Skip(64 * tx.signatures), Peek>>
                    \o (IF tx.versioned THEN <<Skip(1)>> ELSE <<>>), len, FrontBytes(tx), 1)
         /\ FrontBytes(tx) \in Nat
<1> DEFINE n == tx.signatures
           a == ShortU16Bytes(n)
           k == 64 * n
           s == Read(n)
           t == Skip(k)
           u == Peek
           o == IF tx.versioned THEN <<Skip(1)>> ELSE <<>>
           m == IF tx.versioned THEN 1 ELSE 0
<1>1. n \in Nat /\ tx.versioned \in BOOLEAN
  BY DEF IsTransaction
<1>2. a \in Nat /\ k \in Nat /\ m \in Nat /\ 0 \in Nat /\ 1 \in Nat
  <2>1. \A x \in Nat : 64 * x \in Nat
    OBVIOUS
  <2> QED
    BY <1>1, <2>1, LengthBytes
<1>3. Leads(<<s>>, len, a, 0) /\ Leads(<<t>>, len, k, 0)
  BY <1>1, <1>2, LengthBytes, LeadsStep
<1>4. Leads(<<u>>, len, 0, 1)
  BY LeadsPeek
<1>5. Leads(o, len, m, 1)
  <2>1. Leads(<<>>, len, 0, 1)
    BY LeadsNowhere
  <2>2. Leads(<<Skip(1)>>, len, 1, 0)
    BY LeadsStep
  <2>3. Leads(<<Skip(1)>>, len, 1, 1)
    BY <2>2, LeadsSpare
  <2> QED
    BY <1>1, <2>1, <2>3
<1>6. FrontBytes(tx) = a + k + 0 + m
  BY DEF FrontBytes
<1> HIDE DEF n, a, k, s, t, u, o, m
<1>7. s \in WalkSteps /\ t \in WalkSteps /\ u \in WalkSteps
  BY <1>3, <1>4, StepOfLeads
<1>8. <<s>> \o <<t>> = <<s, t>> /\ <<s, t>> \o <<u>> = <<s, t, u>>
  BY <1>7, JoinTwo, JoinThree
<1>9. /\ a + k \in Nat /\ a + k + 0 \in Nat /\ a + k + 0 + m \in Nat
      /\ 0 <= k + 0 /\ 0 <= 0 + 1 /\ 1 <= m + 1
  BY <1>2
<1>10. Leads(<<s, t>>, len, a + k, 0)
  <2>1. Leads(<<s>> \o <<t>>, len, a + k, 0)
    BY <1>2, <1>3, <1>9, LeadsJoined
  <2> QED
    BY <1>8, <2>1
<1>11. Leads(<<s, t, u>>, len, a + k + 0, 1)
  <2>1. Leads(<<s, t>> \o <<u>>, len, (a + k) + 0, 1)
    BY <1>2, <1>4, <1>9, <1>10, LeadsJoined
  <2> QED
    BY <1>8, <2>1
<1>12. Leads(<<s, t, u>> \o o, len, (a + k + 0) + m, 1)
  BY <1>2, <1>5, <1>9, <1>11, LeadsJoined
<1>13. Leads(<<s, t, u>> \o o, len, FrontBytes(tx), 1) /\ FrontBytes(tx) \in Nat
  BY <1>6, <1>9, <1>12
<1> QED
  BY <1>13 DEF n, k, s, t, u, o

(* The header, the keys and the blockhash.                                 *)
LEMMA LeadsKeys ==
  ASSUME NEW len \in Int, NEW tx, IsTransaction(tx)
  PROVE  /\ Leads(<<Skip(3), Read(tx.keys), Skip(32 * tx.keys), Skip(32)>>, len, KeyBytes(tx), 0)
         /\ KeyBytes(tx) \in Nat /\ 1 <= KeyBytes(tx) + 0
<1> DEFINE n == tx.keys
           a == ShortU16Bytes(n)
           k == 32 * n
           s == Skip(3)
           t == Read(n)
           u == Skip(k)
           v == Skip(32)
<1>1. n \in Nat
  BY DEF IsTransaction
<1>2. a \in Nat /\ k \in Nat /\ 3 \in Nat /\ 32 \in Nat /\ 0 \in Nat
  <2>1. \A x \in Nat : 32 * x \in Nat
    OBVIOUS
  <2> QED
    BY <1>1, <2>1, LengthBytes
<1>3. /\ Leads(<<s>>, len, 3, 0) /\ Leads(<<t>>, len, a, 0)
      /\ Leads(<<u>>, len, k, 0) /\ Leads(<<v>>, len, 32, 0)
  BY <1>1, <1>2, LengthBytes, LeadsStep
<1>4. KeyBytes(tx) = 3 + a + k + 32
  BY DEF KeyBytes
<1> HIDE DEF n, a, k, s, t, u, v
<1>5. s \in WalkSteps /\ t \in WalkSteps /\ u \in WalkSteps /\ v \in WalkSteps
  BY <1>3, StepOfLeads
<1>6. /\ <<s>> \o <<t>> = <<s, t>> /\ <<s, t>> \o <<u>> = <<s, t, u>>
      /\ <<s, t, u>> \o <<v>> = <<s, t, u, v>>
  BY <1>5, JoinTwo, JoinThree, JoinFour
<1>7. /\ 3 + a \in Nat /\ 3 + a + k \in Nat /\ 3 + a + k + 32 \in Nat
      /\ 0 <= a + 0 /\ 0 <= k + 0 /\ 0 <= 32 + 0 /\ 1 <= (3 + a + k + 32) + 0
  BY <1>2
<1>8. Leads(<<s, t>>, len, 3 + a, 0)
  <2>1. Leads(<<s>> \o <<t>>, len, 3 + a, 0)
    BY <1>2, <1>3, <1>7, LeadsJoined
  <2> QED
    BY <1>6, <2>1
<1>9. Leads(<<s, t, u>>, len, 3 + a + k, 0)
  <2>1. Leads(<<s, t>> \o <<u>>, len, (3 + a) + k, 0)
    BY <1>2, <1>3, <1>7, <1>8, LeadsJoined
  <2> QED
    BY <1>6, <2>1
<1>10. Leads(<<s, t, u, v>>, len, 3 + a + k + 32, 0)
  <2>1. Leads(<<s, t, u>> \o <<v>>, len, (3 + a + k) + 32, 0)
    BY <1>2, <1>3, <1>7, <1>9, LeadsJoined
  <2> QED
    BY <1>6, <2>1
<1>11. Leads(<<s, t, u, v>>, len, KeyBytes(tx), 0) /\ KeyBytes(tx) \in Nat /\ 1 <= KeyBytes(tx) + 0
  BY <1>4, <1>7, <1>10
<1> QED
  BY <1>11 DEF n, k, s, t, u, v

(* The instructions.                                                       *)
LEMMA LeadsInstructions ==
  ASSUME NEW len \in Int, NEW tx, IsTransaction(tx)
  PROVE  /\ Leads(VectorWalk([i \in DOMAIN tx.instructions |-> InstructionWalk(tx.instructions[i])]),
                  len, InstructionsBytes(tx), 0)
         /\ InstructionsBytes(tx) \in Nat
<1> DEFINE ixs == tx.instructions
           n == Len(ixs)
           walks == [i \in DOMAIN ixs |-> InstructionWalk(ixs[i])]
           f == InstructionBytes(tx)
<1>1. n \in Nat /\ DOMAIN ixs = 1 .. n
  BY DEF IsTransaction
<1>2. \A i \in 1 .. n : ixs[i].accounts \in Nat /\ ixs[i].data \in Nat
  BY PartFields
<1>3. InstructionsBytes(tx) = ShortU16Bytes(n) + SumTo(f, n)
  BY DEF InstructionsBytes
<1>4. f = [i \in DOMAIN ixs |-> 1 + ShortU16Bytes(ixs[i].accounts) + ixs[i].accounts
                                  + ShortU16Bytes(ixs[i].data) + ixs[i].data]
  BY DEF InstructionBytes
<1> HIDE DEF f, n, ixs
<1>5. walks = [i \in 1 .. n |-> walks[i]]
  BY <1>1
<1>6. ASSUME NEW i \in 1 .. n PROVE f[i] \in Nat /\ Leads(walks[i], len, f[i], 0)
  <2> DEFINE x == ixs[i].accounts
             y == ixs[i].data
  <2>1. x \in Nat /\ y \in Nat
    BY <1>2
  <2>2. walks[i] = InstructionWalk(ixs[i])
    BY <1>1
  <2>3. f[i] = 1 + ShortU16Bytes(x) + x + ShortU16Bytes(y) + y
    BY <1>1, <1>4
  <2>4. InstructionWalk(ixs[i]) = <<Skip(1), Read(x), Skip(x), Read(y), Skip(y)>>
    BY DEF InstructionWalk
  <2> HIDE DEF x, y, walks
  <2>5. /\ Leads(<<Skip(1), Read(x), Skip(x), Read(y), Skip(y)>>, len,
                 1 + ShortU16Bytes(x) + x + ShortU16Bytes(y) + y, 0)
        /\ 1 + ShortU16Bytes(x) + x + ShortU16Bytes(y) + y \in Nat
    BY <2>1, LeadsLists
  <2> QED
    BY <2>2, <2>3, <2>4, <2>5
<1> HIDE DEF walks
<1>7. /\ Leads(VectorWalk(walks), len, ShortU16Bytes(n) + SumTo(f, n), 0)
      /\ SumTo(f, n) \in Nat
  BY <1>1, <1>5, <1>6, LeadsVector
<1>8. ShortU16Bytes(n) \in Nat /\ \A x, y \in Nat : x + y \in Nat
  BY <1>1, LengthBytes
<1> QED
  BY <1>3, <1>7, <1>8 DEF walks, ixs

(* The lookups of a versioned message.                                     *)
LEMMA LeadsLookups ==
  ASSUME NEW len \in Int, NEW tx, IsTransaction(tx)
  PROVE  /\ Leads(IF tx.versioned
                  THEN VectorWalk([i \in DOMAIN tx.lookups |-> LookupWalk(tx.lookups[i])])
                  ELSE <<>>, len, LookupsBytes(tx), 0)
         /\ LookupsBytes(tx) \in Nat
<1> DEFINE ls == tx.lookups
           n == Len(ls)
           walks == [i \in DOMAIN ls |-> LookupWalk(ls[i])]
           f == LookupBytes(tx)
<1>1. n \in Nat /\ DOMAIN ls = 1 .. n
  BY DEF IsTransaction
<1>2. \A i \in 1 .. n : ls[i].writable \in Nat /\ ls[i].readonly \in Nat
  BY PartFields
<1>3. LookupsBytes(tx) = IF tx.versioned THEN ShortU16Bytes(n) + SumTo(f, n) ELSE 0
  BY DEF LookupsBytes
<1>4. f = [i \in DOMAIN ls |-> 32 + ShortU16Bytes(ls[i].writable) + ls[i].writable
                                 + ShortU16Bytes(ls[i].readonly) + ls[i].readonly]
  BY DEF LookupBytes
<1> HIDE DEF f, n, ls
<1>5. walks = [i \in 1 .. n |-> walks[i]]
  BY <1>1
<1>6. ASSUME NEW i \in 1 .. n PROVE f[i] \in Nat /\ Leads(walks[i], len, f[i], 0)
  <2> DEFINE x == ls[i].writable
             y == ls[i].readonly
  <2>1. x \in Nat /\ y \in Nat
    BY <1>2
  <2>2. walks[i] = LookupWalk(ls[i])
    BY <1>1
  <2>3. f[i] = 32 + ShortU16Bytes(x) + x + ShortU16Bytes(y) + y
    BY <1>1, <1>4
  <2>4. LookupWalk(ls[i]) = <<Skip(32), Read(x), Skip(x), Read(y), Skip(y)>>
    BY DEF LookupWalk
  <2> HIDE DEF x, y, walks
  <2>5. /\ Leads(<<Skip(32), Read(x), Skip(x), Read(y), Skip(y)>>, len,
                 32 + ShortU16Bytes(x) + x + ShortU16Bytes(y) + y, 0)
        /\ 32 + ShortU16Bytes(x) + x + ShortU16Bytes(y) + y \in Nat
    BY <2>1, LeadsLists
  <2> QED
    BY <2>2, <2>3, <2>4, <2>5
<1> HIDE DEF walks
<1>7. /\ Leads(VectorWalk(walks), len, ShortU16Bytes(n) + SumTo(f, n), 0)
      /\ SumTo(f, n) \in Nat
  BY <1>1, <1>5, <1>6, LeadsVector
<1>8. ShortU16Bytes(n) \in Nat /\ \A x, y \in Nat : x + y \in Nat
  BY <1>1, LengthBytes
<1>9. Leads(<<>>, len, 0, 0)
  BY LeadsNowhere
<1> QED
  BY <1>3, <1>7, <1>8, <1>9 DEF walks, ls

(* The parts are all there is.                                             *)
LEMMA TxParts ==
  ASSUME NEW tx, IsTransaction(tx)
  PROVE  TxBytes(tx) = FrontBytes(tx) + KeyBytes(tx) + InstructionsBytes(tx) + LookupsBytes(tx)
<1> DEFINE a == ShortU16Bytes(tx.signatures)
           b == 64 * tx.signatures
           c == ShortU16Bytes(tx.keys)
           d == 32 * tx.keys
           e == ShortU16Bytes(Len(tx.instructions))
           f == SumTo(InstructionBytes(tx), Len(tx.instructions))
           g == ShortU16Bytes(Len(tx.lookups))
           h == SumTo(LookupBytes(tx), Len(tx.lookups))
<1>1. TxBytes(tx) = a + b + 3 + c + d + 32 + e + f + (IF tx.versioned THEN 1 + g + h ELSE 0)
  BY DEF TxBytes, InstructionBytes, LookupBytes
<1>2. /\ FrontBytes(tx) = a + b + 0 + (IF tx.versioned THEN 1 ELSE 0)
      /\ KeyBytes(tx) = 3 + c + d + 32
      /\ InstructionsBytes(tx) = e + f
      /\ LookupsBytes(tx) = IF tx.versioned THEN g + h ELSE 0
  BY DEF FrontBytes, KeyBytes, InstructionsBytes, LookupsBytes
<1>3. /\ a \in Nat /\ c \in Nat /\ e \in Nat /\ g \in Nat
      /\ tx.signatures \in Nat /\ tx.keys \in Nat /\ tx.versioned \in BOOLEAN
  <2>1. /\ tx.signatures \in Nat /\ tx.keys \in Nat /\ tx.versioned \in BOOLEAN
        /\ Len(tx.instructions) \in Nat /\ Len(tx.lookups) \in Nat
    BY DEF IsTransaction
  <2>2. \A x \in Nat : ShortU16Bytes(x) \in Nat
    BY LengthBytes
  <2> QED
    BY <2>1, <2>2
<1>4. b \in Nat /\ d \in Nat
  <2>1. \A x \in Nat : 64 * x \in Nat /\ 32 * x \in Nat
    OBVIOUS
  <2> QED
    BY <1>3, <2>1
<1>5. f \in Nat /\ h \in Nat
  <2>1. /\ \A i \in 1 .. Len(tx.instructions) : InstructionBytes(tx)[i] \in Nat
        /\ \A i \in 1 .. Len(tx.lookups) : LookupBytes(tx)[i] \in Nat
        /\ Len(tx.instructions) \in Nat /\ Len(tx.lookups) \in Nat
    <3>1. ASSUME NEW i \in 1 .. Len(tx.instructions) PROVE InstructionBytes(tx)[i] \in Nat
      <4> DEFINE x == tx.instructions[i].accounts
                 y == tx.instructions[i].data
      <4>1. x \in Nat /\ y \in Nat /\ i \in DOMAIN tx.instructions
        BY <3>1, PartFields
      <4>2. ShortU16Bytes(x) \in Nat /\ ShortU16Bytes(y) \in Nat
        BY <4>1, LengthBytes
      <4>3. InstructionBytes(tx)[i] = 1 + ShortU16Bytes(x) + x + ShortU16Bytes(y) + y
        BY <4>1 DEF InstructionBytes
      <4>4. \A p, q, r, s \in Nat : 1 + p + q + r + s \in Nat /\ 32 + p + q + r + s \in Nat
        OBVIOUS
      <4> HIDE DEF x, y
      <4> QED
        BY <4>1, <4>2, <4>3, <4>4
    <3>2. ASSUME NEW i \in 1 .. Len(tx.lookups) PROVE LookupBytes(tx)[i] \in Nat
      <4> DEFINE x == tx.lookups[i].writable
                 y == tx.lookups[i].readonly
      <4>1. x \in Nat /\ y \in Nat /\ i \in DOMAIN tx.lookups
        BY <3>2, PartFields
      <4>2. ShortU16Bytes(x) \in Nat /\ ShortU16Bytes(y) \in Nat
        BY <4>1, LengthBytes
      <4>3. LookupBytes(tx)[i] = 32 + ShortU16Bytes(x) + x + ShortU16Bytes(y) + y
        BY <4>1 DEF LookupBytes
      <4>4. \A p, q, r, s \in Nat : 1 + p + q + r + s \in Nat /\ 32 + p + q + r + s \in Nat
        OBVIOUS
      <4> HIDE DEF x, y
      <4> QED
        BY <4>1, <4>2, <4>3, <4>4
    <3> QED
      BY <3>1, <3>2 DEF IsTransaction
  <2>2. \A fs : \A n \in Nat : (\A i \in 1 .. n : fs[i] \in Nat) => SumTo(fs, n) \in Nat
    <3> TAKE fs
    <3> TAKE n \in Nat
    <3> HAVE \A i \in 1 .. n : fs[i] \in Nat
    <3> QED
      BY SumFacts
  <2> QED
    BY <2>1, <2>2
<1> HIDE DEF a, b, c, d, e, f, g, h
<1> QED
  BY <1>1, <1>2, <1>3, <1>4, <1>5

(* tx_len gives the bytes of a transaction that is all there, and None for *)
(* one that is not.                                                        *)
LEMMA TxLenIs ==
  ASSUME NEW len \in Int, NEW start \in Nat, NEW tx, IsTransaction(tx)
  PROVE  /\ TxLen(len, start, tx) = IF start + TxBytes(tx) <= len THEN TxBytes(tx) ELSE NULL
         /\ TxBytes(tx) \in Nat
<1> DEFINE a == <<Read(tx.signatures), Skip(64 * tx.signatures), Peek>>
                  \o (IF tx.versioned THEN <<Skip(1)>> ELSE <<>>)
           b == <<Skip(3), Read(tx.keys), Skip(32 * tx.keys), Skip(32)>>
           c == VectorWalk([i \in DOMAIN tx.instructions |-> InstructionWalk(tx.instructions[i])])
           d == IF tx.versioned
                THEN VectorWalk([i \in DOMAIN tx.lookups |-> LookupWalk(tx.lookups[i])]) ELSE <<>>
           na == FrontBytes(tx)
           nb == KeyBytes(tx)
           nc == InstructionsBytes(tx)
           nd == LookupsBytes(tx)
<1>1. Leads(a, len, na, 1) /\ na \in Nat
  BY LeadsFront
<1>2. Leads(b, len, nb, 0) /\ nb \in Nat /\ 1 <= nb + 0
  BY LeadsKeys
<1>3. Leads(c, len, nc, 0) /\ nc \in Nat
  BY LeadsInstructions
<1>4. Leads(d, len, nd, 0) /\ nd \in Nat
  BY LeadsLookups
<1>5. TxWalk(tx) = a \o b \o c \o d
  BY DEF TxWalk
<1>6. TxBytes(tx) = na + nb + nc + nd
  BY TxParts
<1> HIDE DEF a, b, c, d, na, nb, nc, nd
<1>7. 0 \in Nat /\ 1 \in Nat /\ na + nb \in Nat /\ na + nb + nc \in Nat /\ na + nb + nc + nd \in Nat
      /\ 0 <= nc + 0 /\ 0 <= nd + 0
  BY <1>1, <1>2, <1>3, <1>4
<1>8. Leads(a \o b, len, na + nb, 0)
  BY <1>1, <1>2, <1>7, LeadsJoined
<1>9. Leads(a \o b \o c, len, na + nb + nc, 0)
  BY <1>3, <1>7, <1>8, LeadsJoined
<1>10. Leads(a \o b \o c \o d, len, na + nb + nc + nd, 0)
  BY <1>4, <1>7, <1>9, LeadsJoined
<1> DEFINE n == TxBytes(tx)
           end == WalkEnd(len, start, TxWalk(tx))
<1>11. n \in Nat /\ (end = start + n \/ (end = -1 /\ start + n + 0 > len))
  BY <1>5, <1>6, <1>7, <1>10 DEF Leads
<1>12. TxLen(len, start, tx) = IF end = -1 \/ end > len THEN NULL ELSE end - start
  BY DEF TxLen
<1> HIDE DEF n, end
<1>13. IF end = -1 \/ end > len THEN ~(start + n <= len)
       ELSE start + n <= len /\ end - start = n
  BY <1>11
<1> QED
  BY <1>11, <1>12, <1>13 DEF n

-----------------------------------------------------------------------------
(* deshred_into_txs.                                                       *)

(* The bytes of a list of transactions, and of an entry.                   *)
ListBytes(txs) == SumTo([i \in DOMAIN txs |-> TxBytes(txs[i])], Len(txs))
EntryBytes(entries) == [e \in DOMAIN entries |-> EntryHeader + ListBytes(entries[e])]

(* Where the loop over an entry's transactions comes from q.               *)
AfterTx(len, q, tx) ==
  IF q = -1 THEN -1
  ELSE IF TxLen(len, q, tx) = NULL THEN -1 ELSE q + TxLen(len, q, tx)

(* The transactions tried are such.                                        *)
LEMMA AllTransactions ==
  ASSUME NEW tx \in Transactions
  PROVE  IsTransaction(tx)
BY TransactionAssumption DEF IsTransaction

(* The loop ends behind the transactions if they are all there.            *)
LEMMA TransactionsEnd ==
  ASSUME NEW len \in Int, NEW p \in Nat, p <= len, NEW txs \in Seq(Transactions)
  PROVE  /\ ListBytes(txs) \in Nat
         /\ AfterTransactions(len, p, txs) = IF p + ListBytes(txs) <= len THEN p + ListBytes(txs)
                                             ELSE -1
<1> DEFINE n == Len(txs)
           f == [i \in DOMAIN txs |-> TxBytes(txs[i])]
           Made(g) == g = [k \in 0 .. n |-> IF k = 0 THEN p ELSE AfterTx(len, g[k - 1], txs[k])]
           c == CHOOSE g : Made(g)
           at(k) == IF p + SumTo(f, k) <= len THEN p + SumTo(f, k) ELSE -1
           l == [k \in 0 .. n |-> at(k)]
           S == {k \in 0 .. n : c[k] = l[k]}
<1>1. n \in Nat /\ \A k \in 1 .. n : txs[k] \in Transactions /\ IsTransaction(txs[k])
  <2>1. n \in Nat /\ \A k \in 1 .. n : txs[k] \in Transactions
    OBVIOUS
  <2> QED
    BY <2>1, AllTransactions
<1>2. AfterTransactions(len, p, txs) = c[n]
  BY DEF AfterTransactions, AfterTx
<1>3. \A k \in 1 .. n : f[k] = TxBytes(txs[k])
  OBVIOUS
<1>4. ListBytes(txs) = SumTo(f, n)
  BY DEF ListBytes
<1>5. \A k \in 1 .. n : f[k] \in Nat
  <2>1. 0 \in Nat /\ 0 \in Int
    OBVIOUS
  <2> QED
    BY <1>1, <1>3, <2>1, TxLenIs
<1> HIDE DEF n, f, c
<1>6. /\ SumTo(f, 0) = 0 /\ \A k \in 0 .. n : SumTo(f, k) \in Nat
      /\ \A k \in 1 .. n : SumTo(f, k) = SumTo(f, k - 1) + f[k]
  BY <1>1, <1>5, SumFacts
<1>7. at(0) = p
  BY <1>6
<1>8. ASSUME NEW k \in 1 .. n PROVE at(k) = AfterTx(len, at(k - 1), txs[k])
  <2> DEFINE s == SumTo(f, k - 1)
             b == f[k]
  <2>1. s \in Nat /\ b \in Nat /\ SumTo(f, k) = s + b
    <3>1. k - 1 \in 0 .. n
      BY <1>1
    <3> QED
      BY <1>5, <1>6, <3>1
  <2>2. b = TxBytes(txs[k]) /\ IsTransaction(txs[k])
    BY <1>1, <1>3
  <2>3. at(k) = (IF p + (s + b) <= len THEN p + (s + b) ELSE -1)
        /\ at(k - 1) = IF p + s <= len THEN p + s ELSE -1
    BY <2>1
  <2> HIDE DEF at, s, b
  <2>4. CASE p + s <= len
    <3>1. p + s \in Nat /\ p + s # -1
      BY <2>1
    <3>2. TxLen(len, p + s, txs[k]) = IF (p + s) + b <= len THEN b ELSE NULL
      BY <2>2, <3>1, TxLenIs
    <3>3. b # NULL
      BY <2>1, CodecNullAssumption
    <3>4. (p + s) + b = p + (s + b)
      BY <2>1
    <3> QED
      BY <2>3, <2>4, <3>1, <3>2, <3>3, <3>4 DEF AfterTx
  <2>5. CASE ~(p + s <= len)
    <3>1. ~(p + (s + b) <= len)
      BY <2>1, <2>5
    <3> QED
      BY <2>3, <2>5, <3>1 DEF AfterTx
  <2> QED
    BY <2>4, <2>5
<1> HIDE DEF at
<1>9. \A k \in 0 .. n : l[k] = IF k = 0 THEN p ELSE AfterTx(len, l[k - 1], txs[k])
  <2>1. \A k \in 0 .. n : l[k] = at(k)
    OBVIOUS
  <2>2. \A k \in 0 .. n : k # 0 => k \in 1 .. n /\ k - 1 \in 0 .. n
    BY <1>1
  <2> HIDE DEF l
  <2> QED
    BY <1>7, <1>8, <2>1, <2>2
<1>10. Made(l)
  BY <1>9
<1>11. Made(c)
  <2> HIDE DEF Made
  <2>1. \E g : Made(g)
    BY <1>10
  <2> QED
    BY <2>1 DEF c
<1>12. c[0] = p /\ \A k \in 1 .. n : c[k] = AfterTx(len, c[k - 1], txs[k])
  BY <1>1, <1>11
<1>13. l[0] = p /\ \A k \in 1 .. n : l[k] = AfterTx(len, l[k - 1], txs[k])
  <2> HIDE DEF l
  <2> QED
    BY <1>1, <1>9
<1> HIDE DEF l
<1>14. 0 \in S
  BY <1>1, <1>12, <1>13
<1>15. ASSUME NEW k \in 1 .. n, k - 1 \in S PROVE k \in S
  BY <1>12, <1>13, <1>15
<1> HIDE DEF S
<1>16. \A k \in 0 .. n : k \in S
  BY <1>1, <1>14, <1>15, UpTo
<1>17. n \in 0 .. n
  BY <1>1
<1>18. c[n] = l[n]
  BY <1>16, <1>17 DEF S
<1>19. l[n] = IF p + SumTo(f, n) <= len THEN p + SumTo(f, n) ELSE -1
  BY <1>17 DEF l, at
<1> QED
  BY <1>2, <1>4, <1>6, <1>17, <1>18, <1>19

(* Streams of entries, and the states of the loop over one.                *)
Entries == Seq(Seq(Transactions))
DeshredStates == [pos : Nat, entries : Entries, stop : BOOLEAN]

(* An entry the loop takes: it is all there, and not too long.             *)
Taken(entries, len, e) == StreamEnd(entries, e) <= len /\ Len(entries[e]) <= MaxTransactions

(* Every entry ends behind the one before it.                              *)
LEMMA StreamEnds ==
  ASSUME NEW entries \in Entries
  PROVE  /\ StreamEnd(entries, 0) = 8
         /\ \A e \in 0 .. Len(entries) : StreamEnd(entries, e) \in Nat
         /\ \A e \in 1 .. Len(entries) :
              /\ ListBytes(entries[e]) \in Nat
              /\ StreamEnd(entries, e) = StreamEnd(entries, e - 1) + (EntryHeader + ListBytes(entries[e]))
         /\ \A e \in 0 .. Len(entries) : \A d \in 0 .. e : StreamEnd(entries, d) <= StreamEnd(entries, e)
<1> DEFINE n == Len(entries)
           f == EntryBytes(entries)
<1>1. n \in Nat /\ DOMAIN entries = 1 .. n /\ \A e \in 1 .. n : entries[e] \in Seq(Transactions)
  BY DEF Entries
<1>2. \A e \in 0 .. n : StreamEnd(entries, e) = 8 + SumTo(f, e)
  BY DEF StreamEnd, EntryBytes, ListBytes
<1>3. \A e \in 1 .. n : ListBytes(entries[e]) \in Nat
  <2>1. 0 \in Nat /\ 0 \in Int /\ 0 <= 0
    OBVIOUS
  <2> QED
    BY <1>1, <2>1, TransactionsEnd
<1>4. \A e \in 1 .. n : f[e] = EntryHeader + ListBytes(entries[e]) /\ f[e] \in Nat
  <2>1. \A e \in 1 .. n : f[e] = EntryHeader + ListBytes(entries[e])
    BY <1>1 DEF EntryBytes
  <2>2. \A b \in Nat : EntryHeader + b \in Nat
    BY DEF EntryHeader
  <2> QED
    BY <1>3, <2>1, <2>2
<1> HIDE DEF n, f
<1>5. /\ SumTo(f, 0) = 0 /\ \A e \in 0 .. n : SumTo(f, e) \in Nat
      /\ \A e \in 1 .. n : SumTo(f, e) = SumTo(f, e - 1) + f[e]
  BY <1>1, <1>4, SumFacts
<1>6. ASSUME NEW e \in 0 .. n, NEW d \in 0 .. e PROVE StreamEnd(entries, d) <= StreamEnd(entries, e)
  <2>1. e \in Nat /\ d \in 0 .. n /\ \A k \in 1 .. e : f[k] \in Nat
    BY <1>1, <1>4
  <2>2. SumTo(f, d) <= SumTo(f, e)
    BY <2>1, SumGrows
  <2> QED
    BY <1>2, <1>5, <2>1, <2>2
<1>7. StreamEnd(entries, 0) = 8
  BY <1>1, <1>2, <1>5
<1>8. \A e \in 0 .. n : StreamEnd(entries, e) \in Nat
  BY <1>2, <1>5
<1>9. ASSUME NEW e \in 1 .. n
      PROVE  StreamEnd(entries, e) = StreamEnd(entries, e - 1) + (EntryHeader + ListBytes(entries[e]))
  <2>1. e - 1 \in 0 .. n /\ e \in 0 .. n
    BY <1>1
  <2>2. SumTo(f, e) = SumTo(f, e - 1) + (EntryHeader + ListBytes(entries[e]))
        /\ SumTo(f, e - 1) \in Nat /\ EntryHeader + ListBytes(entries[e]) \in Nat
    BY <1>4, <1>5, <2>1
  <2>3. /\ StreamEnd(entries, e) = 8 + SumTo(f, e)
        /\ StreamEnd(entries, e - 1) = 8 + SumTo(f, e - 1)
    BY <1>2, <2>1
  <2> QED
    BY <2>2, <2>3
<1> QED
  BY <1>3, <1>6, <1>7, <1>8, <1>9 DEF n

(* Loop invariant: the first m entries have been read, and if the loop has *)
(* ended before k, it is at an entry it does not take.                     *)
DeshredAt(entries, len, k, state) ==
  \E m \in 0 .. k :
    /\ state = [pos |-> StreamEnd(entries, m), entries |-> SubSeq(entries, 1, m), stop |-> m # k]
    /\ \A e \in 1 .. m : Taken(entries, len, e)
    /\ m # k => ~Taken(entries, len, m + 1)

(* A prefix and the entry after it.                                        *)
LEMMA PrefixGrows ==
  ASSUME NEW S, NEW seq \in Seq(S), NEW k \in 1 .. Len(seq)
  PROVE  Append(SubSeq(seq, 1, k - 1), seq[k]) = SubSeq(seq, 1, k)
<1> DEFINE a == Append(SubSeq(seq, 1, k - 1), seq[k])
           b == SubSeq(seq, 1, k)
<1>1. k \in Nat /\ k - 1 \in Nat /\ Len(seq) \in Nat /\ \A i \in 1 .. Len(seq) : seq[i] \in S
  OBVIOUS
<1>2. /\ SubSeq(seq, 1, k - 1) \in Seq(S) /\ Len(SubSeq(seq, 1, k - 1)) = k - 1
      /\ \A i \in 1 .. k - 1 : SubSeq(seq, 1, k - 1)[i] = seq[i]
  OBVIOUS
<1>3. b \in Seq(S) /\ Len(b) = k /\ \A i \in 1 .. k : b[i] = seq[i]
  OBVIOUS
<1>4. a \in Seq(S) /\ Len(a) = k /\ \A i \in 1 .. k : a[i] = seq[i]
  BY <1>1, <1>2
<1> HIDE DEF a, b
<1>5. a = b
  BY <1>1, <1>3, <1>4, SameEntries
<1> QED
  BY <1>5 DEF a, b

(* The next entry keeps the loop invariant.                                *)
LEMMA NextEntryKeeps ==
  ASSUME NEW entries \in Entries, NEW len \in Int, NEW k \in 1 .. Len(entries), NEW state,
         DeshredAt(entries, len, k - 1, state)
  PROVE  DeshredAt(entries, len, k, NextEntry(state, entries[k], len))
<1> DEFINE txs == entries[k]
           b == ListBytes(txs)
           new == NextEntry(state, txs, len)
           end(e) == StreamEnd(entries, e)
<1>1. k \in Nat /\ k - 1 \in Nat /\ Len(entries) \in Nat /\ txs \in Seq(Transactions)
  BY DEF Entries
<1>2. PICK m \in 0 .. k - 1 :
        /\ state = [pos |-> end(m), entries |-> SubSeq(entries, 1, m), stop |-> m # k - 1]
        /\ \A e \in 1 .. m : Taken(entries, len, e)
        /\ m # k - 1 => ~Taken(entries, len, m + 1)
  BY DEF DeshredAt
<1>3. /\ end(k - 1) \in Nat /\ b \in Nat /\ end(k) = end(k - 1) + (EntryHeader + b)
  <2>1. k - 1 \in 0 .. Len(entries)
    BY <1>1
  <2> QED
    BY <2>1, StreamEnds
<1>4. EntryHeader = 48
  BY DEF EntryHeader
<1>5. Len(txs) \in Nat /\ MaxTransactions \in Nat
  BY <1>1, StreamAssumption
<1> DEFINE after == AfterTransactions(len, state.pos + EntryHeader, txs)
<1>6. new = IF state.stop \/ state.pos + EntryHeader > len \/ Len(txs) > MaxTransactions \/ after = -1
            THEN [state EXCEPT !.stop = TRUE]
            ELSE [state EXCEPT !.pos = after, !.entries = Append(@, txs)]
  BY DEF NextEntry
<1>7. CASE m # k - 1
  <2>1. state.stop
    BY <1>2, <1>7
  <2>2. new = [state EXCEPT !.stop = TRUE]
    BY <1>6, <2>1
  <2>3. m # k /\ m \in 0 .. k
    BY <1>1
  <2>4. new = [pos |-> end(m), entries |-> SubSeq(entries, 1, m), stop |-> m # k]
    BY <1>2, <2>2, <2>3
  <2> HIDE DEF new, end
  <2> QED
    BY <1>2, <1>7, <2>3, <2>4 DEF DeshredAt, new, end
<1>8. CASE m = k - 1
  <2>1. /\ state = [pos |-> end(k - 1), entries |-> SubSeq(entries, 1, k - 1), stop |-> FALSE]
        /\ \A e \in 1 .. k - 1 : Taken(entries, len, e)
    BY <1>2, <1>8
  <2>2. state.pos = end(k - 1) /\ ~state.stop
    BY <2>1
  <2> DEFINE p == end(k - 1) + EntryHeader
  <2>3. p \in Nat /\ end(k) = p + b
    BY <1>3, <1>4
  <2>4. p <= len => after = IF p + b <= len THEN p + b ELSE -1
    BY <1>1, <2>2, <2>3, TransactionsEnd
  <2>5. Taken(entries, len, k) <=> p + b <= len /\ Len(txs) <= MaxTransactions
    BY <2>3 DEF Taken
  <2> HIDE DEF after, new, b
  <2>6. CASE Taken(entries, len, k)
    <3>1. p <= len /\ ~(p > len) /\ after = end(k) /\ after # -1 /\ ~(Len(txs) > MaxTransactions)
      <4>1. p + b <= len /\ Len(txs) <= MaxTransactions
        BY <2>5, <2>6
      <4>2. p \in Nat /\ b \in Nat
        BY <1>3, <2>3
      <4> HIDE DEF p, end
      <4>3. p <= len /\ ~(p > len) /\ p + b # -1
        BY <4>1, <4>2
      <4>4. ~(Len(txs) > MaxTransactions)
        BY <1>5, <4>1
      <4> QED
        BY <2>3, <2>4, <4>1, <4>3, <4>4
    <3>2. new = [state EXCEPT !.pos = after, !.entries = Append(@, txs)]
      BY <1>6, <2>2, <3>1
    <3>3. new = [pos |-> end(k), entries |-> Append(SubSeq(entries, 1, k - 1), txs), stop |-> FALSE]
      BY <2>1, <3>1, <3>2
    <3>4. Append(SubSeq(entries, 1, k - 1), txs) = SubSeq(entries, 1, k)
      BY PrefixGrows
    <3>5. new = [pos |-> end(k), entries |-> SubSeq(entries, 1, k), stop |-> k # k]
      BY <3>3, <3>4
    <3>6. \A e \in 1 .. k : Taken(entries, len, e)
      <4>1. \A e \in 1 .. k : e = k \/ e \in 1 .. k - 1
        BY <1>1
      <4> QED
        BY <2>1, <2>6, <4>1
    <3>7. k \in 0 .. k
      BY <1>1
    <3> QED
      BY <3>5, <3>6, <3>7 DEF DeshredAt, new
  <2>7. CASE ~Taken(entries, len, k)
    <3>1. p > len \/ Len(txs) > MaxTransactions \/ after = -1
      <4> HIDE DEF p, end
      <4> QED
        BY <1>3, <1>5, <2>3, <2>4, <2>5, <2>7
    <3>2. new = [state EXCEPT !.stop = TRUE]
      BY <1>6, <2>2, <3>1
    <3>3. k - 1 # k /\ k - 1 \in 0 .. k /\ (k - 1) + 1 = k
      BY <1>1
    <3>4. new = [pos |-> end(k - 1), entries |-> SubSeq(entries, 1, k - 1), stop |-> k - 1 # k]
      BY <2>1, <3>2, <3>3
    <3> QED
      BY <2>1, <2>7, <3>3, <3>4 DEF DeshredAt, new
  <2> QED
    BY <2>6, <2>7
<1> QED
  BY <1>7, <1>8

(* It leaves a state of the loop.                                          *)
LEMMA NextEntryType ==
  ASSUME NEW state \in DeshredStates, NEW txs \in Seq(Transactions), NEW len \in Int
  PROVE  NextEntry(state, txs, len) \in DeshredStates
<1> DEFINE p == state.pos + EntryHeader
           after == AfterTransactions(len, p, txs)
<1>1. /\ state.pos \in Nat /\ state.entries \in Entries /\ state.stop \in BOOLEAN
      /\ state = [pos |-> state.pos, entries |-> state.entries, stop |-> state.stop]
  BY DEF DeshredStates
<1>2. p \in Nat
  BY <1>1 DEF EntryHeader
<1>3. p <= len => after \in Nat \/ after = -1
  <2>1. \A b \in Nat : p + b \in Nat
    BY <1>2
  <2> HIDE DEF p
  <2> QED
    BY <1>2, <2>1, TransactionsEnd
<1>4. NextEntry(state, txs, len) =
        IF state.stop \/ p > len \/ Len(txs) > MaxTransactions \/ after = -1
        THEN [state EXCEPT !.stop = TRUE]
        ELSE [state EXCEPT !.pos = after, !.entries = Append(@, txs)]
  BY DEF NextEntry
<1> HIDE DEF after
<1>5. Append(state.entries, txs) \in Entries
  BY <1>1 DEF Entries
<1>6. [state EXCEPT !.stop = TRUE] \in DeshredStates
  BY DEF DeshredStates
<1>7. after \in Nat => [state EXCEPT !.pos = after, !.entries = Append(@, txs)] \in DeshredStates
  BY <1>5 DEF DeshredStates
<1>8. ~(p > len) => p <= len
  BY <1>2
<1> HIDE DEF p
<1> QED
  BY <1>3, <1>4, <1>6, <1>7, <1>8

(* The states of the loop, and the one it ends in.                         *)
DeshredLoop(l, there, len) ==
  l = [k \in 0 .. Len(there) |-> IF k = 0 THEN [pos |-> 8, entries |-> <<>>, stop |-> FALSE]
                                 ELSE NextEntry(l[k - 1], there[k], len)]

DeshredEnd(there, len) ==
  LET l == CHOOSE x : DeshredLoop(x, there, len) IN l[Len(there)]

(* deshred_into_txs in these terms.                                        *)
LEMMA DeshredForm ==
  ASSUME NEW s
  PROVE  LET there == SubSeq(s.entries, 1, Min({s.announced, Len(s.entries)}))
             state == DeshredEnd(there, s.len)
         IN  DeshredIntoTxs(s) =
               IF s.len < 8 \/ s.announced > MaxEntries \/ state.entries = <<>> THEN NULL
               ELSE [entries |-> state.entries, transactions |-> FlattenSeq(state.entries)]
BY DEF DeshredIntoTxs, DeshredEnd, DeshredLoop

(* There are such states.                                                  *)
LEMMA DeshredLoopExists ==
  ASSUME NEW there \in Entries, NEW len \in Int
  PROVE  \E l : DeshredLoop(l, there, len)
<1> DEFINE n == Len(there)
           start == [pos |-> 8, entries |-> <<>>, stop |-> FALSE]
           step == [k \in 1 .. n |-> [x \in DeshredStates |-> NextEntry(x, there[k], len)]]
<1>1. n \in Nat /\ \A k \in 1 .. n : there[k] \in Seq(Transactions)
  BY DEF Entries
<1>2. start \in DeshredStates
  BY DEF DeshredStates, Entries
<1> HIDE DEF n
<1>3. \A k \in 1 .. n : [x \in DeshredStates |-> NextEntry(x, there[k], len)]
                          \in [DeshredStates -> DeshredStates]
  BY <1>1, NextEntryType
<1>4. step \in [1 .. n -> [DeshredStates -> DeshredStates]]
  BY <1>3
<1>5. \A k \in 1 .. n, x \in DeshredStates : step[k][x] = NextEntry(x, there[k], len)
  OBVIOUS
<1> HIDE DEF step, start
<1>6. PICK l \in [0 .. n -> DeshredStates] : Loops(l, start, step, n)
  BY <1>1, <1>2, <1>4, LoopExists
<1>7. l = [k \in 0 .. n |-> IF k = 0 THEN start ELSE step[k][l[k - 1]]]
  BY <1>6 DEF Loops
<1>8. \A k \in 0 .. n : k # 0 => k \in 1 .. n /\ l[k - 1] \in DeshredStates
  BY <1>1
<1>9. l = [k \in 0 .. n |-> IF k = 0 THEN start ELSE NextEntry(l[k - 1], there[k], len)]
  BY <1>5, <1>7, <1>8
<1> QED
  BY <1>9 DEF DeshredLoop, n, start

(* The loop invariant holds at its end.                                    *)
LEMMA DeshredEnds ==
  ASSUME NEW entries \in Entries, NEW len \in Int, NEW c \in 0 .. Len(entries),
         NEW l, DeshredLoop(l, SubSeq(entries, 1, c), len)
  PROVE  DeshredAt(entries, len, c, l[c])
<1> DEFINE there == SubSeq(entries, 1, c)
           S == {k \in 0 .. c : DeshredAt(entries, len, k, l[k])}
<1>1. /\ c \in Nat /\ Len(entries) \in Nat /\ Len(there) = c
      /\ \A k \in 1 .. c : there[k] = entries[k] /\ k \in 1 .. Len(entries)
  BY DEF Entries
<1>2. /\ l[0] = [pos |-> 8, entries |-> <<>>, stop |-> FALSE]
      /\ \A k \in 1 .. c : l[k] = NextEntry(l[k - 1], entries[k], len)
  <2> DEFINE start == [pos |-> 8, entries |-> <<>>, stop |-> FALSE]
  <2>1. l = [k \in 0 .. c |-> IF k = 0 THEN start ELSE NextEntry(l[k - 1], there[k], len)]
    BY <1>1 DEF DeshredLoop
  <2> HIDE DEF start, there
  <2>2. l[0] = start /\ \A k \in 1 .. c : l[k] = NextEntry(l[k - 1], there[k], len)
    BY <1>1, <2>1
  <2> QED
    BY <1>1, <2>2 DEF start
<1>3. 0 \in S
  <2>1. SubSeq(entries, 1, 0) = <<>>
    BY DEF Entries
  <2>2. StreamEnd(entries, 0) = 8
    BY StreamEnds
  <2>3. l[0] = [pos |-> StreamEnd(entries, 0), entries |-> SubSeq(entries, 1, 0), stop |-> 0 # 0]
    BY <1>2, <2>1, <2>2
  <2>4. 0 \in 0 .. 0 /\ 0 \in 0 .. c /\ \A e \in 1 .. 0 : FALSE
    BY <1>1
  <2>5. DeshredAt(entries, len, 0, l[0])
    BY <2>3, <2>4 DEF DeshredAt
  <2> QED
    BY <2>4, <2>5
<1>4. ASSUME NEW k \in 1 .. c, k - 1 \in S PROVE k \in S
  <2>1. DeshredAt(entries, len, k - 1, l[k - 1])
    BY <1>4
  <2>2. k \in 1 .. Len(entries) /\ k \in 0 .. c
    BY <1>1
  <2>3. DeshredAt(entries, len, k, NextEntry(l[k - 1], entries[k], len))
    BY <2>1, <2>2, NextEntryKeeps
  <2> QED
    BY <1>2, <2>2, <2>3
<1> HIDE DEF S
<1>5. \A k \in 0 .. c : k \in S
  BY <1>1, <1>3, <1>4, UpTo
<1>6. c \in 0 .. c
  BY <1>1
<1> QED
  BY <1>5, <1>6 DEF S

(* deshred_into_txs of a stream: the first m entries, m being as many as   *)
(* can be taken of those announced.                                        *)
LEMMA Deshredded ==
  ASSUME NEW entries \in Entries, NEW announced \in Nat, NEW len \in Int
  PROVE  LET c == Min({announced, Len(entries)})
             r == DeshredIntoTxs([entries |-> entries, announced |-> announced, len |-> len])
         IN  \E m \in 0 .. c :
               /\ \A e \in 1 .. m : Taken(entries, len, e)
               /\ m # c => ~Taken(entries, len, m + 1)
               /\ r = IF m = 0 \/ announced > MaxEntries THEN NULL
                      ELSE [entries |-> SubSeq(entries, 1, m),
                            transactions |-> FlattenSeq(SubSeq(entries, 1, m))]
<1> DEFINE c == Min({announced, Len(entries)})
           stream == [entries |-> entries, announced |-> announced, len |-> len]
           there == SubSeq(entries, 1, c)
           l == CHOOSE x : DeshredLoop(x, there, len)
<1>1. Len(entries) \in Nat /\ c \in 0 .. Len(entries) /\ c \in Nat
  <2>1. Len(entries) \in Nat
    BY DEF Entries
  <2>2. c \in Nat /\ c <= Len(entries)
    BY <2>1, MinOfTwo
  <2> QED
    BY <2>1, <2>2
<1> HIDE DEF c
<1>2. there \in Entries /\ Len(there) = c
  BY <1>1 DEF Entries
<1>3. DeshredLoop(l, there, len)
  <2>1. \E x : DeshredLoop(x, there, len)
    BY <1>2, DeshredLoopExists
  <2> QED
    BY <2>1
<1>4. DeshredIntoTxs(stream) =
        IF len < 8 \/ announced > MaxEntries \/ l[c].entries = <<>> THEN NULL
        ELSE [entries |-> l[c].entries, transactions |-> FlattenSeq(l[c].entries)]
  <2>1. /\ stream.entries = entries /\ stream.announced = announced /\ stream.len = len
        /\ c = Min({announced, Len(entries)})
    BY DEF c
  <2>2. DeshredEnd(there, len) = l[c]
    BY <1>2 DEF DeshredEnd
  <2> HIDE DEF stream, l
  <2> DEFINE t == SubSeq(stream.entries, 1, Min({stream.announced, Len(stream.entries)}))
             e == DeshredEnd(t, stream.len)
  <2>3. DeshredIntoTxs(stream) =
          IF stream.len < 8 \/ stream.announced > MaxEntries \/ e.entries = <<>> THEN NULL
          ELSE [entries |-> e.entries, transactions |-> FlattenSeq(e.entries)]
    BY DeshredForm
  <2>4. e = l[c]
    BY <2>1, <2>2
  <2> HIDE DEF e
  <2> QED
    BY <2>1, <2>3, <2>4
<1> HIDE DEF l
<1>5. PICK m \in 0 .. c :
        /\ l[c] = [pos |-> StreamEnd(entries, m), entries |-> SubSeq(entries, 1, m), stop |-> m # c]
        /\ \A e \in 1 .. m : Taken(entries, len, e)
        /\ m # c => ~Taken(entries, len, m + 1)
  <2>1. DeshredAt(entries, len, c, l[c])
    BY <1>1, <1>3, DeshredEnds
  <2> QED
    BY <2>1 DEF DeshredAt
<1>6. l[c].entries = SubSeq(entries, 1, m)
  BY <1>5
<1>7. SubSeq(entries, 1, m) = <<>> <=> m = 0
  <2>1. m \in Nat /\ m <= Len(entries)
    BY <1>1, <1>5
  <2>2. Len(SubSeq(entries, 1, m)) = m
    BY <2>1 DEF Entries
  <2>3. m = 0 => SubSeq(entries, 1, m) = <<>>
    BY DEF Entries
  <2> QED
    BY <2>2, <2>3
<1>8. m # 0 => ~(len < 8)
  <2> SUFFICES ASSUME m # 0 PROVE ~(len < 8)
    OBVIOUS
  <2>1. 1 \in 1 .. m /\ 1 \in 0 .. Len(entries) /\ 0 \in 0 .. 1
    BY <1>1, <1>5
  <2>2. StreamEnd(entries, 1) <= len
    BY <1>5, <2>1 DEF Taken
  <2>3. StreamEnd(entries, 0) = 8 /\ StreamEnd(entries, 0) <= StreamEnd(entries, 1)
        /\ StreamEnd(entries, 1) \in Nat
    BY <2>1, StreamEnds
  <2> QED
    BY <2>2, <2>3
<1>9. DeshredIntoTxs(stream) =
        IF m = 0 \/ announced > MaxEntries THEN NULL
        ELSE [entries |-> SubSeq(entries, 1, m), transactions |-> FlattenSeq(SubSeq(entries, 1, m))]
  <2> HIDE DEF stream
  <2> QED
    BY <1>4, <1>6, <1>7, <1>8
<1> QED
  BY <1>5, <1>9 DEF c

(* The result is the entries of which the data hold every byte.            *)
WholeResult(given, result) ==
  LET whole == {n \in 1 .. Min({Len(given.entries), given.announced}) :
                  /\ StreamEnd(given.entries, n) <= given.len
                  /\ \A e \in 1 .. n : Len(given.entries[e]) <= MaxTransactions}
  IN  IF whole = {} \/ given.announced > MaxEntries THEN result = NULL
      ELSE /\ result # NULL
           /\ result.entries = SubSeq(given.entries, 1, Max(whole))
           /\ result.transactions = FlattenSeq(result.entries)

(* It is, wherever the stream is cut.                                      *)
LEMMA WholeResults ==
  ASSUME NEW entries \in Entries, NEW announced \in Nat, NEW len \in Int, NEW given, NEW result,
         given = [entries |-> entries, announced |-> announced, len |-> len],
         result = DeshredIntoTxs(given)
  PROVE  WholeResult(given, result)
<1> DEFINE c == Min({announced, Len(entries)})
           whole == {n \in 1 .. c : /\ StreamEnd(entries, n) <= len
                                    /\ \A e \in 1 .. n : Len(entries[e]) <= MaxTransactions}
<1>1. Len(entries) \in Nat /\ c \in Nat /\ c <= Len(entries)
  <2>1. Len(entries) \in Nat
    BY DEF Entries
  <2> QED
    BY <2>1, MinOfTwo
<1>2. PICK m \in 0 .. c :
        /\ \A e \in 1 .. m : Taken(entries, len, e)
        /\ m # c => ~Taken(entries, len, m + 1)
        /\ result = IF m = 0 \/ announced > MaxEntries THEN NULL
                    ELSE [entries |-> SubSeq(entries, 1, m),
                          transactions |-> FlattenSeq(SubSeq(entries, 1, m))]
  BY Deshredded
<1>3. {Len(entries), announced} = {announced, Len(entries)}
  OBVIOUS
<1>4. WholeResult(given, result) <=>
        IF whole = {} \/ announced > MaxEntries THEN result = NULL
        ELSE /\ result # NULL
             /\ result.entries = SubSeq(entries, 1, Max(whole))
             /\ result.transactions = FlattenSeq(result.entries)
  <2>1. given.entries = entries /\ given.announced = announced /\ given.len = len
    OBVIOUS
  <2> QED
    BY <1>3, <2>1 DEF WholeResult
<1> HIDE DEF c
<1>5. m \in Nat /\ m <= c /\ m <= Len(entries)
  BY <1>1, <1>2
<1>6. whole = 1 .. m
  <2>1. ASSUME NEW n \in 1 .. m PROVE n \in whole
    <3>1. n \in 1 .. c /\ \A e \in 1 .. n : e \in 1 .. m
      BY <1>1, <1>5
    <3> QED
      BY <1>2, <3>1 DEF Taken
  <2>2. ASSUME NEW n \in whole PROVE n \in 1 .. m
    <3>1. n \in 1 .. c /\ n \in Nat /\ StreamEnd(entries, n) <= len
          /\ \A e \in 1 .. n : Len(entries[e]) <= MaxTransactions
      BY <1>1
    <3>2. SUFFICES ASSUME n > m PROVE FALSE
      BY <1>5, <3>1
    <3>3. m # c /\ m + 1 \in 1 .. n /\ m + 1 \in 0 .. n /\ n \in 0 .. Len(entries)
          /\ m + 1 \in 0 .. Len(entries)
      BY <1>1, <1>5, <3>1, <3>2
    <3>4. ~(StreamEnd(entries, m + 1) <= len)
      BY <1>2, <3>1, <3>3 DEF Taken
    <3>5. /\ StreamEnd(entries, m + 1) \in Nat /\ StreamEnd(entries, n) \in Nat
          /\ StreamEnd(entries, m + 1) <= StreamEnd(entries, n)
      BY <3>3, StreamEnds
    <3> QED
      BY <3>1, <3>4, <3>5
  <2> QED
    BY <2>1, <2>2
<1> HIDE DEF whole
<1>7. CASE m = 0
  <2>1. whole = {}
    BY <1>6, <1>7
  <2> QED
    BY <1>2, <1>4, <1>7, <2>1
<1>8. CASE announced > MaxEntries
  BY <1>2, <1>4, <1>8
<1>9. CASE m # 0 /\ ~(announced > MaxEntries)
  <2> DEFINE es == SubSeq(entries, 1, m)
             txs == FlattenSeq(es)
  <2>1. m \in whole /\ whole # {}
    <3>1. m \in 1 .. m
      BY <1>5, <1>9
    <3> QED
      BY <1>6, <3>1
  <2>2. Max(whole) = m
    <3>1. IsFiniteSet(whole) /\ whole \in SUBSET Nat
      BY <1>5, <1>6, FS_Interval
    <3>2. Max(whole) \in whole /\ m <= Max(whole)
      BY <2>1, <3>1, MaxOfFinite
    <3> QED
      BY <1>5, <1>6, <3>2
  <2>3. result = [entries |-> es, transactions |-> txs]
    BY <1>2, <1>9
  <2>4. es \in Seq(Seq(Transactions))
    BY <1>5 DEF Entries
  <2>5. txs \in Seq(Transactions)
    BY <2>4, FlattenType
  <2> HIDE DEF txs
  <2>6. result \in [entries : Seq(Seq(Transactions)), transactions : Seq(Transactions)]
    BY <2>3, <2>4, <2>5
  <2>7. result # NULL
    BY <2>6, CodecNullAssumption
  <2>8. result.entries = es /\ result.transactions = txs
    BY <2>3
  <2> QED
    BY <1>4, <1>9, <2>1, <2>2, <2>7, <2>8 DEF txs
<1> QED
  BY <1>7, <1>8, <1>9

(* deshred_into_txs returns the entries of which the data hold every byte, *)
(* up to the first one cut short or too long and no more than announced,   *)
(* with all their transactions in order, and None if there is no such      *)
(* entry; the lengths on its way are read as they were written.            *)
THEOREM WholeRead == Spec => []WholeEntries
<1>1. Answered /\ LengthsAgree => WholeEntries
  <2> SUFFICES ASSUME Answered, LengthsAgree, task = "deshred" PROVE WholeResult(input, output)
    BY DEF WholeEntries, WholeResult
  <2>1. PICK entries \in Streams, announced \in 0 .. MaxEntries + 1 : \E len \in Cuts(entries) :
          /\ input = [entries |-> entries, announced |-> announced, len |-> len]
          /\ output = DeshredIntoTxs(input)
    BY DEF Answered, Converted
  <2>2. PICK len \in Cuts(entries) :
          /\ input = [entries |-> entries, announced |-> announced, len |-> len]
          /\ output = DeshredIntoTxs(input)
    BY <2>1
  <2>3. announced \in Nat /\ len \in Int
    BY StreamAssumption DEF Cuts
  <2>4. entries \in Entries
    <3> DEFINE S == SeqOf(Transactions, MaxPerEntry)
    <3>1. \A seq \in S : seq \in Seq(Transactions)
      BY StreamAssumption, Enumerated
    <3>2. entries \in Seq(S)
      <4>1. MaxStream \in Nat /\ entries \in SeqOf(S, MaxStream)
        BY StreamAssumption DEF Streams
      <4> HIDE DEF S
      <4> QED
        BY <4>1, Enumerated
    <3> HIDE DEF S
    <3> QED
      BY <3>1, <3>2 DEF Entries
  <2> QED
    BY <2>2, <2>3, <2>4, WholeResults
<1> QED
  BY <1>1, AnsweredInvariant, LengthsRead, PTL

-----------------------------------------------------------------------------
(* Addition in the field, and doubling: bytes as bits.                     *)
(* The bit of a byte that counts for p.                                    *)
Bit(a, p) == (a \div p) % 2

(* A byte is the sum of its bits.                                          *)
LEMMA BitsOfByte ==
  ASSUME NEW a \in Byte
  PROVE  /\ a = Bit(a, 1) + (2 * Bit(a, 2)) + (4 * Bit(a, 4)) + (8 * Bit(a, 8))
                 + (16 * Bit(a, 16)) + (32 * Bit(a, 32)) + (64 * Bit(a, 64)) + (128 * Bit(a, 128))
         /\ \A p \in {1, 2, 4, 8, 16, 32, 64, 128} : Bit(a, p) \in {0, 1}
<1>1. /\ a \in 0 .. 255 /\ a \div 1 = a
      /\ a \div 2 = a \div 2
  BY DEF Byte
<1>2. a = Bit(a, 1) + (2 * (a \div 2))
  BY <1>1 DEF Bit
<1>3. a \div 2 = Bit(a, 2) + (2 * (a \div 4))
  BY <1>1 DEF Bit
<1>4. a \div 4 = Bit(a, 4) + (2 * (a \div 8))
  BY <1>1 DEF Bit
<1>5. a \div 8 = Bit(a, 8) + (2 * (a \div 16))
  BY <1>1 DEF Bit
<1>6. a \div 16 = Bit(a, 16) + (2 * (a \div 32))
  BY <1>1 DEF Bit
<1>7. a \div 32 = Bit(a, 32) + (2 * (a \div 64))
  BY <1>1 DEF Bit
<1>8. a \div 64 = Bit(a, 64) + (2 * (a \div 128))
  BY <1>1 DEF Bit
<1>9. a \div 128 = Bit(a, 128)
  BY <1>1 DEF Bit
<1>10. \A p \in {1, 2, 4, 8, 16, 32, 64, 128} : Bit(a, p) \in {0, 1}
  BY <1>1 DEF Bit
<1> DEFINE b0 == Bit(a, 1)
           b1 == Bit(a, 2)
           b2 == Bit(a, 4)
           b3 == Bit(a, 8)
           b4 == Bit(a, 16)
           b5 == Bit(a, 32)
           b6 == Bit(a, 64)
           b7 == Bit(a, 128)
           q1 == a \div 2
           q2 == a \div 4
           q3 == a \div 8
           q4 == a \div 16
           q5 == a \div 32
           q6 == a \div 64
           q7 == a \div 128
<1>11. /\ b0 \in Nat /\ b1 \in Nat /\ b2 \in Nat /\ b3 \in Nat
       /\ b4 \in Nat /\ b5 \in Nat /\ b6 \in Nat /\ b7 \in Nat
  BY <1>10
<1>12. /\ q1 \in Nat /\ q2 \in Nat /\ q3 \in Nat /\ q4 \in Nat
       /\ q5 \in Nat /\ q6 \in Nat /\ q7 \in Nat
  BY <1>1
<1>13. /\ a = b0 + (2 * q1) /\ q1 = b1 + (2 * q2) /\ q2 = b2 + (2 * q3) /\ q3 = b3 + (2 * q4)
       /\ q4 = b4 + (2 * q5) /\ q5 = b5 + (2 * q6) /\ q6 = b6 + (2 * q7) /\ q7 = b7
  BY <1>2, <1>3, <1>4, <1>5, <1>6, <1>7, <1>8, <1>9
<1> HIDE DEF b0, b1, b2, b3, b4, b5, b6, b7, q1, q2, q3, q4, q5, q6, q7
<1>14. a = b0 + (2 * b1) + (4 * b2) + (8 * b3) + (16 * b4) + (32 * b5) + (64 * b6) + (128 * b7)
  BY <1>1, <1>11, <1>12, <1>13
<1> QED
  BY <1>10, <1>14 DEF b0, b1, b2, b3, b4, b5, b6, b7

(* The bits of s, lowest first.                                            *)
HasBits(s, b0, b1, b2, b3, b4, b5, b6, b7) ==
  /\ s \in Byte
  /\ Bit(s, 1) = b0 /\ Bit(s, 2) = b1 /\ Bit(s, 4) = b2 /\ Bit(s, 8) = b3
  /\ Bit(s, 16) = b4 /\ Bit(s, 32) = b5 /\ Bit(s, 64) = b6 /\ Bit(s, 128) = b7

Binary == {0, 1}

(* The number that has the given bits.                                     *)
OfBits(b0, b1, b2, b3, b4, b5, b6, b7) ==
  b0 + (2 * b1) + (4 * b2) + (8 * b3) + (16 * b4) + (32 * b5) + (64 * b6) + (128 * b7)

(* The bits of a sum of bits are those bits.                               *)
LEMMA BitsOfSum ==
  ASSUME NEW b0 \in Binary, NEW b1 \in Binary, NEW b2 \in Binary, NEW b3 \in Binary,
         NEW b4 \in Binary, NEW b5 \in Binary, NEW b6 \in Binary, NEW b7 \in Binary
  PROVE  HasBits(OfBits(b0, b1, b2, b3, b4, b5, b6, b7), b0, b1, b2, b3, b4, b5, b6, b7)
<1> DEFINE s == OfBits(b0, b1, b2, b3, b4, b5, b6, b7)
<1>0. s = b0 + (2 * b1) + (4 * b2) + (8 * b3) + (16 * b4) + (32 * b5) + (64 * b6) + (128 * b7)
  BY DEF OfBits
<1> HIDE DEF s
<1>1. s \in Byte
  BY <1>0 DEF Byte, Binary
<1>2. Bit(s, 1) = b0
  BY <1>0 DEF Bit, Binary
<1>3. Bit(s, 2) = b1
  BY <1>0 DEF Bit, Binary
<1>4. Bit(s, 4) = b2
  BY <1>0 DEF Bit, Binary
<1>5. Bit(s, 8) = b3
  BY <1>0 DEF Bit, Binary
<1>6. Bit(s, 16) = b4
  BY <1>0 DEF Bit, Binary
<1>7. Bit(s, 32) = b5
  BY <1>0 DEF Bit, Binary
<1>8. Bit(s, 64) = b6
  BY <1>0 DEF Bit, Binary
<1>9. Bit(s, 128) = b7
  BY <1>0 DEF Bit, Binary
<1> QED
  BY <1>1, <1>2, <1>3, <1>4, <1>5, <1>6, <1>7, <1>8, <1>9 DEF HasBits, s

(* What the bits of a byte count for.                                      *)
Powers == {1, 2, 4, 8, 16, 32, 64, 128}

(* Bytes of the same bits are the same.                                    *)
LEMMA SameBits ==
  ASSUME NEW a \in Byte, NEW b \in Byte, \A p \in Powers : Bit(a, p) = Bit(b, p)
  PROVE  a = b
<1>1. /\ Bit(a, 1) = Bit(b, 1) /\ Bit(a, 2) = Bit(b, 2) /\ Bit(a, 4) = Bit(b, 4)
      /\ Bit(a, 8) = Bit(b, 8) /\ Bit(a, 16) = Bit(b, 16) /\ Bit(a, 32) = Bit(b, 32)
      /\ Bit(a, 64) = Bit(b, 64) /\ Bit(a, 128) = Bit(b, 128)
  BY DEF Powers
<1>2. b = Bit(a, 1) + (2 * Bit(a, 2)) + (4 * Bit(a, 4)) + (8 * Bit(a, 8))
            + (16 * Bit(a, 16)) + (32 * Bit(a, 32)) + (64 * Bit(a, 64)) + (128 * Bit(a, 128))
  BY <1>1, BitsOfByte
<1> QED
  BY <1>2, BitsOfByte

(* A bit of a sum in the field is the sum of the bits modulo 2.            *)
LEMMA XorBits ==
  ASSUME NEW a \in Byte, NEW b \in Byte
  PROVE  /\ GfAdd(a, b) \in Byte
         /\ \A p \in Powers : Bit(GfAdd(a, b), p) = (Bit(a, p) + Bit(b, p)) % 2
<1>1. \A p \in Powers : (a \div p + b \div p) % 2 = (Bit(a, p) + Bit(b, p)) % 2
  <2> SUFFICES ASSUME NEW p \in Powers
               PROVE  (a \div p + b \div p) % 2 = (Bit(a, p) + Bit(b, p)) % 2
    OBVIOUS
  <2>1. a \div p \in Nat /\ b \div p \in Nat
    BY DEF Powers, Byte
  <2> DEFINE x == a \div p
             y == b \div p
  <2>2. Bit(a, p) = x % 2 /\ Bit(b, p) = y % 2 /\ x \in Nat /\ y \in Nat
    BY <2>1 DEF Bit
  <2> HIDE DEF x, y
  <2>3. (x + y) % 2 = ((x % 2) + (y % 2)) % 2
    BY <2>2
  <2> QED
    BY <2>2, <2>3 DEF x, y
<1> DEFINE f(p) == (Bit(a, p) + Bit(b, p)) % 2
<1>2. \A p \in Powers : f(p) \in {0, 1} /\ XorBit(a, b, p) = p * f(p)
  <2>1. \A p \in Powers : Bit(a, p) \in {0, 1} /\ Bit(b, p) \in {0, 1}
    BY BitsOfByte DEF Powers
  <2>2. \A p \in Powers : f(p) \in {0, 1}
    BY <2>1
  <2> QED
    BY <1>1, <2>2 DEF XorBit
<1>3. GfAdd(a, b) = XorBit(a, b, 1) + XorBit(a, b, 2) + XorBit(a, b, 4) + XorBit(a, b, 8)
                      + XorBit(a, b, 16) + XorBit(a, b, 32) + XorBit(a, b, 64) + XorBit(a, b, 128)
  BY DEF GfAdd, Xor
<1> HIDE DEF f
<1>4. GfAdd(a, b) = f(1) + (2 * f(2)) + (4 * f(4)) + (8 * f(8)) + (16 * f(16)) + (32 * f(32))
                      + (64 * f(64)) + (128 * f(128))
  BY <1>2, <1>3 DEF Powers
<1>5. /\ f(1) \in {0, 1} /\ f(2) \in {0, 1} /\ f(4) \in {0, 1} /\ f(8) \in {0, 1}
      /\ f(16) \in {0, 1} /\ f(32) \in {0, 1} /\ f(64) \in {0, 1} /\ f(128) \in {0, 1}
  BY <1>2 DEF Powers
<1> DEFINE s == GfAdd(a, b)
<1>6. s = f(1) + (2 * f(2)) + (4 * f(4)) + (8 * f(8)) + (16 * f(16)) + (32 * f(32))
                      + (64 * f(64)) + (128 * f(128))
  BY <1>4
<1> HIDE DEF s
<1>7. /\ s \in Byte
      /\ Bit(s, 1) = f(1) /\ Bit(s, 2) = f(2) /\ Bit(s, 4) = f(4) /\ Bit(s, 8) = f(8)
      /\ Bit(s, 16) = f(16) /\ Bit(s, 32) = f(32) /\ Bit(s, 64) = f(64) /\ Bit(s, 128) = f(128)
  <2> DEFINE b0 == f(1)
             b1 == f(2)
             b2 == f(4)
             b3 == f(8)
             b4 == f(16)
             b5 == f(32)
             b6 == f(64)
             b7 == f(128)
  <2>1. /\ b0 \in Binary /\ b1 \in Binary /\ b2 \in Binary /\ b3 \in Binary
        /\ b4 \in Binary /\ b5 \in Binary /\ b6 \in Binary /\ b7 \in Binary
    BY <1>5 DEF Binary
  <2>2. s = OfBits(b0, b1, b2, b3, b4, b5, b6, b7)
    BY <1>6 DEF OfBits
  <2> HIDE DEF b0, b1, b2, b3, b4, b5, b6, b7
  <2>3. HasBits(s, b0, b1, b2, b3, b4, b5, b6, b7)
    BY <2>1, <2>2, BitsOfSum, Zenon
  <2> QED
    BY <2>3 DEF HasBits, b0, b1, b2, b3, b4, b5, b6, b7
<1>8. \A p \in Powers : Bit(s, p) = f(p)
  BY <1>7 DEF Powers
<1> QED
  BY <1>7, <1>8 DEF s, f

(* The bytes with exclusive or are a group in which each byte is its own   *)
(* negative.                                                               *)
LEMMA AddLaws ==
  /\ \A a, b \in Byte : GfAdd(a, b) \in Byte /\ GfAdd(a, b) = GfAdd(b, a)
  /\ \A a, b, c \in Byte : GfAdd(GfAdd(a, b), c) = GfAdd(a, GfAdd(b, c))
  /\ \A a \in Byte : GfAdd(a, 0) = a /\ GfAdd(a, a) = 0
<1>1. 0 \in Byte /\ \A p \in Powers : Bit(0, p) = 0
  BY DEF Byte, Bit, Powers
<1>2. \A a \in Byte : \A p \in Powers : Bit(a, p) \in {0, 1}
  BY BitsOfByte DEF Powers
<1>3. ASSUME NEW a \in Byte, NEW b \in Byte
      PROVE  GfAdd(a, b) \in Byte /\ GfAdd(a, b) = GfAdd(b, a)
  <2>1. \A p \in Powers : Bit(GfAdd(a, b), p) = Bit(GfAdd(b, a), p)
    <3> TAKE p \in Powers
    <3>1. /\ Bit(GfAdd(a, b), p) = (Bit(a, p) + Bit(b, p)) % 2
          /\ Bit(GfAdd(b, a), p) = (Bit(b, p) + Bit(a, p)) % 2
          /\ Bit(a, p) \in {0, 1} /\ Bit(b, p) \in {0, 1}
      BY <1>2, XorBits
    <3> QED
      BY <3>1
  <2> QED
    BY <2>1, XorBits, SameBits
<1>4. ASSUME NEW a \in Byte, NEW b \in Byte, NEW c \in Byte
      PROVE  GfAdd(GfAdd(a, b), c) = GfAdd(a, GfAdd(b, c))
  <2>1. \A p \in Powers : Bit(GfAdd(GfAdd(a, b), c), p) = Bit(GfAdd(a, GfAdd(b, c)), p)
    <3> TAKE p \in Powers
    <3> DEFINE x == Bit(a, p)
               y == Bit(b, p)
               z == Bit(c, p)
    <3>1. /\ Bit(GfAdd(GfAdd(a, b), c), p) = (Bit(GfAdd(a, b), p) + z) % 2
          /\ Bit(GfAdd(a, b), p) = (x + y) % 2
      BY XorBits
    <3>2. /\ Bit(GfAdd(a, GfAdd(b, c)), p) = (x + Bit(GfAdd(b, c), p)) % 2
          /\ Bit(GfAdd(b, c), p) = (y + z) % 2
      BY XorBits
    <3>3. x \in {0, 1} /\ y \in {0, 1} /\ z \in {0, 1}
      BY <1>2
    <3> HIDE DEF x, y, z
    <3>4. (((x + y) % 2) + z) % 2 = (x + ((y + z) % 2)) % 2
      BY <3>3
    <3> QED
      BY <3>1, <3>2, <3>4
  <2>2. GfAdd(GfAdd(a, b), c) \in Byte /\ GfAdd(a, GfAdd(b, c)) \in Byte
    BY XorBits
  <2> QED
    BY <2>1, <2>2, SameBits
<1>5. ASSUME NEW a \in Byte
      PROVE  GfAdd(a, 0) = a /\ GfAdd(a, a) = 0
  <2>1. \A p \in Powers : Bit(GfAdd(a, 0), p) = Bit(a, p) /\ Bit(GfAdd(a, a), p) = Bit(0, p)
    <3> TAKE p \in Powers
    <3>1. /\ Bit(GfAdd(a, 0), p) = (Bit(a, p) + Bit(0, p)) % 2
          /\ Bit(GfAdd(a, a), p) = (Bit(a, p) + Bit(a, p)) % 2
          /\ Bit(a, p) \in {0, 1} /\ Bit(0, p) = 0
      BY <1>1, <1>2, XorBits
    <3> QED
      BY <3>1
  <2>2. GfAdd(a, 0) \in Byte /\ GfAdd(a, a) \in Byte
    BY <1>1, XorBits
  <2>3. GfAdd(a, 0) = a
    BY <2>1, <2>2, SameBits
  <2>4. GfAdd(a, a) = 0
    BY <1>1, <2>1, <2>2, SameBits
  <2> QED
    BY <2>3, <2>4
<1> QED
  BY <1>3, <1>4, <1>5

(* Two sums are added in any order.                                        *)
LEMMA Shuffle ==
  ASSUME NEW a \in Byte, NEW b \in Byte, NEW c \in Byte, NEW d \in Byte
  PROVE  GfAdd(GfAdd(a, b), GfAdd(c, d)) = GfAdd(GfAdd(a, c), GfAdd(b, d))
<1>1. GfAdd(GfAdd(a, b), GfAdd(c, d)) = GfAdd(a, GfAdd(b, GfAdd(c, d)))
  BY AddLaws
<1>2. GfAdd(b, GfAdd(c, d)) = GfAdd(c, GfAdd(b, d))
  <2>1. GfAdd(b, GfAdd(c, d)) = GfAdd(GfAdd(b, c), d)
    BY AddLaws
  <2>2. GfAdd(b, c) = GfAdd(c, b)
    BY AddLaws
  <2>3. GfAdd(GfAdd(c, b), d) = GfAdd(c, GfAdd(b, d))
    BY AddLaws
  <2> QED
    BY <2>1, <2>2, <2>3
<1>3. GfAdd(a, GfAdd(c, GfAdd(b, d))) = GfAdd(GfAdd(a, c), GfAdd(b, d))
  BY AddLaws
<1> QED
  BY <1>1, <1>2, <1>3

(* 2 * a in eight bits, and the bit that is lost.                          *)
Double(a) == IF a < 128 THEN 2 * a ELSE 2 * a - 256

(* Double moves every bit one place up and drops the highest.              *)
LEMMA DoubleBits ==
  ASSUME NEW a \in Byte
  PROVE  /\ Double(a) \in Byte /\ (a < 128 <=> Bit(a, 128) = 0)
         /\ Bit(Double(a), 1) = 0 /\ Bit(Double(a), 2) = Bit(a, 1)
         /\ Bit(Double(a), 4) = Bit(a, 2) /\ Bit(Double(a), 8) = Bit(a, 4)
         /\ Bit(Double(a), 16) = Bit(a, 8) /\ Bit(Double(a), 32) = Bit(a, 16)
         /\ Bit(Double(a), 64) = Bit(a, 32) /\ Bit(Double(a), 128) = Bit(a, 64)
<1> DEFINE b0 == Bit(a, 1)
           b1 == Bit(a, 2)
           b2 == Bit(a, 4)
           b3 == Bit(a, 8)
           b4 == Bit(a, 16)
           b5 == Bit(a, 32)
           b6 == Bit(a, 64)
           b7 == Bit(a, 128)
           d == Double(a)
<1>1. /\ b0 \in Binary /\ b1 \in Binary /\ b2 \in Binary /\ b3 \in Binary
      /\ b4 \in Binary /\ b5 \in Binary /\ b6 \in Binary /\ b7 \in Binary
  BY BitsOfByte DEF Binary
<1>2. a = b0 + (2 * b1) + (4 * b2) + (8 * b3) + (16 * b4) + (32 * b5) + (64 * b6) + (128 * b7)
  BY BitsOfByte
<1> HIDE DEF b0, b1, b2, b3, b4, b5, b6, b7
<1>3. a < 128 <=> b7 = 0
  BY <1>1, <1>2 DEF Binary
<1>4. d = OfBits(0, b0, b1, b2, b3, b4, b5, b6)
  <2>1. CASE b7 = 0
    <3>1. d = 2 * a
      BY <1>3, <2>1 DEF Double
    <3> HIDE DEF d
    <3> QED
      BY <1>1, <1>2, <2>1, <3>1 DEF OfBits, Binary
  <2>2. CASE b7 = 1
    <3>1. d = 2 * a - 256
      BY <1>3, <2>2 DEF Double
    <3> HIDE DEF d
    <3> QED
      BY <1>1, <1>2, <2>2, <3>1 DEF OfBits, Binary
  <2> QED
    BY <1>1, <2>1, <2>2 DEF Binary
<1> HIDE DEF d
<1>5. 0 \in Binary
  BY DEF Binary
<1>6. HasBits(d, 0, b0, b1, b2, b3, b4, b5, b6)
  BY <1>1, <1>4, <1>5, BitsOfSum, Zenon
<1> QED
  BY <1>3, <1>6 DEF HasBits, b0, b1, b2, b3, b4, b5, b6, b7, d

(* What Twice adds when the highest bit is dropped.                        *)
Carry(a) == IF a < 128 THEN 0 ELSE 29

(* Twice in two steps: double, then add the carry.                         *)
LEMMA TwiceForm ==
  ASSUME NEW a \in Byte
  PROVE  Twice(a) = GfAdd(Double(a), Carry(a)) /\ Carry(a) \in Byte /\ Twice(a) \in Byte
<1>1. Carry(a) \in Byte
  BY DEF Carry, Byte
<1>2. Twice(a) = GfAdd(Double(a), Carry(a))
  <2>1. CASE a < 128
    <3>1. Twice(a) = Double(a) /\ Carry(a) = 0
      BY <2>1 DEF Twice, Double, Carry
    <3> QED
      BY <3>1, DoubleBits, AddLaws
  <2>2. CASE ~(a < 128)
    BY <2>2 DEF Twice, Double, Carry
  <2> QED
    BY <2>1, <2>2
<1> QED
  BY <1>1, <1>2, DoubleBits, AddLaws

(* Doubling is linear.                                                     *)
LEMMA TwiceAdds ==
  ASSUME NEW a \in Byte, NEW b \in Byte
  PROVE  Twice(GfAdd(a, b)) = GfAdd(Twice(a), Twice(b))
<1> DEFINE c == GfAdd(a, b)
<1>1. c \in Byte /\ \A p \in Powers : Bit(c, p) = (Bit(a, p) + Bit(b, p)) % 2
  BY XorBits
<1>2. Double(c) = GfAdd(Double(a), Double(b))
  <2> DEFINE e == GfAdd(Double(a), Double(b))
  <2>1. /\ Double(a) \in Byte /\ Double(b) \in Byte /\ Double(c) \in Byte
    BY <1>1, DoubleBits
  <2>2. e \in Byte /\ \A p \in Powers : Bit(e, p) = (Bit(Double(a), p) + Bit(Double(b), p)) % 2
    BY <2>1, XorBits
  <2> HIDE DEF e, c
  <2>3. /\ Bit(Double(c), 1) = 0 /\ Bit(Double(a), 1) = 0 /\ Bit(Double(b), 1) = 0
    BY <1>1, DoubleBits
  <2>4. Bit(Double(c), 1) = Bit(e, 1)
    <3>1. Bit(e, 1) = (Bit(Double(a), 1) + Bit(Double(b), 1)) % 2
      BY <2>2 DEF Powers
    <3> QED
      BY <2>3, <3>1
  <2>5. \A p \in {1, 2, 4, 8, 16, 32, 64} : Bit(c, p) = (Bit(a, p) + Bit(b, p)) % 2
    BY <1>1 DEF Powers
  <2>6. \A p \in {2, 4, 8, 16, 32, 64, 128} :
          Bit(e, p) = (Bit(Double(a), p) + Bit(Double(b), p)) % 2
    BY <2>2 DEF Powers
  <2>7. Bit(Double(c), 2) = Bit(e, 2)
    BY <1>1, <2>5, <2>6, DoubleBits
  <2>8. Bit(Double(c), 4) = Bit(e, 4)
    BY <1>1, <2>5, <2>6, DoubleBits
  <2>9. Bit(Double(c), 8) = Bit(e, 8)
    BY <1>1, <2>5, <2>6, DoubleBits
  <2>10. Bit(Double(c), 16) = Bit(e, 16)
    BY <1>1, <2>5, <2>6, DoubleBits
  <2>11. Bit(Double(c), 32) = Bit(e, 32)
    BY <1>1, <2>5, <2>6, DoubleBits
  <2>12. Bit(Double(c), 64) = Bit(e, 64)
    BY <1>1, <2>5, <2>6, DoubleBits
  <2>13. Bit(Double(c), 128) = Bit(e, 128)
    BY <1>1, <2>5, <2>6, DoubleBits
  <2>14. \A p \in Powers : Bit(Double(c), p) = Bit(e, p)
    BY <2>4, <2>7, <2>8, <2>9, <2>10, <2>11, <2>12, <2>13 DEF Powers
  <2>15. Double(c) = e
    BY <2>1, <2>2, <2>14, SameBits
  <2> QED
    BY <2>15 DEF e
<1>3. Carry(c) = GfAdd(Carry(a), Carry(b))
  <2> DEFINE x == Bit(a, 128)
             y == Bit(b, 128)
  <2>1. /\ (a < 128 <=> x = 0) /\ (b < 128 <=> y = 0) /\ (c < 128 <=> Bit(c, 128) = 0)
        /\ x \in {0, 1} /\ y \in {0, 1}
    BY <1>1, DoubleBits, BitsOfByte
  <2>2. Bit(c, 128) = (x + y) % 2
    BY <1>1 DEF Powers
  <2> HIDE DEF x, y, c
  <2>3. c < 128 <=> x = y
    BY <2>1, <2>2
  <2>4. /\ GfAdd(0, 0) = 0 /\ GfAdd(29, 0) = 29 /\ GfAdd(0, 29) = 29 /\ GfAdd(29, 29) = 0
    <3>1. 0 \in Byte /\ 29 \in Byte
      BY DEF Byte
    <3> QED
      BY <3>1, AddLaws
  <2> QED
    BY <2>1, <2>3, <2>4 DEF Carry
<1> HIDE DEF c
<1>4. Twice(c) = GfAdd(GfAdd(Double(a), Double(b)), GfAdd(Carry(a), Carry(b)))
  BY <1>1, <1>2, <1>3, TwiceForm
<1>5. @ = GfAdd(GfAdd(Double(a), Carry(a)), GfAdd(Double(b), Carry(b)))
  BY Shuffle, TwiceForm, DoubleBits
<1> QED
  BY <1>4, <1>5, TwiceForm DEF c

-----------------------------------------------------------------------------
(* Multiplication.                                                         *)

(* The bytes with an inverse, and their logarithms.                        *)
Units == 1 .. 255
Exponents == 0 .. 254

(* Exponents are added modulo 255.                                         *)
Cycle(n) == n % 255

(* Addition modulo 255 is associative.                                     *)
LEMMA Cycles ==
  /\ \A n \in Nat : Cycle(n) \in Exponents
  /\ \A x, y, z \in Exponents : Cycle(Cycle(x + y) + z) = Cycle(x + Cycle(y + z))
  /\ \A x \in Exponents : Cycle(x) = x
<1>1. \A n \in Nat : Cycle(n) \in Exponents
  BY DEF Cycle, Exponents
<1>2. \A x \in Exponents : Cycle(x) = x
  BY DEF Cycle, Exponents
<1>3. ASSUME NEW x \in Exponents, NEW y \in Exponents, NEW z \in Exponents
      PROVE  Cycle(Cycle(x + y) + z) = Cycle(x + Cycle(y + z))
  <2>1. x \in 0 .. 254 /\ y \in 0 .. 254 /\ z \in 0 .. 254
    BY DEF Exponents
  <2>2. Cycle(x + y) = IF x + y < 255 THEN x + y ELSE x + y - 255
    BY <2>1 DEF Cycle
  <2>3. Cycle(y + z) = IF y + z < 255 THEN y + z ELSE y + z - 255
    BY <2>1 DEF Cycle
  <2> QED
    BY <2>1, <2>2, <2>3 DEF Cycle
<1> QED
  BY <1>1, <1>2, <1>3

(* LOG and ALOG are each other's inverse, and ALOG doubles at every step:  *)
(* what the assumption about the tables says, entry by entry.              *)
LEMMA Tables ==
  /\ Alog(0) = 1 /\ Log(1) = 0
  /\ \A e \in Exponents : /\ Alog(e) \in Units /\ Log(Alog(e)) = e
                          /\ Twice(Alog(e)) = Alog(Cycle(e + 1))
  /\ \A a \in Units : Log(a) \in Exponents /\ Alog(Log(a)) = a
<1>1. Alog(0) = 1
  BY TablesAssumption
<1>2. \A e \in Exponents : Alog(e) \in Units /\ Log(Alog(e)) = e
  BY TablesAssumption, Zenon DEF Units, Exponents
<1>3. \A a \in Units : Log(a) \in Exponents /\ Alog(Log(a)) = a
  BY TablesAssumption, Zenon DEF Units, Exponents
<1>4. ASSUME NEW e \in Exponents
      PROVE  Twice(Alog(e)) = Alog(Cycle(e + 1))
  <2>1. e \in 0 .. 254 /\ Twice(Alog(e)) = Alog(e + 1)
    BY TablesAssumption, Zenon DEF Exponents
  <2>2. CASE e = 254
    <3>1. e + 1 = 255 /\ Cycle(e + 1) = 0
      BY <2>2 DEF Cycle
    <3>2. Alog(255) = 1
      BY TablesAssumption, Zenon
    <3> QED
      BY <1>1, <2>1, <3>1, <3>2
  <2>3. CASE e # 254
    <3>1. Cycle(e + 1) = e + 1
      BY <2>1, <2>3 DEF Cycle
    <3> QED
      BY <2>1, <3>1
  <2> QED
    BY <2>2, <2>3
<1>5. Log(1) = 0
  BY <1>1, <1>2 DEF Exponents
<1> QED
  BY <1>1, <1>2, <1>3, <1>4, <1>5

(* gf_mul by cases: 0 if a factor is 0, otherwise by logarithms.           *)
LEMMA MulForm ==
  /\ \A a \in Byte : GfMul(a, 0) = 0 /\ GfMul(0, a) = 0
  /\ \A a, b \in Units : GfMul(a, b) = Alog(Cycle(Log(a) + Log(b)))
<1>1. \A a \in Byte : GfMul(a, 0) = 0 /\ GfMul(0, a) = 0
  BY DEF GfMul
<1>2. ASSUME NEW a \in Units, NEW b \in Units
      PROVE  GfMul(a, b) = Alog(Cycle(Log(a) + Log(b)))
  <2>1. a # 0 /\ b # 0
    BY DEF Units
  <2> QED
    BY <2>1 DEF GfMul, Alog, Cycle, Log
<1> QED
  BY <1>1, <1>2

(* The laws of multiplication: 1 is neutral, no divisors of 0.             *)
LEMMA MulLaws ==
  /\ \A a, b \in Byte : /\ GfMul(a, b) \in Byte /\ GfMul(a, b) = GfMul(b, a)
                        /\ GfMul(a, b) = 0 <=> a = 0 \/ b = 0
  /\ \A a, b, c \in Byte : GfMul(GfMul(a, b), c) = GfMul(a, GfMul(b, c))
  /\ \A a \in Byte : GfMul(1, a) = a /\ GfMul(0, a) = 0
<1>0. /\ Byte = {0} \cup Units /\ 0 \notin Units /\ 1 \in Units
      /\ 0 \in Exponents /\ Exponents \subseteq Nat
      /\ \A x, y \in Exponents : x + y \in Nat /\ x + y = y + x /\ 0 + x = x
  BY DEF Byte, Units, Exponents
<1>1. ASSUME NEW a \in Units, NEW b \in Units
      PROVE  GfMul(a, b) \in Units /\ Log(GfMul(a, b)) = Cycle(Log(a) + Log(b))
  <2>1. Log(a) \in Exponents /\ Log(b) \in Exponents
    BY Tables
  <2>2. Cycle(Log(a) + Log(b)) \in Exponents
    BY <1>0, <2>1, Cycles
  <2> QED
    BY <2>2, MulForm, Tables
<1>2. ASSUME NEW a \in Byte, NEW b \in Byte
      PROVE  /\ GfMul(a, b) \in Byte /\ GfMul(a, b) = GfMul(b, a)
             /\ GfMul(a, b) = 0 <=> a = 0 \/ b = 0
  <2>1. CASE a = 0 \/ b = 0
    BY <1>0, <2>1, MulForm
  <2>2. CASE a \in Units /\ b \in Units
    <3>1. Log(a) + Log(b) = Log(b) + Log(a)
      BY <1>0, <2>2, Tables
    <3> QED
      BY <1>0, <1>1, <2>2, <3>1, MulForm
  <2> QED
    BY <1>0, <2>1, <2>2
<1>3. ASSUME NEW a \in Byte, NEW b \in Byte, NEW c \in Byte
      PROVE  GfMul(GfMul(a, b), c) = GfMul(a, GfMul(b, c))
  <2>1. CASE a = 0 \/ b = 0 \/ c = 0
    <3>1. GfMul(a, b) \in Byte /\ GfMul(b, c) \in Byte
      BY <1>2
    <3>2. \A x \in Byte : GfMul(x, 0) = 0 /\ GfMul(0, x) = 0
      BY MulForm
    <3> QED
      BY <2>1, <3>1, <3>2
  <2>2. CASE a \in Units /\ b \in Units /\ c \in Units
    <3> DEFINE x == Log(a)
               y == Log(b)
               z == Log(c)
    <3>1. x \in Exponents /\ y \in Exponents /\ z \in Exponents
      BY <2>2, Tables
    <3>2. GfMul(GfMul(a, b), c) = Alog(Cycle(Cycle(x + y) + z))
      BY <1>1, <2>2, MulForm
    <3>3. GfMul(a, GfMul(b, c)) = Alog(Cycle(x + Cycle(y + z)))
      BY <1>1, <2>2, MulForm
    <3> HIDE DEF x, y, z
    <3> QED
      BY <3>1, <3>2, <3>3, Cycles
  <2> QED
    BY <1>0, <2>1, <2>2
<1>4. ASSUME NEW a \in Byte
      PROVE  GfMul(1, a) = a /\ GfMul(0, a) = 0
  <2>1. CASE a = 0
    BY <1>0, <2>1, MulForm
  <2>2. CASE a \in Units
    <3>1. Log(a) \in Exponents /\ Alog(Log(a)) = a /\ Log(1) = 0
      BY <2>2, Tables
    <3>2. GfMul(1, a) = Alog(Cycle(0 + Log(a)))
      BY <1>0, <2>2, <3>1, MulForm
    <3>3. 0 + Log(a) = Log(a)
      BY <1>0, <3>1
    <3>4. GfMul(1, a) = a
      BY <3>1, <3>2, <3>3, Cycles
    <3> QED
      BY <3>4, MulForm
  <2> QED
    BY <1>0, <2>1, <2>2
<1> QED
  BY <1>2, <1>3, <1>4

(* Doubling a factor doubles the product.                                  *)
LEMMA MulTwice ==
  ASSUME NEW a \in Units, NEW b \in Byte
  PROVE  Twice(a) \in Units /\ GfMul(Twice(a), b) = Twice(GfMul(a, b))
<1>0. /\ Byte = {0} \cup Units /\ 0 \notin Units /\ 1 \in Exponents /\ Exponents \subseteq Nat
      /\ \A x, y \in Exponents : x + y \in Nat /\ x + y = y + x
  BY DEF Byte, Units, Exponents
<1> DEFINE x == Log(a)
<1>1. x \in Exponents /\ Alog(x) = a /\ Cycle(x + 1) \in Exponents
  BY <1>0, Tables, Cycles
<1>2. Twice(a) = Alog(Cycle(x + 1)) /\ Twice(a) \in Units /\ Log(Twice(a)) = Cycle(x + 1)
  BY <1>1, Tables
<1>3. CASE b = 0
  <2>1. Twice(0) = 0
    BY DEF Twice
  <2> QED
    BY <1>0, <1>2, <1>3, <2>1, MulForm
<1>4. CASE b \in Units
  <2> DEFINE y == Log(b)
  <2>1. y \in Exponents /\ Cycle(x + y) \in Exponents
    BY <1>0, <1>1, <1>4, Tables, Cycles
  <2>2. GfMul(Twice(a), b) = Alog(Cycle(Cycle(x + 1) + y))
    BY <1>2, <1>4, MulForm
  <2>3. GfMul(a, b) = Alog(Cycle(x + y))
    BY <1>4, MulForm
  <2> HIDE DEF x, y
  <2>4. Twice(GfMul(a, b)) = Alog(Cycle(Cycle(x + y) + 1))
    BY <2>1, <2>3, Tables
  <2>5. Cycle(Cycle(x + y) + 1) = Cycle(Cycle(x + 1) + y)
    <3>1. Cycle(Cycle(x + y) + 1) = Cycle(x + Cycle(y + 1))
      BY <1>0, <1>1, <2>1, Cycles
    <3>2. y + 1 = 1 + y
      BY <1>0, <2>1
    <3>3. Cycle(x + Cycle(1 + y)) = Cycle(Cycle(x + 1) + y)
      BY <1>0, <1>1, <2>1, Cycles
    <3> QED
      BY <3>1, <3>2, <3>3
  <2> QED
    BY <1>2, <2>2, <2>4, <2>5
<1> QED
  BY <1>0, <1>3, <1>4

(* Multiplication distributes over addition.                               *)
LEMMA MulAdds ==
  ASSUME NEW a \in Byte, NEW b \in Byte, NEW c \in Byte
  PROVE  GfMul(a, GfAdd(b, c)) = GfAdd(GfMul(a, b), GfMul(a, c))
<1>0. Byte = {0} \cup Units /\ 0 \in Byte
  BY DEF Byte, Units
<1> DEFINE S == {e \in 0 .. 254 : GfMul(Alog(e), GfAdd(b, c))
                                    = GfAdd(GfMul(Alog(e), b), GfMul(Alog(e), c))}
<1>1. 0 \in S
  BY AddLaws, MulLaws, Tables
<1>2. ASSUME NEW e \in 1 .. 254, e - 1 \in S PROVE e \in S
  <2>1. /\ e - 1 \in Exponents /\ e \in 0 .. 254 /\ (e - 1) + 1 = e /\ e \in Exponents
    BY DEF Exponents
  <2> DEFINE p == Alog(e - 1)
  <2>2. p \in Units /\ Alog(e) = Twice(p)
    <3>1. Cycle((e - 1) + 1) = e
      BY <2>1, Cycles
    <3> QED
      BY <2>1, <3>1, Tables, Zenon
  <2>3. GfMul(p, GfAdd(b, c)) = GfAdd(GfMul(p, b), GfMul(p, c))
    BY <1>2
  <2> HIDE DEF p
  <2>4. /\ GfMul(Alog(e), GfAdd(b, c)) = Twice(GfMul(p, GfAdd(b, c)))
        /\ GfMul(Alog(e), b) = Twice(GfMul(p, b)) /\ GfMul(Alog(e), c) = Twice(GfMul(p, c))
    BY <2>2, MulTwice, AddLaws
  <2>5. GfMul(p, b) \in Byte /\ GfMul(p, c) \in Byte
    BY <1>0, <2>2, MulLaws
  <2>6. Twice(GfAdd(GfMul(p, b), GfMul(p, c))) = GfAdd(Twice(GfMul(p, b)), Twice(GfMul(p, c)))
    BY <2>5, TwiceAdds
  <2> QED
    BY <2>1, <2>3, <2>4, <2>6
<1> HIDE DEF S
<1>3. \A e \in 0 .. 254 : e \in S
  <2>1. 254 \in Nat
    OBVIOUS
  <2> QED
    BY <1>1, <1>2, <2>1, UpTo
<1>4. CASE a = 0
  <2>1. GfAdd(b, c) \in Byte /\ GfAdd(0, 0) = 0
    BY <1>0, AddLaws
  <2> QED
    BY <1>4, <2>1, MulLaws
<1>5. CASE a \in Units
  <2>1. Log(a) \in 0 .. 254 /\ Alog(Log(a)) = a
    BY <1>5, Tables DEF Exponents
  <2>2. Log(a) \in S
    BY <1>3, <2>1
  <2> QED
    BY <2>1, <2>2 DEF S
<1> QED
  BY <1>0, <1>4, <1>5

(* gf_inv inverts.                                                         *)
LEMMA InvLaws ==
  ASSUME NEW a \in Units
  PROVE  GfInv(a) \in Units /\ GfMul(a, GfInv(a)) = 1
<1>1. a # 0 /\ Log(a) \in Exponents
  BY Tables DEF Units
<1>2. GfInv(a) = Alog(255 - Log(a))
  BY <1>1 DEF GfInv
<1>3. CASE Log(a) = 0
  <2>0. 255 - Log(a) = 255
    BY <1>3
  <2>3. Alog(255) = 1
    BY TablesAssumption, Zenon
  <2>1. GfInv(a) = 1
    BY <1>2, <2>0, <2>3
  <2>2. a = 1
    BY <1>3, Tables
  <2>4. 1 \in Byte /\ 1 \in Units
    BY DEF Units, Byte
  <2> QED
    BY <2>1, <2>2, <2>4, MulLaws
<1>4. CASE Log(a) # 0
  <2> DEFINE x == Log(a)
  <2>1. x \in 1 .. 254
    BY <1>1, <1>4 DEF Exponents
  <2>2. GfInv(a) = Alog(255 - x)
    BY <1>2 DEF Alog
  <2> HIDE DEF x
  <2>3. 255 - x \in Exponents /\ Cycle(x + (255 - x)) = 0
    BY <2>1 DEF Exponents, Cycle
  <2>4. GfInv(a) \in Units /\ Log(GfInv(a)) = 255 - x
    BY <2>2, <2>3, Tables
  <2>5. GfMul(a, GfInv(a)) = Alog(Cycle(x + (255 - x)))
    BY <2>4, MulForm DEF x
  <2> QED
    BY <2>3, <2>4, <2>5, Tables
<1> QED
  BY <1>3, <1>4

-----------------------------------------------------------------------------
(* Sums in the field.                                                      *)

(* Entries 0 .. n - 1 of f are bytes.                                      *)
Bytes(f, n) == \A k \in 0 .. n - 1 : f[k] \in Byte

(* The sums l[k] of the first k entries of f.                              *)
GfTotals(l, f, n) == l = [k \in 0 .. n |-> IF k = 0 THEN 0 ELSE GfAdd(l[k - 1], f[k - 1])]

(* A list of bytes has such sums, all of them bytes.                       *)
LEMMA GfTotalsExist ==
  ASSUME NEW f, NEW n \in Nat, Bytes(f, n)
  PROVE  \E l \in [0 .. n -> Byte] : GfTotals(l, f, n)
<1> DEFINE step == [k \in 1 .. n |-> [x \in Byte |-> GfAdd(x, f[k - 1])]]
<1>1. step \in [1 .. n -> [Byte -> Byte]]
  <2>1. \A k \in 1 .. n : f[k - 1] \in Byte
    BY DEF Bytes
  <2> QED
    BY <2>1, AddLaws
<1>2. \A k \in 1 .. n, x \in Byte : step[k][x] = GfAdd(x, f[k - 1])
  OBVIOUS
<1>3. 0 \in Byte
  BY DEF Byte
<1> HIDE DEF step
<1>4. PICK l \in [0 .. n -> Byte] : Loops(l, 0, step, n)
  BY <1>1, <1>3, LoopExists
<1>5. \A k \in 1 .. n : l[k - 1] \in Byte
  OBVIOUS
<1>6. \A k \in 1 .. n : step[k][l[k - 1]] = GfAdd(l[k - 1], f[k - 1])
  BY <1>2, <1>5
<1>7. l = [k \in 0 .. n |-> IF k = 0 THEN 0 ELSE GfAdd(l[k - 1], f[k - 1])]
  BY <1>4, <1>6 DEF Loops
<1> QED
  BY <1>7 DEF GfTotals

(* A sum takes one term after the other.                                   *)
LEMMA GfSumFacts ==
  ASSUME NEW f, NEW n \in Nat, Bytes(f, n)
  PROVE  /\ GfSum(f, 0) = 0
         /\ \A m \in 0 .. n : GfSum(f, m) \in Byte
         /\ \A m \in 1 .. n : GfSum(f, m) = GfAdd(GfSum(f, m - 1), f[m - 1])
<1>1. PICK l \in [0 .. n -> Byte] : GfTotals(l, f, n)
  BY GfTotalsExist
<1>2. l[0] = 0 /\ \A k \in 1 .. n : l[k] = GfAdd(l[k - 1], f[k - 1])
  BY <1>1 DEF GfTotals
<1>3. ASSUME NEW m \in 0 .. n
      PROVE  GfSum(f, m) = l[m]
  <2> DEFINE c == CHOOSE t : GfTotals(t, f, m)
             S == {k \in 0 .. m : c[k] = l[k]}
  <2>0. m \in Nat /\ Bytes(f, m)
    BY DEF Bytes
  <2>1. \E t : GfTotals(t, f, m)
    BY <2>0, GfTotalsExist
  <2>2. GfTotals(c, f, m)
    BY <2>1
  <2>3. GfSum(f, m) = c[m]
    BY DEF GfSum, GfTotals
  <2> HIDE DEF c
  <2>4. c[0] = 0 /\ \A k \in 1 .. m : c[k] = GfAdd(c[k - 1], f[k - 1])
    BY <2>0, <2>2 DEF GfTotals
  <2>5. 0 \in S
    BY <1>2, <2>4
  <2>6. ASSUME NEW k \in 1 .. m, k - 1 \in S PROVE k \in S
    BY <1>2, <2>4, <2>6
  <2> HIDE DEF S
  <2>7. \A k \in 0 .. m : k \in S
    BY <2>0, <2>5, <2>6, UpTo
  <2>8. m \in S
    BY <2>0, <2>7
  <2> QED
    BY <2>3, <2>8 DEF S
<1> QED
  BY <1>2, <1>3

(* Lists with the same entries have the same sum.                          *)
LEMMA SumsEqual ==
  ASSUME NEW n \in Nat, NEW f, NEW g, Bytes(f, n), \A k \in 0 .. n - 1 : f[k] = g[k]
  PROVE  GfSum(f, n) = GfSum(g, n)
<1> DEFINE S == {k \in 0 .. n : GfSum(f, k) = GfSum(g, k)}
<1>0. Bytes(g, n)
  BY DEF Bytes
<1>1. 0 \in S
  BY <1>0, GfSumFacts
<1>2. ASSUME NEW k \in 1 .. n, k - 1 \in S PROVE k \in S
  <2>1. GfSum(f, k) = GfAdd(GfSum(f, k - 1), f[k - 1]) /\ GfSum(g, k) = GfAdd(GfSum(g, k - 1), g[k - 1])
    BY <1>0, GfSumFacts
  <2> QED
    BY <1>2, <2>1
<1> HIDE DEF S
<1>3. n \in S
  BY <1>1, <1>2, UpTo
<1> QED
  BY <1>3 DEF S

(* The sum of sums, term by term.                                          *)
LEMMA SumsAdd ==
  ASSUME NEW n \in Nat, NEW f, NEW g, NEW h, Bytes(f, n), Bytes(g, n),
         \A k \in 0 .. n - 1 : h[k] = GfAdd(f[k], g[k])
  PROVE  Bytes(h, n) /\ GfSum(h, n) = GfAdd(GfSum(f, n), GfSum(g, n))
<1> DEFINE S == {k \in 0 .. n : GfSum(h, k) = GfAdd(GfSum(f, k), GfSum(g, k))}
<1>0. Bytes(h, n)
  BY AddLaws DEF Bytes
<1>1. 0 \in S
  <2>1. 0 \in Byte
    BY DEF Byte
  <2> QED
    BY <1>0, <2>1, GfSumFacts, AddLaws
<1>2. ASSUME NEW k \in 1 .. n, k - 1 \in S PROVE k \in S
  <2> DEFINE x == GfSum(f, k - 1)
             y == GfSum(g, k - 1)
  <2>1. /\ GfSum(f, k) = GfAdd(x, f[k - 1]) /\ GfSum(g, k) = GfAdd(y, g[k - 1])
        /\ GfSum(h, k) = GfAdd(GfSum(h, k - 1), h[k - 1])
        /\ x \in Byte /\ y \in Byte
    BY <1>0, GfSumFacts
  <2>2. GfSum(h, k - 1) = GfAdd(x, y)
    BY <1>2
  <2>3. /\ h[k - 1] = GfAdd(f[k - 1], g[k - 1]) /\ f[k - 1] \in Byte /\ g[k - 1] \in Byte
    BY DEF Bytes
  <2> HIDE DEF x, y
  <2>4. GfAdd(GfAdd(x, y), GfAdd(f[k - 1], g[k - 1])) = GfAdd(GfAdd(x, f[k - 1]), GfAdd(y, g[k - 1]))
    BY <2>1, <2>3, Shuffle
  <2> QED
    BY <2>1, <2>2, <2>3, <2>4
<1> HIDE DEF S
<1>3. n \in S
  BY <1>1, <1>2, UpTo
<1> QED
  BY <1>0, <1>3 DEF S

(* A common factor may be taken out of a sum.                              *)
LEMMA SumScaled ==
  ASSUME NEW n \in Nat, NEW c \in Byte, NEW f, NEW h, Bytes(f, n),
         \A k \in 0 .. n - 1 : h[k] = GfMul(c, f[k])
  PROVE  Bytes(h, n) /\ GfSum(h, n) = GfMul(c, GfSum(f, n))
<1> DEFINE S == {k \in 0 .. n : GfSum(h, k) = GfMul(c, GfSum(f, k))}
<1>0. Bytes(h, n)
  <2>1. \A k \in 0 .. n - 1 : f[k] \in Byte
    BY DEF Bytes
  <2>0. \A x \in Byte : GfMul(c, x) \in Byte
    BY MulLaws
  <2>2. \A k \in 0 .. n - 1 : h[k] \in Byte
    BY <2>0, <2>1
  <2> QED
    BY <2>2 DEF Bytes
<1>1. 0 \in S
  <2>1. 0 \in Byte
    BY DEF Byte
  <2> QED
    BY <1>0, <2>1, GfSumFacts, MulLaws
<1>2. ASSUME NEW k \in 1 .. n, k - 1 \in S PROVE k \in S
  <2> DEFINE x == GfSum(f, k - 1)
  <2>1. /\ GfSum(f, k) = GfAdd(x, f[k - 1]) /\ x \in Byte
        /\ GfSum(h, k) = GfAdd(GfSum(h, k - 1), h[k - 1])
    BY <1>0, GfSumFacts
  <2>2. GfSum(h, k - 1) = GfMul(c, x)
    BY <1>2
  <2>3. h[k - 1] = GfMul(c, f[k - 1]) /\ f[k - 1] \in Byte
    BY DEF Bytes
  <2> HIDE DEF x
  <2>4. GfMul(c, GfAdd(x, f[k - 1])) = GfAdd(GfMul(c, x), GfMul(c, f[k - 1]))
    BY <2>1, <2>3, MulAdds
  <2> QED
    BY <2>1, <2>2, <2>3, <2>4
<1> HIDE DEF S
<1>3. n \in S
  BY <1>1, <1>2, UpTo
<1> QED
  BY <1>0, <1>3 DEF S

(* A sum with at most one term that is not 0.                              *)
LEMMA SumOfOne ==
  ASSUME NEW n \in Nat, NEW i \in 0 .. n - 1, NEW f, f[i] \in Byte,
         \A k \in 0 .. n - 1 : k # i => f[k] = 0
  PROVE  Bytes(f, n) /\ GfSum(f, n) = f[i]
<1> DEFINE S == {k \in 0 .. n : GfSum(f, k) = IF k <= i THEN 0 ELSE f[i]}
<1>0. 0 \in Byte
  BY DEF Byte
<1>1. Bytes(f, n)
  BY <1>0 DEF Bytes
<1>2. 0 \in S
  BY <1>1, GfSumFacts
<1>3. ASSUME NEW k \in 1 .. n, k - 1 \in S PROVE k \in S
  <2>1. GfSum(f, k) = GfAdd(GfSum(f, k - 1), f[k - 1]) /\ k - 1 \in 0 .. n - 1 /\ k \in 0 .. n
    BY <1>1, GfSumFacts
  <2>2. GfSum(f, k - 1) = IF k - 1 <= i THEN 0 ELSE f[i]
    BY <1>3
  <2>3. CASE k - 1 = i
    <3>1. k - 1 <= i /\ ~(k <= i) /\ GfAdd(0, f[i]) = f[i]
      BY <1>0, <2>3, AddLaws
    <3> QED
      BY <2>1, <2>2, <2>3, <3>1
  <2>4. CASE k - 1 # i
    <3>1. f[k - 1] = 0 /\ (k - 1 <= i <=> k <= i)
      BY <2>1, <2>4
    <3>2. GfAdd(0, 0) = 0 /\ GfAdd(f[i], 0) = f[i]
      BY <1>0, AddLaws
    <3> QED
      BY <2>1, <2>2, <3>1, <3>2
  <2> QED
    BY <2>3, <2>4
<1> HIDE DEF S
<1>4. n \in S
  BY <1>2, <1>3, UpTo
<1>5. ~(n <= i)
  OBVIOUS
<1> QED
  BY <1>1, <1>4, <1>5 DEF S

(* Zeros add up to zero.                                                   *)
LEMMA SumOfNone ==
  ASSUME NEW n \in Nat, NEW f, \A k \in 0 .. n - 1 : f[k] = 0
  PROVE  Bytes(f, n) /\ GfSum(f, n) = 0
<1>0. 0 \in Byte
  BY DEF Byte
<1>1. Bytes(f, n)
  BY <1>0 DEF Bytes
<1>2. CASE n = 0
  BY <1>1, <1>2, GfSumFacts
<1>3. CASE n # 0
  <2>1. 0 \in 0 .. n - 1 /\ f[0] = 0
    BY <1>3
  <2> QED
    BY <1>0, <2>1, SumOfOne
<1> QED
  BY <1>1, <1>2, <1>3

(* Rows and columns may be summed in either order.                         *)
LEMMA SumsSwap ==
  ASSUME NEW m \in Nat, NEW n \in Nat, NEW a,
         \A j \in 0 .. m - 1, k \in 0 .. n - 1 : a[j][k] \in Byte
  PROVE  GfSum([j \in 0 .. m - 1 |-> GfSum([k \in 0 .. n - 1 |-> a[j][k]], n)], m)
           = GfSum([k \in 0 .. n - 1 |-> GfSum([j \in 0 .. m - 1 |-> a[j][k]], m)], n)
<1> DEFINE row(j) == [k \in 0 .. n - 1 |-> a[j][k]]
           down(k) == [j \in 0 .. m - 1 |-> a[j][k]]
           rows == [j \in 0 .. m - 1 |-> GfSum(row(j), n)]
           upto(i) == [k \in 0 .. n - 1 |-> GfSum(down(k), i)]
           S == {i \in 0 .. m : GfSum(rows, i) = GfSum(upto(i), n)}
<1>1. \A j \in 0 .. m - 1 : Bytes(row(j), n)
  BY DEF Bytes
<1>2. \A k \in 0 .. n - 1 : Bytes(down(k), m)
  BY DEF Bytes
<1>3. \A j \in 0 .. m - 1 : rows[j] = GfSum(row(j), n) /\ rows[j] \in Byte
  <2> SUFFICES ASSUME NEW j \in 0 .. m - 1
               PROVE  rows[j] = GfSum(row(j), n) /\ rows[j] \in Byte
    OBVIOUS
  <2>1. rows[j] = GfSum(row(j), n)
    OBVIOUS
  <2>2. Bytes(row(j), n)
    BY <1>1
  <2> HIDE DEF row, rows
  <2>3. n \in 0 .. n
    OBVIOUS
  <2> QED
    BY <2>1, <2>2, <2>3, GfSumFacts
<1>4. Bytes(rows, m)
  BY <1>3 DEF Bytes
<1>5. \A k \in 0 .. n - 1 : /\ GfSum(down(k), 0) = 0
                            /\ \A i \in 0 .. m : GfSum(down(k), i) \in Byte
                            /\ \A i \in 1 .. m : GfSum(down(k), i)
                                                   = GfAdd(GfSum(down(k), i - 1), a[i - 1][k])
  <2> SUFFICES ASSUME NEW k \in 0 .. n - 1
               PROVE  /\ GfSum(down(k), 0) = 0
                      /\ \A i \in 0 .. m : GfSum(down(k), i) \in Byte
                      /\ \A i \in 1 .. m : GfSum(down(k), i)
                                             = GfAdd(GfSum(down(k), i - 1), a[i - 1][k])
    OBVIOUS
  <2>1. Bytes(down(k), m) /\ \A i \in 1 .. m : down(k)[i - 1] = a[i - 1][k]
    BY <1>2
  <2> HIDE DEF down
  <2> QED
    BY <2>1, GfSumFacts
<1>6. \A i \in 0 .. m, k \in 0 .. n - 1 : upto(i)[k] = GfSum(down(k), i)
  OBVIOUS
<1>7. 0 \in S
  <2>1. \A k \in 0 .. n - 1 : upto(0)[k] = 0
    BY <1>5, <1>6
  <2> HIDE DEF upto, rows
  <2>2. GfSum(upto(0), n) = 0
    BY <2>1, SumOfNone
  <2> QED
    BY <1>4, <2>2, GfSumFacts
<1>8. ASSUME NEW i \in 1 .. m, i - 1 \in S PROVE i \in S
  <2>1. /\ i - 1 \in 0 .. m - 1 /\ i - 1 \in 0 .. m /\ i \in 0 .. m
        /\ GfSum(rows, i - 1) = GfSum(upto(i - 1), n)
    BY <1>8
  <2>2. \A k \in 0 .. n - 1 : /\ upto(i)[k] = GfAdd(upto(i - 1)[k], row(i - 1)[k])
                              /\ upto(i - 1)[k] \in Byte
    BY <1>5, <1>6, <2>1
  <2>3. rows[i - 1] = GfSum(row(i - 1), n) /\ Bytes(row(i - 1), n)
    BY <1>1, <1>3, <2>1
  <2> HIDE DEF upto, rows, row
  <2>4. Bytes(upto(i - 1), n)
    BY <2>2 DEF Bytes
  <2>5. GfSum(upto(i), n) = GfAdd(GfSum(upto(i - 1), n), GfSum(row(i - 1), n))
    BY <2>2, <2>3, <2>4, SumsAdd
  <2>6. GfSum(rows, i) = GfAdd(GfSum(rows, i - 1), rows[i - 1])
    BY <1>4, GfSumFacts
  <2> QED
    BY <2>1, <2>3, <2>5, <2>6
<1> HIDE DEF S
<1>9. m \in S
  BY <1>7, <1>8, UpTo
<1> QED
  BY <1>9 DEF S

-----------------------------------------------------------------------------
(* The product of polynomials.                                             *)

(* The i-th power of 2, for i in 0 .. 7.                                   *)
Power(i) == PowersOf2[i + 1]

(* The powers of 2 are doubled one from the next, and have one bit each.   *)
LEMMA PowerFacts ==
  /\ Power(0) = 1 /\ \A i \in 1 .. 7 : Power(i) = Twice(Power(i - 1))
  /\ \A i \in 0 .. 7 : Power(i) \in Powers
  /\ \A i, j \in 0 .. 7 : Bit(Power(i), Power(j)) = IF i = j THEN 1 ELSE 0
  /\ \A p \in Powers : \E j \in 0 .. 7 : p = Power(j)
<1>1. /\ Power(0) = 1 /\ Power(1) = 2 /\ Power(2) = 4 /\ Power(3) = 8
      /\ Power(4) = 16 /\ Power(5) = 32 /\ Power(6) = 64 /\ Power(7) = 128
  BY DEF Power, PowersOf2
<1>2. \A i \in 0 .. 7 : i \in {0, 1, 2, 3, 4, 5, 6, 7}
  OBVIOUS
<1>3. \A i \in 0 .. 7 : Power(i) \in Powers
  BY <1>1, <1>2 DEF Powers
<1>4. \A i \in 1 .. 7 : Power(i) = Twice(Power(i - 1))
  <2> SUFFICES ASSUME NEW i \in 1 .. 7 PROVE Power(i) = Twice(Power(i - 1))
    OBVIOUS
  <2>1. i \in {1, 2, 3, 4, 5, 6, 7}
    OBVIOUS
  <2>2. Power(i - 1) < 128 /\ Power(i) = 2 * Power(i - 1)
    BY <1>1, <2>1
  <2> QED
    BY <2>2 DEF Twice
<1>5. \A p, q \in Powers : Bit(p, q) = IF p = q THEN 1 ELSE 0
  BY DEF Powers, Bit
<1>6. \A i, j \in 0 .. 7 : Power(i) = Power(j) <=> i = j
  BY <1>1, <1>2
<1>7. \A p \in Powers : \E j \in 0 .. 7 : p = Power(j)
  BY <1>1 DEF Powers
<1> QED
  BY <1>1, <1>3, <1>4, <1>5, <1>6, <1>7

(* A byte is the sum of the powers of 2 that it has.                       *)
LEMMA SumOfBits ==
  ASSUME NEW b \in Byte, NEW t,
         \A i \in 0 .. 7 : t[i] = IF Bit(b, Power(i)) = 1 THEN Power(i) ELSE 0
  PROVE  Bytes(t, 8) /\ GfSum(t, 8) = b
<1> DEFINE has(i) == Bit(b, Power(i))
           s(k) == GfSum(t, k)
           S == {k \in 0 .. 8 : \A j \in 0 .. 7 : Bit(s(k), Power(j)) = IF j < k THEN has(j) ELSE 0}
<1>0. Powers \subseteq Byte /\ 0 \in Byte /\ 8 \in Nat
  BY DEF Powers, Byte
<1>1. \A i \in 0 .. 7 : has(i) \in {0, 1}
  BY BitsOfByte, PowerFacts DEF Powers
<1>2. \A i \in 0 .. 7 : t[i] \in Byte
  BY <1>0, PowerFacts
<1>3. \A i, j \in 0 .. 7 : Bit(t[i], Power(j)) = IF i = j THEN has(i) ELSE 0
  <2>1. \A p \in Powers : Bit(0, p) = 0
    BY DEF Bit, Powers
  <2> QED
    BY <1>1, <2>1, PowerFacts
<1>4. Bytes(t, 8)
  BY <1>2 DEF Bytes
<1>5. s(0) = 0 /\ \A m \in 0 .. 8 : s(m) \in Byte
  BY <1>0, <1>4, GfSumFacts
<1>6. \A m \in 1 .. 8 : s(m) = GfAdd(s(m - 1), t[m - 1])
  BY <1>0, <1>4, GfSumFacts
<1> HIDE DEF s, has
<1>7. 0 \in S
  <2>1. \A j \in 0 .. 7 : Bit(0, Power(j)) = 0 /\ ~(j < 0)
    <3>1. \A p \in Powers : Bit(0, p) = 0
      BY DEF Bit, Powers
    <3> QED
      BY <3>1, PowerFacts
  <2> QED
    BY <1>5, <2>1
<1>8. ASSUME NEW k \in 1 .. 8, k - 1 \in S PROVE k \in S
  <2> SUFFICES ASSUME NEW j \in 0 .. 7
               PROVE  Bit(s(k), Power(j)) = IF j < k THEN has(j) ELSE 0
    OBVIOUS
  <2>1. /\ k - 1 \in 0 .. 7 /\ k - 1 \in 0 .. 8 /\ Power(j) \in Powers
        /\ s(k) = GfAdd(s(k - 1), t[k - 1]) /\ s(k - 1) \in Byte /\ t[k - 1] \in Byte
    BY <1>2, <1>5, <1>6, PowerFacts
  <2>2. Bit(s(k), Power(j)) = (Bit(s(k - 1), Power(j)) + Bit(t[k - 1], Power(j))) % 2
    BY <2>1, XorBits
  <2>3. Bit(s(k - 1), Power(j)) = IF j < k - 1 THEN has(j) ELSE 0
    BY <1>8
  <2>4. Bit(t[k - 1], Power(j)) = IF k - 1 = j THEN has(j) ELSE 0
    BY <1>3, <2>1
  <2>5. has(j) \in {0, 1}
    BY <1>1
  <2>6. CASE j < k - 1
    BY <2>2, <2>3, <2>4, <2>5, <2>6
  <2>7. CASE j = k - 1
    BY <2>2, <2>3, <2>4, <2>5, <2>7
  <2>8. CASE j > k - 1
    <3>1. ~(j < k - 1) /\ k - 1 # j /\ ~(j < k)
      BY <2>8
    <3> QED
      BY <2>2, <2>3, <2>4, <3>1
  <2> QED
    BY <2>6, <2>7, <2>8
<1> HIDE DEF S
<1>9. 8 \in S
  BY <1>0, <1>7, <1>8, UpTo
<1>10. \A j \in 0 .. 7 : Bit(s(8), Power(j)) = has(j)
  BY <1>9 DEF S
<1>11. s(8) = b
  <2>1. \A p \in Powers : Bit(s(8), p) = Bit(b, p)
    BY <1>10, PowerFacts DEF has
  <2> QED
    BY <1>5, <2>1, SameBits
<1> QED
  BY <1>4, <1>11 DEF s

(* a doubled i times, for i in 0 .. 7.                                     *)
Doublings(l, a) == l = [i \in 0 .. 7 |-> IF i = 0 THEN a ELSE Twice(l[i - 1])]

(* To double i times is to multiply by the i-th power of 2.                *)
LEMMA DoublingsAre ==
  ASSUME NEW a \in Byte
  PROVE  /\ \E l : Doublings(l, a)
         /\ \A l : Doublings(l, a) => \A i \in 0 .. 7 : l[i] = GfMul(Power(i), a)
<1>0. 7 \in Nat /\ Powers \subseteq Units
  BY DEF Powers, Units
<1>1. \E l : Doublings(l, a)
  <2> DEFINE step == [k \in 1 .. 7 |-> [x \in Byte |-> Twice(x)]]
  <2>1. step \in [1 .. 7 -> [Byte -> Byte]]
    BY TwiceForm
  <2>2. \A k \in 1 .. 7, x \in Byte : step[k][x] = Twice(x)
    OBVIOUS
  <2> HIDE DEF step
  <2>3. PICK l \in [0 .. 7 -> Byte] : Loops(l, a, step, 7)
    BY <1>0, <2>1, LoopExists
  <2>4. \A k \in 1 .. 7 : l[k - 1] \in Byte
    OBVIOUS
  <2>5. l = [i \in 0 .. 7 |-> IF i = 0 THEN a ELSE Twice(l[i - 1])]
    BY <2>2, <2>3, <2>4 DEF Loops
  <2> QED
    BY <2>5 DEF Doublings
<1>2. ASSUME NEW l, Doublings(l, a)
      PROVE  \A i \in 0 .. 7 : l[i] = GfMul(Power(i), a)
  <2> DEFINE S == {i \in 0 .. 7 : l[i] = GfMul(Power(i), a)}
  <2>1. l[0] = a /\ \A i \in 1 .. 7 : l[i] = Twice(l[i - 1])
    BY <1>2 DEF Doublings
  <2>2. 0 \in S
    BY <2>1, PowerFacts, MulLaws
  <2>3. ASSUME NEW i \in 1 .. 7, i - 1 \in S PROVE i \in S
    <3>1. Power(i - 1) \in Units /\ Power(i) = Twice(Power(i - 1))
      BY <1>0, PowerFacts
    <3>2. GfMul(Twice(Power(i - 1)), a) = Twice(GfMul(Power(i - 1), a))
      BY <3>1, MulTwice
    <3> QED
      BY <2>1, <2>3, <3>1, <3>2
  <2> HIDE DEF S
  <2>4. \A i \in 0 .. 7 : i \in S
    BY <1>0, <2>2, <2>3, UpTo
  <2> QED
    BY <2>4 DEF S
<1> QED
  BY <1>1, <1>2

(* The tables multiply as the field does.                                  *)
LEMMA ProductIs ==
  ASSUME NEW a \in Byte, NEW b \in Byte
  PROVE  Product(a, b) = GfMul(a, b)
<1> DEFINE l == CHOOSE t : Doublings(t, a)
           f == [i \in 0 .. 7 |-> IF (b \div PowersOf2[i + 1]) % 2 = 1 THEN l[i] ELSE 0]
           t == [i \in 0 .. 7 |-> IF Bit(b, Power(i)) = 1 THEN Power(i) ELSE 0]
<1>1. Product(a, b) = GfSum(f, 8)
  BY DEF Product, Doublings
<1>2. Doublings(l, a)
  BY DoublingsAre
<1> HIDE DEF l
<1>3. \A i \in 0 .. 7 : l[i] = GfMul(Power(i), a)
  BY <1>2, DoublingsAre
<1>4. \A i \in 0 .. 7 : f[i] = IF Bit(b, Power(i)) = 1 THEN GfMul(Power(i), a) ELSE 0
  BY <1>3 DEF Bit, Power
<1>5. \A i \in 0 .. 7 : t[i] = IF Bit(b, Power(i)) = 1 THEN Power(i) ELSE 0
  OBVIOUS
<1> HIDE DEF f, t
<1>6. Bytes(t, 8) /\ GfSum(t, 8) = b
  BY <1>5, SumOfBits
<1>7. \A i \in 0 .. 7 : f[i] = GfMul(a, t[i])
  <2> SUFFICES ASSUME NEW i \in 0 .. 7 PROVE f[i] = GfMul(a, t[i])
    OBVIOUS
  <2>1. Power(i) \in Byte /\ 0 \in Byte
    BY PowerFacts DEF Powers, Byte
  <2>2. GfMul(Power(i), a) = GfMul(a, Power(i)) /\ GfMul(a, 0) = 0
    BY <2>1, MulLaws
  <2> QED
    BY <1>4, <1>5, <2>2
<1>8. \E n \in Nat : n = 8
  OBVIOUS
<1>9. PICK n \in Nat : n = 8
  BY <1>8
<1>10. \A i \in 0 .. n - 1 : f[i] = GfMul(a, t[i])
  BY <1>7, <1>9
<1>11. Bytes(t, n)
  BY <1>6, <1>9
<1>12. GfSum(f, n) = GfMul(a, GfSum(t, n))
  BY <1>10, <1>11, SumScaled
<1> QED
  BY <1>1, <1>6, <1>9, <1>12

(* gf_mul and gf_inv, which go through the LOG and ALOG tables of          *)
(* gf256.rs, multiply and invert as the field does: gf_mul is the product  *)
(* of polynomials modulo the code's 0x11D for all pairs of bytes, and      *)
(* gf_inv(a) times a is 1 for every a but 0.                               *)
THEOREM FieldCorrect == Spec => []FieldTables
<1>1. Answered => FieldTables
  <2> SUFFICES ASSUME Answered, task = "multiply" PROVE FieldTables
    BY DEF FieldTables
  <2>1. input \in Byte /\ output = [b \in Byte |-> GfMul(input, b)]
    BY DEF Answered, Converted
  <2>2. \A b \in Byte : output[b] = Product(input, b)
    BY <2>1, ProductIs
  <2>3. ASSUME input # 0 PROVE output[GfInv(input)] = 1
    <3>1. input \in Units
      BY <2>1, <2>3 DEF Units, Byte
    <3>2. GfInv(input) \in Units /\ GfMul(input, GfInv(input)) = 1
      BY <3>1, InvLaws
    <3>3. GfInv(input) \in Byte
      BY <3>2 DEF Units, Byte
    <3> QED
      BY <2>1, <3>2, <3>3
  <2> QED
    BY <2>2, <2>3 DEF FieldTables
<1> QED
  BY <1>1, AnsweredInvariant, PTL

-----------------------------------------------------------------------------
(* Rows times columns.                                                     *)

(* The product of a row and a column of n bytes.                           *)
Dot(x, y, n) == GfSum([k \in 0 .. n - 1 |-> GfMul(x[k], y[k])], n)

(* The product of a row and a column is a byte.                            *)
LEMMA DotByte ==
  ASSUME NEW n \in Nat, NEW x, NEW y, Bytes(x, n), Bytes(y, n)
  PROVE  Bytes([k \in 0 .. n - 1 |-> GfMul(x[k], y[k])], n) /\ Dot(x, y, n) \in Byte
<1> DEFINE f == [k \in 0 .. n - 1 |-> GfMul(x[k], y[k])]
<1>1. \A a, b \in Byte : GfMul(a, b) \in Byte
  BY MulLaws
<1>2. Bytes(f, n)
  BY <1>1 DEF Bytes
<1>3. Dot(x, y, n) = GfSum(f, n)
  BY DEF Dot
<1> HIDE DEF f
<1>4. n \in 0 .. n
  OBVIOUS
<1>5. GfSum(f, n) \in Byte
  BY <1>2, <1>4, GfSumFacts
<1> QED
  BY <1>2, <1>3, <1>5 DEF f

(* It depends on nothing but the n entries.                                *)
LEMMA DotSame ==
  ASSUME NEW n \in Nat, NEW x, NEW y, NEW u, NEW v,
         \A k \in 0 .. n - 1 : x[k] = u[k] /\ y[k] = v[k]
  PROVE  Dot(x, y, n) = Dot(u, v, n)
<1>1. [k \in 0 .. n - 1 |-> GfMul(x[k], y[k])] = [k \in 0 .. n - 1 |-> GfMul(u[k], v[k])]
  OBVIOUS
<1> QED
  BY <1>1 DEF Dot

(* A factor of the row may be taken out of the product.                    *)
LEMMA DotScaled ==
  ASSUME NEW n \in Nat, NEW c \in Byte, NEW x, NEW y, NEW z, Bytes(x, n), Bytes(y, n),
         \A k \in 0 .. n - 1 : z[k] = GfMul(c, x[k])
  PROVE  Bytes(z, n) /\ Dot(z, y, n) = GfMul(c, Dot(x, y, n))
<1> DEFINE f == [k \in 0 .. n - 1 |-> GfMul(x[k], y[k])]
           h == [k \in 0 .. n - 1 |-> GfMul(z[k], y[k])]
<1>1. \A a, b \in Byte : GfMul(a, b) \in Byte /\ GfMul(GfMul(c, a), b) = GfMul(c, GfMul(a, b))
  BY MulLaws
<1>2. Bytes(z, n)
  BY <1>1 DEF Bytes
<1>3. \A k \in 0 .. n - 1 : h[k] = GfMul(c, f[k])
  BY <1>1 DEF Bytes
<1>4. Bytes(f, n)
  BY DotByte
<1>5. Dot(x, y, n) = GfSum(f, n) /\ Dot(z, y, n) = GfSum(h, n)
  BY DEF Dot
<1> HIDE DEF f, h
<1> QED
  BY <1>2, <1>3, <1>4, <1>5, SumScaled

(* The product of a sum of rows is the sum of their products.              *)
LEMMA DotAdded ==
  ASSUME NEW n \in Nat, NEW x, NEW w, NEW y, NEW z, Bytes(x, n), Bytes(w, n), Bytes(y, n),
         \A k \in 0 .. n - 1 : z[k] = GfAdd(x[k], w[k])
  PROVE  Bytes(z, n) /\ Dot(z, y, n) = GfAdd(Dot(x, y, n), Dot(w, y, n))
<1> DEFINE f == [k \in 0 .. n - 1 |-> GfMul(x[k], y[k])]
           g == [k \in 0 .. n - 1 |-> GfMul(w[k], y[k])]
           h == [k \in 0 .. n - 1 |-> GfMul(z[k], y[k])]
<1>0. \A a, b \in Byte : GfAdd(a, b) \in Byte
  BY AddLaws
<1>1. \A a, b, c \in Byte : GfMul(GfAdd(a, b), c) = GfAdd(GfMul(a, c), GfMul(b, c))
  <2> SUFFICES ASSUME NEW a \in Byte, NEW b \in Byte, NEW c \in Byte
               PROVE  GfMul(GfAdd(a, b), c) = GfAdd(GfMul(a, c), GfMul(b, c))
    OBVIOUS
  <2>1. GfMul(c, GfAdd(a, b)) = GfAdd(GfMul(c, a), GfMul(c, b))
    BY MulAdds
  <2>2. \A s \in Byte : GfMul(c, s) = GfMul(s, c)
    BY MulLaws
  <2> QED
    BY <1>0, <2>1, <2>2
<1>2. Bytes(z, n)
  BY <1>0 DEF Bytes
<1>3. \A k \in 0 .. n - 1 : h[k] = GfAdd(f[k], g[k])
  BY <1>1 DEF Bytes
<1>4. Bytes(f, n) /\ Bytes(g, n)
  BY DotByte
<1>5. Dot(x, y, n) = GfSum(f, n) /\ Dot(w, y, n) = GfSum(g, n) /\ Dot(z, y, n) = GfSum(h, n)
  BY DEF Dot
<1> HIDE DEF f, g, h
<1>6. GfSum(h, n) = GfAdd(GfSum(f, n), GfSum(g, n))
  BY <1>3, <1>4, SumsAdd
<1> QED
  BY <1>2, <1>5, <1>6

(* A row of the identity takes one entry of the column.                    *)
LEMMA DotUnit ==
  ASSUME NEW n \in Nat, NEW i \in 0 .. n - 1, NEW x, NEW y, Bytes(y, n),
         \A k \in 0 .. n - 1 : x[k] = IF k = i THEN 1 ELSE 0
  PROVE  Bytes(x, n) /\ Dot(x, y, n) = y[i] /\ Dot(y, x, n) = y[i]
<1> DEFINE f == [k \in 0 .. n - 1 |-> GfMul(x[k], y[k])]
           g == [k \in 0 .. n - 1 |-> GfMul(y[k], x[k])]
<1>1. 1 \in Byte /\ 0 \in Byte
  BY DEF Byte
<1>2. Bytes(x, n)
  BY <1>1 DEF Bytes
<1>3. \A a \in Byte : GfMul(1, a) = a /\ GfMul(0, a) = 0 /\ GfMul(a, 1) = a /\ GfMul(a, 0) = 0
  BY <1>1, MulLaws
<1>4. \A k \in 0 .. n - 1 : y[k] \in Byte
  BY DEF Bytes
<1>5. /\ f[i] = y[i] /\ \A k \in 0 .. n - 1 : k # i => f[k] = 0
      /\ g[i] = y[i] /\ \A k \in 0 .. n - 1 : k # i => g[k] = 0
  BY <1>3, <1>4
<1>6. Dot(x, y, n) = GfSum(f, n) /\ Dot(y, x, n) = GfSum(g, n)
  BY DEF Dot
<1> HIDE DEF f, g
<1>7. GfSum(f, n) = f[i]
  BY <1>4, <1>5, SumOfOne
<1>8. GfSum(g, n) = g[i]
  BY <1>4, <1>5, SumOfOne
<1> QED
  BY <1>2, <1>5, <1>6, <1>7, <1>8

(* x (m v) = (x m) v.                                                      *)
LEMMA DotAssociates ==
  ASSUME NEW n \in Nat, NEW x, NEW m, NEW v, Bytes(x, n), Bytes(v, n),
         \A k \in 0 .. n - 1 : Bytes(m[k], n)
  PROVE  Dot(x, [k \in 0 .. n - 1 |-> Dot(m[k], v, n)], n)
           = Dot([j \in 0 .. n - 1 |-> Dot(x, [k \in 0 .. n - 1 |-> m[k][j]], n)], v, n)
<1> DEFINE column(j) == [k \in 0 .. n - 1 |-> m[k][j]]
           a == [k \in 0 .. n - 1 |-> [j \in 0 .. n - 1 |-> GfMul(x[k], GfMul(m[k][j], v[j]))]]
           mv == [k \in 0 .. n - 1 |-> Dot(m[k], v, n)]
           xm == [j \in 0 .. n - 1 |-> Dot(x, column(j), n)]
<1>0. /\ \A p, q \in Byte : GfMul(p, q) \in Byte /\ GfMul(p, q) = GfMul(q, p)
      /\ \A p, q, r \in Byte : GfMul(GfMul(p, q), r) = GfMul(p, GfMul(q, r))
  BY MulLaws
<1>1. \A k, j \in 0 .. n - 1 : m[k][j] \in Byte /\ x[k] \in Byte /\ v[j] \in Byte
  BY DEF Bytes
<1>2. \A k, j \in 0 .. n - 1 : a[k][j] \in Byte
  BY <1>0, <1>1
<1>3. \A k \in 0 .. n - 1 : GfMul(x[k], mv[k]) = GfSum([j \in 0 .. n - 1 |-> a[k][j]], n)
  <2> SUFFICES ASSUME NEW k \in 0 .. n - 1
               PROVE  GfMul(x[k], mv[k]) = GfSum([j \in 0 .. n - 1 |-> a[k][j]], n)
    OBVIOUS
  <2> DEFINE f == [j \in 0 .. n - 1 |-> GfMul(m[k][j], v[j])]
             h == [j \in 0 .. n - 1 |-> a[k][j]]
  <2>1. \A j \in 0 .. n - 1 : h[j] = GfMul(x[k], f[j])
    OBVIOUS
  <2>2. Bytes(m[k], n) /\ x[k] \in Byte
    BY <1>1
  <2>3. Bytes(f, n)
    BY <2>2, DotByte
  <2>4. mv[k] = GfSum(f, n)
    BY DEF Dot
  <2> HIDE DEF f, h, a, mv
  <2>5. GfSum(h, n) = GfMul(x[k], GfSum(f, n))
    BY <2>1, <2>2, <2>3, SumScaled
  <2> QED
    BY <2>4, <2>5 DEF h
<1>4. \A j \in 0 .. n - 1 : GfMul(xm[j], v[j]) = GfSum([k \in 0 .. n - 1 |-> a[k][j]], n)
  <2> SUFFICES ASSUME NEW j \in 0 .. n - 1
               PROVE  GfMul(xm[j], v[j]) = GfSum([k \in 0 .. n - 1 |-> a[k][j]], n)
    OBVIOUS
  <2> DEFINE f == [k \in 0 .. n - 1 |-> GfMul(x[k], column(j)[k])]
             h == [k \in 0 .. n - 1 |-> a[k][j]]
  <2>0. \A p, q, r \in Byte : GfMul(p, GfMul(q, r)) = GfMul(r, GfMul(p, q))
    BY <1>0
  <2>1. \A k \in 0 .. n - 1 : h[k] = GfMul(v[j], f[k])
    BY <1>1, <2>0
  <2>2. v[j] \in Byte
    BY <1>1
  <2>3. Bytes(f, n)
    BY <1>0, <1>1 DEF Bytes
  <2>4. xm[j] = GfSum(f, n)
    BY DEF Dot
  <2> HIDE DEF f, h, a, xm
  <2>5. GfSum(h, n) = GfMul(v[j], GfSum(f, n))
    BY <2>1, <2>2, <2>3, SumScaled
  <2>6. n \in 0 .. n
    OBVIOUS
  <2>7. GfSum(f, n) \in Byte
    BY <2>3, <2>6, GfSumFacts
  <2> QED
    BY <1>0, <2>2, <2>4, <2>5, <2>7 DEF h
<1>5. Dot(x, mv, n) = GfSum([k \in 0 .. n - 1 |-> GfSum([j \in 0 .. n - 1 |-> a[k][j]], n)], n)
  <2>1. [k \in 0 .. n - 1 |-> GfMul(x[k], mv[k])]
          = [k \in 0 .. n - 1 |-> GfSum([j \in 0 .. n - 1 |-> a[k][j]], n)]
    BY <1>3, Zenon
  <2> QED
    BY <2>1 DEF Dot
<1>6. Dot(xm, v, n) = GfSum([j \in 0 .. n - 1 |-> GfSum([k \in 0 .. n - 1 |-> a[k][j]], n)], n)
  <2>1. [j \in 0 .. n - 1 |-> GfMul(xm[j], v[j])]
          = [j \in 0 .. n - 1 |-> GfSum([k \in 0 .. n - 1 |-> a[k][j]], n)]
    BY <1>4, Zenon
  <2> QED
    BY <2>1 DEF Dot
<1> HIDE DEF a
<1>7. Dot(x, mv, n) = Dot(xm, v, n)
  BY <1>2, <1>5, <1>6, SumsSwap
<1> QED
  BY <1>7

-----------------------------------------------------------------------------
(* gf_matrix_invert.                                                       *)

(* The augmented matrices of gf_matrix_invert: n rows of 2n bytes.         *)
Augments(n) == [0 .. n - 1 -> [0 .. 2 * n - 1 -> Byte]]

(* The right half of a row, a column of a matrix, and n rows of n bytes.   *)
Right(x, n) == [k \in 0 .. n - 1 |-> x[n + k]]
Column(m, j, n) == [k \in 0 .. n - 1 |-> m[k][j]]
Square(m, n) == \A k \in 0 .. n - 1 : Bytes(m[k], n)

(* A row whose right half times the matrix is its left half.               *)
Solves(x, m, n) == \A j \in 0 .. n - 1 : Dot(Right(x, n), Column(m, j, n), n) = x[j]

(* The matrix takes no v to 0 that the left half does not take to 0.       *)
Vanishes(a, v, n) == \A i \in 0 .. n - 1 : Dot(a[i], v, n) = 0

(* The first c columns of a are those of the identity.                     *)
UnitColumns(a, c, n) == \A i \in 0 .. n - 1, j \in 0 .. c - 1 : a[i][j] = IF i = j THEN 1 ELSE 0

(* The invariant of the elimination: after c columns, the first c are      *)
(* done, every row of a is a combination of the rows of m that its right   *)
(* half names, and a vector that all rows of a take to 0 is one that all   *)
(* rows of m take to 0, so that no row has been lost.                      *)
Reduced(a, c, m, n) ==
  /\ a \in Augments(n)
  /\ UnitColumns(a, c, n)
  /\ \A i \in 0 .. n - 1 : Solves(a[i], m, n)
  /\ \A v : Bytes(v, n) /\ Vanishes(a, v, n) => Vanishes(m, v, n)

(* Rows c and p swapped.                                                   *)
Swap(a, c, p) == [a EXCEPT ![c] = a[p], ![p] = a[c]]

(* What the step for a column does, p being the row brought up and u the   *)
(* inverse of its entry.                                                   *)
Steps(a, b, c, p, u, n) ==
  LET s == Swap(a, c, p)
  IN  /\ \A j \in 0 .. 2 * n - 1 : b[c][j] = GfMul(u, s[c][j])
      /\ \A i \in 0 .. n - 1 : i # c =>
           \A j \in 0 .. 2 * n - 1 : b[i][j] = GfAdd(s[i][j], GfMul(s[i][c], b[c][j]))

(* What the next steps use of s, the rows of a after the swap: the pivot's *)
(* row is at c, the rows above c stay, and no row is lost.                 *)
IsSwap(s, a, c, p, n) ==
  /\ s \in Augments(n) /\ s[c] = a[p]
  /\ \A i \in 0 .. n - 1 : i < c => s[i] = a[i]
  /\ \A i \in 0 .. n - 1 : \E k \in 0 .. n - 1 : s[i] = a[k] /\ (i >= c => k >= c)
  /\ \A i \in 0 .. n - 1 : \E k \in 0 .. n - 1 : a[i] = s[k]

(* Swap is such a swap.                                                    *)
LEMMA SwapFacts ==
  ASSUME NEW n \in Nat, NEW a \in Augments(n), NEW c \in 0 .. n - 1, NEW p \in c .. n - 1
  PROVE  IsSwap(Swap(a, c, p), a, c, p, n)
<1> DEFINE s == Swap(a, c, p)
<1>0. p \in 0 .. n - 1 /\ DOMAIN a = 0 .. n - 1
  BY DEF Augments
<1>1. \A i \in 0 .. n - 1 : s[i] = IF i = p THEN a[c] ELSE IF i = c THEN a[p] ELSE a[i]
  BY <1>0 DEF Swap
<1>2. s \in Augments(n)
  BY <1>0 DEF Swap, Augments
<1>3. s[c] = a[p]
  BY <1>0, <1>1
<1>4. \A i \in 0 .. n - 1 : i < c => s[i] = a[i]
  BY <1>1
<1> HIDE DEF s
<1>5. ASSUME NEW i \in 0 .. n - 1
      PROVE  \E k \in 0 .. n - 1 : s[i] = a[k] /\ (i >= c => k >= c)
  BY <1>0, <1>1
<1>6. ASSUME NEW i \in 0 .. n - 1 PROVE \E k \in 0 .. n - 1 : a[i] = s[k]
  BY <1>0, <1>1, <1>3
<1> QED
  BY <1>2, <1>3, <1>4, <1>5, <1>6 DEF s, IsSwap

(* One column of gf_matrix_invert is a swap, a row scaled and a row added  *)
(* to each of the others.                                                  *)
LEMMA EliminateSteps ==
  ASSUME NEW n \in Nat, NEW a \in Augments(n), NEW c \in 0 .. n - 1, Pivots(a, c) # {}
  PROVE  /\ Eliminate(a, c) \in Augments(n)
         /\ \E p \in c .. n - 1, u \in Byte :
              /\ a[p][c] \in Byte /\ GfMul(u, a[p][c]) = 1
              /\ Steps(a, Eliminate(a, c), c, p, u, n)
<1> DEFINE p == Min(Pivots(a, c))
           s == Swap(a, c, p)
           u == GfInv(a[p][c])
           b == Eliminate(a, c)
           last == 2 * n - 1
<1>0. DOMAIN a = 0 .. n - 1 /\ c \in 0 .. last /\ DOMAIN a[c] = 0 .. last
      /\ \A i \in 0 .. n - 1 : a[i] \in [0 .. last -> Byte]
  BY DEF Augments
<1>1. p \in c .. n - 1 /\ a[p][c] # 0
  <2>1. Pivots(a, c) \in SUBSET Nat
    BY <1>0 DEF Pivots
  <2>2. p \in Pivots(a, c)
    BY <2>1, MinOfNats
  <2> QED
    BY <1>0, <2>2 DEF Pivots
<1>2. a[p][c] \in Units
  <2>1. p \in 0 .. n - 1
    BY <1>1
  <2>2. a[p][c] \in Byte
    BY <1>0, <2>1
  <2> QED
    BY <1>1, <2>2 DEF Units, Byte
<1>3. u \in Units /\ GfMul(a[p][c], u) = 1
  BY <1>2, InvLaws
<1>4. Units \subseteq Byte
  BY DEF Units, Byte
<1>5. \A x, y \in Byte : GfMul(x, y) = GfMul(y, x) /\ GfMul(x, y) \in Byte
  BY MulLaws
<1>6. \A x, y \in Byte : GfAdd(x, y) \in Byte
  BY AddLaws
<1>7. GfMul(u, a[p][c]) = 1 /\ u \in Byte /\ a[p][c] \in Byte
  BY <1>2, <1>3, <1>4, <1>5
<1> HIDE DEF p
<1>8. s \in Augments(n) /\ s[c] = a[p]
  BY <1>1, SwapFacts DEF IsSwap
<1>9. b = [row \in DOMAIN a |->
             IF row = c THEN [j \in DOMAIN a[c] |-> GfMul(s[c][j], GfInv(s[c][c]))]
             ELSE [j \in DOMAIN a[c] |->
                     GfAdd(s[row][j], GfMul(s[row][c], [k \in DOMAIN a[c] |-> GfMul(s[c][k], GfInv(s[c][c]))][j]))]]
  BY DEF Eliminate, Swap, p
<1> DEFINE scaled == [j \in 0 .. last |-> GfMul(s[c][j], u)]
<1>10. b = [row \in 0 .. n - 1 |->
              IF row = c THEN scaled
              ELSE [j \in 0 .. last |-> GfAdd(s[row][j], GfMul(s[row][c], scaled[j]))]]
  BY <1>0, <1>8, <1>9
<1> HIDE DEF s, u, b, last
<1>11. \A i \in 0 .. n - 1, j \in 0 .. last : s[i][j] \in Byte
  BY <1>8 DEF Augments, last
<1>12. scaled \in [0 .. last -> Byte]
  BY <1>5, <1>7, <1>11
<1>13. b \in [0 .. n - 1 -> [0 .. last -> Byte]]
  <2> SUFFICES ASSUME NEW i \in 0 .. n - 1 PROVE b[i] \in [0 .. last -> Byte]
    BY <1>10
  <2>1. CASE i = c
    BY <1>10, <1>12, <2>1
  <2>2. CASE i # c
    <3>1. b[i] = [j \in 0 .. last |-> GfAdd(s[i][j], GfMul(s[i][c], scaled[j]))]
      BY <1>10, <2>2
    <3>2. \A j \in 0 .. last : scaled[j] \in Byte
      BY <1>12
    <3> HIDE DEF scaled
    <3> QED
      BY <1>0, <1>5, <1>6, <1>11, <3>1, <3>2
  <2> QED
    BY <2>1, <2>2
<1>14. b[c] = scaled
  BY <1>10
<1>15. \A j \in 0 .. last : b[c][j] = GfMul(u, s[c][j])
  BY <1>5, <1>7, <1>11, <1>14
<1>16. \A i \in 0 .. n - 1 : i # c =>
         \A j \in 0 .. last : b[i][j] = GfAdd(s[i][j], GfMul(s[i][c], b[c][j]))
  BY <1>10, <1>14
<1>17. Steps(a, b, c, p, u, n)
  BY <1>15, <1>16 DEF Steps, s, last
<1>18. b \in Augments(n)
  BY <1>13 DEF Augments, last
<1> QED
  BY <1>1, <1>7, <1>17, <1>18 DEF b

LEMMA SolvesScaled ==
  ASSUME NEW n \in Nat, NEW m, Square(m, n), NEW u \in Byte,
         NEW x \in [0 .. 2 * n - 1 -> Byte], NEW z, Solves(x, m, n),
         \A j \in 0 .. 2 * n - 1 : z[j] = GfMul(u, x[j])
  PROVE  Solves(z, m, n)
<1> SUFFICES ASSUME NEW j \in 0 .. n - 1
             PROVE  Dot(Right(z, n), Column(m, j, n), n) = z[j]
  BY DEF Solves
<1> DEFINE X == Right(x, n)
           Z == Right(z, n)
           M == Column(m, j, n)
<1>1. Bytes(X, n) /\ Bytes(M, n)
  BY DEF Bytes, Right, Column, Square
<1>2. \A k \in 0 .. n - 1 : Z[k] = GfMul(u, X[k])
  BY DEF Right
<1>3. Dot(X, M, n) = x[j]
  BY DEF Solves
<1>4. z[j] = GfMul(u, x[j])
  OBVIOUS
<1> HIDE DEF X, Z, M
<1>5. Dot(Z, M, n) = GfMul(u, Dot(X, M, n))
  BY <1>1, <1>2, DotScaled
<1> QED
  BY <1>3, <1>4, <1>5 DEF Z, M

(* Rows that solve add up to a row that solves.                            *)
LEMMA SolvesAdded ==
  ASSUME NEW n \in Nat, NEW m, Square(m, n),
         NEW x \in [0 .. 2 * n - 1 -> Byte], NEW w \in [0 .. 2 * n - 1 -> Byte], NEW z,
         Solves(x, m, n), Solves(w, m, n),
         \A j \in 0 .. 2 * n - 1 : z[j] = GfAdd(x[j], w[j])
  PROVE  Solves(z, m, n)
<1> SUFFICES ASSUME NEW j \in 0 .. n - 1
             PROVE  Dot(Right(z, n), Column(m, j, n), n) = z[j]
  BY DEF Solves
<1> DEFINE X == Right(x, n)
           W == Right(w, n)
           Z == Right(z, n)
           M == Column(m, j, n)
<1>1. Bytes(X, n) /\ Bytes(W, n) /\ Bytes(M, n)
  BY DEF Bytes, Right, Column, Square
<1>2. \A k \in 0 .. n - 1 : Z[k] = GfAdd(X[k], W[k])
  BY DEF Right
<1>3. Dot(X, M, n) = x[j] /\ Dot(W, M, n) = w[j]
  BY DEF Solves
<1>4. z[j] = GfAdd(x[j], w[j])
  OBVIOUS
<1> HIDE DEF X, W, Z, M
<1>5. Dot(Z, M, n) = GfAdd(Dot(X, M, n), Dot(W, M, n))
  BY <1>1, <1>2, DotAdded
<1> QED
  BY <1>3, <1>4, <1>5 DEF Z, M

(* x = z + f w where z = x + f w, and so of their products with v.         *)
LEMMA Undone ==
  ASSUME NEW n \in Nat, NEW v, Bytes(v, n), NEW f \in Byte, NEW x, NEW w, NEW z,
         Bytes(x, n), Bytes(w, n),
         \A k \in 0 .. n - 1 : z[k] = GfAdd(x[k], GfMul(f, w[k])),
         Dot(z, v, n) = 0, Dot(w, v, n) = 0
  PROVE  Dot(x, v, n) = 0
<1> DEFINE fw == [k \in 0 .. n - 1 |-> GfMul(f, w[k])]
<1>0. 0 \in Byte
  BY DEF Byte
<1>1. \A k \in 0 .. n - 1 : fw[k] = GfMul(f, w[k]) /\ z[k] = GfAdd(x[k], fw[k])
  OBVIOUS
<1> HIDE DEF fw
<1>2. Bytes(fw, n) /\ Dot(fw, v, n) = GfMul(f, Dot(w, v, n))
  BY <1>1, DotScaled
<1>3. GfMul(f, 0) = 0
  BY <1>0, MulLaws
<1>4. Dot(z, v, n) = GfAdd(Dot(x, v, n), Dot(fw, v, n))
  BY <1>1, <1>2, DotAdded
<1>5. Dot(x, v, n) \in Byte
  BY DotByte
<1>6. GfAdd(Dot(x, v, n), 0) = Dot(x, v, n)
  BY <1>5, AddLaws
<1> QED
  BY <1>2, <1>3, <1>4, <1>6

(* The steps of one column keep the invariant, with one column more done.  *)
LEMMA ReducedStep ==
  ASSUME NEW n \in Nat, NEW m, Square(m, n), NEW c \in 0 .. n - 1, NEW a, Reduced(a, c, m, n),
         NEW b \in Augments(n), NEW p \in c .. n - 1, NEW u \in Byte,
         a[p][c] \in Byte, GfMul(u, a[p][c]) = 1, Steps(a, b, c, p, u, n)
  PROVE  Reduced(b, c + 1, m, n)
<1> DEFINE s == Swap(a, c, p)
           last == 2 * n - 1
<1>0. a \in Augments(n) /\ 0 .. n - 1 \subseteq 0 .. last /\ 0 \in Byte /\ 1 \in Byte
  BY DEF Reduced, Byte
<1>1. /\ s \in Augments(n) /\ s[c] = a[p]
      /\ \A i \in 0 .. n - 1 : i < c => s[i] = a[i]
      /\ \A i \in 0 .. n - 1 : \E k \in 0 .. n - 1 : s[i] = a[k] /\ (i >= c => k >= c)
      /\ \A i \in 0 .. n - 1 : \E k \in 0 .. n - 1 : a[i] = s[k]
  <2>1. IsSwap(s, a, c, p, n)
    BY <1>0, SwapFacts
  <2> QED
    BY <2>1 DEF IsSwap
<1>2. /\ \A j \in 0 .. last : b[c][j] = GfMul(u, s[c][j])
      /\ \A i \in 0 .. n - 1 : i # c =>
           \A j \in 0 .. last : b[i][j] = GfAdd(s[i][j], GfMul(s[i][c], b[c][j]))
  BY DEF Steps
<1> HIDE DEF s
<1>3. \A i \in 0 .. n - 1 : s[i] \in [0 .. last -> Byte] /\ b[i] \in [0 .. last -> Byte]
  BY <1>1 DEF Augments
<1> HIDE DEF last
<1>4. \A i \in 0 .. n - 1, j \in 0 .. n - 1 : s[i][j] \in Byte /\ b[i][j] \in Byte
  BY <1>0, <1>3
<1>5. UnitColumns(s, c, n)
  <2> SUFFICES ASSUME NEW i \in 0 .. n - 1, NEW j \in 0 .. c - 1
               PROVE  s[i][j] = IF i = j THEN 1 ELSE 0
    BY DEF UnitColumns
  <2>1. \A k \in 0 .. n - 1 : a[k][j] = IF k = j THEN 1 ELSE 0
    BY DEF Reduced, UnitColumns
  <2>2. CASE i < c
    BY <1>1, <2>1, <2>2
  <2>3. CASE i >= c
    <3>1. PICK k \in 0 .. n - 1 : s[i] = a[k] /\ k >= c
      BY <1>1, <2>3
    <3>2. k # j /\ i # j
      BY <2>3, <3>1
    <3> QED
      BY <2>1, <3>1, <3>2
  <2> QED
    BY <2>2, <2>3
<1>6. \A i \in 0 .. n - 1 : Solves(s[i], m, n)
  BY <1>1 DEF Reduced
<1>7. UnitColumns(b, c + 1, n)
  <2> SUFFICES ASSUME NEW i \in 0 .. n - 1, NEW j \in 0 .. c
               PROVE  b[i][j] = IF i = j THEN 1 ELSE 0
    BY DEF UnitColumns
  <2>0. j \in 0 .. n - 1 /\ j \in 0 .. last /\ c \in 0 .. last
    BY <1>0
  <2>1. CASE j = c
    <3>1. b[c][c] = 1
      BY <1>1, <1>2, <2>0
    <3>2. ASSUME i # c PROVE b[i][c] = 0
      <4>1. b[i][c] = GfAdd(s[i][c], GfMul(s[i][c], 1))
        BY <1>2, <2>0, <3>1, <3>2
      <4>2. s[i][c] \in Byte
        BY <1>4
      <4>3. GfMul(s[i][c], 1) = s[i][c]
        BY <1>0, <4>2, MulLaws
      <4> QED
        BY <4>1, <4>2, <4>3, AddLaws
    <3> QED
      BY <2>1, <3>1, <3>2
  <2>2. CASE j # c
    <3>1. j \in 0 .. c - 1
      BY <2>2
    <3>2. \A k \in 0 .. n - 1 : s[k][j] = IF k = j THEN 1 ELSE 0
      BY <1>5, <3>1 DEF UnitColumns
    <3>3. b[c][j] = 0
      <4>1. b[c][j] = GfMul(u, 0)
        BY <1>2, <2>0, <2>2, <3>2
      <4> QED
        BY <1>0, <4>1, MulLaws
    <3>4. ASSUME i # c PROVE b[i][j] = s[i][j]
      <4>1. b[i][j] = GfAdd(s[i][j], GfMul(s[i][c], 0))
        BY <1>2, <2>0, <3>3, <3>4
      <4>2. s[i][c] \in Byte /\ s[i][j] \in Byte
        BY <1>4, <2>0
      <4>3. GfMul(s[i][c], 0) = 0
        BY <1>0, <4>2, MulLaws
      <4> QED
        BY <4>1, <4>2, <4>3, AddLaws
    <3> QED
      BY <2>2, <3>2, <3>3, <3>4
  <2> QED
    BY <2>1, <2>2
<1>8. Solves(b[c], m, n)
  <2>1. s[c] \in [0 .. 2 * n - 1 -> Byte] /\ Solves(s[c], m, n)
        /\ \A j \in 0 .. 2 * n - 1 : b[c][j] = GfMul(u, s[c][j])
    BY <1>2, <1>3, <1>6 DEF last
  <2> HIDE DEF Solves
  <2> QED
    BY <2>1, SolvesScaled
<1>9. ASSUME NEW i \in 0 .. n - 1, i # c PROVE Solves(b[i], m, n)
  <2> DEFINE fw == [j \in 0 .. 2 * n - 1 |-> GfMul(s[i][c], b[c][j])]
  <2>0. s[i][c] \in Byte /\ b[c] \in [0 .. 2 * n - 1 -> Byte]
        /\ s[i] \in [0 .. 2 * n - 1 -> Byte] /\ Solves(s[i], m, n)
    BY <1>3, <1>4, <1>6 DEF last
  <2>1. \A j \in 0 .. 2 * n - 1 : fw[j] = GfMul(s[i][c], b[c][j])
    OBVIOUS
  <2>2. \A x, y \in Byte : GfMul(x, y) \in Byte
    BY MulLaws
  <2>3. fw \in [0 .. 2 * n - 1 -> Byte]
    BY <2>0, <2>2
  <2>4. \A j \in 0 .. 2 * n - 1 : b[i][j] = GfAdd(s[i][j], fw[j])
    BY <1>2, <1>9 DEF last
  <2> HIDE DEF fw
  <2>5. Solves(fw, m, n)
    BY <1>8, <2>0, <2>1, SolvesScaled
  <2> QED
    BY <2>0, <2>3, <2>4, <2>5, SolvesAdded
<1>10. ASSUME NEW v, Bytes(v, n), Vanishes(b, v, n) PROVE Vanishes(m, v, n)
  <2>1. \A i \in 0 .. n - 1 : Bytes(s[i], n) /\ Bytes(b[i], n) /\ Dot(b[i], v, n) = 0
    BY <1>4, <1>10 DEF Bytes, Vanishes
  <2>2. Dot(s[c], v, n) = 0
    <3> DEFINE d == a[p][c]
    <3>1. \A k \in 0 .. n - 1 : s[c][k] = GfMul(d, b[c][k])
      <4> SUFFICES ASSUME NEW k \in 0 .. n - 1 PROVE s[c][k] = GfMul(d, b[c][k])
        OBVIOUS
      <4>1. b[c][k] = GfMul(u, s[c][k]) /\ s[c][k] \in Byte /\ d \in Byte
        BY <1>0, <1>2, <1>4
      <4>2. GfMul(GfMul(d, u), s[c][k]) = GfMul(d, GfMul(u, s[c][k])) /\ GfMul(d, u) = GfMul(u, d)
        BY <4>1, MulLaws
      <4>3. GfMul(1, s[c][k]) = s[c][k]
        BY <4>1, MulLaws
      <4> QED
        BY <4>1, <4>2, <4>3
    <3>2. d \in Byte /\ GfMul(d, 0) = 0
      BY <1>0, MulLaws
    <3> HIDE DEF d
    <3>3. Dot(s[c], v, n) = GfMul(d, Dot(b[c], v, n))
      <4>1. Bytes(b[c], n) /\ d \in Byte
        BY <2>1, <3>2
      <4> QED
        BY <1>10, <3>1, <4>1, DotScaled
    <3> QED
      BY <2>1, <3>2, <3>3
  <2>3. ASSUME NEW i \in 0 .. n - 1, i # c PROVE Dot(s[i], v, n) = 0
    <3>1. \A k \in 0 .. n - 1 : b[i][k] = GfAdd(s[i][k], GfMul(s[i][c], b[c][k]))
      BY <1>0, <1>2, <2>3
    <3>2. s[i][c] \in Byte
      BY <1>4
    <3> QED
      BY <1>10, <2>1, <3>1, <3>2, Undone
  <2>4. \A i \in 0 .. n - 1 : Dot(s[i], v, n) = 0
    BY <2>2, <2>3
  <2>5. Vanishes(a, v, n)
    BY <1>1, <2>4 DEF Vanishes
  <2> QED
    BY <1>10, <2>5 DEF Reduced
<1> QED
  BY <1>7, <1>8, <1>9, <1>10 DEF Reduced

LEMMA ReducedAtFirst ==
  ASSUME NEW n \in Nat, NEW m, DOMAIN m = 0 .. n - 1, Square(m, n)
  PROVE  Reduced(Augmented(m), 0, m, n)
<1> DEFINE a == Augmented(m)
<1>0. 0 \in Byte /\ 1 \in Byte
  BY DEF Byte
<1>1. Cardinality(DOMAIN m) = n
  <2>1. Cardinality(0 .. n - 1) = IF 0 > n - 1 THEN 0 ELSE n - 1 - 0 + 1
    BY FS_Interval
  <2> QED
    BY <2>1
<1>2. a = [i \in 0 .. n - 1 |-> [j \in 0 .. 2 * n - 1 |->
             IF j < n THEN m[i][j] ELSE IF j = n + i THEN 1 ELSE 0]]
  BY <1>1 DEF Augmented
<1>3. \A i, j \in 0 .. n - 1 : m[i][j] \in Byte
  BY DEF Square, Bytes
<1> HIDE DEF a
<1>4. a \in Augments(n)
  <2> SUFFICES ASSUME NEW i \in 0 .. n - 1, NEW j \in 0 .. 2 * n - 1
               PROVE  (IF j < n THEN m[i][j] ELSE IF j = n + i THEN 1 ELSE 0) \in Byte
    BY <1>2 DEF Augments
  <2>1. j < n => j \in 0 .. n - 1
    OBVIOUS
  <2> QED
    BY <1>0, <1>3, <2>1
<1>5. \A i, j \in 0 .. n - 1 : /\ a[i][j] = m[i][j]
                               /\ a[i][n + j] = IF j = i THEN 1 ELSE 0
  <2> SUFFICES ASSUME NEW i \in 0 .. n - 1, NEW j \in 0 .. n - 1
               PROVE  a[i][j] = m[i][j] /\ a[i][n + j] = IF j = i THEN 1 ELSE 0
    OBVIOUS
  <2>1. j \in 0 .. 2 * n - 1 /\ n + j \in 0 .. 2 * n - 1 /\ j < n /\ ~(n + j < n)
        /\ (n + j = n + i <=> j = i)
    OBVIOUS
  <2> QED
    BY <1>2, <2>1
<1>6. UnitColumns(a, 0, n)
  BY DEF UnitColumns
<1>7. ASSUME NEW i \in 0 .. n - 1 PROVE Solves(a[i], m, n)
  <2> SUFFICES ASSUME NEW j \in 0 .. n - 1
               PROVE  Dot(Right(a[i], n), Column(m, j, n), n) = a[i][j]
    BY DEF Solves
  <2> DEFINE X == Right(a[i], n)
             M == Column(m, j, n)
  <2>1. \A k \in 0 .. n - 1 : X[k] = IF k = i THEN 1 ELSE 0
    BY <1>5 DEF Right
  <2>2. Bytes(M, n) /\ M[i] = m[i][j]
    BY <1>3 DEF Bytes, Column
  <2> HIDE DEF X, M
  <2>3. Dot(X, M, n) = M[i]
    BY <2>1, <2>2, DotUnit
  <2>4. Dot(X, M, n) = a[i][j]
    BY <1>5, <2>2, <2>3
  <2> QED
    BY <2>4 DEF X, M
<1>8. ASSUME NEW v, Bytes(v, n), Vanishes(a, v, n) PROVE Vanishes(m, v, n)
  <2> SUFFICES ASSUME NEW i \in 0 .. n - 1 PROVE Dot(m[i], v, n) = 0
    BY DEF Vanishes
  <2>1. \A k \in 0 .. n - 1 : a[i][k] = m[i][k] /\ v[k] = v[k]
    BY <1>5
  <2>2. Dot(a[i], v, n) = Dot(m[i], v, n)
    BY <2>1, DotSame
  <2> QED
    BY <1>8, <2>2 DEF Vanishes
<1> QED
  BY <1>4, <1>6, <1>7, <1>8 DEF Reduced, a

(* Without a pivot, the column is a sum of those before it, and so it is   *)
(* in the matrix.                                                          *)
LEMMA NoPivot ==
  ASSUME NEW n \in Nat, NEW m, NEW c \in 0 .. n - 1, NEW a, Reduced(a, c, m, n),
         Pivots(a, c) = {}
  PROVE  \E v : Bytes(v, n) /\ Vanishes(m, v, n) /\ v[c] # 0
<1> DEFINE v == [k \in 0 .. n - 1 |-> IF k < c THEN a[k][c] ELSE IF k = c THEN 1 ELSE 0]
<1>0. 0 \in Byte /\ 1 \in Byte
  BY DEF Byte
<1>1. DOMAIN a = 0 .. n - 1 /\ \A i, j \in 0 .. n - 1 : a[i][j] \in Byte
  <2>1. 0 .. n - 1 \subseteq 0 .. 2 * n - 1 /\ a \in [0 .. n - 1 -> [0 .. 2 * n - 1 -> Byte]]
    BY DEF Reduced, Augments
  <2> QED
    BY <2>1
<1>2. \A i \in 0 .. n - 1 : i >= c => a[i][c] = 0
  BY <1>1 DEF Pivots
<1>3. Bytes(v, n) /\ v[c] = 1
  BY <1>0, <1>1 DEF Bytes
<1>4. \A i \in 0 .. n - 1, j \in 0 .. c - 1 : a[i][j] = IF i = j THEN 1 ELSE 0
  BY DEF Reduced, UnitColumns
<1>5. ASSUME NEW i \in 0 .. n - 1 PROVE Dot(a[i], v, n) = 0
  <2> DEFINE f == [k \in 0 .. n - 1 |-> GfMul(a[i][k], v[k])]
             g == [k \in 0 .. n - 1 |-> IF k = i THEN a[i][c] ELSE 0]
             h == [k \in 0 .. n - 1 |-> IF k = c THEN a[i][c] ELSE 0]
  <2>0. /\ \A b \in Byte : GfMul(1, b) = b /\ GfMul(0, b) = 0 /\ GfMul(b, 1) = b /\ GfMul(b, 0) = 0
        /\ \A b \in Byte : GfAdd(0, b) = b /\ GfAdd(b, 0) = b /\ GfAdd(b, b) = 0
        /\ a[i][c] \in Byte
    BY <1>0, <1>1, MulLaws, AddLaws
  <2>1. CASE i < c
    <3>1. \A k \in 0 .. n - 1 : f[k] = GfAdd(g[k], h[k])
      <4> SUFFICES ASSUME NEW k \in 0 .. n - 1 PROVE f[k] = GfAdd(g[k], h[k])
        OBVIOUS
      <4>1. CASE k < c
        <5>1. a[i][k] = IF i = k THEN 1 ELSE 0
          BY <1>4, <4>1
        <5>2. v[k] = a[k][c] /\ a[k][c] \in Byte /\ h[k] = 0
          BY <1>1, <4>1
        <5>3. f[k] = GfMul(a[i][k], v[k])
          OBVIOUS
        <5> HIDE DEF f, v, h
        <5>4. f[k] = IF k = i THEN a[i][c] ELSE 0
          BY <2>0, <5>1, <5>2, <5>3
        <5>5. GfAdd(g[k], 0) = g[k]
          BY <1>0, <2>0
        <5> QED
          BY <5>2, <5>4, <5>5
      <4>2. CASE k = c
        <5>1. v[k] = 1 /\ g[k] = 0 /\ h[k] = a[i][c] /\ f[k] = GfMul(a[i][c], v[k])
          BY <2>1, <4>2
        <5> QED
          BY <2>0, <5>1
      <4>3. CASE k > c
        <5>1. v[k] = 0 /\ g[k] = 0 /\ h[k] = 0 /\ f[k] = GfMul(a[i][k], v[k]) /\ a[i][k] \in Byte
          BY <1>1, <2>1, <4>3
        <5> QED
          BY <1>0, <2>0, <5>1
      <4> QED
        BY <4>1, <4>2, <4>3
    <3>2. g[i] = a[i][c] /\ h[c] = a[i][c] /\ \A k \in 0 .. n - 1 : (k # i => g[k] = 0) /\ (k # c => h[k] = 0)
      OBVIOUS
    <3>3. Dot(a[i], v, n) = GfSum(f, n)
      BY DEF Dot
    <3> HIDE DEF f, g, h, v
    <3>4. g[i] \in Byte /\ h[c] \in Byte
      BY <2>0, <3>2
    <3>5. Bytes(g, n) /\ GfSum(g, n) = g[i]
      BY <3>2, <3>4, SumOfOne
    <3>6. Bytes(h, n) /\ GfSum(h, n) = h[c]
      BY <3>2, <3>4, SumOfOne
    <3>7. GfSum(f, n) = GfAdd(GfSum(g, n), GfSum(h, n))
      BY <3>1, <3>5, <3>6, SumsAdd
    <3> QED
      BY <2>0, <3>2, <3>3, <3>5, <3>6, <3>7
  <2>2. CASE i >= c
    <3>1. \A k \in 0 .. n - 1 : f[k] = 0
      <4> SUFFICES ASSUME NEW k \in 0 .. n - 1 PROVE GfMul(a[i][k], v[k]) = 0
        OBVIOUS
      <4>0. v[k] \in Byte /\ a[i][k] \in Byte
        BY <1>1, <1>3 DEF Bytes
      <4>1. CASE k < c
        <5>1. a[i][k] = 0
          BY <1>4, <2>2, <4>1
        <5> QED
          BY <2>0, <4>0, <5>1
      <4>2. CASE k = c
        <5>1. a[i][k] = 0
          BY <1>2, <2>2, <4>2
        <5> QED
          BY <2>0, <4>0, <5>1
      <4>3. CASE k > c
        <5>1. v[k] = 0
          BY <4>3
        <5> QED
          BY <2>0, <4>0, <5>1
      <4> QED
        BY <4>1, <4>2, <4>3
    <3>2. Dot(a[i], v, n) = GfSum(f, n)
      BY DEF Dot
    <3> HIDE DEF f, v
    <3> QED
      BY <3>1, <3>2, SumOfNone
  <2> QED
    BY <2>1, <2>2
<1> HIDE DEF v
<1>6. Vanishes(a, v, n)
  BY <1>5 DEF Vanishes
<1>7. Vanishes(m, v, n)
  BY <1>3, <1>6 DEF Reduced
<1> QED
  BY <1>3, <1>7

(* The right half of row i times r.                                        *)
RightTimes(a, r, i, n) == GfSum([k \in 0 .. n - 1 |-> GfMul(a[i][n + k], r[k])], n)

(* At the end, the right half takes m d to d.                              *)
LEMMA Inverts ==
  ASSUME NEW n \in Nat, NEW m, Square(m, n), NEW a, Reduced(a, n, m, n),
         NEW d, Bytes(d, n), NEW r, \A k \in 0 .. n - 1 : r[k] = Dot(m[k], d, n),
         NEW i \in 0 .. n - 1
  PROVE  RightTimes(a, r, i, n) = d[i]
<1> DEFINE x == Right(a[i], n)
           md == [k \in 0 .. n - 1 |-> Dot(m[k], d, n)]
           unit == [j \in 0 .. n - 1 |-> Dot(x, [k \in 0 .. n - 1 |-> m[k][j]], n)]
<1>1. [k \in 0 .. n - 1 |-> GfMul(a[i][n + k], r[k])] = [k \in 0 .. n - 1 |-> GfMul(x[k], md[k])]
  BY DEF Right
<1>2. RightTimes(a, r, i, n) = Dot(x, md, n)
  BY <1>1 DEF Dot, RightTimes
<1>3. Bytes(x, n)
  <2>1. a \in [0 .. n - 1 -> [0 .. 2 * n - 1 -> Byte]] /\ \A k \in 0 .. n - 1 : n + k \in 0 .. 2 * n - 1
    BY DEF Reduced, Augments
  <2>2. \A k \in 0 .. n - 1 : a[i][n + k] \in Byte
    BY <2>1
  <2> QED
    BY <2>2 DEF Bytes, Right
<1>4. \A j \in 0 .. n - 1 : unit[j] = IF j = i THEN 1 ELSE 0
  <2> SUFFICES ASSUME NEW j \in 0 .. n - 1 PROVE unit[j] = IF j = i THEN 1 ELSE 0
    OBVIOUS
  <2>1. unit[j] = Dot(x, Column(m, j, n), n)
    BY DEF Column
  <2>2. Dot(x, Column(m, j, n), n) = a[i][j]
    BY DEF Reduced, Solves
  <2>3. a[i][j] = IF i = j THEN 1 ELSE 0
    BY DEF Reduced, UnitColumns
  <2> QED
    BY <2>1, <2>2, <2>3
<1> HIDE DEF x
<1>5. Dot(x, md, n) = Dot(unit, d, n)
  BY <1>3, DotAssociates DEF Square
<1> HIDE DEF unit, md
<1>6. Dot(unit, d, n) = d[i]
  BY <1>4, DotUnit
<1> QED
  BY <1>2, <1>5, <1>6

-----------------------------------------------------------------------------
(* The Cauchy matrix.                                                      *)

(* Factors are taken in any order.                                         *)
LEMMA MulSwap ==
  ASSUME NEW a \in Byte, NEW b \in Byte, NEW c \in Byte
  PROVE  GfMul(a, GfMul(b, c)) = GfMul(b, GfMul(a, c))
<1>1. GfMul(GfMul(a, b), c) = GfMul(a, GfMul(b, c))
  BY MulLaws
<1>2. GfMul(GfMul(b, a), c) = GfMul(b, GfMul(a, c))
  BY MulLaws
<1>3. GfMul(a, b) = GfMul(b, a)
  BY MulLaws
<1> QED
  BY <1>1, <1>2, <1>3

(* Every byte is its own negative.                                         *)
LEMMA AddZero ==
  ASSUME NEW a \in Byte, NEW b \in Byte
  PROVE  GfAdd(a, b) = 0 <=> a = b
<1>1. 0 \in Byte
  BY DEF Byte
<1>2. ASSUME GfAdd(a, b) = 0 PROVE a = b
  <2>1. GfAdd(GfAdd(a, b), b) = GfAdd(a, GfAdd(b, b))
    BY AddLaws
  <2>2. GfAdd(b, b) = 0 /\ GfAdd(a, 0) = a /\ GfAdd(0, b) = GfAdd(b, 0) /\ GfAdd(b, 0) = b
    BY <1>1, AddLaws
  <2> QED
    BY <1>2, <2>1, <2>2
<1> QED
  BY <1>2, AddLaws

(* e / a, where e = a + d and ia = 1 / a.                                  *)
LEMMA Quotient ==
  ASSUME NEW a \in Byte, NEW d \in Byte, NEW ia \in Byte, NEW v \in Byte, GfMul(a, ia) = 1
  PROVE  GfMul(GfAdd(a, d), GfMul(ia, v)) = GfAdd(v, GfMul(GfMul(d, v), ia))
<1> DEFINE t == GfMul(ia, v)
<1>1. t \in Byte /\ GfAdd(a, d) \in Byte /\ GfMul(d, v) \in Byte
  BY MulLaws, AddLaws
<1>2. GfMul(GfAdd(a, d), t) = GfAdd(GfMul(a, t), GfMul(d, t))
  <2>1. GfMul(t, GfAdd(a, d)) = GfAdd(GfMul(t, a), GfMul(t, d))
    BY <1>1, MulAdds
  <2>2. \A x \in Byte : GfMul(t, x) = GfMul(x, t)
    BY <1>1, MulLaws
  <2> HIDE DEF t
  <2> QED
    BY <1>1, <2>1, <2>2
<1>3. GfMul(a, t) = v
  <2>1. GfMul(GfMul(a, ia), v) = GfMul(a, t)
    BY MulLaws
  <2>2. GfMul(1, v) = v
    BY MulLaws
  <2> QED
    BY <2>1, <2>2
<1>4. GfMul(d, t) = GfMul(GfMul(d, v), ia)
  <2>1. GfMul(ia, v) = GfMul(v, ia)
    BY MulLaws
  <2>2. GfMul(GfMul(d, v), ia) = GfMul(d, GfMul(v, ia))
    BY MulLaws
  <2> QED
    BY <2>1, <2>2
<1> QED
  BY <1>2, <1>3, <1>4

(* A term of row x, with its entry in column y0 taken out, less the same   *)
(* of row x0.                                                              *)
TermTaken(x, x0, y, y0, v, ia, ib) ==
  GfAdd(GfMul(GfAdd(x, y0), GfMul(ia, v)), GfMul(GfAdd(x0, y0), GfMul(ib, v)))
    = GfMul(GfAdd(x, x0), GfMul(ia, GfMul(v, GfMul(GfAdd(y, y0), ib))))

(* One entry of a row of which another row's multiple has been taken away. *)
LEMMA CauchyTerm ==
  ASSUME NEW x \in Byte, NEW x0 \in Byte, NEW y \in Byte, NEW y0 \in Byte, NEW v \in Byte,
         NEW ia \in Byte, NEW ib \in Byte,
         GfMul(GfAdd(x, y), ia) = 1, GfMul(GfAdd(x0, y), ib) = 1
  PROVE  TermTaken(x, x0, y, y0, v, ia, ib)
<1> DEFINE a == GfAdd(x, y)
           b == GfAdd(x0, y)
           d == GfAdd(y, y0)
           dv == GfMul(d, v)
<1>1. a \in Byte /\ b \in Byte /\ d \in Byte /\ GfAdd(x, x0) \in Byte /\ 0 \in Byte
  <2>1. 0 \in Byte
    BY DEF Byte
  <2> QED
    BY <2>1, AddLaws
<1>2. \A s \in Byte : GfAdd(GfAdd(s, y), d) = GfAdd(s, y0)
  <2> SUFFICES ASSUME NEW s \in Byte PROVE GfAdd(GfAdd(s, y), d) = GfAdd(s, y0)
    OBVIOUS
  <2>1. GfAdd(GfAdd(s, y), d) = GfAdd(s, GfAdd(y, d))
    BY <1>1, AddLaws
  <2>2. GfAdd(GfAdd(y, y), y0) = GfAdd(y, d)
    BY AddLaws
  <2>3. GfAdd(y, y) = 0 /\ GfAdd(0, y0) = GfAdd(y0, 0) /\ GfAdd(y0, 0) = y0
    BY <1>1, AddLaws
  <2> QED
    BY <2>1, <2>2, <2>3
<1>3. GfAdd(a, d) = GfAdd(x, y0) /\ GfAdd(b, d) = GfAdd(x0, y0)
  BY <1>2
<1>4. GfAdd(a, b) = GfAdd(x, x0)
  <2>1. GfAdd(GfAdd(x, y), GfAdd(x0, y)) = GfAdd(GfAdd(x, x0), GfAdd(y, y))
    BY Shuffle
  <2>2. GfAdd(y, y) = 0 /\ GfAdd(GfAdd(x, x0), 0) = GfAdd(x, x0)
    BY <1>1, AddLaws
  <2> QED
    BY <2>1, <2>2
<1>5. GfMul(a, ia) = 1 /\ GfMul(b, ib) = 1
  OBVIOUS
<1> HIDE DEF a, b, d
<1>6. dv \in Byte /\ GfMul(dv, ia) \in Byte /\ GfMul(dv, ib) \in Byte
  BY <1>1, MulLaws
<1>7. /\ GfMul(GfAdd(a, d), GfMul(ia, v)) = GfAdd(v, GfMul(dv, ia))
      /\ GfMul(GfAdd(b, d), GfMul(ib, v)) = GfAdd(v, GfMul(dv, ib))
  BY <1>1, <1>5, Quotient
<1> HIDE DEF dv
<1>8. GfAdd(GfAdd(v, GfMul(dv, ia)), GfAdd(v, GfMul(dv, ib))) = GfMul(dv, GfAdd(ia, ib))
  <2> DEFINE p == GfMul(dv, ia)
             q == GfMul(dv, ib)
  <2>1. p \in Byte /\ q \in Byte
    BY <1>6
  <2>2. GfMul(dv, GfAdd(ia, ib)) = GfAdd(p, q)
    BY <1>6, MulAdds
  <2> HIDE DEF p, q
  <2>3. GfAdd(GfAdd(v, p), GfAdd(v, q)) = GfAdd(GfAdd(v, v), GfAdd(p, q))
    BY <2>1, Shuffle
  <2>4. GfAdd(v, v) = 0 /\ GfAdd(p, q) \in Byte
    BY <2>1, AddLaws
  <2>5. GfAdd(0, GfAdd(p, q)) = GfAdd(p, q)
    BY <1>1, <2>4, AddLaws
  <2> QED
    BY <2>2, <2>3, <2>4, <2>5 DEF p, q
<1>9. GfAdd(ia, ib) = GfMul(GfAdd(a, b), GfMul(ia, ib))
  <2> DEFINE t == GfMul(ia, ib)
  <2>1. t \in Byte
    BY MulLaws
  <2>2. GfMul(t, GfAdd(a, b)) = GfAdd(GfMul(t, a), GfMul(t, b))
    BY <1>1, <2>1, MulAdds
  <2>3. \A s \in Byte : GfMul(t, s) = GfMul(s, t)
    BY <2>1, MulLaws
  <2>4. GfMul(a, t) = ib
    <3>1. GfMul(GfMul(a, ia), ib) = GfMul(a, t)
      BY <1>1, MulLaws
    <3> QED
      BY <1>5, <3>1, MulLaws
  <2>5. GfMul(b, t) = ia
    <3>1. GfMul(b, GfMul(ia, ib)) = GfMul(ia, GfMul(b, ib))
      BY <1>1, MulSwap
    <3>2. 1 \in Byte
      BY DEF Byte
    <3>3. GfMul(ia, 1) = GfMul(1, ia) /\ GfMul(1, ia) = ia
      BY <3>2, MulLaws
    <3> QED
      BY <1>5, <3>1, <3>3
  <2>6. GfAdd(a, b) \in Byte /\ GfAdd(ib, ia) = GfAdd(ia, ib)
    BY <1>1, AddLaws
  <2> HIDE DEF t
  <2>7. GfMul(GfAdd(a, b), t) = GfAdd(GfMul(a, t), GfMul(b, t))
    BY <1>1, <2>2, <2>3, <2>6
  <2> QED
    BY <2>4, <2>5, <2>6, <2>7 DEF t
<1>10. GfMul(dv, GfMul(GfAdd(a, b), GfMul(ia, ib)))
         = GfMul(GfAdd(a, b), GfMul(ia, GfMul(v, GfMul(d, ib))))
  <2> DEFINE s == GfAdd(a, b)
             t == GfMul(ia, ib)
  <2>1. s \in Byte /\ t \in Byte
    BY <1>1, AddLaws, MulLaws
  <2>2. GfMul(dv, GfMul(s, t)) = GfMul(s, GfMul(dv, t))
    BY <1>6, <2>1, MulSwap
  <2>3. GfMul(dv, GfMul(ia, ib)) = GfMul(ia, GfMul(dv, ib))
    BY <1>6, MulSwap
  <2>4. GfMul(dv, ib) = GfMul(v, GfMul(d, ib))
    <3>1. GfMul(GfMul(v, d), ib) = GfMul(v, GfMul(d, ib))
      BY <1>1, MulLaws
    <3>2. GfMul(v, d) = GfMul(d, v)
      BY <1>1, MulLaws
    <3> QED
      BY <3>1, <3>2 DEF dv
  <2> HIDE DEF s
  <2> QED
    BY <2>2, <2>3, <2>4 DEF s
<1> QED
  BY <1>3, <1>4, <1>7, <1>8, <1>9, <1>10 DEF d, TermTaken

Sizes == 1 .. 128

(* Row p of the Cauchy matrix, unless 2 * n exceeds the bytes.             *)
CauchyRow(p, n) == [j \in 0 .. n - 1 |-> GfInv(GfAdd(p, n + j))]

(* Where v is not 0.                                                       *)
Support(v, n) == {j \in 0 .. n - 1 : v[j] # 0}

(* Of finitely many entries, finitely many are not 0.                      *)
LEMMA SupportFacts ==
  ASSUME NEW n \in Nat, NEW v
  PROVE  IsFiniteSet(Support(v, n)) /\ Cardinality(Support(v, n)) \in Nat
<1>1. IsFiniteSet(0 .. n - 1)
  BY FS_Interval
<1>2. Support(v, n) \in SUBSET (0 .. n - 1)
  BY DEF Support
<1>3. IsFiniteSet(Support(v, n))
  BY <1>1, <1>2, FS_Subset
<1> QED
  BY <1>3, FS_CardinalityType

(* Its entries are the inverses of bytes that are not 0.                   *)
Inverses(row, p, n) ==
  /\ p \in Byte
  /\ \A j \in 0 .. n - 1 :
       /\ n + j \in Byte /\ GfAdd(p, n + j) \in Byte /\ row[j] \in Byte
       /\ GfMul(GfAdd(p, n + j), row[j]) = 1 /\ row[j] # 0

(* The entries of the Cauchy matrix are inverses: x_i + y_j is never 0.    *)
LEMMA CauchyEntries ==
  ASSUME NEW n \in Sizes, NEW p \in 0 .. n - 1
  PROVE  Inverses(CauchyRow(p, n), p, n)
<1>1. p \in Byte /\ \A j \in 0 .. n - 1 : n + j \in Byte /\ p # n + j
  BY DEF Byte, Sizes
<1>2. \A s \in Byte : s # 0 => s \in Units
  BY DEF Byte, Units
<1>3. Units \subseteq Byte /\ 0 \notin Units
  BY DEF Byte, Units
<1> SUFFICES ASSUME NEW j \in 0 .. n - 1
             PROVE  /\ GfAdd(p, n + j) \in Byte /\ CauchyRow(p, n)[j] \in Byte
                    /\ GfMul(GfAdd(p, n + j), CauchyRow(p, n)[j]) = 1 /\ CauchyRow(p, n)[j] # 0
  BY <1>1 DEF Inverses
<1>4. GfAdd(p, n + j) \in Byte /\ GfAdd(p, n + j) # 0
  BY <1>1, AddLaws, AddZero
<1>5. GfAdd(p, n + j) \in Units
  BY <1>2, <1>4
<1>6. GfInv(GfAdd(p, n + j)) \in Units /\ GfMul(GfAdd(p, n + j), GfInv(GfAdd(p, n + j))) = 1
  BY <1>5, InvLaws
<1>7. CauchyRow(p, n)[j] = GfInv(GfAdd(p, n + j))
  BY DEF CauchyRow
<1> QED
  BY <1>3, <1>4, <1>6, <1>7

(* The v of one row less and one column less.                              *)
Without(v, p, i, n) ==
  [j \in 0 .. n - 1 |-> GfMul(v[j], GfMul(GfAdd(n + j, n + i), CauchyRow(p, n)[j]))]

(* The vector Without leaves has one entry less that is not 0.             *)
LEMMA WithoutFacts ==
  ASSUME NEW n \in Sizes, NEW v, Bytes(v, n), NEW p \in 0 .. n - 1, NEW i \in 0 .. n - 1
  PROVE  /\ Bytes(Without(v, p, i, n), n)
         /\ Support(Without(v, p, i, n), n) = Support(v, n) \ {i}
<1> DEFINE w == Without(v, p, i, n)
           row == CauchyRow(p, n)
<1>1. \A j \in 0 .. n - 1 : n + j \in Byte /\ row[j] \in Byte /\ row[j] # 0 /\ v[j] \in Byte
  BY CauchyEntries DEF Bytes, Inverses
<1>2. \A j \in 0 .. n - 1 : w[j] = GfMul(v[j], GfMul(GfAdd(n + j, n + i), row[j]))
  BY DEF Without
<1> HIDE DEF w, row
<1>3. ASSUME NEW j \in 0 .. n - 1
      PROVE  w[j] \in Byte /\ (w[j] = 0 <=> v[j] = 0 \/ j = i)
  <2> DEFINE d == GfAdd(n + j, n + i)
  <2>1. n + j \in Byte /\ n + i \in Byte /\ row[j] \in Byte /\ row[j] # 0 /\ v[j] \in Byte
    BY <1>1
  <2>2. d \in Byte /\ (d = 0 <=> n + j = n + i)
    BY <2>1, AddLaws, AddZero
  <2>3. n + j = n + i <=> j = i
    BY DEF Sizes
  <2>4. w[j] = GfMul(v[j], GfMul(d, row[j]))
    BY <1>2
  <2> HIDE DEF d
  <2>5. GfMul(d, row[j]) \in Byte /\ (GfMul(d, row[j]) = 0 <=> d = 0)
    BY <2>1, <2>2, MulLaws
  <2> DEFINE e == GfMul(d, row[j])
  <2>6. w[j] = GfMul(v[j], e) /\ e \in Byte /\ (e = 0 <=> d = 0)
    BY <2>4, <2>5
  <2> HIDE DEF e
  <2>7. GfMul(v[j], e) \in Byte /\ (GfMul(v[j], e) = 0 <=> v[j] = 0 \/ e = 0)
    BY <2>1, <2>6, MulLaws
  <2> QED
    BY <2>2, <2>3, <2>6, <2>7
<1>4. Bytes(w, n)
  BY <1>3 DEF Bytes
<1>5. Support(w, n) = Support(v, n) \ {i}
  BY <1>3 DEF Support
<1> QED
  BY <1>4, <1>5 DEF w

(* Subtracting row p0 from row p, either without its entry in column i.    *)
LEMMA RowTaken ==
  ASSUME NEW n \in Sizes, NEW v, Bytes(v, n), NEW i \in 0 .. n - 1,
         NEW p0 \in 0 .. n - 1, NEW p \in 0 .. n - 1, p # p0,
         Dot(CauchyRow(p, n), v, n) = 0, Dot(CauchyRow(p0, n), v, n) = 0
  PROVE  Dot(CauchyRow(p, n), Without(v, p0, i, n), n) = 0
<1> DEFINE a == CauchyRow(p, n)
           b == CauchyRow(p0, n)
           w == Without(v, p0, i, n)
           ea == GfAdd(p, n + i)
           eb == GfAdd(p0, n + i)
           d == GfAdd(p, p0)
           f == [j \in 0 .. n - 1 |-> GfMul(ea, GfMul(a[j], v[j]))]
           g == [j \in 0 .. n - 1 |-> GfMul(eb, GfMul(b[j], v[j]))]
           h == [j \in 0 .. n - 1 |-> GfMul(d, GfMul(a[j], w[j]))]
           av == [j \in 0 .. n - 1 |-> GfMul(a[j], v[j])]
           bv == [j \in 0 .. n - 1 |-> GfMul(b[j], v[j])]
           aw == [j \in 0 .. n - 1 |-> GfMul(a[j], w[j])]
<1>0. n \in Nat /\ 0 \in Byte
  BY DEF Byte, Sizes
<1>1. /\ p \in Byte /\ p0 \in Byte /\ ea \in Byte /\ eb \in Byte
      /\ \A j \in 0 .. n - 1 : /\ n + j \in Byte /\ a[j] \in Byte /\ b[j] \in Byte
                               /\ GfMul(GfAdd(p, n + j), a[j]) = 1
                               /\ GfMul(GfAdd(p0, n + j), b[j]) = 1
  <2>1. Inverses(a, p, n) /\ Inverses(b, p0, n)
    BY CauchyEntries
  <2>2. ea \in Byte /\ eb \in Byte
    BY <2>1 DEF Inverses
  <2> HIDE DEF a, b, ea, eb
  <2> QED
    BY <2>1, <2>2 DEF Inverses
<1>2. d \in Byte /\ d # 0
  BY <1>1, AddLaws, AddZero
<1>3. Bytes(w, n) /\ \A j \in 0 .. n - 1 : v[j] \in Byte
  <2>1. Bytes(w, n)
    BY WithoutFacts
  <2> QED
    BY <2>1 DEF Bytes
<1>4. \A j \in 0 .. n - 1 : GfAdd(f[j], g[j]) = h[j]
  <2> SUFFICES ASSUME NEW j \in 0 .. n - 1 PROVE GfAdd(f[j], g[j]) = h[j]
    OBVIOUS
  <2>1. w[j] = GfMul(v[j], GfMul(GfAdd(n + j, n + i), b[j]))
    BY DEF Without
  <2>2. n + j \in Byte /\ n + i \in Byte /\ v[j] \in Byte /\ a[j] \in Byte /\ b[j] \in Byte
        /\ GfMul(GfAdd(p, n + j), a[j]) = 1 /\ GfMul(GfAdd(p0, n + j), b[j]) = 1
        /\ p \in Byte /\ p0 \in Byte
    BY <1>1, <1>3
  <2>3. /\ f[j] = GfMul(ea, GfMul(a[j], v[j])) /\ g[j] = GfMul(eb, GfMul(b[j], v[j]))
        /\ h[j] = GfMul(d, GfMul(a[j], w[j]))
    OBVIOUS
  <2> HIDE DEF f, g, h, w, a, b, ea, eb, d
  <2>4. TermTaken(p, p0, n + j, n + i, v[j], a[j], b[j])
    BY <2>2, CauchyTerm
  <2> QED
    BY <2>1, <2>3, <2>4 DEF TermTaken, ea, eb, d
<1>5. Bytes(a, n) /\ Bytes(b, n)
  BY <1>1 DEF Bytes
<1>6. /\ Dot(a, v, n) = GfSum(av, n) /\ Dot(b, v, n) = GfSum(bv, n) /\ Dot(a, w, n) = GfSum(aw, n)
  BY DEF Dot
<1>7. /\ \A j \in 0 .. n - 1 : f[j] = GfMul(ea, av[j])
      /\ \A j \in 0 .. n - 1 : g[j] = GfMul(eb, bv[j])
      /\ \A j \in 0 .. n - 1 : h[j] = GfMul(d, aw[j])
  OBVIOUS
<1> HIDE DEF a, b, w, ea, eb, d
<1>8. Bytes(av, n) /\ Bytes(bv, n) /\ Bytes(aw, n)
  BY <1>0, <1>3, <1>5, DotByte
<1> HIDE DEF f, g, h, av, bv, aw
<1>9. Bytes(f, n) /\ GfSum(f, n) = GfMul(ea, GfSum(av, n))
  BY <1>0, <1>1, <1>7, <1>8, SumScaled
<1>10. Bytes(g, n) /\ GfSum(g, n) = GfMul(eb, GfSum(bv, n))
  BY <1>0, <1>1, <1>7, <1>8, SumScaled
<1>11. GfSum(h, n) = GfMul(d, GfSum(aw, n))
  BY <1>0, <1>2, <1>7, <1>8, SumScaled
<1>12. GfSum(h, n) = GfAdd(GfSum(f, n), GfSum(g, n))
  <2>1. \A j \in 0 .. n - 1 : h[j] = GfAdd(f[j], g[j])
    BY <1>4
  <2> QED
    BY <1>0, <1>9, <1>10, <2>1, SumsAdd
<1>13. GfSum(f, n) = 0 /\ GfSum(g, n) = 0
  <2>1. GfSum(av, n) = 0 /\ GfSum(bv, n) = 0
    BY <1>6 DEF a, b
  <2>2. GfMul(ea, 0) = 0 /\ GfMul(eb, 0) = 0
    BY <1>0, <1>1, MulLaws
  <2> QED
    BY <1>9, <1>10, <2>1, <2>2
<1>14. GfMul(d, GfSum(aw, n)) = 0
  <2>1. GfAdd(0, 0) = 0
    BY <1>0, AddLaws
  <2> QED
    BY <1>11, <1>12, <1>13, <2>1
<1>15. Dot(a, w, n) \in Byte
  BY <1>0, <1>3, <1>5, DotByte
<1>16. Dot(a, w, n) = 0
  BY <1>2, <1>6, <1>14, <1>15, MulLaws
<1> QED
  BY <1>16 DEF a, w

(* No v but 0 is taken to 0 by as many rows as it has entries that are not *)
(* 0: every square part of the matrix of reed_solomon.rs can be inverted,  *)
(* for sets of up to 128 data shreds, so that any of the code shreds       *)
(* replace as many missing data shreds.                                    *)
THEOREM CauchyRegular ==
  ASSUME NEW n \in Sizes, NEW P \in SUBSET (0 .. n - 1), NEW v, Bytes(v, n),
         Cardinality(Support(v, n)) <= Cardinality(P),
         \A p \in P : Dot(CauchyRow(p, n), v, n) = 0
  PROVE  Support(v, n) = {}
<1> DEFINE Claim(k) ==
             \A Q \in SUBSET (0 .. n - 1) : \A u :
               /\ Bytes(u, n) /\ Cardinality(Q) = k /\ Cardinality(Support(u, n)) <= k
               /\ \A p \in Q : Dot(CauchyRow(p, n), u, n) = 0
               => Support(u, n) = {}
           S == {k \in 0 .. n : Claim(k)}
<1>0. n \in Nat /\ IsFiniteSet(0 .. n - 1) /\ Cardinality(0 .. n - 1) = n
  <2>1. n \in Nat /\ n >= 1
    BY DEF Sizes
  <2> QED
    BY <2>1, FS_Interval
<1>1. 0 \in S
  <2> SUFFICES ASSUME NEW u, Cardinality(Support(u, n)) <= 0 PROVE Support(u, n) = {}
    BY <1>0
  <2>1. IsFiniteSet(Support(u, n)) /\ Cardinality(Support(u, n)) = 0
    BY <1>0, SupportFacts
  <2> QED
    BY <2>1, FS_EmptySet
<1>2. ASSUME NEW k \in 1 .. n, k - 1 \in S PROVE k \in S
  <2> SUFFICES ASSUME NEW Q \in SUBSET (0 .. n - 1), NEW u, Bytes(u, n), Cardinality(Q) = k,
                      Cardinality(Support(u, n)) <= k,
                      \A p \in Q : Dot(CauchyRow(p, n), u, n) = 0,
                      NEW i \in Support(u, n)
               PROVE  FALSE
    BY <1>2
  <2>0. i \in 0 .. n - 1 /\ u[i] # 0 /\ u[i] \in Byte
    BY DEF Support, Bytes
  <2>1. IsFiniteSet(Q) /\ Q # {}
    <3>1. IsFiniteSet(Q)
      BY <1>0, FS_Subset
    <3> QED
      BY <3>1, FS_EmptySet
  <2>2. PICK p0 \in Q : TRUE
    BY <2>1
  <2> DEFINE w == Without(u, p0, i, n)
  <2>3. p0 \in 0 .. n - 1
    OBVIOUS
  <2>4. Bytes(w, n) /\ Support(w, n) = Support(u, n) \ {i}
    BY <2>0, <2>3, WithoutFacts
  <2>5. \A p \in Q \ {p0} : Dot(CauchyRow(p, n), w, n) = 0
    <3> SUFFICES ASSUME NEW p \in Q, p # p0 PROVE Dot(CauchyRow(p, n), w, n) = 0
      OBVIOUS
    <3>1. p \in 0 .. n - 1 /\ Dot(CauchyRow(p, n), u, n) = 0 /\ Dot(CauchyRow(p0, n), u, n) = 0
      OBVIOUS
    <3> QED
      BY <2>0, <2>3, <3>1, RowTaken
  <2> HIDE DEF w
  <2>6. Cardinality(Q \ {p0}) = k - 1 /\ Q \ {p0} \in SUBSET (0 .. n - 1)
    BY <2>1, FS_RemoveElement
  <2>7. Cardinality(Support(w, n)) <= k - 1
    <3>1. IsFiniteSet(Support(u, n)) /\ Cardinality(Support(u, n)) \in Nat
      BY <1>0, SupportFacts
    <3>2. Cardinality(Support(w, n)) = Cardinality(Support(u, n)) - 1
      BY <2>4, <3>1, FS_RemoveElement
    <3> QED
      BY <3>1, <3>2
  <2>8. Support(w, n) = {}
    <3>1. Claim(k - 1)
      BY <1>2
    <3> HIDE DEF S
    <3> QED
      BY <2>4, <2>5, <2>6, <2>7, <3>1
  <2>9. \A j \in 0 .. n - 1 : j # i => u[j] = 0
    BY <2>4, <2>8 DEF Support
  <2> DEFINE row == CauchyRow(p0, n)
             f == [j \in 0 .. n - 1 |-> GfMul(row[j], u[j])]
  <2>10. \A j \in 0 .. n - 1 : row[j] \in Byte /\ row[j] # 0
    BY <2>3, CauchyEntries DEF Inverses
  <2>11. \A j \in 0 .. n - 1 : j # i => f[j] = 0
    <3>1. \A x \in Byte : GfMul(x, 0) = 0
      <4>1. 0 \in Byte
        BY DEF Byte
      <4> QED
        BY <4>1, MulLaws
    <3> HIDE DEF row
    <3> QED
      BY <2>9, <2>10, <3>1
  <2>12. f[i] \in Byte /\ f[i] # 0
    <3>1. row[i] \in Byte /\ row[i] # 0 /\ f[i] = GfMul(row[i], u[i])
      BY <2>0, <2>10
    <3> HIDE DEF row, f
    <3> QED
      BY <2>0, <3>1, MulLaws
  <2>13. Dot(row, u, n) = GfSum(f, n) /\ Dot(row, u, n) = 0
    BY DEF Dot
  <2> HIDE DEF f, row
  <2>14. GfSum(f, n) = f[i]
    BY <1>0, <2>0, <2>11, <2>12, SumOfOne
  <2> QED
    BY <2>12, <2>13, <2>14
<1> HIDE DEF S
<1>3. \A k \in 0 .. n : k \in S
  BY <1>0, <1>1, <1>2, UpTo
<1>4. Cardinality(P) \in 0 .. n
  <2>1. IsFiniteSet(P) /\ Cardinality(P) <= n
    BY <1>0, FS_Subset
  <2> QED
    BY <1>0, <2>1, FS_CardinalityType
<1>5. Claim(Cardinality(P))
  BY <1>3, <1>4 DEF S
<1> QED
  BY <1>5

-----------------------------------------------------------------------------
(* The rows given to decode.                                               *)

(* There are n numbers below n.                                            *)
LEMMA Countdown ==
  ASSUME NEW n \in Nat
  PROVE  IsFiniteSet(0 .. n - 1) /\ Cardinality(0 .. n - 1) = n
<1>1. n - 1 \in Int /\ 0 \in Int
  OBVIOUS
<1>2. IsFiniteSet(0 .. n - 1) /\ Cardinality(0 .. n - 1) = IF 0 > n - 1 THEN 0 ELSE (n - 1) - 0 + 1
  BY <1>1, FS_Interval
<1> QED
  BY <1>2

(* How many members of T come before x.                                    *)
Rank(x, T) == Cardinality({y \in T : y < x})

(* Rank numbers the members of T from 0 on.                                *)
Ranked(T) ==
  /\ \A x \in T : Rank(x, T) \in 0 .. Cardinality(T) - 1
  /\ \A x, y \in T : Rank(x, T) = Rank(y, T) => x = y
  /\ \A r \in 0 .. Cardinality(T) - 1 : \E x \in T : Rank(x, T) = r
  /\ \A m \in 0 .. Cardinality(T) : Cardinality({x \in T : Rank(x, T) < m}) = m

(* It does so for every finite set of natural numbers.                     *)
LEMMA Ranks ==
  ASSUME NEW T \in SUBSET Nat, IsFiniteSet(T)
  PROVE  Ranked(T)
<1> DEFINE n == Cardinality(T)
           below(x) == {y \in T : y < x}
           f == [x \in T |-> Rank(x, T)]
<1>0. n \in Nat
  BY FS_CardinalityType
<1>1. \A x \in T : IsFiniteSet(below(x)) /\ Rank(x, T) \in Nat
  <2> SUFFICES ASSUME NEW x \in T PROVE IsFiniteSet(below(x)) /\ Rank(x, T) \in Nat
    OBVIOUS
  <2>1. below(x) \in SUBSET T
    OBVIOUS
  <2>2. Rank(x, T) = Cardinality(below(x))
    BY DEF Rank
  <2> HIDE DEF below
  <2>3. IsFiniteSet(below(x))
    BY <2>1, FS_Subset
  <2> QED
    BY <2>2, <2>3, FS_CardinalityType
<1>10. \A x \in T : Rank(x, T) \in Nat
  BY <1>1
<1>2. ASSUME NEW x \in T, NEW y \in T, x < y PROVE Rank(x, T) < Rank(y, T)
  <2>1. below(x) \in SUBSET below(y) /\ x \in below(y) /\ x \notin below(x)
    <3>1. x \in Nat /\ y \in Nat /\ \A z \in T : z \in Nat
      OBVIOUS
    <3>2. \A z \in T : z < x => z < y
      BY <1>2, <3>1
    <3>3. ~(x < x)
      BY <3>1
    <3> QED
      BY <1>2, <3>2, <3>3, Zenon
  <2>2. Rank(x, T) = Cardinality(below(x)) /\ Rank(y, T) = Cardinality(below(y))
    BY DEF Rank
  <2>3. IsFiniteSet(below(y))
    BY <1>1
  <2> HIDE DEF below
  <2>4. /\ Cardinality(below(x)) <= Cardinality(below(y))
        /\ Cardinality(below(y)) = Cardinality(below(x)) => below(y) = below(x)
    BY <2>1, <2>3, FS_Subset
  <2> QED
    BY <1>1, <2>1, <2>2, <2>4
<1>3. \A x \in T : Rank(x, T) \in 0 .. n - 1
  <2> SUFFICES ASSUME NEW x \in T PROVE Rank(x, T) \in 0 .. n - 1
    OBVIOUS
  <2>1. below(x) \in SUBSET (T \ {x})
    OBVIOUS
  <2>2. IsFiniteSet(T \ {x}) /\ Cardinality(T \ {x}) = n - 1
    BY FS_RemoveElement
  <2>3. Rank(x, T) = Cardinality(below(x))
    BY DEF Rank
  <2> HIDE DEF below
  <2>4. Cardinality(below(x)) <= Cardinality(T \ {x})
    BY <2>1, <2>2, FS_Subset
  <2> QED
    BY <1>0, <1>1, <2>2, <2>3, <2>4
<1>4. \A x, y \in T : Rank(x, T) = Rank(y, T) => x = y
  <2> SUFFICES ASSUME NEW x \in T, NEW y \in T, Rank(x, T) = Rank(y, T) PROVE x = y
    OBVIOUS
  <2>1. ~(x < y) /\ ~(y < x)
    <3>1. Rank(x, T) \in Nat /\ ~(Rank(x, T) < Rank(y, T)) /\ ~(Rank(y, T) < Rank(x, T))
      <4>1. Rank(x, T) \in Nat
        BY <1>10
      <4> QED
        BY <4>1
    <3>2. x < y => Rank(x, T) < Rank(y, T)
      BY <1>2
    <3>3. y < x => Rank(y, T) < Rank(x, T)
      BY <1>2
    <3> QED
      BY <3>1, <3>2, <3>3
  <2>2. x \in Nat /\ y \in Nat
    OBVIOUS
  <2> QED
    BY <2>1, <2>2
<1>5. f \in Injection(T, 0 .. n - 1)
  BY <1>3, <1>4 DEF Injection, IsInjective
<1>6. IsFiniteSet(0 .. n - 1) /\ Cardinality(0 .. n - 1) = n
  BY <1>0, Countdown
<1>7. f \in Surjection(T, 0 .. n - 1)
  <2> HIDE DEF f
  <2> QED
    BY <1>5, <1>6, FS_Injection
<1>8. \A r \in 0 .. n - 1 : \E x \in T : Rank(x, T) = r
  BY <1>7 DEF Surjection
<1>9. ASSUME NEW m \in 0 .. n PROVE Cardinality({x \in T : Rank(x, T) < m}) = m
  <2> DEFINE U == {x \in T : Rank(x, T) < m}
             g == [x \in U |-> Rank(x, T)]
  <2>1. m \in Nat /\ Cardinality(0 .. m - 1) = m /\ IsFiniteSet(0 .. m - 1)
    <3>1. m \in Nat
      BY <1>0
    <3> QED
      BY <3>1, Countdown
  <2>2. g \in [U -> 0 .. m - 1]
    <3>1. \A x \in U : Rank(x, T) \in 0 .. m - 1
      BY <1>10, <2>1
    <3> QED
      BY <3>1
  <2>3. g \in Injection(U, 0 .. m - 1)
    BY <1>4, <2>2 DEF Injection, IsInjective
  <2>4. \A r \in 0 .. m - 1 : \E x \in U : g[x] = r
    <3> SUFFICES ASSUME NEW r \in 0 .. m - 1 PROVE \E x \in U : g[x] = r
      OBVIOUS
    <3>1. r \in 0 .. n - 1 /\ r < m
      BY <1>0
    <3>2. PICK x \in T : Rank(x, T) = r
      BY <1>8, <3>1
    <3> QED
      BY <3>1, <3>2
  <2>5. g \in Surjection(U, 0 .. m - 1)
    BY <2>2, <2>4 DEF Surjection
  <2> HIDE DEF g, U
  <2>6. Cardinality(U) = Cardinality(0 .. m - 1)
    BY <2>1, <2>3, <2>5, FS_Injection
  <2> QED
    BY <2>1, <2>6 DEF U
<1> QED
  BY <1>3, <1>4, <1>8, <1>9 DEF Ranked

Gives(rows, D, C, n) ==
  /\ DOMAIN rows = 0 .. n - 1
  /\ Cardinality(D) \in Nat /\ Cardinality(C) = n - Cardinality(D)
  /\ \A r \in 0 .. n - 1 : rows[r] \in D \/ \E p \in C : rows[r] = n + p
  /\ \A d \in D : \E r \in 0 .. n - 1 : rows[r] = d
  /\ \A p \in C : \E r \in 0 .. n - 1 : rows[r] = n + p
  /\ D # {} => rows[0] = Min(D)

(* decode takes the data rows it has, in their order, then as many code    *)
(* rows as it needs.                                                       *)
LEMMA RowsGiven ==
  ASSUME NEW batch, NEW n \in Nat, batch.num_data = n,
         batch.data_shreds \in SUBSET (0 .. n - 1),
         batch.code_shreds \in SUBSET Nat, IsFiniteSet(batch.code_shreds),
         Cardinality(batch.data_shreds) < n, ReceivedCount(batch) >= n
  PROVE  Gives(RowIndices(batch), batch.data_shreds, CodeRows(batch), n)
<1> DEFINE D == batch.data_shreds
           K == batch.code_shreds
           C == CodeRows(batch)
           N == {n + p : p \in C}
           T == D \cup N
           rows == RowIndices(batch)
<1>0. n # 0 /\ D \in SUBSET Nat /\ \A d \in D : d < n
  <2>1. IsFiniteSet(D)
    BY Countdown, FS_Subset
  <2>2. Cardinality(D) \in Nat
    BY <2>1, FS_CardinalityType
  <2> QED
    BY <2>2
<1>1. IsFiniteSet(D) /\ Cardinality(D) \in Nat /\ Cardinality(K) \in Nat
      /\ Cardinality(D) + Cardinality(K) >= n
  <2>1. IsFiniteSet(D)
    BY Countdown, FS_Subset
  <2> QED
    BY <2>1, FS_CardinalityType DEF ReceivedCount
<1>2. \A q \in K : Rank(q, K) \in Nat
  <2>1. Ranked(K)
    BY Ranks
  <2> QED
    BY <1>1, <2>1 DEF Ranked
<1>3. C = {q \in K : Rank(q, K) < n - Cardinality(D)}
  <2>1. C = {q \in K : Cardinality(D) + Rank(q, K) < n}
    BY DEF CodeRows, Rank
  <2>2. \A q \in K : Cardinality(D) + Rank(q, K) < n <=> Rank(q, K) < n - Cardinality(D)
    BY <1>1, <1>2
  <2> HIDE DEF C
  <2> QED
    BY <2>1, <2>2
<1> HIDE DEF C
<1>4. Cardinality(C) = n - Cardinality(D) /\ C \in SUBSET Nat /\ IsFiniteSet(C)
  <2>1. Ranked(K)
    BY Ranks
  <2>2. n - Cardinality(D) \in 0 .. Cardinality(K)
    BY <1>1
  <2>3. Cardinality({q \in K : Rank(q, K) < n - Cardinality(D)}) = n - Cardinality(D)
    BY <2>1, <2>2 DEF Ranked
  <2>4. C \in SUBSET K
    BY <1>3
  <2>5. IsFiniteSet(C)
    BY <2>4, FS_Subset
  <2> QED
    BY <1>3, <2>3, <2>4, <2>5
<1>5. IsFiniteSet(N) /\ Cardinality(N) = Cardinality(C) /\ N \in SUBSET Nat
  <2> DEFINE f == [p \in C |-> n + p]
  <2>1. f \in Bijection(C, N)
    BY <1>4 DEF Bijection, Injection, Surjection, IsInjective
  <2>2. ExistsBijection(C, N)
    BY <2>1 DEF ExistsBijection
  <2>3. N \in SUBSET Nat
    BY <1>4
  <2> HIDE DEF N
  <2> QED
    BY <1>4, <2>2, <2>3, FS_Bijection
<1>6. \A x \in N : x >= n
  BY <1>4
<1>7. IsFiniteSet(T) /\ Cardinality(T) = n /\ T \in SUBSET Nat
  <2>1. D \cap N = {}
    BY <1>0, <1>6
  <2> HIDE DEF N
  <2>2. IsFiniteSet(T) /\ Cardinality(T) = Cardinality(D) + Cardinality(N) - Cardinality(D \cap N)
    <3>1. IsFiniteSet(D) /\ IsFiniteSet(N)
      BY <1>1, <1>5
    <3> HIDE DEF D
    <3>2. IsFiniteSet(D \cup N)
          /\ Cardinality(D \cup N) = Cardinality(D) + Cardinality(N) - Cardinality(D \cap N)
      BY <3>1, FS_Union
    <3> QED
      BY <3>2
  <2>3. Cardinality(D \cap N) = 0
    BY <2>1, FS_EmptySet
  <2>4. Cardinality(N) = n - Cardinality(D) /\ Cardinality(D) \in Nat
    BY <1>1, <1>4, <1>5
  <2>5. Cardinality(T) = n
    BY <2>2, <2>3, <2>4
  <2>6. T \in SUBSET Nat
    BY <1>0, <1>5
  <2> QED
    BY <2>2, <2>5, <2>6
<1>8. Ranked(T)
  BY <1>7, Ranks
<1>9. rows = [r \in 0 .. n - 1 |-> CHOOSE x \in T : Rank(x, T) = r]
  BY DEF RowIndices, Rank, C
<1> HIDE DEF T, rows
<1>10. \A r \in 0 .. n - 1 : rows[r] \in T /\ Rank(rows[r], T) = r
  BY <1>7, <1>8, <1>9 DEF Ranked
<1>11. \A x \in T : \E r \in 0 .. n - 1 : rows[r] = x
  <2> SUFFICES ASSUME NEW x \in T PROVE \E r \in 0 .. n - 1 : rows[r] = x
    OBVIOUS
  <2>1. Rank(x, T) \in 0 .. n - 1
    BY <1>7, <1>8 DEF Ranked
  <2>2. rows[Rank(x, T)] \in T /\ Rank(rows[Rank(x, T)], T) = Rank(x, T)
    BY <1>10, <2>1
  <2>3. rows[Rank(x, T)] = x
    BY <1>8, <2>2 DEF Ranked
  <2> QED
    BY <2>1, <2>3
<1>12. ASSUME D # {} PROVE rows[0] = Min(D)
  <2>1. Min(D) \in D /\ \A y \in D : Min(D) <= y
    BY <1>0, <1>12, MinOfNats
  <2> DEFINE d == Min(D)
  <2>2. d \in T
    BY <2>1 DEF T
  <2> HIDE DEF d
  <2>3. ASSUME NEW y \in T PROVE ~(y < d)
    <3>1. CASE y \in D
      BY <1>0, <2>1, <3>1 DEF d
    <3>2. CASE y \in N
      <4>1. y \in Nat /\ y >= n /\ d \in Nat /\ d < n
        BY <1>0, <1>5, <1>6, <2>1, <3>2 DEF d
      <4> QED
        BY <4>1
    <3> QED
      BY <2>3, <3>1, <3>2 DEF T
  <2>4. {y \in T : y < d} = {}
    BY <2>3
  <2>5. Rank(d, T) = 0
    BY <2>4, FS_EmptySet DEF Rank
  <2>6. rows[0] \in T /\ Rank(rows[0], T) = 0
    BY <1>0, <1>10
  <2> QED
    BY <1>8, <2>2, <2>5, <2>6 DEF Ranked, d
<1>13. \A r \in 0 .. n - 1 : rows[r] \in D \/ \E p \in C : rows[r] = n + p
  BY <1>10 DEF T
<1>14. /\ \A d \in D : \E r \in 0 .. n - 1 : rows[r] = d
       /\ \A p \in C : \E r \in 0 .. n - 1 : rows[r] = n + p
  <2>1. \A d \in D : d \in T
    BY DEF T
  <2>2. \A p \in C : n + p \in T
    BY DEF T
  <2> QED
    BY <1>11, <2>1, <2>2
<1>15. DOMAIN rows = 0 .. n - 1
  BY <1>9
<1> QED
  BY <1>1, <1>4, <1>12, <1>13, <1>14, <1>15 DEF Gives, C, rows

-----------------------------------------------------------------------------
(* What decode is given.                                                   *)

(* What the proofs use of the batches try_recover may be asked about.      *)
BatchOf(batch, id) ==
  /\ batch.num_data \in Sizes /\ batch.num_code \in Nat
  /\ batch.data_shreds \in SUBSET (0 .. batch.num_data - 1)
  /\ batch.data_shreds \in SUBSET (0 .. Dims[id].num_data - 1)
  /\ batch.code_shreds \in SUBSET (0 .. batch.num_code - 1)
  /\ batch.code_shreds \in SUBSET (0 .. Dims[id].num_code - 1)
  /\ batch.code_shreds \in SUBSET Nat /\ IsFiniteSet(batch.code_shreds)

(* The model's batches are such batches, and their sizes are within those  *)
(* of Dims.                                                                *)
LEMMA BatchesFacts ==
  ASSUME NEW id \in ErasureSets, NEW batch \in Batches(id)
  PROVE  BatchOf(batch, id) /\ Dims[id].num_data \in Sizes /\ Dims[id].num_code \in Nat
<1>1. /\ Dims[id].num_data \in Sizes /\ Dims[id].num_code \in Nat
      /\ NUM_DATA_SHREDS \in Sizes /\ NUM_CODE_SHREDS \in Nat
  BY FecAssumption, DimsAssumption DEF Sizes
<1>2. PICK d \in {Dims[id], [num_data |-> NUM_DATA_SHREDS, num_code |-> NUM_CODE_SHREDS]} :
        batch \in [num_data : {d.num_data}, num_code : {d.num_code}, parent_slot : {0},
                   data_shreds : SUBSET (0 .. Min({d.num_data, Dims[id].num_data}) - 1),
                   code_shreds : SUBSET (0 .. Min({d.num_code, Dims[id].num_code}) - 1)]
  BY DEF Batches
<1>3. d.num_data \in Sizes /\ d.num_code \in Nat
  BY <1>1
<1> DEFINE md == Min({d.num_data, Dims[id].num_data})
           mc == Min({d.num_code, Dims[id].num_code})
<1>4. md \in Nat /\ md <= d.num_data /\ md <= Dims[id].num_data
  <2>1. d.num_data \in Nat /\ Dims[id].num_data \in Nat
    BY <1>1, <1>3 DEF Sizes
  <2> QED
    BY <2>1, MinOfTwo
<1>5. mc \in Nat /\ mc <= d.num_code /\ mc <= Dims[id].num_code
  BY <1>1, <1>3, MinOfTwo
<1>6. /\ batch.num_data = d.num_data /\ batch.num_code = d.num_code
      /\ batch.data_shreds \in SUBSET (0 .. md - 1) /\ batch.code_shreds \in SUBSET (0 .. mc - 1)
  BY <1>2
<1> HIDE DEF md, mc
<1>7. 0 .. md - 1 \subseteq 0 .. d.num_data - 1 /\ 0 .. md - 1 \subseteq 0 .. Dims[id].num_data - 1
  <2>1. d.num_data \in Nat /\ Dims[id].num_data \in Nat
    BY <1>1, <1>3 DEF Sizes
  <2> QED
    BY <1>4, <2>1
<1>8. 0 .. mc - 1 \subseteq 0 .. d.num_code - 1 /\ 0 .. mc - 1 \subseteq 0 .. Dims[id].num_code - 1
      /\ 0 .. mc - 1 \subseteq Nat
  BY <1>1, <1>3, <1>5
<1>9. IsFiniteSet(batch.code_shreds)
  <2>1. IsFiniteSet(0 .. mc - 1)
    BY <1>5, Countdown
  <2> QED
    BY <1>6, <2>1, FS_Subset
<1> QED
  BY <1>1, <1>3, <1>6, <1>7, <1>8, <1>9, Zenon DEF BatchOf

(* A row of the Cauchy matrix, of indexes cut to bytes.                    *)
Weights(p, nd) == [j \in 0 .. nd - 1 |-> GfInv(GfAdd(p % 256, (nd + j) % 256))]

(* The matrix the code builds: bytes, row p of which is that of the code   *)
(* shred at p.                                                             *)
LEMMA CauchyBytes ==
  ASSUME NEW nd \in Nat, NEW nc \in Nat, NEW p \in 0 .. nc - 1
  PROVE  /\ DOMAIN CauchyMatrix(nd, nc) = 0 .. nc - 1
         /\ CauchyMatrix(nd, nc)[p] = Weights(p, nd)
         /\ Bytes(CauchyMatrix(nd, nc)[p], nd)
         /\ nd \in Sizes /\ p < nd => CauchyMatrix(nd, nc)[p] = CauchyRow(p, nd)
<1> DEFINE row == CauchyMatrix(nd, nc)[p]
<1>1. DOMAIN CauchyMatrix(nd, nc) = 0 .. nc - 1
  BY DEF CauchyMatrix
<1>2. row = [j \in 0 .. nd - 1 |-> GfInv(GfAdd(p % 256, (nd + j) % 256))]
  BY DEF CauchyMatrix
<1>7. row = Weights(p, nd)
  BY <1>2 DEF Weights
<1>3. \A x \in Byte : GfInv(x) \in Byte
  <2>1. 0 \in Byte /\ Units \subseteq Byte /\ \A x \in Byte : x # 0 => x \in Units
    BY DEF Byte, Units
  <2>2. GfInv(0) = 0
    BY DEF GfInv
  <2> QED
    BY <2>1, <2>2, InvLaws
<1>4. \A x \in Nat : x % 256 \in Byte
  BY DEF Byte
<1> HIDE DEF row
<1>5. Bytes(row, nd)
  <2> SUFFICES ASSUME NEW j \in 0 .. nd - 1 PROVE row[j] \in Byte
    BY DEF Bytes
  <2>1. p % 256 \in Byte /\ (nd + j) % 256 \in Byte
    BY <1>4
  <2>2. GfAdd(p % 256, (nd + j) % 256) \in Byte
    BY <2>1, AddLaws
  <2> QED
    BY <1>2, <1>3, <2>2
<1>6. ASSUME nd \in Sizes, p < nd PROVE row = CauchyRow(p, nd)
  <2>1. p % 256 = p
    BY <1>6 DEF Sizes
  <2>2. \A j \in 0 .. nd - 1 : (nd + j) % 256 = nd + j
    BY <1>6 DEF Sizes
  <2> QED
    BY <1>2, <2>1, <2>2 DEF CauchyRow
<1> QED
  BY <1>1, <1>5, <1>6, <1>7 DEF row

(* The matrix decode inverts for a batch.                                  *)
MatrixOf(batch) ==
  ReceivedMatrix(RowIndices(batch), CauchyMatrix(batch.num_data, batch.num_code), batch.num_data)

(* Some data shred is missing, and enough shreds have come.                *)
Enough(batch) ==
  Cardinality(batch.data_shreds) < batch.num_data /\ ReceivedCount(batch) >= batch.num_data

(* Its rows: those of the identity and of the Cauchy matrix.               *)
MatrixRows(m, rows, D, C, batch) ==
  LET n == batch.num_data
      cauchy == CauchyMatrix(n, batch.num_code)
  IN  /\ DOMAIN m = 0 .. n - 1 /\ Square(m, n)
      /\ \A r \in 0 .. n - 1 :
           \/ /\ rows[r] \in D /\ rows[r] < n
              /\ \A j \in 0 .. n - 1 : m[r][j] = IF j = rows[r] THEN 1 ELSE 0
           \/ /\ rows[r] - n \in C /\ ~(rows[r] < n)
              /\ m[r] = cauchy[rows[r] - n]

(* Its rows: those of the identity for the data shreds, those of the       *)
(* Cauchy matrix for the code shreds.                                      *)
LEMMA MatrixFacts ==
  ASSUME NEW id \in ErasureSets, NEW batch \in Batches(id), Enough(batch)
  PROVE  /\ Gives(RowIndices(batch), batch.data_shreds, CodeRows(batch), batch.num_data)
         /\ MatrixRows(MatrixOf(batch), RowIndices(batch), batch.data_shreds, CodeRows(batch), batch)
<1> DEFINE n == batch.num_data
           rows == RowIndices(batch)
           D == batch.data_shreds
           C == CodeRows(batch)
           cauchy == CauchyMatrix(n, batch.num_code)
           m == MatrixOf(batch)
<1>0. BatchOf(batch, id)
  BY BatchesFacts
<1>1. n \in Nat /\ n \in Sizes
  BY <1>0 DEF BatchOf, Sizes
<1>2. Gives(rows, D, C, n)
  <2>1. /\ D \in SUBSET (0 .. n - 1) /\ batch.code_shreds \in SUBSET Nat
        /\ IsFiniteSet(batch.code_shreds) /\ Cardinality(D) < n /\ ReceivedCount(batch) >= n
    BY <1>0 DEF BatchOf, Enough
  <2> QED
    BY <1>1, <2>1, RowsGiven
<1>3. C \in SUBSET (0 .. batch.num_code - 1) /\ D \in SUBSET (0 .. n - 1)
  BY <1>0 DEF BatchOf, CodeRows
<1>4. m = [r \in 0 .. n - 1 |->
             IF rows[r] < n THEN [j \in 0 .. n - 1 |-> IF j = rows[r] THEN 1 ELSE 0]
             ELSE cauchy[rows[r] - n]]
  BY DEF MatrixOf, ReceivedMatrix
<1>5. \A p \in C : p \in Nat
  BY <1>3
<1> HIDE DEF m, rows, C
<1>6. ASSUME NEW r \in 0 .. n - 1
      PROVE  \/ /\ rows[r] \in D /\ rows[r] < n
                /\ \A j \in 0 .. n - 1 : m[r][j] = IF j = rows[r] THEN 1 ELSE 0
             \/ rows[r] - n \in C /\ ~(rows[r] < n) /\ m[r] = cauchy[rows[r] - n]
  <2>1. CASE rows[r] \in D
    <3>1. rows[r] < n
      BY <1>1, <1>3, <2>1
    <3> QED
      BY <1>4, <2>1, <3>1
  <2>2. CASE \E p \in C : rows[r] = n + p
    <3>1. PICK p \in C : rows[r] = n + p
      BY <2>2
    <3>2. p \in Nat
      BY <1>5
    <3>3. rows[r] - n = p /\ ~(rows[r] < n)
      BY <1>1, <3>1, <3>2
    <3> QED
      BY <1>4, <3>1, <3>3
  <2> QED
    BY <1>2, <2>1, <2>2 DEF Gives
<1>7. ASSUME NEW r \in 0 .. n - 1 PROVE Bytes(m[r], n)
  <2>0. 0 \in Byte /\ 1 \in Byte
    BY DEF Byte
  <2>1. CASE \A j \in 0 .. n - 1 : m[r][j] = IF j = rows[r] THEN 1 ELSE 0
    BY <2>0, <2>1 DEF Bytes
  <2>2. CASE rows[r] - n \in C /\ m[r] = cauchy[rows[r] - n]
    <3>1. rows[r] - n \in 0 .. batch.num_code - 1 /\ batch.num_code \in Nat
      BY <1>0, <1>3, <2>2 DEF BatchOf
    <3> QED
      BY <1>1, <2>2, <3>1, CauchyBytes
  <2> QED
    BY <1>6, <2>1, <2>2
<1>8. MatrixRows(m, rows, D, C, batch)
  BY <1>4, <1>6, <1>7 DEF MatrixRows, Square
<1> QED
  BY <1>2, <1>8 DEF m, rows, C

(* As many rows as columns of which none gives way: the matrix decode is   *)
(* given can be inverted unless a code row is beyond num_data.             *)
LEMMA MatrixRegular ==
  ASSUME NEW id \in ErasureSets, NEW batch \in Batches(id), Enough(batch),
         \A p \in CodeRows(batch) : p < batch.num_data,
         NEW v, Bytes(v, batch.num_data), Vanishes(MatrixOf(batch), v, batch.num_data)
  PROVE  Support(v, batch.num_data) = {}
<1> DEFINE n == batch.num_data
           rows == RowIndices(batch)
           D == batch.data_shreds
           C == CodeRows(batch)
           cauchy == CauchyMatrix(n, batch.num_code)
           m == MatrixOf(batch)
<1>0. BatchOf(batch, id)
  BY BatchesFacts
<1>1. n \in Nat /\ n \in Sizes /\ batch.num_code \in Nat
  BY <1>0 DEF BatchOf, Sizes
<1>2. Gives(rows, D, C, n) /\ MatrixRows(m, rows, D, C, batch)
  BY MatrixFacts
<1>3. C \in SUBSET (0 .. batch.num_code - 1) /\ D \in SUBSET (0 .. n - 1) /\ C \in SUBSET (0 .. n - 1)
  BY <1>0, <1>1 DEF BatchOf, CodeRows
<1>4. \A r \in 0 .. n - 1 : Dot(m[r], v, n) = 0
  BY DEF Vanishes
<1> HIDE DEF m, rows, C
<1>5. ASSUME NEW d \in D PROVE v[d] = 0
  <2>1. PICK r \in 0 .. n - 1 : rows[r] = d
    BY <1>2 DEF Gives
  <2>2. d \in 0 .. n - 1 /\ d < n
    BY <1>1, <1>3
  <2>3. \A j \in 0 .. n - 1 : m[r][j] = IF j = d THEN 1 ELSE 0
    BY <1>2, <2>1, <2>2 DEF MatrixRows
  <2>4. Dot(m[r], v, n) = v[d]
    BY <1>1, <2>2, <2>3, DotUnit
  <2> QED
    BY <1>4, <2>4
<1>6. ASSUME NEW p \in C PROVE Dot(CauchyRow(p, n), v, n) = 0
  <2>1. PICK r \in 0 .. n - 1 : rows[r] = n + p
    BY <1>2 DEF Gives
  <2>2. p \in 0 .. batch.num_code - 1 /\ p < n /\ p \in Nat
    BY <1>1, <1>3
  <2>3. ~(rows[r] < n) /\ rows[r] - n = p
    BY <1>1, <2>1, <2>2
  <2>4. m[r] = cauchy[p]
    BY <1>2, <2>3 DEF MatrixRows
  <2>5. cauchy[p] = CauchyRow(p, n)
    BY <1>1, <2>2, CauchyBytes
  <2> QED
    BY <1>4, <2>4, <2>5
<1>7. Support(v, n) \in SUBSET ((0 .. n - 1) \ D)
  BY <1>5 DEF Support
<1>8. Cardinality(Support(v, n)) <= Cardinality(C)
  <2>1. IsFiniteSet(0 .. n - 1) /\ Cardinality(0 .. n - 1) = n
    BY <1>1, Countdown
  <2>2. IsFiniteSet(D)
    BY <1>3, <2>1, FS_Subset
  <2> DEFINE E == (0 .. n - 1) \ D
  <2>3. E \in SUBSET (0 .. n - 1) /\ E \cap D = {} /\ E \cup D = 0 .. n - 1
    BY <1>3
  <2>4. IsFiniteSet(E)
    BY <2>1, <2>3, FS_Subset
  <2> HIDE DEF E, D
  <2>5. Cardinality(E \cup D) = Cardinality(E) + Cardinality(D) - Cardinality(E \cap D)
    BY <2>2, <2>4, FS_Union
  <2>6. Cardinality(E \cap D) = 0
    BY <2>3, FS_EmptySet
  <2>7. Cardinality(E) \in Nat /\ Cardinality(D) \in Nat
    BY <2>2, <2>4, FS_CardinalityType
  <2>8. Cardinality(E) = n - Cardinality(D)
    <3>1. Cardinality(E \cup D) = n
      BY <2>1, <2>3
    <3> QED
      BY <1>1, <2>5, <2>6, <2>7, <3>1
  <2>9. Cardinality(C) = n - Cardinality(D)
    BY <1>2 DEF Gives
  <2>10. Cardinality(Support(v, n)) <= Cardinality(E)
    BY <1>7, <2>4, FS_Subset DEF E, D
  <2> QED
    BY <2>8, <2>9, <2>10
<1> QED
  BY <1>1, <1>3, <1>6, <1>8, CauchyRegular

(* The inversion finds a pivot in every column of such a matrix.           *)
LEMMA PivotFound ==
  ASSUME NEW id \in ErasureSets, NEW batch \in Batches(id), Enough(batch),
         NEW a, NEW c \in 0 .. batch.num_data - 1,
         Reduced(a, c, MatrixOf(batch), batch.num_data), Pivots(a, c) = {}
  PROVE  \E p \in CodeRows(batch) : ~(p < batch.num_data)
<1> SUFFICES ASSUME \A p \in CodeRows(batch) : p < batch.num_data PROVE FALSE
  OBVIOUS
<1> DEFINE n == batch.num_data
           m == MatrixOf(batch)
<1>1. n \in Nat
  BY BatchesFacts DEF BatchOf, Sizes
<1>2. PICK v : Bytes(v, n) /\ Vanishes(m, v, n) /\ v[c] # 0
  <2> HIDE DEF m
  <2> QED
    BY <1>1, NoPivot DEF m
<1>3. Support(v, n) = {}
  BY <1>2, MatrixRegular
<1> QED
  BY <1>2, <1>3 DEF Support

-----------------------------------------------------------------------------
(* The inversion, column by column.                                        *)

(* The payloads decode is given, in the order of the rows.                 *)
ReceivedOf(id, batch, lens, header) ==
  LET rows == RowIndices(batch)
      code == CodePayloads(id, lens, header)
  IN  [r \in DOMAIN rows |->
         IF rows[r] < batch.num_data THEN Payload(rows[r], lens[rows[r]])
         ELSE code[rows[r] - batch.num_data]]

(* What try_recover asks of decode.                                        *)
Question(id, batch, lens, header) ==
  [id |-> id, batch |-> batch, lens |-> lens, header |-> header, matrix |-> MatrixOf(batch),
   received |-> ReceivedOf(id, batch, lens, header)]

(* It is asked so.                                                         *)
Asked(given) ==
  \E id \in ErasureSets, header \in HeaderLens :
    \E batch \in Batches(id), lens \in PayloadLens(id) :
      Enough(batch) /\ given = Question(id, batch, lens, header)

(* The elimination is c columns on.                                        *)
Solving(given, a, c) ==
  LET n == given.batch.num_data
  IN  Asked(given) /\ c \in 0 .. n /\ Reduced(a, c, given.matrix, n)

(* It has ended: without a pivot, or with the product of the right half    *)
(* and the payloads.                                                       *)
Solved(given, a, c, result) ==
  LET n == given.batch.num_data
  IN  \/ c < n /\ Pivots(a, c) = {} /\ result = [outcome |-> "none"]
      \/ /\ c = n
         /\ result = IF ReadsPastEnd(given.received) THEN [outcome |-> "panic"]
                     ELSE [outcome |-> "some", data |-> Recovered(a, given.received)]

(* The invariant of the decoder's steps.                                   *)
DecodeInv ==
  /\ task \in {"decoding", "decode"} => Solving(input, aug, col)
  /\ task = "decode" => Solved(input, aug, col, output)

(* The matrix decode is given is square.                                   *)
LEMMA AskedFacts ==
  ASSUME NEW given, Asked(given)
  PROVE  /\ given.batch.num_data \in Nat
         /\ DOMAIN given.matrix = 0 .. given.batch.num_data - 1
         /\ Square(given.matrix, given.batch.num_data)
<1>0. PICK id \in ErasureSets, header \in HeaderLens :
        \E batch \in Batches(id), lens \in PayloadLens(id) :
          Enough(batch) /\ given = Question(id, batch, lens, header)
  BY DEF Asked
<1>1. PICK batch \in Batches(id), lens \in PayloadLens(id) :
        Enough(batch) /\ given = Question(id, batch, lens, header)
  BY <1>0
<1>2. given.batch = batch /\ given.matrix = MatrixOf(batch)
  BY <1>1 DEF Question
<1>3. batch.num_data \in Nat
  BY BatchesFacts DEF BatchOf, Sizes
<1>4. MatrixRows(MatrixOf(batch), RowIndices(batch), batch.data_shreds, CodeRows(batch), batch)
  BY <1>1, MatrixFacts
<1> QED
  BY <1>2, <1>3, <1>4 DEF MatrixRows

(* The call itself, the augmented matrix being the matrix and the          *)
(* identity.                                                               *)
LEMMA DecodeStarts ==
  ASSUME Decode
  PROVE  task' = "decoding" /\ Solving(input', aug', col')
<1>0. PICK id \in ErasureSets, header \in HeaderLens :
        \E batch \in Batches(id), lens \in PayloadLens(id) : StartDecode(id, batch, lens, header)
  BY DEF Decode
<1>1. PICK batch \in Batches(id), lens \in PayloadLens(id) : StartDecode(id, batch, lens, header)
  BY <1>0
<1>2. /\ Enough(batch) /\ input' = Question(id, batch, lens, header)
      /\ aug' = Augmented(MatrixOf(batch)) /\ task' = "decoding" /\ col' = 0
  BY <1>1 DEF StartDecode, Enough, Question, MatrixOf, ReceivedOf
<1>3. Asked(input')
  BY <1>2 DEF Asked
<1>4. input'.batch = batch /\ input'.matrix = MatrixOf(batch)
  BY <1>2 DEF Question
<1>5. /\ batch.num_data \in Nat /\ DOMAIN MatrixOf(batch) = 0 .. batch.num_data - 1
      /\ Square(MatrixOf(batch), batch.num_data)
  BY <1>3, <1>4, AskedFacts
<1>6. Reduced(Augmented(MatrixOf(batch)), 0, MatrixOf(batch), batch.num_data)
  BY <1>5, ReducedAtFirst
<1>7. 0 \in 0 .. batch.num_data
  BY <1>5
<1> QED
  BY <1>2, <1>3, <1>4, <1>6, <1>7 DEF Solving

(* Each column of the elimination.                                         *)
LEMMA DecodeEliminates ==
  ASSUME DecodeInv, EliminateColumn
  PROVE  DecodeInv'
<1> DEFINE n == input.batch.num_data
           m == input.matrix
<1>1. /\ task = "decoding" /\ col < n /\ input' = input
      /\ Asked(input) /\ col \in 0 .. n /\ Reduced(aug, col, m, n)
  BY DEF DecodeInv, EliminateColumn, Solving
<1>2. n \in Nat /\ Square(m, n) /\ col \in 0 .. n - 1
  BY <1>1, AskedFacts
<1>3. CASE Pivots(aug, col) = {}
  <2>1. task' = "decode" /\ output' = [outcome |-> "none"] /\ aug' = aug /\ col' = col
    BY <1>3 DEF EliminateColumn
  <2>2. Solving(input', aug', col')
    BY <1>1, <2>1 DEF Solving
  <2>3. Solved(input', aug', col', output')
    BY <1>1, <1>3, <2>1 DEF Solved
  <2> QED
    BY <2>2, <2>3 DEF DecodeInv
<1>4. CASE Pivots(aug, col) # {}
  <2>1. task' = "decoding" /\ aug' = Eliminate(aug, col) /\ col' = col + 1
    BY <1>1, <1>4 DEF EliminateColumn
  <2>2. aug \in Augments(n)
    BY <1>1 DEF Reduced
  <2> DEFINE b == Eliminate(aug, col)
  <2> HIDE DEF n, m
  <2>3. b \in Augments(n)
    BY <1>2, <1>4, <2>2, EliminateSteps
  <2>4. PICK p \in col .. n - 1, u \in Byte :
          /\ aug[p][col] \in Byte /\ GfMul(u, aug[p][col]) = 1
          /\ Steps(aug, b, col, p, u, n)
    BY <1>2, <1>4, <2>2, EliminateSteps
  <2> HIDE DEF b
  <2>5. Reduced(b, col + 1, m, n)
    BY <1>1, <1>2, <2>3, <2>4, ReducedStep
  <2>6. col + 1 \in 0 .. n
    BY <1>2
  <2>7. Solving(input', aug', col')
    BY <1>1, <2>1, <2>5, <2>6 DEF Solving, b, n, m
  <2> QED
    BY <2>1, <2>7 DEF DecodeInv
<1> QED
  BY <1>3, <1>4

(* The invariant holds.                                                    *)
LEMMA DecodeInvariant == Spec => []DecodeInv
<1>1. Init => DecodeInv
  BY DEF Init, DecodeInv
<1>2. DecodeInv /\ [Next]_vars => DecodeInv'
  <2> SUFFICES ASSUME DecodeInv, [Next]_vars PROVE DecodeInv'
    OBVIOUS
  <2>1. CASE Decode
    BY <2>1, DecodeStarts DEF DecodeInv
  <2>2. CASE EliminateColumn
    BY <2>2, DecodeEliminates
  <2>3. CASE FinishDecode
    <3>1. /\ task = "decoding" /\ task' = "decode" /\ input' = input /\ aug' = aug /\ col' = col
          /\ col = input.batch.num_data
          /\ output' = IF ReadsPastEnd(input.received) THEN [outcome |-> "panic"]
                       ELSE [outcome |-> "some", data |-> Recovered(aug, input.received)]
      BY <2>3 DEF FinishDecode
    <3>2. Solving(input, aug, col)
      BY <3>1 DEF DecodeInv
    <3> QED
      BY <3>1, <3>2 DEF DecodeInv, Solved
  <2>4. CASE UNCHANGED vars
    BY <2>4 DEF vars, DecodeInv
  <2>5. CASE Multiply \/ ReadVariant \/ ReceiveShred \/ ReceivePing \/ ReceivePacket \/ Deshred
               \/ ReadLength \/ DecodeMessage \/ ReadSockets \/ SignData \/ Return
    <3>1. task' \notin {"decoding", "decode"}
      BY <2>5, Zenon DEF Multiply, ReadVariant, ReceiveShred, ReceivePing, ReceivePacket, Deshred,
         ReadLength, DecodeMessage, ReadSockets, SignData, Return, Convert
    <3> QED
      BY <3>1 DEF DecodeInv
  <2> QED
    BY <2>1, <2>2, <2>3, <2>4, <2>5 DEF Next, Call
<1> QED
  BY <1>1, <1>2, PTL DEF Spec

(* gf_matrix_invert of reed_solomon.rs: after every column, the right half *)
(* of the augmented matrix times the matrix is the left half, of which the *)
(* columns done are those of the identity, however large the matrix is.    *)
THEOREM InversionSolves == Spec => []EliminationSolves
<1>1. DecodeInv => EliminationSolves
  <2> SUFFICES ASSUME DecodeInv, task = "decoding" PROVE EliminationSolves
    BY DEF EliminationSolves
  <2> DEFINE n == input.batch.num_data
             m == input.matrix
  <2>1. col \in 0 .. n /\ Reduced(aug, col, m, n) /\ n \in Nat
    BY AskedFacts DEF DecodeInv, Solving
  <2>2. ASSUME NEW i \in 0 .. n - 1, NEW j \in 0 .. n - 1, j < col
        PROVE  aug[i][j] = IF i = j THEN 1 ELSE 0
    <3>1. j \in 0 .. col - 1
      BY <2>1, <2>2
    <3> QED
      BY <2>1, <3>1 DEF Reduced, UnitColumns
  <2>3. ASSUME NEW i \in 0 .. n - 1, NEW j \in 0 .. n - 1
        PROVE  GfSum([k \in 0 .. n - 1 |-> GfMul(aug[i][n + k], m[k][j])], n) = aug[i][j]
    <3>1. Dot(Right(aug[i], n), Column(m, j, n), n) = aug[i][j]
      BY <2>1 DEF Reduced, Solves
    <3>2. [k \in 0 .. n - 1 |-> GfMul(aug[i][n + k], m[k][j])]
            = [k \in 0 .. n - 1 |-> GfMul(Right(aug[i], n)[k], Column(m, j, n)[k])]
      BY DEF Right, Column
    <3> QED
      BY <3>1, <3>2 DEF Dot
  <2> QED
    BY <2>2, <2>3 DEF EliminationSolves
<1> QED
  BY <1>1, DecodeInvariant, PTL

-----------------------------------------------------------------------------
(* What comes out.                                                         *)

(* Column c of what is coded: headers, payloads, zeros.                    *)
Sent(lens, header, c, n) == [p \in 0 .. n - 1 |-> CodedByte(p, lens, header, c)]

(* Byte c of a code shred is its row of weights times byte c of what is    *)
(* coded.                                                                  *)
LEMMA CodeFacts ==
  ASSUME NEW id \in ErasureSets, NEW lens \in PayloadLens(id), NEW header \in HeaderLens,
         NEW p \in 0 .. Dims[id].num_code - 1
  PROVE  /\ DOMAIN CodePayloads(id, lens, header)[p] = 0 .. header + PayloadLen - 1
         /\ \A c \in 0 .. header + PayloadLen - 1 :
              CodePayloads(id, lens, header)[p][c]
                = Dot(Sent(lens, header, c, Dims[id].num_data), Weights(p, Dims[id].num_data),
                      Dims[id].num_data)
<1> DEFINE nd == Dims[id].num_data
           nc == Dims[id].num_code
           coded == [q \in DOMAIN lens |-> Coded(q, lens, header)]
           cauchy == CauchyMatrix(nd, nc)
           code == CodePayloads(id, lens, header)
<1>1. nd \in Nat /\ nd # 0 /\ nc \in Nat
  BY FecAssumption
<1>2. DOMAIN lens = 0 .. nd - 1 /\ 0 \in 0 .. nd - 1
  BY <1>1 DEF PayloadLens
<1>3. DOMAIN coded = 0 .. nd - 1 /\ DOMAIN coded[0] = 0 .. header + PayloadLen - 1
  BY <1>2 DEF Coded
<1>4. Cardinality(0 .. nd - 1) = nd
  BY <1>1, Countdown
<1>5. DOMAIN cauchy = 0 .. nc - 1 /\ cauchy[p] = Weights(p, nd)
  BY <1>1, CauchyBytes
<1>6. code = [i \in DOMAIN cauchy |-> [c \in DOMAIN coded[0] |->
                GfSum([j \in DOMAIN coded |-> GfMul(coded[j][c], cauchy[i][j])],
                      Cardinality(DOMAIN coded))]]
  BY DEF CodePayloads, Encode
<1>7. \A c \in 0 .. header + PayloadLen - 1, j \in 0 .. nd - 1 : coded[j][c] = Sent(lens, header, c, nd)[j]
  BY <1>2 DEF Coded, Sent
<1> HIDE DEF coded, cauchy, code
<1>8. code[p] = [c \in 0 .. header + PayloadLen - 1 |->
                   GfSum([j \in 0 .. nd - 1 |-> GfMul(coded[j][c], Weights(p, nd)[j])], nd)]
  BY <1>3, <1>4, <1>5, <1>6
<1>9. ASSUME NEW c \in 0 .. header + PayloadLen - 1
      PROVE  code[p][c] = Dot(Sent(lens, header, c, nd), Weights(p, nd), nd)
  <2>1. [j \in 0 .. nd - 1 |-> GfMul(coded[j][c], Weights(p, nd)[j])]
          = [j \in 0 .. nd - 1 |-> GfMul(Sent(lens, header, c, nd)[j], Weights(p, nd)[j])]
    BY <1>7
  <2>2. code[p][c] = GfSum([j \in 0 .. nd - 1 |-> GfMul(coded[j][c], Weights(p, nd)[j])], nd)
    BY <1>8
  <2> QED
    BY <2>1, <2>2 DEF Dot
<1> QED
  BY <1>8, <1>9 DEF code

(* The lengths of the payloads.                                            *)
LensOf(received, rows, D, lens, header, n) ==
  /\ DOMAIN received = 0 .. n - 1
  /\ \A r \in 0 .. n - 1 :
       /\ rows[r] \in D => DOMAIN received[r] = 0 .. lens[rows[r]] - 1
       /\ rows[r] \notin D => DOMAIN received[r] = 0 .. header + PayloadLen - 1

(* How long the payloads given to decode are.                              *)
LEMMA ReceivedLens ==
  ASSUME NEW id \in ErasureSets, NEW batch \in Batches(id), NEW lens \in PayloadLens(id),
         NEW header \in HeaderLens, Enough(batch)
  PROVE  LensOf(ReceivedOf(id, batch, lens, header), RowIndices(batch), batch.data_shreds, lens,
                header, batch.num_data)
<1> DEFINE n == batch.num_data
           rows == RowIndices(batch)
           D == batch.data_shreds
           C == CodeRows(batch)
           received == ReceivedOf(id, batch, lens, header)
<1>1. BatchOf(batch, id) /\ Gives(rows, D, C, n) /\ MatrixRows(MatrixOf(batch), rows, D, C, batch)
  BY BatchesFacts, MatrixFacts
<1>2. n \in Nat /\ C \in SUBSET (0 .. Dims[id].num_code - 1) /\ D \in SUBSET (0 .. n - 1)
  BY <1>1 DEF BatchOf, CodeRows, Sizes
<1>3. DOMAIN rows = 0 .. n - 1
  BY <1>1 DEF Gives
<1>4. received = [r \in 0 .. n - 1 |->
                    IF rows[r] < n THEN Payload(rows[r], lens[rows[r]])
                    ELSE CodePayloads(id, lens, header)[rows[r] - n]]
  BY <1>3 DEF ReceivedOf
<1> HIDE DEF rows, received, C
<1> SUFFICES ASSUME NEW r \in 0 .. n - 1
             PROVE  /\ rows[r] \in D => DOMAIN received[r] = 0 .. lens[rows[r]] - 1
                    /\ rows[r] \notin D => DOMAIN received[r] = 0 .. header + PayloadLen - 1
  BY <1>4 DEF LensOf, rows, received
<1>5. CASE rows[r] \in D /\ rows[r] < n
  <2>1. received[r] = Payload(rows[r], lens[rows[r]])
    BY <1>4, <1>5
  <2> QED
    BY <1>5, <2>1 DEF Payload
<1>6. CASE rows[r] - n \in C /\ ~(rows[r] < n)
  <2>1. rows[r] \notin D
    BY <1>2, <1>6
  <2>2. received[r] = CodePayloads(id, lens, header)[rows[r] - n]
    BY <1>4, <1>6
  <2>3. rows[r] - n \in 0 .. Dims[id].num_code - 1
    BY <1>2, <1>6
  <2>4. DOMAIN CodePayloads(id, lens, header)[rows[r] - n] = 0 .. header + PayloadLen - 1
    BY <2>3, CodeFacts
  <2> QED
    BY <2>1, <2>2, <2>4
<1> QED
  BY <1>1, <1>5, <1>6 DEF MatrixRows

Short(batch, id) == ShortData[id] \cap batch.data_shreds

(* The first payload decode is given is a short one.                       *)
FirstIsShort(batch, id) ==
  batch.data_shreds # {} /\ Min(batch.data_shreds) \in Short(batch, id)

(* A short payload that is not the first one received is read past its     *)
(* end; one that is alone is not.                                          *)
LEMMA PastEnd ==
  ASSUME NEW id \in ErasureSets, NEW batch \in Batches(id), NEW lens \in PayloadLens(id),
         NEW header \in HeaderLens, Enough(batch)
  PROVE  LET past == ReadsPastEnd(ReceivedOf(id, batch, lens, header))
         IN  /\ past => Short(batch, id) # {}
             /\ Short(batch, id) # {} /\ ~FirstIsShort(batch, id) => past
             /\ past /\ FirstIsShort(batch, id) => Cardinality(Short(batch, id)) > 1
<1> DEFINE n == batch.num_data
           rows == RowIndices(batch)
           D == batch.data_shreds
           C == CodeRows(batch)
           S == Short(batch, id)
           received == ReceivedOf(id, batch, lens, header)
           L == PayloadLen
<1>1. BatchOf(batch, id) /\ Gives(rows, D, C, n) /\ LensOf(received, rows, D, lens, header, n)
  BY BatchesFacts, MatrixFacts, ReceivedLens
<1>2. n \in Nat /\ 0 \in 0 .. n - 1
  <2>1. n \in Sizes
    BY <1>1 DEF BatchOf
  <2> QED
    BY <2>1 DEF Sizes
<1>3. L \in Nat /\ L # 0 /\ header \in Nat
  BY PayloadAssumption
<1>4. \A d \in D : lens[d] \in 0 .. L /\ (d \in S => lens[d] < L) /\ (d \notin S => lens[d] = L)
  <2>1. D \in SUBSET (0 .. Dims[id].num_data - 1)
    BY <1>1 DEF BatchOf
  <2>2. lens \in [0 .. Dims[id].num_data - 1 -> 0 .. L]
        /\ \A p \in 0 .. Dims[id].num_data - 1 : lens[p] = L <=> p \notin ShortData[id]
    BY DEF PayloadLens
  <2> SUFFICES ASSUME NEW d \in D
               PROVE  lens[d] \in 0 .. L /\ (d \in S => lens[d] < L) /\ (d \notin S => lens[d] = L)
    OBVIOUS
  <2>3. lens[d] \in 0 .. L /\ (lens[d] = L <=> d \notin ShortData[id])
    BY <2>1, <2>2
  <2>4. d \in S <=> d \in ShortData[id]
    BY DEF Short
  <2> HIDE DEF S
  <2> QED
    BY <1>3, <2>3, <2>4
<1>5. S \in SUBSET D
  BY DEF Short
<1>6. /\ DOMAIN received = 0 .. n - 1
      /\ \A r \in 0 .. n - 1 : rows[r] \in S => DOMAIN received[r] = 0 .. lens[rows[r]] - 1
      /\ \A r \in 0 .. n - 1 : rows[r] \in D \ S => DOMAIN received[r] = 0 .. L - 1
      /\ \A r \in 0 .. n - 1 : rows[r] \notin D => DOMAIN received[r] = 0 .. header + L - 1
  <2> HIDE DEF rows, received, S, D
  <2> QED
    BY <1>1, <1>4, <1>5 DEF LensOf
<1>7. D # {} => rows[0] = Min(D) /\ rows[0] \in D
  <2>1. D \in SUBSET Nat
    BY <1>1, <1>2 DEF BatchOf
  <2>2. D # {} => rows[0] = Min(D)
    BY <1>1 DEF Gives
  <2> HIDE DEF D, rows
  <2> QED
    BY <2>1, <2>2, MinOfNats
<1>8. \A d \in D : \E r \in 0 .. n - 1 : rows[r] = d
  BY <1>1 DEF Gives
<1>9. FirstIsShort(batch, id) <=> D # {} /\ Min(D) \in S
  BY DEF FirstIsShort
<1>13. ReadsPastEnd(received) <=> \E k \in 0 .. n - 1 : ~(DOMAIN received[0] \subseteq DOMAIN received[k])
  BY <1>6 DEF ReadsPastEnd
<1>14. \A d \in S : 0 .. lens[d] - 1 \subseteq 0 .. L - 1
  BY <1>3, <1>4, <1>5
<1> HIDE DEF rows, received, S, D, L
<1>10. ASSUME S = {} PROVE ~ReadsPastEnd(received)
  <2>1. CASE D = {}
    <3>1. \A r \in 0 .. n - 1 : DOMAIN received[r] = 0 .. header + L - 1
      BY <1>6, <2>1
    <3> QED
      BY <1>2, <1>13, <3>1
  <2>2. CASE D # {}
    <3>1. DOMAIN received[0] = 0 .. L - 1
      BY <1>2, <1>6, <1>7, <1>10, <2>2
    <3>2. \A r \in 0 .. n - 1 : DOMAIN received[r] \in {0 .. L - 1, 0 .. header + L - 1}
      BY <1>6, <1>10
    <3>3. 0 .. L - 1 \subseteq 0 .. header + L - 1
      BY <1>3
    <3> QED
      BY <1>13, <3>1, <3>2, <3>3
  <2> QED
    BY <2>1, <2>2
<1>11. ASSUME S # {}, ~FirstIsShort(batch, id) PROVE ReadsPastEnd(received)
  <2>1. rows[0] \in D \ S
    BY <1>5, <1>7, <1>9, <1>11
  <2>2. DOMAIN received[0] = 0 .. L - 1
    BY <1>2, <1>6, <2>1
  <2>3. PICK q \in S : TRUE
    BY <1>11
  <2>4. PICK r \in 0 .. n - 1 : rows[r] = q
    BY <1>5, <1>8
  <2>5. DOMAIN received[r] = 0 .. lens[q] - 1 /\ lens[q] \in 0 .. L /\ lens[q] < L
    BY <1>4, <1>5, <1>6, <2>4
  <2>6. L - 1 \in 0 .. L - 1 /\ L - 1 \notin 0 .. lens[q] - 1
    BY <1>3, <2>5
  <2> QED
    BY <1>13, <2>2, <2>5, <2>6
<1>12. ASSUME FirstIsShort(batch, id), ReadsPastEnd(received) PROVE Cardinality(S) > 1
  <2>1. rows[0] \in S
    BY <1>7, <1>9, <1>12
  <2>2. PICK k \in 0 .. n - 1 : ~(DOMAIN received[0] \subseteq DOMAIN received[k])
    BY <1>12, <1>13
  <2>3. DOMAIN received[0] = 0 .. lens[rows[0]] - 1 /\ DOMAIN received[0] \subseteq 0 .. L - 1
    BY <1>2, <1>6, <1>14, <2>1
  <2>9. 0 .. L - 1 \subseteq 0 .. header + L - 1
    BY <1>3
  <2>4. rows[k] \in S
    BY <1>6, <2>2, <2>3, <2>9
  <2>5. rows[k] # rows[0]
    BY <1>6, <2>2, <2>3, <2>4
  <2>6. IsFiniteSet(S)
    <3>1. D \in SUBSET (0 .. n - 1) /\ IsFiniteSet(0 .. n - 1)
      BY <1>1, <1>2, Countdown DEF BatchOf, D
    <3>2. S \in SUBSET (0 .. n - 1)
      BY <1>5, <3>1
    <3> QED
      BY <3>1, <3>2, FS_Subset
  <2>7. Cardinality(S) \in Nat /\ Cardinality(S) # 0
    BY <2>1, <2>6, FS_CardinalityType, FS_EmptySet
  <2>8. ASSUME Cardinality(S) = 1 PROVE FALSE
    <3>1. \E x : S = {x}
      BY <2>6, <2>8, FS_Singleton
    <3> QED
      BY <2>1, <2>4, <2>5, <3>1
  <2> QED
    BY <2>7, <2>8
<1> QED
  BY <1>10, <1>11, <1>12 DEF S, received

(* What is coded are bytes.                                                *)
LEMMA SentBytes ==
  ASSUME NEW id \in ErasureSets, NEW lens, NEW header \in Nat, NEW c \in Nat
  PROVE  Bytes(Sent(lens, header, c, Dims[id].num_data), Dims[id].num_data)
<1> DEFINE nd == Dims[id].num_data
<1>1. \A x \in Nat : x % 256 \in Byte /\ 1 + (x % 255) \in Byte
  BY DEF Byte
<1>2. 0 \in Byte
  BY DEF Byte
<1>3. ASSUME NEW p \in 0 .. nd - 1
      PROVE  CodedByte(p, lens, header, c) \in Byte
  <2>1. 200 + p + c \in Nat /\ HeaderByte(p, c) \in Byte
    BY <1>1 DEF HeaderByte
  <2>2. ~(c < header) => 37 * p + 101 * (c - header) \in Nat /\ DataByte(p, c - header) \in Byte
    <3> SUFFICES ASSUME ~(c < header)
                 PROVE  37 * p + 101 * (c - header) \in Nat /\ DataByte(p, c - header) \in Byte
      OBVIOUS
    <3>1. c - header \in Nat /\ p \in Nat
      OBVIOUS
    <3>2. 37 * p + 101 * (c - header) \in Nat
      BY <3>1
    <3> QED
      BY <1>1, <3>2 DEF DataByte
  <2> QED
    BY <1>2, <2>1, <2>2 DEF CodedByte
<1> QED
  BY <1>3 DEF Bytes, Sent

(* What the received bytes are taken to be, with this: that no data shred  *)
(* is short, and that data and code shreds have the same bytes in the same *)
(* columns.                                                                *)
Aligned(batch, id, header) ==
  /\ batch.num_data = Dims[id].num_data /\ Short(batch, id) = {}
  /\ header = 0 \/ batch.data_shreds = {}

(* Then what is received is the matrix times what was coded.               *)
LEMMA ReceivedIs ==
  ASSUME NEW id \in ErasureSets, NEW batch \in Batches(id), NEW lens \in PayloadLens(id),
         NEW header \in HeaderLens, Enough(batch), Aligned(batch, id, header),
         NEW c \in 0 .. header + PayloadLen - 1, NEW r \in 0 .. batch.num_data - 1
  PROVE  ReceivedOf(id, batch, lens, header)[r][c]
           = Dot(MatrixOf(batch)[r], Sent(lens, header, c, batch.num_data), batch.num_data)
<1> DEFINE n == batch.num_data
           rows == RowIndices(batch)
           D == batch.data_shreds
           C == CodeRows(batch)
           m == MatrixOf(batch)
           received == ReceivedOf(id, batch, lens, header)
           sent == Sent(lens, header, c, n)
<1>1. BatchOf(batch, id) /\ Gives(rows, D, C, n) /\ MatrixRows(m, rows, D, C, batch)
  BY BatchesFacts, MatrixFacts
<1>2. n \in Nat /\ C \in SUBSET (0 .. Dims[id].num_code - 1) /\ D \in SUBSET (0 .. n - 1)
      /\ C \in SUBSET (0 .. batch.num_code - 1) /\ batch.num_code \in Nat
  BY <1>1 DEF BatchOf, CodeRows, Sizes
<1>3. received[r] = IF rows[r] < n THEN Payload(rows[r], lens[rows[r]])
                    ELSE CodePayloads(id, lens, header)[rows[r] - n]
  <2>1. DOMAIN rows = 0 .. n - 1
    BY <1>1 DEF Gives
  <2> HIDE DEF rows
  <2> QED
    BY <2>1 DEF ReceivedOf, rows
<1>4. Bytes(sent, n)
  <2>1. header \in Nat /\ c \in Nat /\ n = Dims[id].num_data
    BY PayloadAssumption DEF Aligned
  <2> HIDE DEF n
  <2> QED
    BY <2>1, SentBytes DEF n
<1>5. \A d \in D : /\ lens[d] = PayloadLen /\ sent[d] = DataByte(d, c) /\ d \in 0 .. n - 1
                 /\ c \in 0 .. PayloadLen - 1
  <2> SUFFICES ASSUME NEW d \in D
               PROVE  /\ lens[d] = PayloadLen /\ sent[d] = DataByte(d, c) /\ d \in 0 .. n - 1
                      /\ c \in 0 .. PayloadLen - 1
    OBVIOUS
  <2>1. d \in 0 .. n - 1 /\ d \in 0 .. Dims[id].num_data - 1 /\ d \notin ShortData[id]
    BY <1>2 DEF Aligned, Short
  <2>2. lens[d] = PayloadLen
    BY <2>1 DEF PayloadLens
  <2>3. header = 0
    BY DEF Aligned
  <2>4. c \in 0 .. PayloadLen - 1 /\ ~(c < header) /\ c - header = c /\ c < PayloadLen
    BY <2>3, PayloadAssumption
  <2>5. sent[d] = CodedByte(d, lens, header, c)
    BY <2>1 DEF Sent
  <2> QED
    BY <2>1, <2>2, <2>4, <2>5 DEF CodedByte
<1> HIDE DEF rows, received, C, m, sent
<1>6. CASE rows[r] \in D /\ rows[r] < n /\ \A j \in 0 .. n - 1 : m[r][j] = IF j = rows[r] THEN 1 ELSE 0
  <2>1. received[r] = Payload(rows[r], PayloadLen)
    BY <1>3, <1>5, <1>6
  <2>2. received[r][c] = DataByte(rows[r], c)
    BY <1>5, <1>6, <2>1 DEF Payload
  <2>3. rows[r] \in 0 .. n - 1 /\ sent[rows[r]] = DataByte(rows[r], c)
    BY <1>5, <1>6
  <2>4. Dot(m[r], sent, n) = sent[rows[r]]
    BY <1>2, <1>4, <1>6, <2>3, DotUnit
  <2> QED
    BY <2>2, <2>3, <2>4 DEF m, received, sent
<1>7. CASE rows[r] - n \in C /\ ~(rows[r] < n)
           /\ m[r] = CauchyMatrix(n, batch.num_code)[rows[r] - n]
  <2> DEFINE p == rows[r] - n
             w == Weights(p, n)
  <2>1. p \in 0 .. Dims[id].num_code - 1 /\ p \in 0 .. batch.num_code - 1
    BY <1>2, <1>7
  <2>2. received[r] = CodePayloads(id, lens, header)[p]
    BY <1>3, <1>7
  <2>3. m[r] = w /\ Bytes(w, n)
    <3> HIDE DEF p
    <3>1. CauchyMatrix(n, batch.num_code)[p] = w /\ Bytes(CauchyMatrix(n, batch.num_code)[p], n)
      BY <1>2, <2>1, CauchyBytes
    <3> QED
      BY <1>7, <3>1 DEF p
  <2> HIDE DEF p
  <2>4. received[r][c] = Dot(sent, w, n)
    BY <2>1, <2>2, CodeFacts DEF sent, Aligned
  <2>5. Dot(sent, w, n) = Dot(w, sent, n)
    <3>1. [j \in 0 .. n - 1 |-> GfMul(sent[j], w[j])] = [j \in 0 .. n - 1 |-> GfMul(w[j], sent[j])]
      <4>1. \A x, y \in Byte : GfMul(x, y) = GfMul(y, x)
        BY MulLaws
      <4>2. \A j \in 0 .. n - 1 : sent[j] \in Byte /\ w[j] \in Byte
        BY <1>4, <2>3 DEF Bytes
      <4> HIDE DEF w
      <4>3. \A j \in 0 .. n - 1 : GfMul(sent[j], w[j]) = GfMul(w[j], sent[j])
        BY <4>1, <4>2
      <4> QED
        BY <4>3
    <3> QED
      BY <3>1 DEF Dot
  <2> QED
    BY <2>3, <2>4, <2>5 DEF m, received, sent
<1> QED
  BY <1>1, <1>6, <1>7 DEF MatrixRows

(* What the solved matrix makes of it is what was sent.                    *)
LEMMA RecoveredIs ==
  ASSUME NEW id \in ErasureSets, NEW batch \in Batches(id), NEW lens \in PayloadLens(id),
         NEW header \in HeaderLens, Enough(batch), NEW a,
         Reduced(a, batch.num_data, MatrixOf(batch), batch.num_data)
  PROVE  LET n == batch.num_data
             received == ReceivedOf(id, batch, lens, header)
             data == Recovered(a, received)
         IN  /\ DOMAIN data = 0 .. n - 1 /\ \A i \in 0 .. n - 1 : DOMAIN data[i] = DOMAIN received[0]
             /\ Aligned(batch, id, header) =>
                  /\ DOMAIN received[0] = 0 .. header + PayloadLen - 1
                  /\ \A i \in 0 .. n - 1, c \in 0 .. header + PayloadLen - 1 :
                       data[i][c] = Sent(lens, header, c, n)[i]
<1> DEFINE n == batch.num_data
           m == MatrixOf(batch)
           received == ReceivedOf(id, batch, lens, header)
           data == Recovered(a, received)
<1>1. n \in Nat /\ 0 \in 0 .. n - 1 /\ Square(m, n)
  <2>1. n \in Sizes /\ MatrixRows(m, RowIndices(batch), batch.data_shreds, CodeRows(batch), batch)
    BY BatchesFacts, MatrixFacts DEF BatchOf
  <2>2. n \in Nat /\ 0 \in 0 .. n - 1
    BY <2>1 DEF Sizes
  <2> QED
    BY <2>1, <2>2 DEF MatrixRows
<1>2. DOMAIN a = 0 .. n - 1
  BY DEF Reduced, Augments
<1>3. Cardinality(0 .. n - 1) = n
  BY <1>1, Countdown
<1> HIDE DEF received
<1>4. data = [i \in 0 .. n - 1 |-> [c \in DOMAIN received[0] |->
                GfSum([k \in 0 .. n - 1 |-> GfMul(a[i][n + k], received[k][c])], n)]]
  BY <1>2, <1>3 DEF Recovered
<1> HIDE DEF data
<1>5. DOMAIN data = 0 .. n - 1 /\ \A i \in 0 .. n - 1 : DOMAIN data[i] = DOMAIN received[0]
  BY <1>4
<1>6. ASSUME Aligned(batch, id, header)
      PROVE  /\ DOMAIN received[0] = 0 .. header + PayloadLen - 1
             /\ \A i \in 0 .. n - 1, c \in 0 .. header + PayloadLen - 1 :
                  data[i][c] = Sent(lens, header, c, n)[i]
  <2>1. DOMAIN received[0] = 0 .. header + PayloadLen - 1
    <3>1. LensOf(received, RowIndices(batch), batch.data_shreds, lens, header, n)
      BY ReceivedLens DEF received
    <3>2. batch.data_shreds \in SUBSET (0 .. Dims[id].num_data - 1)
      BY BatchesFacts DEF BatchOf
    <3>3. \A d \in batch.data_shreds : lens[d] = PayloadLen
      BY <1>6, <3>2 DEF PayloadLens, Aligned, Short
    <3>4. header = 0 => 0 .. header + PayloadLen - 1 = 0 .. PayloadLen - 1
      BY PayloadAssumption
    <3> HIDE DEF n
    <3> QED
      BY <1>1, <1>6, <3>1, <3>3, <3>4 DEF LensOf, Aligned
  <2> SUFFICES ASSUME NEW i \in 0 .. n - 1, NEW c \in 0 .. header + PayloadLen - 1
               PROVE  data[i][c] = Sent(lens, header, c, n)[i]
    BY <2>1
  <2> DEFINE sent == Sent(lens, header, c, n)
             r == [k \in 0 .. n - 1 |-> received[k][c]]
  <2>2. \A k \in 0 .. n - 1 : r[k] = Dot(m[k], sent, n)
    BY <1>6, ReceivedIs DEF received
  <2>3. Bytes(sent, n)
    <3>1. header \in Nat /\ c \in Nat /\ n = Dims[id].num_data
      BY <1>6, PayloadAssumption DEF Aligned
    <3> HIDE DEF n
    <3> QED
      BY <3>1, SentBytes
  <2>4. data[i][c] = GfSum([k \in 0 .. n - 1 |-> GfMul(a[i][n + k], received[k][c])], n)
    BY <1>4, <2>1
  <2>5. [k \in 0 .. n - 1 |-> GfMul(a[i][n + k], received[k][c])]
          = [k \in 0 .. n - 1 |-> GfMul(a[i][n + k], r[k])]
    OBVIOUS
  <2>7. Reduced(a, n, m, n)
    OBVIOUS
  <2> HIDE DEF r, sent, m, n
  <2>6. RightTimes(a, r, i, n) = sent[i]
    <3>1. n \in Nat /\ Square(m, n)
      BY <1>1
    <3> QED
      BY <2>2, <2>3, <2>7, <3>1, Inverts
  <2> QED
    BY <2>4, <2>5, <2>6 DEF sent, n, RightTimes
<1> QED
  BY <1>5, <1>6 DEF data, received

(* The outcomes the collector assumes, in terms of the names above.        *)
LEMMA OutcomesAre ==
  ASSUME NEW batch, NEW id
  PROVE  DecodeOutcomes(batch, id) =
           (IF batch.num_data <= 128 /\ \A p \in CodeRows(batch) : p < batch.num_data
            THEN {} ELSE {NULL}) \cup
             IF Short(batch, id) # {} /\ ~FirstIsShort(batch, id) THEN {"panic"}
             ELSE {"garbled"} \cup (IF Cardinality(Short(batch, id)) > 1 THEN {"panic"} ELSE {})
BY DEF DecodeOutcomes, Short, FirstIsShort

(* Every outcome of decode is one of those, and what it gives of bytes in  *)
(* their own columns is what was coded.                                    *)
LEMMA OutcomeAsAssumed ==
  ASSUME task = "decode", DecodeInv
  PROVE  /\ (CASE output.outcome = "none"  -> NULL
               [] output.outcome = "panic" -> "panic"
               [] output.outcome = "some"  -> "garbled") \in DecodeOutcomes(input.batch, input.id)
         /\ output.outcome = "some" => DecodesAligned
<1>1. Solving(input, aug, col) /\ Solved(input, aug, col, output)
  BY DEF DecodeInv
<1>2. PICK id \in ErasureSets, header \in HeaderLens :
        \E batch \in Batches(id), lens \in PayloadLens(id) :
          Enough(batch) /\ input = Question(id, batch, lens, header)
  BY <1>1 DEF Solving, Asked
<1>3. PICK batch \in Batches(id), lens \in PayloadLens(id) :
        Enough(batch) /\ input = Question(id, batch, lens, header)
  BY <1>2
<1> DEFINE n == batch.num_data
           received == ReceivedOf(id, batch, lens, header)
           m == MatrixOf(batch)
           outcome == CASE output.outcome = "none"  -> NULL
                        [] output.outcome = "panic" -> "panic"
                        [] output.outcome = "some"  -> "garbled"
<1>4. /\ input.id = id /\ input.batch = batch /\ input.lens = lens /\ input.header = header
      /\ input.matrix = m /\ input.received = received
  BY <1>3 DEF Question
<1>5. col \in 0 .. n /\ Reduced(aug, col, m, n) /\ n \in Nat /\ n # 0
  <2>1. n \in Sizes
    BY BatchesFacts DEF BatchOf
  <2> QED
    BY <1>1, <1>4, <2>1 DEF Solving, Sizes
<1> HIDE DEF received, m
<1>6. SUFFICES outcome \in DecodeOutcomes(batch, id) /\ (output.outcome = "some" => DecodesAligned)
  BY <1>4
<1>7. CASE col < n /\ Pivots(aug, col) = {} /\ output = [outcome |-> "none"]
  <2>1. outcome = NULL /\ output.outcome # "some"
    BY <1>7
  <2>2. \E p \in CodeRows(batch) : ~(p < n)
    <3>1. col \in 0 .. n - 1
      BY <1>5, <1>7
    <3> QED
      BY <1>3, <1>5, <1>7, <3>1, PivotFound DEF m
  <2> HIDE DEF outcome
  <2> QED
    BY <2>1, <2>2, OutcomesAre
<1>8. ASSUME col = n, ReadsPastEnd(received), output = [outcome |-> "panic"]
      PROVE  outcome \in DecodeOutcomes(batch, id) /\ output.outcome # "some"
  <2>1. outcome = "panic" /\ output.outcome # "some"
    BY <1>8
  <2>2. Short(batch, id) # {} /\ (FirstIsShort(batch, id) => Cardinality(Short(batch, id)) > 1)
    BY <1>3, <1>8, PastEnd DEF received
  <2> HIDE DEF outcome
  <2> QED
    BY <2>1, <2>2, OutcomesAre
<1>9. ASSUME col = n, ~ReadsPastEnd(received),
             output = [outcome |-> "some", data |-> Recovered(aug, received)]
      PROVE  outcome \in DecodeOutcomes(batch, id) /\ DecodesAligned
  <2> DEFINE data == Recovered(aug, received)
  <2>1. outcome = "garbled" /\ output.data = data
    BY <1>9
  <2>2. ~(Short(batch, id) # {} /\ ~FirstIsShort(batch, id))
    BY <1>3, <1>9, PastEnd DEF received
  <2>3. outcome \in DecodeOutcomes(batch, id)
    <3> HIDE DEF outcome
    <3> QED
      BY <2>1, <2>2, OutcomesAre
  <2>4. /\ DOMAIN data = 0 .. n - 1 /\ \A i \in 0 .. n - 1 : DOMAIN data[i] = DOMAIN received[0]
        /\ Aligned(batch, id, header) =>
             /\ DOMAIN received[0] = 0 .. header + PayloadLen - 1
             /\ \A i \in 0 .. n - 1, c \in 0 .. header + PayloadLen - 1 :
                  data[i][c] = Sent(lens, header, c, n)[i]
    BY <1>3, <1>5, <1>9, RecoveredIs DEF received, m
  <2>5. \A i \in 0 .. n - 1 : \E f, S : data[i] = [c \in S |-> f[c]]
    <3>1. DOMAIN aug = 0 .. n - 1
      BY <1>5 DEF Reduced, Augments
    <3>2. \A i \in 0 .. n - 1 :
            data[i] = [c \in DOMAIN received[0] |->
                         GfSum([k \in DOMAIN aug |->
                                  GfMul(aug[i][Cardinality(DOMAIN aug) + k], received[k][c])],
                               Cardinality(DOMAIN aug))]
      BY <3>1 DEF Recovered
    <3> QED
      BY <3>2
  <2> HIDE DEF data
  <2>6. ASSUME Aligned(batch, id, header), NEW p \in 0 .. n - 1
        PROVE  data[p] = Coded(p, lens, header)
    <3>1. DOMAIN data[p] = 0 .. header + PayloadLen - 1
      BY <2>4, <2>6
    <3>2. \A c \in 0 .. header + PayloadLen - 1 : data[p][c] = CodedByte(p, lens, header, c)
      BY <2>4, <2>6 DEF Sent
    <3> QED
      BY <2>5, <3>1, <3>2 DEF Coded
  <2>7. DecodesAligned
    BY <1>4, <2>1, <2>4, <2>6 DEF DecodesAligned, Aligned, Short
  <2> QED
    BY <2>3, <2>7
<1>10. \/ col < n /\ Pivots(aug, col) = {} /\ output = [outcome |-> "none"]
       \/ /\ col = n
          /\ output = IF ReadsPastEnd(received) THEN [outcome |-> "panic"]
                      ELSE [outcome |-> "some", data |-> Recovered(aug, received)]
  BY <1>1, <1>4 DEF Solved
<1> HIDE DEF outcome
<1> QED
  BY <1>7, <1>8, <1>9, <1>10

(* What decode of reed_solomon.rs answers try_recover of fec_batch.rs is   *)
(* one of the outcomes the collector's model assumes: nothing only if it   *)
(* took a code row beyond num_data, a panic only with a short payload.     *)
(* Its payloads are those that were coded whenever every byte it is given  *)
(* is in the column it was coded in, for sets of all dimensions and every  *)
(* choice of the shreds that came.                                         *)
THEOREM DecodedAsAssumed == Spec => []DecodeAsAssumed
<1>1. DecodeInv /\ EliminationSolves => DecodeAsAssumed
  BY OutcomeAsAssumed DEF DecodeAsAssumed
<1> QED
  BY <1>1, DecodeInvariant, InversionSolves, PTL

=============================================================================
