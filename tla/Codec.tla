------------------------------- MODULE Codec --------------------------------
(***************************************************************************)
(* The node's conversions between bytes and values, each run on inputs of  *)
(* its own: datagrams to shreds, shreds of a set to its payloads, payloads *)
(* to entries, gossip messages to values.  They keep no state between two  *)
(* calls; the decoder works column by column and so takes several steps.   *)
(*                                                                         *)
(* Each is compared with what the other side, or the rest of the project,  *)
(* takes it to do.                                                         *)
(***************************************************************************)
EXTENDS FecBatch, ReedSolomon, ShredWire, EntryStream, GossipWire

CONSTANTS PayloadLen,    \* columns of a full payload (963 bytes)
          HeaderLens,    \* bytes coded in front of a payload: 24 by a leader (64 to 87)
          ProofSizes,    \* Merkle proof entries of the shreds tried
          PacketLens,    \* lengths of the other datagrams tried
          SizeFields,    \* values of the size field tried
          Lengths,       \* lengths encoded
          Transactions,  \* transactions tried
          MaxStream,     \* entries in a stream
          MaxPerEntry,   \* transactions in an entry
          Ports,         \* port offsets tried
          MaxSockets,    \* socket entries of a contact info
          ValueSizes,    \* sizes of the gossip values tried
          MaxValues      \* values in a gossip message

ASSUME PayloadAssumption == PayloadLen \in Nat \ {0} /\ HeaderLens \subseteq Nat

(* Validators make sets of 32.  From 129 on, the bytes do not suffice for  *)
(* the x_i and y_j of the Cauchy matrix, and some of its rows are wrong.   *)
ASSUME DimsAssumption ==
  /\ NUM_DATA_SHREDS <= 128
  /\ \A id \in ErasureSets : Dims[id].num_data <= 128

ASSUME PacketAssumption ==
  /\ \A n \in PacketLens : n \in Nat
  /\ \A n \in SizeFields : n \in Nat /\ n < 65536

ASSUME StreamAssumption ==
  /\ \A n \in Lengths : n \in Nat /\ n < 65536
  /\ MaxEntries \in Nat /\ MaxTransactions \in Nat /\ MaxStream \in Nat /\ MaxPerEntry \in Nat

(* What read_shortu16 and tx_count may say of a transaction.               *)
ASSUME TransactionAssumption ==
  \A tx \in Transactions :
    /\ tx.signatures \in Nat /\ tx.versioned \in BOOLEAN /\ tx.keys \in Nat
    /\ tx.instructions \in Seq([accounts : Nat, data : Nat])
    /\ tx.lookups \in Seq([writable : Nat, readonly : Nat])

(* More than 127 values do not fit in a packet.                            *)
ASSUME MessageAssumption ==
  /\ MaxValues \in Nat /\ MaxValues < 128
  /\ \A n \in ValueSizes : n \in Nat /\ n > SignatureBytes

ASSUME SocketAssumption == MaxSockets \in Nat /\ \A port \in Ports : port \in Nat /\ port < 65536

ASSUME CodecNullAssumption ==
  /\ NULL \notin Nat /\ NULL \notin Variants
  /\ NULL \notin [kind : {"data", "code"}, slot : Nat, index : Nat, fec_set_index : Nat,
                  payload : Nat \X Nat, root : Nat \X Nat, proof : Nat \X Nat]
  /\ NULL \notin [ip : {"a", "b"}, port : Nat]
  /\ NULL \notin [entries : Seq(Seq(Transactions)), transactions : Seq(Transactions)]

VARIABLES task,    \* the conversion under way, "idle" between two
          input,   \* what it was given
          output,  \* what it returned
          aug,     \* the decoder's augmented matrix
          col      \* columns it is done with

vars == <<task, input, output, aug, col>>

Init == task = "idle" /\ input = NULL /\ output = NULL /\ aug = NULL /\ col = 0

(* A call of a conversion that returns at once.                            *)
Convert(name, given, result) ==
  /\ task' = name /\ input' = given /\ output' = result
  /\ UNCHANGED <<aug, col>>

Return ==
  /\ task \notin {"idle", "decoding"}
  /\ task' = "idle" /\ input' = NULL /\ output' = NULL /\ aug' = NULL /\ col' = 0

-----------------------------------------------------------------------------
(* Erasure decoding.                                                       *)

(* Payloads of a set as the leader fills them, from the front: one shred   *)
(* may be partly filled, those after it are empty.                         *)
PayloadLens(id) ==
  {lens \in [0 .. Dims[id].num_data - 1 -> 0 .. PayloadLen] :
     \A p \in DOMAIN lens :
       /\ lens[p] = PayloadLen <=> p \notin ShortData[id]
       /\ (\E q \in ShortData[id] : q < p) => lens[p] = 0
       /\ p = 0 => lens[p] > 0}

DataByte(pos, c) == 1 + ((37 * pos + 101 * c) % 255)

Payload(pos, len) == [c \in 0 .. len - 1 |-> DataByte(pos, c)]

HeaderByte(pos, c) == (200 + pos + c) % 256

(* Byte c of the section of a data shred that is coded: headers, payload,  *)
(* zeros.  Without headers it is what encode's own callers hand it, the    *)
(* tests of reed_solomon.rs and fec_batch.rs.                              *)
CodedByte(pos, lens, header, c) ==
  IF c < header THEN HeaderByte(pos, c)
  ELSE IF c - header < lens[pos] THEN DataByte(pos, c - header) ELSE 0

Coded(pos, lens, header) ==
  [c \in 0 .. header + PayloadLen - 1 |-> CodedByte(pos, lens, header, c)]

(* Code shreds of the set, with the matrix of this decoder.                *)
CodePayloads(id, lens, header) ==
  Encode([p \in DOMAIN lens |-> Coded(p, lens, header)],
         CauchyMatrix(Dims[id].num_data, Dims[id].num_code))

(* try_recover gives decode the data shreds in order, then code shreds.    *)
RowIndices(batch) ==
  LET rows == batch.data_shreds \cup {batch.num_data + p : p \in CodeRows(batch)}
  IN  [r \in 0 .. batch.num_data - 1 |->
         CHOOSE x \in rows : Cardinality({y \in rows : y < x}) = r]

(* A batch of the set's own or of the default dimensions, with enough      *)
(* shreds but not all data, enters decode.                                 *)
StartDecode(id, batch, lens, header) ==
  /\ Cardinality(batch.data_shreds) < batch.num_data /\ ReceivedCount(batch) >= batch.num_data
  /\ LET rows == RowIndices(batch)
         code == CodePayloads(id, lens, header)
         matrix == ReceivedMatrix(rows, CauchyMatrix(batch.num_data, batch.num_code),
                                  batch.num_data)
     IN  /\ input' = [id |-> id, batch |-> batch, lens |-> lens, header |-> header,
                      matrix |-> matrix,
                      received |-> [r \in DOMAIN rows |->
                                      IF rows[r] < batch.num_data
                                      THEN Payload(rows[r], lens[rows[r]])
                                      ELSE code[rows[r] - batch.num_data]]]
         /\ aug' = Augmented(matrix)
  /\ task' = "decoding" /\ output' = NULL /\ col' = 0

(* One column of the inversion, or None without a pivot.                   *)
EliminateColumn ==
  /\ task = "decoding" /\ col < input.batch.num_data
  /\ IF Pivots(aug, col) = {}
     THEN task' = "decode" /\ output' = [outcome |-> "none"] /\ UNCHANGED <<aug, col>>
     ELSE aug' = Eliminate(aug, col) /\ col' = col + 1 /\ UNCHANGED <<task, output>>
  /\ UNCHANGED input

FinishDecode ==
  /\ task = "decoding" /\ col = input.batch.num_data
  /\ task' = "decode"
  /\ output' = IF ReadsPastEnd(input.received) THEN [outcome |-> "panic"]
               ELSE [outcome |-> "some", data |-> Recovered(aug, input.received)]
  /\ UNCHANGED <<input, aug, col>>

Batches(id) ==
  UNION {[num_data : {d.num_data}, num_code : {d.num_code}, parent_slot : {0},
          data_shreds : SUBSET (0 .. Min({d.num_data, Dims[id].num_data}) - 1),
          code_shreds : SUBSET (0 .. Min({d.num_code, Dims[id].num_code}) - 1)] :
           d \in {Dims[id], [num_data |-> NUM_DATA_SHREDS, num_code |-> NUM_CODE_SHREDS]}}

Decode ==
  \E id \in ErasureSets, header \in HeaderLens :
    \E batch \in Batches(id), lens \in PayloadLens(id) : StartDecode(id, batch, lens, header)

(* All products of a byte.                                                 *)
Multiply == \E a \in Byte : Convert("multiply", a, [b \in Byte |-> GfMul(a, b)])

-----------------------------------------------------------------------------
(* The repair socket.                                                      *)

ReadVariant == \E byte \in Byte : Convert("variant", byte, FromU8(byte))

SentShreds == {v \in Variants : v.proof_size \in ProofSizes}

Fills(v) == IF v.kind = "code" THEN {0} ELSE {0, 1, DataCapacity(v) - 1, DataCapacity(v)}

ReceiveShred ==
  \E v \in SentShreds, zeros \in BOOLEAN, position \in {0, NUM_DATA_SHREDS - 1} :
    \E fill \in Fills(v) :
      Convert("shred", [v |-> v, fill |-> fill, position |-> position],
              Receive(LeaderPacket(v, zeros, fill, 64, position)))

ReceivePing == \E byte \in Byte : Convert("ping", byte, Receive(PingPacket(TRUE, byte)))

(* Any other datagram.                                                     *)
ReceivePacket ==
  \E v \in SentShreds, len \in PacketLens, size \in SizeFields, zeros \in BOOLEAN :
    LET packet == [PingPacket(zeros, ToU8(v)) EXCEPT !.len = len, !.size = size]
    IN  Convert("packet", packet, Receive(packet))

-----------------------------------------------------------------------------
(* Entries.                                                                *)

TxBytes(tx) ==
  LET ixBytes == [i \in DOMAIN tx.instructions |->
                    LET ix == tx.instructions[i]
                    IN  1 + ShortU16Bytes(ix.accounts) + ix.accounts
                          + ShortU16Bytes(ix.data) + ix.data]
      lookupBytes == [i \in DOMAIN tx.lookups |->
                        LET l == tx.lookups[i]
                        IN  32 + ShortU16Bytes(l.writable) + l.writable
                              + ShortU16Bytes(l.readonly) + l.readonly]
  IN  ShortU16Bytes(tx.signatures) + 64 * tx.signatures + 3
        + ShortU16Bytes(tx.keys) + 32 * tx.keys + 32
        + ShortU16Bytes(Len(tx.instructions)) + SumTo(ixBytes, Len(tx.instructions))
        + IF tx.versioned
          THEN 1 + ShortU16Bytes(Len(tx.lookups)) + SumTo(lookupBytes, Len(tx.lookups))
          ELSE 0

(* Where the first n entries of a stream end.                              *)
StreamEnd(entries, n) ==
  LET bytes(txs) == SumTo([i \in DOMAIN txs |-> TxBytes(txs[i])], Len(txs))
  IN  8 + SumTo([e \in DOMAIN entries |-> EntryHeader + bytes(entries[e])], n)

Streams == SeqOf(SeqOf(Transactions, MaxPerEntry), MaxStream)

(* Cuts within every field and at every boundary near an end.              *)
Cuts(entries) ==
  {n \in UNION {{StreamEnd(entries, e) + d : d \in {-60, -33, -1, 0, 1, 7, 8, 40, 47, 48, 50, 115}} :
                 e \in 0 .. Len(entries)} : n \in 0 .. StreamEnd(entries, Len(entries))}

Deshred ==
  \E entries \in Streams, announced \in 0 .. MaxEntries + 1 : \E len \in Cuts(entries) :
    LET stream == [entries |-> entries, announced |-> announced, len |-> len]
    IN  Convert("deshred", stream, DeshredIntoTxs(stream))

ReadLength ==
  \E n \in Lengths : Convert("length", n, [wide |-> DecodeLen(EncodeLen(n)),
                                           short |-> ReadShortU16(EncodeLen(n))])

-----------------------------------------------------------------------------
(* Gossip.                                                                 *)

GossipValues == SeqOf([good : BOOLEAN, size : ValueSizes], MaxValues)

DecodeMessage ==
  \E tag \in 0 .. 7, values \in GossipValues, whole \in BOOLEAN :
    \E len \in {n \in {0, 3, 4, 35, 36, 37, 43, 44, 101, 102} : n <= MessageLen(values)}
                \cup {MessageLen(values), MessageLen(values) - 1} :
      LET msg == [tag |-> tag, values |-> values, whole |-> whole, len |-> len]
      IN  /\ IF tag \in ListTags THEN whole
             ELSE values = <<>> /\ (whole => len = MessageLen(values))
          /\ Convert("message", msg, DecodeFrom(msg))

SocketLists == SeqOf([key : {0, 4, SOCKET_CACHE_SIZE}, index : {0, 1}, offset : Ports], MaxSockets)

ReadSockets ==
  \E addrs \in {<<>>, <<"a">>, <<"a", "b">>}, sockets \in SocketLists :
    LET ci == [addrs |-> addrs, sockets |-> sockets]
    IN  Convert("sockets", ci, [cache |-> SocketCache(ci),
                                by_key |-> [k \in 0 .. SOCKET_CACHE_SIZE |-> SocketByKey(ci, k)]])

VoteInstructions ==
  [program_id_index : 0 .. 2, kind : VoteKinds \cup {"Withdraw", "undecodable"},
   last_voted_slot : {NULL, 5}]

VoteData ==
  [kind : {"Vote"}, from : {"self"}, derived : {NULL, 5},
   transaction : [account_keys : SeqOf({"vote program", "payer"}, 2),
                  instructions : {<<>>} \cup {<<ix>> : ix \in VoteInstructions}]]

SignData ==
  \E keypair \in {"self", "other"} :
    \/ \E port \in Ports :
         LET value == SignedValue(ContactInfoNew("self", [ip |-> "a", port |-> port]), keypair)
         IN  Convert("signed", [value |-> value, by |-> keypair], Received(value))
    \/ \E data \in VoteData :
         LET value == SignedValue(data, keypair)
         IN  Convert("signed", [value |-> value, by |-> keypair], Received(value))

Call ==
  /\ task = "idle"
  /\ \/ Decode \/ Multiply
     \/ ReadVariant \/ ReceiveShred \/ ReceivePing \/ ReceivePacket
     \/ Deshred \/ ReadLength
     \/ DecodeMessage \/ ReadSockets \/ SignData

Next == Call \/ EliminateColumn \/ FinishDecode \/ Return

Spec == Init /\ [][Next]_vars

-----------------------------------------------------------------------------
PowersOf2 == <<1, 2, 4, 8, 16, 32, 64, 128>>

(* The product of a and b as polynomials over {0, 1}, modulo 0x11D.        *)
Product(a, b) ==
  LET shifted[i \in 0 .. 7] == IF i = 0 THEN a ELSE Twice(shifted[i - 1])
  IN  GfSum([i \in 0 .. 7 |-> IF (b \div PowersOf2[i + 1]) % 2 = 1 THEN shifted[i] ELSE 0], 8)

(* The tables of gf256.rs multiply as the field does, for every pair, and  *)
(* gf_inv inverts: one wrong entry would garble some recovered block.      *)
FieldTables ==
  task = "multiply" => /\ \A b \in Byte : output[b] = Product(input, b)
                       /\ input # 0 => output[GfInv(input)] = 1

(* Loop invariant of gf_matrix_invert: after col columns the left half has *)
(* unit columns there, and the right half times the matrix is the left     *)
(* half, so that at the end the right half is the inverse.                 *)
EliminationSolves ==
  task = "decoding" =>
    LET n == input.batch.num_data
    IN  \A i \in 0 .. n - 1, j \in 0 .. n - 1 :
          /\ j < col => aug[i][j] = IF i = j THEN 1 ELSE 0
          /\ GfSum([k \in 0 .. n - 1 |-> GfMul(aug[i][n + k], input.matrix[k][j])], n) = aug[i][j]

(* What comes out is what was coded, if no received payload is short and   *)
(* its bytes are in the columns they were coded in: always where there are *)
(* no headers, and with headers where only code shreds are used.           *)
DecodesAligned ==
  LET short == ShortData[input.id] \cap input.batch.data_shreds
  IN  input.batch.num_data = Dims[input.id].num_data /\ short = {}
        /\ (input.header = 0 \/ input.batch.data_shreds = {})
      => \A p \in DOMAIN output.data : output.data[p] = Coded(p, input.lens, input.header)

(* decode, byte for byte, does what FecBatch says of it for every choice   *)
(* of received shreds: it gives None and panics only where FecBatch says,  *)
(* and inverts encode where it is given the columns encode was given --    *)
(* which, of a leader's shreds, it is not once a data shred is among them. *)
DecodeAsAssumed ==
  /\ EliminationSolves
  /\ task = "decode" =>
       /\ (CASE output.outcome = "none"  -> NULL
            [] output.outcome = "panic" -> "panic"
            [] output.outcome = "some"  -> "garbled") \in DecodeOutcomes(input.batch, input.id)
       /\ output.outcome = "some" => DecodesAligned

(* from_u8 reads exactly the bytes that to_u8 writes, as what they were.   *)
VariantExact ==
  task = "variant" =>
    IF output = NULL THEN \A v \in Variants : ToU8(v) # input ELSE ToU8(output) = input

(* A shred sent in answer to a repair request is never taken for a ping,   *)
(* fits the receive buffer with its nonce, and comes out with exactly the  *)
(* leader's payload, at its position in its set, whatever it is filled     *)
(* with and whether or not it is resigned.                                 *)
ShredAsSent ==
  task = "shred" =>
    LET s == output.shred
        off == IF input.v.kind = "data" THEN 88 ELSE 89
    IN  /\ output.pong = NULL /\ s # NULL
        /\ s.kind = input.v.kind /\ s.slot = 10
        /\ s.index - s.fec_set_index = input.position
        /\ s.payload = <<off, off + IF s.kind = "data" THEN input.fill ELSE CodeCapacity(input.v)>>

(* A ping is answered with its own token, whatever its bytes would mean in *)
(* a shred.                                                                *)
PingAnswered == task = "ping" => output.pong = TokenOfPing /\ output.shred = NULL

(* Whatever a validator sends on the repair socket is taken for what it    *)
(* is: every variant byte, every shred, every ping.                        *)
ReceivedAsSent == VariantExact /\ ShredAsSent /\ PingAnswered

(* Whatever a datagram claims of itself, the parts cut out of it lie       *)
(* within the bytes that arrived, and its payload behind the headers.      *)
InBounds ==
  task = "packet" /\ output.shred # NULL =>
    /\ \A part \in {output.shred.payload, output.shred.root, output.shred.proof} :
         0 <= part[1] /\ part[1] <= part[2]
           /\ part[2] <= Min({input.len, PACKET_DATA_SIZE}) - NONCE_BYTES
    /\ output.shred.payload[1] > SIZE_OF_COMMON_HEADER

(* Both readers of compact lengths, gossip's and the deshredder's, get the *)
(* length that was written and stop where its bytes end.                   *)
LengthsAgree ==
  task = "length" =>
    LET right == [value |-> input, read |-> Len(EncodeLen(input))]
    IN  output.wide = right /\ output.short = right

(* Of a stream cut anywhere, also inside a length, the entries that are    *)
(* all there come out, no other and no part of one, with their             *)
(* transactions in order; none means None.                                 *)
WholeEntries ==
  /\ LengthsAgree
  /\ task = "deshred" =>
       LET whole == {n \in 1 .. Min({Len(input.entries), input.announced}) :
                       /\ StreamEnd(input.entries, n) <= input.len
                       /\ \A e \in 1 .. n : Len(input.entries[e]) <= MaxTransactions}
       IN  IF whole = {} \/ input.announced > MaxEntries THEN output = NULL
           ELSE /\ output # NULL
                /\ output.entries = SubSeq(input.entries, 1, Max(whole))
                /\ output.transactions = FlattenSeq(output.entries)

(* decode_from never makes up, repeats or reorders values: what it returns *)
(* are values of the message this node can read; all of them, if it can    *)
(* read all and the message is whole.  And it panics, which ends the       *)
(* gossip task, only on a message cut short, however many values of one    *)
(* that arrived whole are of kinds this node cannot read.                  *)
DecodeHonest ==
  task = "message" =>
    /\ \A i \in DOMAIN output.values :
         /\ output.values[i] \in DOMAIN input.values /\ input.values[output.values[i]].good
         /\ i > 1 => output.values[i - 1] < output.values[i]
    /\ FastPath(input) => output.outcome = "message" /\ Len(output.values) = Len(input.values)
    /\ output.outcome = "panic" => input.len < MessageLen(input.values)

(* The two readings of a contact info agree: an address found by key is    *)
(* the cached one, and without a port overflow the cache holds no other.   *)
SocketsAgree ==
  task = "sockets" =>
    LET distinct == \A i, j \in DOMAIN input.sockets :
                      input.sockets[i].key = input.sockets[j].key => i = j
    IN  distinct =>
          \A key \in 0 .. SOCKET_CACHE_SIZE - 1 :
            IF output.by_key[key] # NULL THEN output.cache[key] = output.by_key[key]
            ELSE PortSum(input.sockets, Len(input.sockets)) < 65536 =>
                   output.cache[key] = SOCKET_ADDR_UNSPECIFIED

(* A value verifies where it arrives exactly if its owner signed it, also  *)
(* though the receiver fills in a cache or a slot the sender did not have; *)
(* and the slot a received vote counts with is voted for in the signed     *)
(* transaction, through the vote program, whatever slot the sender holds.  *)
ReceivedAsSigned ==
  task = "signed" =>
    /\ Verify(output) <=> input.by = input.value.data.from
    /\ output.data.kind = "Vote" /\ output.data.derived # NULL =>
         LET tx == output.data.transaction
             ix == tx.instructions[1]
         IN  /\ output.data.derived = ix.last_voted_slot /\ ix.kind \in VoteKinds
             /\ ix.program_id_index < Len(tx.account_keys)
             /\ tx.account_keys[ix.program_id_index + 1] = "vote program"
=============================================================================
