# TLA+ models of sg32

sg32 is a light Solana node. It learns from gossip whom to ask and for which
slot, fetches shreds with repair requests, recovers blocks from erasure-coded
sets, keeps them in memory and on disk, and serves them with Merkle proofs over
JSON-RPC. This directory models the parts of it that carry state and the ways
they interact, checks them with TLC on small instances, and proves with TLAPS, for
every size, their safety properties.

File names without a directory are under `src/crates/dc-tvu/src/`; `G:` stands
for `src/crates/dc-gossip/src/`.

## 1. The system

| Part | State | Operations | Talks to |
|---|---|---|---|
| Gossip loop (`G:lib.rs`, `G:handler.rs`) | handshake progress, CRDS table, known peers | handshake, initial wait, receive, pull, prune | other nodes (UDP), `latest_slot` (atomic), main loop (bounded channel) |
| CRDS table (`G:crds.rs`) | newest value per pubkey | merge, prune, queries | gossip loop |
| Slot-RPC task (`main.rs:74-102`) | none | poll a public RPC | `latest_slot` |
| Main loop (`main.rs:131-183`) | validators, pending batches | take a contact info, send repair requests, take a packet | everything below |
| FEC batch (`fec_batch.rs`, `reed_solomon.rs`) | shreds received of one erasure set | add, try_recover | main loop |
| Ring buffer (`ring_buffer.rs`) | 500 cells, window head..tail | put, get, len | main loop writes, RPC reads |
| Flat file store (`flat_file_store.rs`) | one `.dat` per slot, index in memory | new (scan), save, load, latest_slot | main loop writes, RPC reads |
| Statistics (`stats.rs`) | latest slot, counters | written under a lock by the main loop | RPC |
| RPC server (`rpc_server.rs`) | none | getSlot, getBlock, getProof, /stats and three variants | ring, files, statistics |
| Merkle prover, Reed-Solomon decoder, deshredder, shred and gossip wire formats, pull filters | none (pure) | conversions between bytes and values | the parts above |
| Stand-alone gossip node (`G:main.rs`) | as the gossip loop, no slot, no channel | handshake, listen windows, receive, pull, prune | other nodes (UDP) |
| SDK (`src/sdk/src/index.ts`) | none | a call per RPC method, getVerifiedTransaction, getProofAndVerify | RPC |
| Dashboard (`src/app`) | none | | RPC |

What is hard here:

* **Concurrency.** Four kinds of tasks on a multi-threaded runtime share three
  `RwLock`s, one atomic and one channel. `process_shred` passes five awaits while
  a block moves through ring, file and statistics; a handler takes the same locks
  one after the other.
* **Unreliable delivery.** The same shreds are asked of every validator every five
  seconds, so they come lost, repeated, reordered, and long after their set was
  recovered. Gossip values likewise.
* **Failure.** A crash inside a save, a failed save whose error is dropped, a
  panic in the decoder, an error that ends the gossip task for good.
* **Time.** Both select loops make their sleep anew with every packet, so how often
  the timed work runs depends on the traffic.
* **Arithmetic.** A ring indexed by slot modulo capacity with a window of its own,
  dimensions taken from the first shred that arrives, seconds against milliseconds,
  ports as wrapping sums, partitions that must cover a hash space exactly once.
* **Bytes.** Streams and messages cut short anywhere, lengths in three encodings,
  pings and shreds on one socket, a field given by tables typed in by hand.

`PROJECT.json` lists these one by one under "hazards", each with the properties
that would catch it.

## 2. The modules

| Module | Models | Notes |
|---|---|---|
| `Optional` | `Option::None` | the one constant `NULL` |
| `SlotRingBuffer` | `ring_buffer.rs` as operators on a ring value | shared by `RingBuffer` and `Pipeline` |
| `SlotCache` | what the ring promises | a map that, on a put, shows the new block or not and may forget others, and never shows anything else |
| `RingBuffer` | the ring as a state machine | implements `SlotCache`; theorems in `RingBufferProofs` |
| `FecBatch` | `fec_batch.rs`, the arrival part of `process_shred`, `decode` by its outcomes | operators |
| `FecCollector` | the map of pending batches, the repair poll, and the network between them | one shred, one step |
| `FlatFileStore` | `flat_file_store.rs` as operators on disk + index | with the partial results of a save that stops half way |
| `Merkle` | `merkle_prover.rs` and the handlers from a loaded block to its proofs | operators |
| `ProofClient` | the SDK's calls that involve proofs, against every small block | composes `Merkle` |
| `BlockMap` | what the two tiers together promise | a map in which a slot gets a block of its own and never loses it, unless it is given up |
| `Pipeline` | `process_shred` and the RPC handlers, from await to await, with crashes | composes `SlotRingBuffer`, `FecBatch`, `FlatFileStore`, `Merkle`; implements `BlockMap` |
| `CrdsTable` | `G:crds.rs` as operators | |
| `Gossip` | `run_gossip_loop`, `Handler::handle`, the slot-RPC task, the gossip and repair arms of the main loop | composes `CrdsTable` |
| `PullFilter` | `G:crds_filter.rs`, `G:pull_request.rs`: bloom budget, partitions, masks | operators |
| `PullLoop` | the timed select loops of `G:lib.rs` and `G:main.rs`, and the start-up of the latter | composes `PullFilter`; `program` says which of the two runs |
| `ReedSolomon` | `gf256.rs`, `reed_solomon.rs` | operators, up to one column of the inversion; exclusive or is a table |
| `ShredWire` | the receive arm of `main.rs`, `repair.rs`, `shred.rs`, `shred_header.rs` | operators; parts of a packet are ranges of offsets |
| `EntryStream` | `deshredder.rs` | operators on a stream cut anywhere |
| `GossipWire` | `G:short_vec.rs`, `decode_from` of `G:protocol.rs`, sockets of `G:contact_info.rs`, votes and signing of `G:crds_data.rs` | operators |
| `Totals` | sums that loops add up | shared by `EntryStream`, `GossipWire` and `Codec` |
| `Codec` | the conversions of `ReedSolomon` to `GossipWire`, each on inputs of its own | composes them with `FecBatch`, whose `decode` it checks |
| `MC*` | instances for TLC | |
| `DataLemmas` | facts about numbers, finite sets and sequences | TLAPS; shared by the proofs |
| `RingBufferProofs`, `FecCollectorProofs`, `PipelineProofs`, `ProofClientProofs`, `GossipProofs`, `PullLoopProofs`, `CodecProofs` | theorems about the module each is named after | TLAPS |

The components are written as operators on a value (a ring, a batch, a store, a
table) so that the same definition serves the component's own state machine, the
composition and the proofs. Definitions called "Faulty variant" are not part of
the model: each is a plausible bug, and each property is checked to fail when one
of them takes the place of the definition it follows.

### How data is abstracted

* A **shred** is its set, kind and position. All shreds of a set carry the
  leader's bytes, so only the length of a payload matters, and only whether it is
  full or short (`ShortData`).
* A **code shred** is made by the leader from byte 64 of each data shred on
  (`TVU_DESIGN.md`, 7.3): 24 bytes of headers, then the payload. `parse_from_bytes`
  keeps of a data shred what is behind its headers, up to 963 bytes, and of a code
  shred 987. `try_recover` gives `decode` both in one list, as they are. So a column
  of a code payload belongs to a column of the data payloads 24 places further left, and
  nothing is promised of what `decode` makes of them.
* **decode** is its outcome: bytes of which nothing is promised ("garbled"), `None` (a
  singular matrix), or a panic. Only a batch with all its data shreds, which does not
  decode, gives the leader's data ("whole", or "partial" if the batch is smaller
  than the set). The run `codec` checks these outcomes against the decoder's
  arithmetic, byte for byte, with headers and without, and that `decode` inverts
  `encode` wherever bytes are in the columns they were coded in (`DecodeAsAssumed`);
  `DecodedAsAssumed` proves it for sets of all dimensions. Rows of positions from
  `num_data` on, where `x_i = y_j` happens, may solve or not.
* A **block** is the set it came from, whether it is the leader's, and how many
  transactions its bytes deshred to; `NoEntries` where `deshred_into_txs` returns
  `None`. A truncated file deshreds to fewer, the first payloads of a set to some of
  its transactions, garbled payloads to any number in `GarbledTxs`.
* A **gossip value** is its key, kind, wallclock and the slot or addresses this
  node reads of it. Wallclocks are in milliseconds and the clock in seconds, as in
  the code.
* **SHA-256** is free of collisions: a digest is the tuple of what it was made
  from. `Pipeline` does not carry trees; its `Verified` says when
  `MerkleTree::verify` accepts what the handlers build, and the run `proofs`
  checks that against the tree (`VerifiedExactly`).
* A **datagram** is its length and the header fields a parser may read; what is
  cut out of it is a range of offsets. An **entry stream** is what the leader
  serialised and how many of its bytes are there; a **gossip message** likewise,
  with the size of each value and whether this node's types can read it. That no
  value can be read where none begins is assumed: the bytes in place of its kind
  are then part of a signature.
* **Time** in `PullLoop` is a count of ticks, cut off at the intervals it is
  compared with. The bloom sizes, which the code computes in floating point, are
  constants given for each budget; words have a few bits instead of 64.
* A raw transaction either deserializes or not (`Opaque`); what does is assumed to
  serialize to the same bytes again.

### How steps correspond to the code

`RingBuffer`: `Put` is `put`; readers are properties, since `get` takes `&self`.

`FecCollector`: `ProcessShred` is one call of `process_shred`, in one of three
ways: `Keep` (`try_recover` gave `None`), `Recover` (the batch is removed),
`Panic`. The loop finishes a call before the next packet and nobody else sees the
map, so one step is enough. `Poll` is the repair arm: it asks for the first 64
indexes of one slot, the latest just then; `Answer` is a shred that was asked for,
`Unsolicited` any other, and `Unasked` ends a round of requests.

`Pipeline`: `ReceiveShred`, `AddAndRecover`, `PutRing`, `SaveFile` or
`SaveFileFails`, `Publish`, `FinishPublish` are the stretches of `process_shred`
between its awaits. Only the last stats lock is held across an await and is a
variable. `RecoverPanics` is a panic of `decode` and the start after it. `Request`
starts a handler; `AnswerStats`, `ReadLiveSlot`,
`ReadLatestFile`, `ReadRing`, `ReadFile`, `ReadParent` are the stretches of the
handlers. `getLatestSlot` goes the way of `getSlot`, `getBlockWithProofs` that of
`getBlock`. `CrashRestart` kills the
process anywhere and starts it again.

`ProofClient`: `GetProofAndVerify`, `GetVerifiedTransaction` and
`FetchBlockWithProofs` are one SDK call each, with the node's answer. `NaN` is what
JavaScript's arithmetic makes of a property that is not there. The answers carry
the node's names; a root is read only where the SDK and the node agree on its name.

`Gossip`: `Handshake` and `InitialWait` are the two counted receive loops,
`Handle` is `Handler::handle` for a push message or pull response of any number of
values, all merged before the contact infos are listed. `LoopFails` stands for
the errors that end the task, `PruneTable`, `StoreSlot`, `Forward`, `FinishPrune` for
the prune arm with the load and the store of `latest_slot` apart. `PollAnswer`,
`PollCompare`, `PollStore` are the slot-RPC task. `TakeContact` and `RepairPoll`
are arms of the main loop. The pull arm is the subject of `PullLoop`.

`PullLoop`: `Handshake`, `FirstPull` and `Listen` are the start-up of the
stand-alone node; the library enters the loop directly, its start-up being in
`Gossip`. `Tick` lets time pass while the loop waits, `Receive` is the receive arm
and starts a new sleep, `SleepArm` is the sleep arm with pull (`PullLibrary`,
`PullStandalone`) and prune, `LoopFails` an error or panic that ends the task.

`Codec`: one action per conversion; `StartDecode`, `EliminateColumn` and
`FinishDecode` are `decode` from call to result, one step for each column of
`gf_matrix_invert`; `Return` makes ready for the next call.

## 3. The runs

### Passing

| Run | Instance | Shows |
|---|---|---|
| `ring` | capacity 3, slots 0..6, two bodies | Slots wrap the ring twice and may come in any order. A hit is the block last put under its slot (`GetReturnsLastPut`); a block in the window is lost only to a put from below it (`LostOnlyToStalePut`); the window is never wider than the ring (`WindowInv`); the ring implements the cache (`CacheSpec`). |
| `fec` | defaults 3 + 1; in one slot a set of 1 + 2 and behind it one of 3 + 1 with two short payloads, in another one of 4 + 1 | A complete batch never waits, and duplicates never count twice (`RecoveredWhenEnough`); what is recovered is the leader's data exactly when all data shreds had come to a batch of the set's own dimensions (`WholeIffAllData`). If the polls come back to its slot again and again, a set of default dimensions that they reach to its end is recovered, with the leader's data unless code shreds come between for ever, and unless the node panics for ever (`EventuallyRecovered`). |
| `pipeline` | defaults 1 + 1, ring of 2, sets in slots 2, 4 (twice, one without a complete entry), 5; recoveries from code shreds; one failed save, two blocks | Ring and file agree (`HotColdAgree`); an answer is one recovered block of the slot asked for, all of it unless code shreds had a part in it, its parent is explained and an index is refused only beyond a block's end (`ServedWhole`); a slot announced by getSlot is found when asked for (`AnnouncedServed`); /stats shows only finished updates (`SnapshotSettled`); every request is answered and the main task returns (`NobodyWaits`). |
| `pipeline_crash` | a set in slot 2 and one in slot 4 with two data shreds more than the defaults, the last one short; panics, a crash at any point, two blocks before and two after | `AnnouncedServed` across a restart, and the refinement of `BlockMap` (`BlockMapSpec`): ring and files are one map from slots to blocks, which a restart does not change unless a save was under way. |
| `proofs` | all blocks of up to five transactions of three, one opaque | Exactly the block's own indexes verify (`VerifiedExactly`); a transaction comes with its own proof unless an earlier one was dropped, and every leaf of a whole block verifies under its index against the root that getProof gives (`TransactionProven`); no leaf and proof fit an index that holds another transaction, although odd layers are completed with copies (`ProofBindsIndex`). |
| `gossip` | three keys, five values, messages of up to two, channel of one, two clock readings, two slots | The table keeps the newest of each key in whatever order values come (`NewestKept`); repair addresses only become newer (`ValidatorsNewer`); the slot asked for was really reported (`SlotReported`); peers that were in the table when a message was handled are remembered (`PeersRemembered`); start-up ends (`StartupEnds`), a full channel stops nobody (`ForwardEnds`), and races on `latest_slot` heal (`CatchesUp`). |
| `pull` | both programs, two peers, two sizes of our own contact info (one partition and four), a round counter of two bits, intervals of a few ticks | A request fits in one packet whatever our contact info takes of it (`FitsPacket`); whenever a peer joined, as many rounds as there are partitions ask it for each value of its table exactly once, also across the wrap of the counter (`RotationCovers`); if the traffic pauses for the length of a sleep again and again, every peer is asked for its whole table by the library, and asked at all by the stand-alone node (`PeersCovered`). |
| `codec` | every byte and pair of bytes; seven sets around 3 + 2 with every choice of shreds and short payloads, coded with and without headers; packets around every length the parsers compare with; streams of two entries cut near every field; messages of four values, readable or not | The field tables are right (`FieldTables`); the elimination keeps its loop invariant `decode` ends as `FecBatch` says, and it inverts `encode` where columns match (`DecodeAsAssumed`). Variants are read as written, shreds come out as sent, pings get their token (`ReceivedAsSent`), nothing is read outside what arrived (`InBounds`). A cut stream gives its whole entries and no more, and both readers of lengths agree (`WholeEntries`). `decode_from` invents and repeats nothing and panics only on a message cut short (`DecodeHonest`). The two readings of a socket list agree (`SocketsAgree`); fields filled in on arrival do not disturb signatures, and a vote's slot is the one signed (`ReceivedAsSigned`). |

The bounds are the smallest at which the interesting cases happen: two slots that
share a cell, with one below the window; a batch opened by the wrong kind of
shred; a set that begins or ends beyond the indexes a poll asks for; two sets of one
slot; more contact infos than the channel holds; a vote that displaces a contact info
in a message of its own or in the same one. Clients do not interact with each other, so one is
enough. `MaxBlocks`, `MaxCrashes`, `MaxFailures` and `MaxChain` cap what would
otherwise grow for ever. In `pull` the counter's range is a multiple of the number of
partitions, as 2^64 is of 64. In `codec` the lengths of headers, packets and
entries are the code's own; only in the erasure code payloads have two columns and
coded headers one, since `decode` treats columns alike. The two pipeline runs split
the cases: the wide one has four sets, the tall one deep batches and crashes.

Limits of the properties. `ServedWhole` and `BlockMapSpec` say nothing of a slot some
write of which was cut short (`torn`): `RestartLosesNothing` shows what happens to it.
`ProofBindsIndex` is about the block's own indexes; behind an odd last leaf that leaf
also verifies at the index after it, which no caller asks `verify`. A set recovered
twice is counted twice in the statistics, which no document denies. Of garbled
payloads the models know only that they are stored and served like others.

### Disagreements between documents and code

Each of these runs checks one statement of a comment or document and finds a
behaviour of the code that breaks it.

| Run | Statement | What happens |
|---|---|---|
| `restart` | `PIPELINE_DESIGN.md:572` restart without losing data | `fs::write` truncates a slot's file when its second set is saved; a crash then loses the first |
| `pruned` | `G:gossip_design.md:185` entries older than 15 minutes are pruned | milliseconds are compared with seconds: nothing is old enough |
| `sdk` | `index.ts:198` the proof is verified independently in the client | the node sends `tx_index`, the client reads `txIndex`, and without an index every step of the proof is taken for an odd one |
| `starved` | `G:lib.rs:194` every peer's whole table is covered eventually | with a packet before the end of every sleep there are no rounds, though time passes and the arms are chosen fairly |

Further disagreements that the models show and no run of their own states.

In what is stored and served:

* `reed_solomon.rs:58` and `src/crates/dc-tvu/TVU_DESIGN.md:594` any 32 of the 64
  shreds recover the originals: no 32 do but the data shreds themselves, since a code
  payload is longer than the data payloads and 24 columns off (`WholeIffAllData`, proved
  by `RecoveredWhole`). Even from code shreds alone, where columns match, the headers
  come out in front of the payloads. The tests of `reed_solomon.rs` and `fec_batch.rs` encode
  the payloads themselves, and for those `decode` is right (`DecodesAligned`). What
  comes out of a leader's shreds is stored and served all the same, unless
  `deshred_into_txs` gives `None` ("garbled" in `Pipeline`).
* The same line: a data shred with a short payload among those received is read past
  its end, which panics (`Panic` in `FecCollector`, "panic" in `DecodeAsAssumed`).
* `reed_solomon.rs:13-17` any square submatrix is invertible: not with more code
  than data shreds, where an entry is 0 (`DecodeAsAssumed`). It is true of the rows below the number
  of data shreds, and `CauchyRegular` proves it.
* `PIPELINE_DESIGN.md:186` the oldest slot is evicted: a late old block takes the
  newest one's cell (`LostOnlyToStalePut` says when).
* `README.md:89` verified means proven in the block: a block without transactions,
  read from disk, verifies any index with a zero leaf, an empty proof and a zero
  root (the empty block of `Verified` in `Pipeline`). The ring refuses such a block
  although its file exists (`PIPELINE_DESIGN.md:483`; the exception in
  `AnnouncedServed`).
* `PIPELINE_DESIGN.md:506`: every set of a slot rewrites the slot's file.
* `main.rs:257`: `latest_slot` goes back with a late block. `rpc_server.rs:217`: a
  block not in the ring gets `slot - 1` as its parent (the stand-ins in
  `ServedWhole`).
* `index.ts:56-57`: the SDK's `BlockWithProofs` has `numTransactions` and `merkleRoot`
  where the node sends `num_transactions` and `merkle_root` (`rpc_server.rs:413-414`), so
  in the client both are undefined. `FetchBlockWithProofs` hands on the node's names, and
  `TransactionProven` verifies against the root of `getProof`, the one there is. The
  mismatch is of the kind that `sdk` shows.
* `index.ts:167`: after a transaction that does not deserialize,
  `getTransactionByIndex` and `getBlockWithProofs` put the next one's bytes beside
  its leaf (the exception in `TransactionProven`).

In gossip and on the wire:

* `G:lib.rs:211` only ever advance the slot: both tasks compare, then both store,
  the lower one last. `CatchesUp` says that this heals.
* `G:lib.rs:55`: the table has one entry per node, so a vote takes the place of a
  contact info that is said to be sent. If both come in one message, the contact info
  is never listed and the node does not become a peer (`Handle`).
* `G:protocol.rs:42` bad values are skipped: the number of values is read as one
  byte where bincode wrote eight, so that after one bad value the good ones are
  found only where sizes happen to fit.
* `src/crates/dc-tvu/TVU_DESIGN.md` 4.4 puts the retransmitter's signature last and the root
  after the full capacity; `parse_from_bytes` looks for the root after `size` (and
  64 bytes more when resigned). Root and proof of such shreds are wrong; nothing
  reads them. A full data payload has 963 bytes and a code payload 987, where the
  document has them of one size.
* `src/crates/dc-tvu/PIPELINE_DESIGN.md:21-44` has a nonce of 8 bytes in requests and
  answers; the code (`repair.rs:103`, `NONCE_BYTES`) and
  `src/crates/dc-tvu/TVU_DESIGN.md:942` have 4.
* `gf256.rs:25` says `LOG[25] = 1`; it is `LOG[2]`. `deshredder.rs:17` says one or
  two bytes; three are read.

### Fairness

Safety needs none. `Pipeline!FairSpec` assumes that a task that can go on does:
tokio polls every woken task and its locks queue fairly. Nothing is assumed of
clients, of the network or of crashes. `Gossip!FairSpec` assumes the same of the
slot-RPC task and of the start-up and prune sequences (a timeout always fires), and
that the main loop takes a queued contact info, since `select!` chooses among the
ready arms at random. It does *not* assume that the sleep arm of the gossip loop
ever runs: every packet starts its 500 ms anew. `PullLoop!FairSpec` makes time
explicit: it goes on (`WF` of `Tick`), start-up receives time out, and the sleep arm,
when its time is up again and again, is chosen at some time (`SF`), `select!` being
random; how often packets come is left open, and `PeersCovered` names the pauses it
needs. `FecCollector!FairSpec` assumes that the operator starts a node again that went
down, and that the network does not lose for ever the answers to a request made again
and again (`SF` of `Answer`). Only what a poll asks for is owed: data shreds of the slot
that is the latest at that moment, at the first 64 indexes. That the polls come back
to a slot is not assumed, for `latest_slot` moves on and the poll may starve; it is the
condition of `EventuallyRecovered`. A set at an index the polls do not reach, of other
dimensions, or of a slot that was the latest only for one round is promised nothing.

## 4. The proofs

Every safety property that a passing run checks is proved of the same specification
for every value of the constants. The modules reason about the
definitions the runs check; nothing is restated.

| Module | Theorems (the property each states, where a run checks it) | Assumed of the constants |
|---|---|---|
| `RingBufferProofs` | `Invariance`, `TypeCorrect` (`TypeOK`: `slot - capacity + 1` never wraps), `GetSafe` (`GetReturnsLastPut`), `WindowSafe` (`WindowInv`), `LossSafe` (`LostOnlyToStalePut`), `WindowMonotone`, `ImplementsCache` (`CacheSpec`) | capacity positive, slots natural, `None` is not a block |
| `FecCollectorProofs` | `TypeCorrect` (`TypeOK`), `RecoverySafe` (`RecoveredWhenEnough`), `RecoveredWhole` (`WholeIffAllData`) | `FecAssumption`: dimensions and short payloads are within a set, a parent is not above its slot; `None` is not a batch, not a kind and not an outcome |
| `PipelineProofs` | `Invariance`, `TypeCorrect` (`TypeOK`), `TiersAgree` (`HotColdAgree`), `ServedSafe` (`ServedWhole`), `AnnouncedSafe` (`AnnouncedServed`), `SnapshotSafe` (`SnapshotSettled`), `ImplementsBlockMap` (`BlockMapSpec`) | `PipelineAssumption`: slots are positive, counts of transactions natural, finitely many transactions opaque; `FecAssumption`; `None` is not a record of the model |
| `ProofClientProofs` | `Invariance`, `VerifiedSafe` (`VerifiedExactly`), `TransactionSafe` (`TransactionProven`), `ProofBinds` (`ProofBindsIndex`) | `ClientAssumption`: types of the bounds |
| `GossipProofs` | `TypeCorrect` (`TypeOK`), `NewestSafe` (`NewestKept`), `SlotReportedSafe` (`SlotReported`), `ValidatorsOnlyNewer` (`ValidatorsNewer`), `PeersStay` (`PeersRemembered`) | `CrdsAssumption`, `GossipAssumption`: types of the values, a finite set of keys, a channel of at least one; `None` is not a value |
| `PullLoopProofs` | `Invariance`, `TypeCorrect` (`TypeOK`), `RequestsFit` (`FitsPacket`), `CoverageSafe` (`RotationCovers`) | `PullFilterAssumption`: types and a positive size of every filter; `PullLoopAssumption`: whatever our contact info, a filter is left, in fewer partitions than a hash or the round counter has values |
| `CodecProofs` | `PacketsInBounds` (`InBounds`), `SentReceived` (`ReceivedAsSent`, from `VariantsExact`, `ShredsAsSent`, `PingsAnswered`), `WholeRead` (`WholeEntries`, from `LengthsRead`), `FieldCorrect` (`FieldTables`), `CauchyRegular`, `InversionSolves` and `DecodedAsAssumed` (`DecodeAsAssumed`), `MessagesDecoded` (`DecodeHonest`), `SocketReadingsAgree` (`SocketsAgree`), `SignedReceived` (`ReceivedAsSigned`) | `PacketAssumption`, `StreamAssumption`, `SocketAssumption`: sizes and lengths are natural and fit their 16 bits; `TransactionAssumption`: the lengths in a transaction are natural; `TablesAssumption`: `LOG` and `ALOG` are what the comment above them says, which TLC evaluates entry by entry; `DimsAssumption`: at most 128 data shreds in a set, since `generate_cauchy_matrix` cuts its points to bytes; `FecAssumption`, `PayloadAssumption` (a positive length, any lengths of headers); `MessageAssumption`: fewer than 128 values, each longer than its signature; `CodecNullAssumption`: `None` is not a result |

These assumptions are the `ASSUME`s of the modules named in section 2; TLC
evaluates them on the instances of the runs.

**The ring.** `Inv` is `TypeOK`, `CellsConsistent`, `WindowInv`,
`GetReturnsLastPut` and `LostOnlyToStalePut`, none of them inductive alone. That a
hit is the last block put needs the cells to hold only slots of their own
(`CellsConsistent`), else a put could uncover an older block of another slot. That
a loss comes only from below the window needs the arithmetic core of the
argument, `SameCellApart`: two different slots of one cell are at least a capacity
apart, so with a window of at most a capacity the newcomer either pushes the window
past the block it displaces or lies below the window itself. `ImplementsCache` is
the refinement with `cache[s] = get(s)`.

**FEC batches.** `FecInv` adds `Origin` to the properties: every pending batch is
what its opener and the shreds that arrived make of a new one. Without it nothing
ties the counts of a batch to the shreds that came, and neither property would
survive a step. For `RecoveredWhole` it says more: a batch has the dimensions its
opener gives, and a position is filled exactly if its data shred arrived, so that
`try_recover` takes its short cut without decoding exactly if all of them did
(`FilledWhenArrived`). The theorem makes no assumption on code payloads: that decoding
gives the leader's data is not among its outcomes.

**The pipeline.** `Inv` ties the tiers to the place the main task is at:
`BatchesGood`, `BlockGood` and `RingGood` say that what is pending, under way and
hot is a block that was recovered of its slot (`GoodBlock`); `FilesWhole` that only a
torn write leaves a file that is not, or one out of the index; `SavedIsHot` that between the two writes the
ring is ahead for one slot only; `Announced` that a slot is made known after its
file was written, and stays in the index through a crash since the start scans the
directory; `StatsSettled` that the statistics differ from the settled ones only
under the lock; `LoadedWhole` and `AnswersGood` carry that through the second lookup
of a handler to the answer. The steps of the main task and the crash preserve
`NodeInv` and every client's part; the steps of one client leave the node alone and
are reduced to that client by `ClientFrame`.

`ImplementsBlockMap` is the refinement with `blocks[s]` what a handler's lookup finds
(`Served`: the ring's block, else the file's) and `givenUp` the slots with a torn
write. By `HotColdAgree` it is what the file store has (`ServedCold`), but for the
slot whose block is between its two writes. So a put changes the map at that slot
or, for a slot below the window, not at all, and then the save does; what a put
evicts is still in its file; and a restart is no step of the map, since every file
of a slot that was not given up was in the index before (`FilesWhole`), which is
what the directory scan makes anew, after a crash or a panic of `decode`. Sets are of
any dimensions and payloads of any lengths.

**Merkle proofs.** The state is one block and the last answer, so the invariant
(`AnswerOfBlock`) is simple and the work is in the functions. Layers shrink to one
digest in at most as many steps as there are leaves (`LayersShrink`). `StepUp` is one
turn of the loops of `prove` and `verify`: from position `i` of a layer the position
`i / 2` of the layer above is reached with the sibling `prove` chose and with no
other hash, since two pairs are equal only if their parts are. `ClimbFollows` takes it
to the root: with a leaf of its own a proof verifies, with another leaf none does,
whichever position of the block its siblings come from. Beyond the block the zero
leaf would have to be the root.

**Gossip.** Each theorem has an invariant of its own above `TypeOK`. `SlotsReported`
follows the slot through the variables of the race: what is polled, found or stored
was reported before. `SentInOrder` says that contact infos leave the table, wait in
the outbox and the channel and reach the validators in an order in which none is
older than one of the same node before it, and that the table has superseded none of
them by an older one; only so is a stale message harmless at the far end. `Known`
says that between two messages the peers hold every address of the table: after the
last merge of a message all contact infos are listed, and a prune adds none. A message is a
list of any length, so `MergeAll` is followed value by value.

**Pull requests.** A filter from the table of budgets has exactly the size the
table was asked for or a smaller one, so that gaps never cost a packet
(`CacheSound`). For the rotation, `JoinedAfter` is the inductive part: if a peer was
not asked for partition `s`, it took part in no more rounds than have passed since
the turn of `s` (`Age`). After as many rounds as there are partitions no `s` is left.
That the wrap of the counter skips no turn needs that its range is a multiple of the
number of partitions (`Pow2Sum`, `ModStep`), and that partitions neither overlap nor
leave a hash out is `OneAsksForEach`.

**Conversions.** But for the decoder they keep no state, so one invariant (`Answered`) serves them all:
what a call returned is what its conversion makes of an input it may be given. What
is left is about the functions. A datagram of any length and with any size field
goes through `ParseResponse` and `ParseFromBytes` by cases on the few comparisons they
make (`ParsedInside`); that no shred is taken for a ping follows from the lengths leaders
give them. Lengths go through
their one to three bytes (`LengthWritten`, `WrittenRead`). Socket lists are summed
(`SumGrows`): without two entries of one key the last match is the only one
(`OneEntry`), and a sum below 65536 has not wrapped. For `decode_from` the loop
invariant of the slow path is `SlowPathAt`: after `k` rounds the cursor is not beyond the
`k`-th value, the values read are readable, in order and end before the cursor. So the
cursor leaves a message only if the message was cut short.

**The deshredder.** `tx_len` skips without looking and compares at the end, so what
is to be shown of its walk is that it comes to the end of the transaction or fails,
and fails only where bytes are missing. `Leads` says so of a walk, and `LeadsJoined`
of two in a row; only the look at the message's first byte, which takes none, must be
made good by the header behind it (`spare`). `TxLenIs` is the sum of the parts,
`TransactionsEnd` the loop over an entry, and `DeshredAt` the invariant of the loop
over the entries: what was read are the first `m`, and a loop that has ended is at an
entry that is cut short or too long. As entries only end later (`StreamEnds`), none
behind that one is whole.

**The field and the decoder.** A byte is its bits (`BitsOfByte`) and `gf_add` adds
them modulo 2 (`XorBits`), so addition is associative and doubling distributes over it
(`DoubleBits`, `TwiceForm`). Multiplication goes through logarithms, of which only
the assumption on the tables is known: they count the doublings (`Tables`). So
multiplication by `2^e` is `e` doublings and distributes too, the rest of the laws
follow modulo 255 (`Cycles`, `MulLaws`), and the product of polynomials is the sum of
the doublings that the bits of a factor select. The decoder's invariant is `DecodeInv`:
the first columns are those of the identity and every row solves its equation
(`Reduced`). That is inductive, but does not say that a pivot is found; for this
`Reduced` also says that a vector all rows take to 0 is one the matrix takes to 0. In
a column without a pivot there is such a vector, and the matrix has none but 0:
`CauchyRegular` takes one row's multiple from all others, which leaves a Cauchy matrix
with a row and a column less (`CauchyTerm`), down to none, and `MatrixRegular` adds the
rows of the data shreds that came, which are those of the identity. Hence
`gf_matrix_invert` fails only with a code row of a position from `num_data`
on, which is no row of that matrix. With the inverse, the product with what was received is what was coded if no
data payload is short, data and code payloads have the same bytes in the same columns
(`Aligned`), and the set has the dimensions assumed (`RecoveredIs`). Who reads past an
end is told by `PastEnd`, from the lengths of data and code payloads (`ReceivedLens`);
every end of the call is one `DecodeOutcomes` admits (`OutcomeAsAssumed`). So the
collector's model, which does without the arithmetic, leaves out no outcome of it,
whatever the dimensions and the headers.

**Induction.** The induction theorems of the library take an operator, which the
provers cannot instantiate. A claim about all natural numbers is proved here from
the set of its exceptions: if it is not empty it has a least member (`LeastNat`, from
the well-foundedness of `<`), and the step refutes that one. A recursive function is
a `CHOOSE`; that it exists is proved the same way (`LayersExist`, `ClimbExists`,
`HalvesExist`, `FilterExists`, `DoublesExists`; `LoopExists` for loops in general,
`WalkLoop`, `GfTotalsExist` and `DeshredLoopExists` among them). For this `Pow2`, `MerkleTree`,
`Prove`, `Verify` and `ParseTransactions` are written with recursive functions, as
the loops they are in the code.

Only model-checked:

* liveness (`EventuallyRecovered`, `NobodyWaits`, `StartupEnds`, `ForwardEnds`,
  `CatchesUp`, `PeersCovered`): out of the prover's reach;
* the four statements of documents, which do not hold.

## 5. Not modelled

* What serde derives for gossip values, JSON, and the bytes of requests and pongs
  the node sends: they follow from the type declarations.
* `ShredFlags`, `ShredId` and the single-field accessors of `shred_header.rs`,
  `latest_slot` of the ring, `has_slot`: no caller.
* Cryptography: a signature is who signed what, a digest what it was made of.
* The floating-point sizes of bloom filters, which are constants of `PullFilter`.
* The `--self-test` of the stand-alone node, the public-IP lookup, the event
  broadcast that nobody receives, the dashboard.
* u64 overflow of `slot + 1` and `head + capacity`: slots are some 2^29 and grow by
  about 2^26 a year. The growth of the map of pending batches, which the code does
  not bound. Starvation of the repair arm of `main.rs:140`, which has the shape of
  the one that `starved` shows.

## 6. Plan

1. Done: ring buffer with its abstract specification and proofs, FEC batches,
   file store, pipeline with RPC and crashes, gossip with the slot race.
2. Done: `Merkle` and `ProofClient`.
3. Done: pull filters and the timed loops (`PullFilter`, `PullLoop`).
4. Done: the conversions (`ReedSolomon`, `ShredWire`, `EntryStream`, `GossipWire`,
   `Codec`).
5. Done: the proofs of section 4.
6. Left: that an answer which took two lookups gives a block the map of `BlockMap`
   held at some time between request and answer, which needs a history of the map
   per client; and that the CRDS table alone implements a map that only moves to
   newer values.
