------------------------------ MODULE Pipeline ------------------------------
(***************************************************************************)
(* The node from a received shred to an RPC answer.                        *)
(*                                                                         *)
(* The main task (main.rs) takes one shred at a time through process_shred *)
(* and passes an await point before each lock: stats, ring_buffer,         *)
(* file_store, stats again -- now held while it waits for ring_buffer.     *)
(* RPC handlers (rpc_server.rs) run as tasks of their own and go through   *)
(* the same locks one after the other, so between two of their reads the   *)
(* main task may do anything.  A step here is the code from one await to   *)
(* the next; a lock that is taken and released inside one step needs no    *)
(* variable, the stats lock of the last part of process_shred does.        *)
(*                                                                         *)
(* The process may be killed at any moment and is then started again: ring,*)
(* stats, batches and open requests are gone, the .dat files stay.         *)
(*                                                                         *)
(* What try_recover makes of a batch is FecBatch's subject; here follows   *)
(* what becomes of it, garbled recoveries included.                        *)
(***************************************************************************)
EXTENDS SlotRingBuffer, FecBatch, FlatFileStore, Merkle

CONSTANTS TxCount,      \* per set: transactions deshred_into_txs finds, or NoEntries
          GarbledTxs,   \* what it may find in garbled payloads
          Clients,      \* concurrent RPC requests
          Indexes,      \* transaction indexes a client may ask for
          Methods,      \* RPC methods clients use
          MaxBlocks,    \* bound: blocks recovered between two starts
          MaxCrashes,   \* bound: crashes
          MaxFailures   \* bound: failed saves

ASSUME PipelineAssumption ==
  /\ StoreSlots = {id.slot : id \in ErasureSets}
  /\ \A id \in ErasureSets : id.slot > 0 /\ TxCount[id] \in Nat \cup {NoEntries}
  /\ GarbledTxs \subseteq Nat \cup {NoEntries}
  /\ Methods \subseteq {"getSlot", "getBlock", "getProof", "getTransactionByIndex", "stats"}
  /\ Indexes \subseteq Nat
  /\ IsFiniteSet(Opaque)

(* A .dat file, the file store, a SlotData of the ring, the StatsSnapshot. *)
Files == [set : ErasureSets, whole : BOOLEAN, txs : Nat \cup {NoEntries}]
Stores == [disk : [StoreSlots -> Files \cup {NULL}], index : SUBSET StoreSlots]
SlotDatas == [slot : StoreSlots, parent_slot : Nat, set : ErasureSets, whole : BOOLEAN, txs : Nat]
Snapshots == [latest_slot : StoreSlots \cup {0}, total : Nat, latest : Files \cup {NULL},
              ring_len : Nat, files : Nat]

ASSUME PipelineNullAssumption ==
  NULL \notin Files \cup SlotDatas \cup Shreds \cup {"slot", "index", "none"}

VARIABLES pc,         \* where the main task is
          cur,        \* the shred it processes
          block,      \* the SlotData it stores, NULL if none
          batches, ring, store,
          stats, statsLocked,
          rpc,        \* per client, the request under way
          ans,        \* per client, its last answer
          crashes, failures,   \* bounded counters
          settled,    \* history: stats when its lock was last released
          made,       \* history: the blocks recovered, as file contents
          torn,       \* history: slots some write of which was cut short
          told        \* history: per client, the last slot getSlot told it

mainVars == <<pc, cur, block, batches>>
clientVars == <<rpc, ans>>
history == <<settled, made, torn, told>>
vars == <<mainVars, ring, store, stats, statsLocked, clientVars, crashes, failures, history>>

NoStats == [latest_slot |-> 0, total |-> 0, latest |-> NULL, ring_len |-> 0, files |-> 0]
Idle == [at |-> "idle"]

Init ==
  /\ pc = "recv" /\ cur = NULL /\ block = NULL
  /\ batches = [id \in ErasureSets |-> NULL]
  /\ ring = RingNew
  /\ store = FileStoreNew([s \in StoreSlots |-> NULL])
  /\ stats = NoStats /\ statsLocked = FALSE
  /\ rpc = [c \in Clients |-> Idle] /\ ans = [c \in Clients |-> NULL]
  /\ crashes = 0 /\ failures = 0
  /\ settled = NoStats /\ made = {} /\ torn = {} /\ told = [c \in Clients |-> 0]

-----------------------------------------------------------------------------
(* The main task.                                                          *)

(* A packet parsed into a shred; process_shred waits for the stats lock.   *)
ReceiveShred(shred) ==
  /\ pc = "recv"
  /\ stats.total < MaxBlocks
  /\ pc' = "shred" /\ cur' = shred
  /\ UNCHANGED <<block, batches, ring, store, stats, statsLocked, clientVars, crashes, failures, history>>

BatchWith(shred) ==
  AddShred(IF batches[shred.set] = NULL THEN OpenBatch(shred) ELSE batches[shred.set], shred)

(* The block of a recovered batch, as SlotData and as file contents.       *)
SlotDataOf(id, batch, out, n) ==
  [slot |-> id.slot, parent_slot |-> batch.parent_slot, set |-> id, whole |-> out = "whole",
   txs |-> n]

FileOf(data) == [set |-> data.set, whole |-> data.whole, txs |-> data.txs]

(* What deshred_into_txs may find: the first payloads of a set begin its   *)
(* entries, of garbled ones nothing is known.                              *)
TxsFound(out, id) ==
  CASE out = "whole"   -> {TxCount[id]}
    [] out = "partial" -> NoEntries .. TxCount[id]
    [] out = "garbled" -> GarbledTxs

(***************************************************************************)
(* stats.current_batch is refreshed (figures for the dashboard, not        *)
(* modelled), the shred is added, and the batch recovered if it can be.    *)
(* The batch waits for more; or its payloads deshred to nothing and it is  *)
(* dropped without a trace; or its block waits for the ring's lock.        *)
(***************************************************************************)
AddAndRecover ==
  /\ pc = "shred" /\ ~statsLocked
  /\ LET id == cur.set
         batch == BatchWith(cur)
     IN  \/ /\ NULL \in TryRecover(batch, id)
            /\ batches' = [batches EXCEPT ![id] = batch]
            /\ pc' = "recv" /\ cur' = NULL
            /\ UNCHANGED <<block, made>>
         \/ \E out \in TryRecover(batch, id) \cap Outcomes :
              \/ /\ NoEntries \in TxsFound(out, id)
                 /\ batches' = [batches EXCEPT ![id] = NULL]
                 /\ pc' = "recv" /\ cur' = NULL
                 /\ UNCHANGED <<block, made>>
              \/ \E n \in TxsFound(out, id) \ {NoEntries} :
                   /\ batches' = [batches EXCEPT ![id] = batch]
                   /\ block' = SlotDataOf(id, batch, out, n)
                   /\ made' = made \cup {FileOf(block')}
                   /\ pc' = "put"
                   /\ UNCHANGED cur
  /\ UNCHANGED <<ring, store, stats, statsLocked, clientVars, crashes, failures, settled, torn, told>>

(* Faulty variant, for the mutation runs: readers go first.                *)
PutRingPolite ==
  /\ pc = "put"
  /\ \A c \in Clients : rpc[c] = Idle
  /\ ring' = RingPut(ring, block)
  /\ pc' = "save"
  /\ UNCHANGED <<cur, block, batches, store, stats, statsLocked, clientVars, crashes, failures, history>>

PutRing ==
  /\ pc = "put"
  /\ ring' = RingPut(ring, block)
  /\ pc' = "save"
  /\ UNCHANGED <<cur, block, batches, store, stats, statsLocked, clientVars, crashes, failures, history>>

SaveFile ==
  /\ pc = "save"
  /\ store' = SaveSlot(store, block.slot, FileOf(block))
  /\ pc' = "publish"
  /\ UNCHANGED <<cur, block, batches, ring, stats, statsLocked, clientVars, crashes, failures, history>>

(* An I/O error in save_slot; `let _ =` drops it and processing goes on.   *)
SaveFileFails ==
  /\ pc = "save"
  /\ failures < MaxFailures
  /\ failures' = failures + 1
  /\ store' \in PartialSaves(store, block.slot, FileOf(block))
  /\ torn' = torn \cup {block.slot}
  /\ pc' = "publish"
  /\ UNCHANGED <<cur, block, batches, ring, stats, statsLocked, clientVars, crashes, settled, made, told>>

(* Under the stats lock, up to the await for the ring: latest_slot is set  *)
(* to this block's slot even when a newer one was published before.        *)
Publish ==
  /\ pc = "publish" /\ ~statsLocked
  /\ statsLocked' = TRUE
  /\ stats' = [stats EXCEPT !.total = @ + 1, !.latest_slot = block.slot, !.latest = FileOf(block)]
  /\ pc' = "count"
  /\ UNCHANGED <<cur, block, batches, ring, store, clientVars, crashes, failures, history>>

(* Faulty variant, for the mutation runs: the lock is not released.        *)
FinishPublishLocked ==
  /\ pc = "count"
  /\ stats' = [stats EXCEPT !.ring_len = RingLen(ring), !.files = Cardinality(DatFiles(store))]
  /\ batches' = [batches EXCEPT ![cur.set] = NULL]
  /\ pc' = "recv" /\ cur' = NULL /\ block' = NULL
  /\ UNCHANGED <<ring, store, statsLocked, clientVars, crashes, failures, history>>

(* The ring's length and the number of .dat files, then the lock is        *)
(* released and the batch removed.                                         *)
FinishPublish ==
  /\ pc = "count"
  /\ stats' = [stats EXCEPT !.ring_len = RingLen(ring), !.files = Cardinality(DatFiles(store))]
  /\ statsLocked' = FALSE
  /\ settled' = stats'
  /\ batches' = [batches EXCEPT ![cur.set] = NULL]
  /\ pc' = "recv" /\ cur' = NULL /\ block' = NULL
  /\ UNCHANGED <<ring, store, clientVars, crashes, failures, made, torn, told>>

(* The process ends, by a panic or killed, and is started again: the new   *)
(* one indexes every file it finds.                                        *)
Restarted(disk) ==
  /\ store' = FileStoreNew(disk)
  /\ pc' = "recv" /\ cur' = NULL /\ block' = NULL
  /\ batches' = [id \in ErasureSets |-> NULL]
  /\ ring' = RingNew
  /\ stats' = NoStats /\ statsLocked' = FALSE /\ settled' = NoStats
  /\ rpc' = [c \in Clients |-> Idle] /\ ans' = [c \in Clients |-> NULL]
  /\ UNCHANGED <<failures, made, told>>

(* decode reads past the end of a short payload.                           *)
RecoverPanics ==
  /\ pc = "shred" /\ ~statsLocked
  /\ "panic" \in TryRecover(BatchWith(cur), cur.set)
  /\ Restarted(store.disk)
  /\ UNCHANGED <<crashes, torn>>

MainStep ==
  \/ AddAndRecover \/ RecoverPanics
  \/ PutRing \/ SaveFile \/ SaveFileFails \/ Publish \/ FinishPublish

-----------------------------------------------------------------------------
(* RPC handlers.                                                           *)

nodeVars == <<mainVars, ring, store, stats, statsLocked, crashes, failures, settled, made, torn>>

(* What clients ask, parameters included: getLatestSlot goes the way of    *)
(* getSlot, getBlockWithProofs that of getBlock.                           *)
Requests ==
  {r \in [method : {"getSlot", "stats"}, slot : {0}, index : {0}]
           \cup [method : {"getBlock"}, slot : StoreSlots, index : {0}]
           \cup [method : {"getProof", "getTransactionByIndex"}, slot : StoreSlots, index : Indexes] :
     r.method \in Methods}

(* A request under way, by the lock it waits for.                          *)
Pending ==
  {Idle}
    \cup [at : {"stats"}, method : {"getSlot", "stats"}, slot : {0}, index : {0}, file : {NULL}]
    \cup [at : {"latest"}, method : {"getSlot"}, slot : {0}, index : {0}, file : {NULL}]
    \cup [at : {"ring", "file"}, method : {"getBlock", "getProof", "getTransactionByIndex"},
          slot : StoreSlots, index : Nat, file : {NULL}]
    \cup [at : {"parent"}, method : {"getBlock"}, slot : StoreSlots, index : Nat, file : Files]

(* jsonrpc_handler and stats_handler: the lock each method waits for first.*)
Request(c, r) ==
  /\ rpc[c] = Idle
  /\ rpc' = [rpc EXCEPT ![c] =
       [at |-> IF r.method \in {"getSlot", "stats"} THEN "stats" ELSE "ring",
        method |-> r.method, slot |-> r.slot, index |-> r.index, file |-> NULL]]
  /\ ans' = [ans EXCEPT ![c] = NULL]
  /\ UNCHANGED <<nodeVars, told>>

Answer(c, a) == ans' = [ans EXCEPT ![c] = a] /\ rpc' = [rpc EXCEPT ![c] = Idle]

(* The slot is not found, or the index is out of range.                    *)
Refuse(c, error) ==
  Answer(c, [method |-> rpc[c].method, slot |-> rpc[c].slot, index |-> rpc[c].index,
             error |-> error])

NotFound(c) == Refuse(c, "slot")

Proceed(c, where) == rpc' = [rpc EXCEPT ![c].at = where] /\ UNCHANGED ans

(* Faulty variant, for the mutation runs: reads without the lock.          *)
AnswerStatsUnlocked(c) ==
  /\ rpc[c].at = "stats" /\ rpc[c].method = "stats"
  /\ Answer(c, [method |-> "stats", stats |-> stats, settled |-> settled])
  /\ UNCHANGED <<nodeVars, told>>

(* stats_handler: one snapshot under the read lock.                        *)
AnswerStats(c) ==
  /\ rpc[c].at = "stats" /\ rpc[c].method = "stats"
  /\ ~statsLocked
  /\ Answer(c, [method |-> "stats", stats |-> stats, settled |-> settled])
  /\ UNCHANGED <<nodeVars, told>>

AnswerSlot(c, slot) ==
  IF slot = 0
  THEN Answer(c, [method |-> "getSlot", error |-> "none"]) /\ UNCHANGED told
  ELSE /\ Answer(c, [method |-> "getSlot", error |-> NULL, slot |-> slot])
       /\ told' = [told EXCEPT ![c] = slot]

(* handle_get_slot: the live slot, or the newest file when there is none.  *)
ReadLiveSlot(c) ==
  /\ rpc[c].at = "stats" /\ rpc[c].method = "getSlot"
  /\ ~statsLocked
  /\ IF stats.latest_slot > 0 THEN AnswerSlot(c, stats.latest_slot)
     ELSE Proceed(c, "latest") /\ UNCHANGED told
  /\ UNCHANGED nodeVars

ReadLatestFile(c) ==
  /\ rpc[c].at = "latest"
  /\ AnswerSlot(c, IF StoreLatestSlot(store) = NULL THEN 0 ELSE StoreLatestSlot(store))
  /\ UNCHANGED nodeVars

(* The raw transactions deshred_into_txs finds in a file.                  *)
RawTxs(file) == [i \in 1 .. file.txs |-> [set |-> file.set, whole |-> file.whole, i |-> i]]

(* The answer made from a block, with what the method adds to it.          *)
Found(c, file, body) ==
  [method |-> rpc[c].method, slot |-> rpc[c].slot, index |-> rpc[c].index,
   error |-> NULL, file |-> file, body |-> body]

(* MerkleTree::verify on the leaf and proof the handlers take from a block *)
(* of that many raw transactions; ProofClient checks that this is what the *)
(* tree gives (VerifiedExactly).                                           *)
Verified(txs, index) == index < txs \/ txs = 0

(* The answer from a loaded block, or on to the second look at the ring.   *)
Loaded(c, file) ==
  LET index == rpc[c].index
      verified == Verified(file.txs, index)
      parsed == ParseTransactions(RawTxs(file))
  IN  CASE rpc[c].method = "getProof" -> Answer(c, Found(c, file, [verified |-> verified]))
        [] rpc[c].method = "getTransactionByIndex" ->
             IF index >= Len(parsed) THEN Refuse(c, "index")
             ELSE Answer(c, Found(c, file, [verified |-> verified,
                                            transaction |-> parsed[index + 1]]))
        [] rpc[c].method = "getBlock" ->
             rpc' = [rpc EXCEPT ![c].at = "parent", ![c].file = file] /\ UNCHANGED ans

(* Faulty variant, for the mutation runs: a miss is not looked up on disk. *)
ReadRingOnly(c) ==
  /\ rpc[c].at = "ring"
  /\ LET data == RingGet(ring, rpc[c].slot)
     IN  IF data = NULL \/ data.txs = 0 THEN NotFound(c) ELSE Loaded(c, FileOf(data))
  /\ UNCHANGED <<nodeVars, told>>

(* load_slot_data, first half: a hit without transactions is "not found",  *)
(* a miss goes on to the file store.                                       *)
ReadRing(c) ==
  /\ rpc[c].at = "ring"
  /\ LET data == RingGet(ring, rpc[c].slot)
     IN  IF data = NULL THEN Proceed(c, "file")
         ELSE IF data.txs = 0 THEN NotFound(c)
         ELSE Loaded(c, FileOf(data))
  /\ UNCHANGED <<nodeVars, told>>

(* load_slot_data, second half.                                            *)
ReadFile(c) ==
  /\ rpc[c].at = "file"
  /\ LET file == LoadSlot(store, rpc[c].slot)
     IN  IF file = NULL THEN NotFound(c)
         ELSE IF file.txs = NoEntries THEN NotFound(c)
         ELSE Loaded(c, file)
  /\ UNCHANGED <<nodeVars, told>>

(* handle_get_block and handle_get_block_with_proofs: the parent comes     *)
(* from a second lookup, which may see another block or none.              *)
ReadParent(c) ==
  /\ rpc[c].at = "parent"
  /\ LET data == RingGet(ring, rpc[c].slot)
     IN  Answer(c, Found(c, rpc[c].file,
                         [parent |-> IF data = NULL THEN rpc[c].slot - 1 ELSE data.parent_slot]))
  /\ UNCHANGED <<nodeVars, told>>

ClientStep(c) ==
  \/ AnswerStats(c) \/ ReadLiveSlot(c) \/ ReadLatestFile(c)
  \/ ReadRing(c) \/ ReadFile(c) \/ ReadParent(c)

-----------------------------------------------------------------------------
(* Killed and started again.  A save under way leaves one of its partial   *)
(* results.                                                                *)
CrashRestart ==
  /\ crashes < MaxCrashes
  /\ crashes' = crashes + 1
  /\ \E left \in IF pc = "save" THEN PartialSaves(store, block.slot, FileOf(block)) ELSE {store} :
       Restarted(left.disk)
  /\ torn' = IF pc = "save" THEN torn \cup {block.slot} ELSE torn

Next ==
  \/ \E shred \in Shreds : ReceiveShred(shred)
  \/ MainStep
  \/ \E c \in Clients, r \in Requests : Request(c, r)
  \/ \E c \in Clients : ClientStep(c)
  \/ CrashRestart

Spec == Init /\ [][Next]_vars

(* Tokio polls every runnable task again and its locks are fair, so a task *)
(* that can go on eventually does.  No fairness is assumed of the network, *)
(* the clients or crashes.                                                 *)
FairSpec == Spec /\ WF_vars(MainStep) /\ \A c \in Clients : WF_vars(ClientStep(c))

-----------------------------------------------------------------------------
(* The state has the shape the code gives it: the main task has a block    *)
(* exactly while it stores one, and holds the stats lock exactly while it  *)
(* counts; the index never names a slot without a file; a handler is where *)
(* its method takes it.                                                    *)
TypeOK ==
  /\ pc \in {"recv", "shred", "put", "save", "publish", "count"}
  /\ cur \in Shreds \cup {NULL} /\ (cur = NULL) = (pc = "recv")
  /\ block \in SlotDatas \cup {NULL} /\ (block = NULL) = (pc \in {"recv", "shred"})
  /\ batches \in [ErasureSets -> FecBatches \cup {NULL}]
  /\ ring \in Rings(SlotDatas \cup {NULL})
  /\ store \in Stores
  /\ store.index \subseteq DatFiles(store) /\ IsFiniteSet(DatFiles(store))
  /\ stats \in Snapshots /\ settled \in Snapshots
  /\ statsLocked = (pc = "count")
  /\ crashes \in Nat /\ failures \in Nat
  /\ torn \subseteq StoreSlots /\ made \subseteq Files
  /\ told \in [Clients -> StoreSlots \cup {0}]
  /\ rpc \in [Clients -> Pending] /\ DOMAIN ans = Clients

(* Both tiers serve the same block: once the main task is past the file    *)
(* write, a slot a reader finds in the ring is on disk with the very same  *)
(* contents, unless a write of it was cut short.                           *)
HotColdAgree ==
  \A s \in StoreSlots \ torn :
    LET data == RingGet(ring, s)
    IN  data # NULL /\ ~(pc = "save" /\ block.slot = s) =>
          LoadSlot(store, s) = FileOf(data)

(* The clients whose last answer is to one of these methods, and those     *)
(* that were given, or refused, a block for a reason.                      *)
Answers(methods) == {c \in Clients : ans[c] # NULL /\ ans[c].method \in methods}
BlockAnswers(error) ==
  {c \in Answers({"getBlock", "getProof", "getTransactionByIndex"}) : ans[c].error = error}

(***************************************************************************)
(* A block answer is in full one of the blocks recovered of that slot,     *)
(* never another slot's or a fragment, unless a write of that slot was cut *)
(* short -- and unless code shreds had a part in the recovery, all the     *)
(* transactions of one of its sets.  Although the parent comes from a      *)
(* second lookup, it is that of a set of this slot or one of the two       *)
(* stand-ins: the slot before, or 0 after a recovery from code shreds      *)
(* alone.  A transaction is one of the answer's block, and an index is     *)
(* refused only if a block of the slot does not reach it.                  *)
(***************************************************************************)
ServedWhole ==
  /\ \A c \in BlockAnswers(NULL) : ans[c].slot \notin torn =>
       /\ ans[c].file \in made /\ ans[c].file.set.slot = ans[c].slot
       /\ ans[c].file.whole => ans[c].file.txs = TxCount[ans[c].file.set]
       /\ ans[c].method = "getBlock" =>
            \/ ans[c].body.parent \in {0, ans[c].slot - 1}
            \/ \E id \in ErasureSets : id.slot = ans[c].slot /\ ans[c].body.parent = TrueParent[id]
       /\ ans[c].method = "getTransactionByIndex" =>
            \E i \in 1 .. ans[c].file.txs :
              ans[c].body.transaction = RawTxs(ans[c].file)[i] /\ RawTxs(ans[c].file)[i] \notin Opaque
  /\ \A c \in BlockAnswers("index") : ans[c].slot \notin torn =>
       \E file \in made :
         file.set.slot = ans[c].slot /\ ans[c].index + Cardinality(Opaque) >= file.txs

(* A client that was told a slot by getSlot and asks for it is never told  *)
(* "not found" -- across evictions from the ring, further blocks and       *)
(* restarts -- unless a write of it was cut short or a block without       *)
(* transactions was recovered of it.                                       *)
AnnouncedServed ==
  \A c \in BlockAnswers("slot") : ans[c].slot = told[c] /\ ans[c].slot \notin torn =>
    \E file \in made : file.set.slot = ans[c].slot /\ file.txs = 0

(* /stats never shows a half-made update: a snapshot is what the last      *)
(* completed update left, although an update spans an await.               *)
SnapshotSettled ==
  \A c \in Answers({"stats"}) : ans[c].stats = ans[c].settled

(* The file contents a handler finds for a slot, in whichever tier.        *)
Served(s) ==
  LET data == RingGet(ring, s)
  IN  IF data = NULL THEN LoadSlot(store, s) ELSE FileOf(data)

(* The blocks that may be recovered of a slot, as file contents.           *)
MayBeMade(slot) ==
  UNION {{[set |-> id, whole |-> out = "whole", txs |-> n] : n \in TxsFound(out, id) \ {NoEntries}} :
           id \in {e \in ErasureSets : e.slot = slot}, out \in Outcomes}

Blocks == INSTANCE BlockMap WITH
  Slots <- StoreSlots,
  BlocksOf <- [s \in StoreSlots |-> MayBeMade(s)],
  blocks <- [s \in StoreSlots |-> IF s \in torn THEN NULL ELSE Served(s)],
  givenUp <- torn

(* The two tiers are one map from slots to blocks, as a handler's lookup   *)
(* reads them: a recovered block appears in one step, the put or the save, *)
(* and evicting a cell, failing or restarting takes nothing away -- unless *)
(* a write was cut short, which gives up that very slot and no other.      *)
BlockMapSpec == Blocks!Spec

(* Every request is answered (or its process killed), and the main task    *)
(* always comes back for the next packet: nobody waits for a lock forever. *)
NobodyWaits ==
  /\ \A c \in Clients : rpc[c] # Idle ~> rpc[c] = Idle
  /\ pc # "recv" ~> pc = "recv"

-----------------------------------------------------------------------------
(* What a document says and the code does not keep.                        *)

(* PIPELINE_DESIGN.md:572 "the node can restart without losing data": a    *)
(* file that holds all of its set holds it after a restart too.            *)
RestartLosesNothing ==
  [][crashes' # crashes =>
       \A s \in StoreSlots : store.disk[s] # NULL /\ store.disk[s].whole =>
         store'.disk[s] # NULL /\ store'.disk[s].whole]_vars
=============================================================================
