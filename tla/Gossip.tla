------------------------------- MODULE Gossip -------------------------------
(***************************************************************************)
(* How the node finds out whom to ask for which slot: the gossip task      *)
(* (run_gossip_loop of dc-gossip/src/lib.rs with handler.rs), the slot-RPC *)
(* task and the gossip and repair arms of the main loop (dc-tvu/main.rs).  *)
(*                                                                         *)
(* They run on a multi-threaded executor and share latest_slot, an atomic  *)
(* read and written in two separate steps by two of the tasks, and a       *)
(* bounded channel of contact infos.  Datagrams may be lost, repeated and  *)
(* reordered: any message may arrive whenever the gossip task listens.     *)
(*                                                                         *)
(* PullRequests leave the node and change nothing here but the round       *)
(* counter; the broadcast of events has no reader.                         *)
(***************************************************************************)
EXTENDS CrdsTable

CONSTANTS Self,         \* this node's own pubkey, a member of Keys
          Entrypoint,   \* address of the entrypoint
          Clocks,       \* readings of the clock, in seconds
          Attempts,     \* receives in the ping/pong handshake: 10
          Waits,        \* receives after the first pull request: 15
          ChannelCap,   \* capacity of the mpsc channel: 1000
          MaxValues,    \* bound: values of one message
          MaxChain      \* bound: the slots the cluster reaches

ASSUME GossipAssumption ==
  /\ Self \in Keys /\ Clocks \subseteq Nat /\ Clocks # {}
  /\ Attempts \in Nat \ {0} /\ Waits \in Nat \ {0}
  /\ ChannelCap \in Nat \ {0} /\ MaxValues \in Nat /\ MaxChain \in Nat

VARIABLES pc,           \* where the gossip task is
          tries,        \* receives done in the handshake or the wait
          table,        \* its CrdsTable
          known_peers,  \* where it sends PullRequests
          found,        \* the slot it is about to store
          outbox,       \* contact infos it still has to send
          latest_slot,  \* Arc<AtomicU64>
          channel,      \* mpsc channel to the main loop
          validators,   \* the main loop's repair peers: the contact info of each
          asked,        \* slot of the last repair requests, 0 for none
          poll,         \* the slot-RPC task: [at, slot]
          chain,        \* the cluster's current slot (external)
          clock,        \* seconds
          seen          \* history: values the handler was given

gossipVars == <<pc, tries, table, known_peers, found, outbox>>
mainVars == <<validators, asked>>
vars == <<gossipVars, mainVars, latest_slot, channel, poll, chain, clock, seen>>

Idle == [at |-> "idle", slot |-> 0]

Init ==
  /\ pc = "ping" /\ tries = 0 /\ table = TableNew /\ known_peers = {Entrypoint}
  /\ found = 0 /\ outbox = {}
  /\ latest_slot = 0 /\ channel = <<>>
  /\ validators = [k \in Keys |-> NULL] /\ asked = 0
  /\ poll = Idle
  /\ chain \in 0 .. MaxChain /\ clock = Min(Clocks)
  /\ seen = {}

-----------------------------------------------------------------------------
(* Starting up.  An error returned with `?`, or a panic, ends the task for *)
(* good; the rest of the node goes on without it.                          *)

startUnchanged ==
  <<table, known_peers, found, outbox, latest_slot, channel, mainVars, poll, chain, clock, seen>>

Die == pc' = "dead" /\ UNCHANGED tries

(* The next of n receives, or on to where the last one leads.              *)
Count(n, then) ==
  IF tries + 1 < n THEN tries' = tries + 1 /\ UNCHANGED pc
  ELSE tries' = 0 /\ pc' = then

(* Faulty variant, for the mutation runs: a timeout starts the count anew. *)
HandshakePatient(m) ==
  /\ pc = "ping"
  /\ \/ m = "pong" /\ pc' = "wait" /\ tries' = 0
     \/ m = "ping" /\ Count(Attempts, "wait")
     \/ m = "timeout" /\ tries' = 0 /\ UNCHANGED pc
     \/ m \in {"pong", "timeout"} /\ Die
     \/ m \in {"undecodable", "malformed", "runt"} /\ Die
  /\ UNCHANGED startUnchanged

(* "ping" is any message but a pong.  A pong ends the handshake, a packet  *)
(* that does not decode the task; a timeout repeats the ping.  Leaving the *)
(* handshake, and repeating the ping, sends, which may fail.               *)
Handshake(m) ==
  /\ pc = "ping"
  /\ \/ m = "pong" /\ pc' = "wait" /\ tries' = 0
     \/ m \in {"ping", "timeout"} /\ Count(Attempts, "wait")
     \/ m \in {"pong", "timeout"} /\ Die
     \/ m = "ping" /\ tries + 1 = Attempts /\ Die
     \/ m \in {"undecodable", "malformed", "runt"} /\ Die
  /\ UNCHANGED startUnchanged

(***************************************************************************)
(* The wait for the first response only answers pings.  Its look at the    *)
(* first four bytes panics on a shorter packet ("runt"), decode_from on a  *)
(* list of values that ends inside a value it cannot read ("malformed").   *)
(***************************************************************************)
InitialWait(m) ==
  /\ pc = "wait"
  /\ \/ m \notin {"runt", "malformed"} /\ Count(Waits, "select")
     \/ m \in {"ping", "runt", "malformed"} /\ Die
  /\ UNCHANGED startUnchanged

Messages == {"ping", "pong", "undecodable", "malformed", "runt", "timeout"}

-----------------------------------------------------------------------------
(* The gossip loop.                                                        *)

(* The values of a PushMessage or a PullResponse.                          *)
Batches == UNION {[1 .. n -> Values] : n \in 0 .. MaxValues}

(* Faulty variant, for the mutation runs: peers no longer listed are lost. *)
HandleForgets(values) ==
  /\ pc = "select"
  /\ table' = MergeAll(table, values)
  /\ known_peers' = {Entrypoint} \cup {v.addr : v \in ContactInfos(table')}
  /\ seen' = seen \cup {values[i] : i \in DOMAIN values}
  /\ UNCHANGED <<pc, tries, found, outbox, latest_slot, channel, mainVars, poll, chain, clock>>

(***************************************************************************)
(* Handler::handle: all values are merged before the contact infos are     *)
(* listed.  A contact info that a newer value of its message replaces is   *)
(* never listed.                                                           *)
(***************************************************************************)
Handle(values) ==
  /\ pc = "select"
  /\ table' = MergeAll(table, values)
  /\ known_peers' = known_peers \cup {v.addr : v \in {w \in ContactInfos(table') : w.key # Self}}
  /\ seen' = seen \cup {values[i] : i \in DOMAIN values}
  /\ UNCHANGED <<pc, tries, found, outbox, latest_slot, channel, mainVars, poll, chain, clock>>

(* A ping whose pong cannot be sent, or a malformed message; other pings,  *)
(* pongs and packets that do not decode change nothing.                    *)
LoopFails ==
  /\ pc = "select"
  /\ Die
  /\ UNCHANGED startUnchanged

(* Faulty variant, for the mutation runs: stores without comparing.        *)
PruneTableStores ==
  /\ pc = "select"
  /\ table' = Prune(table, clock)
  /\ outbox' = AllContactInfos(table')
  /\ found' = IF HighestSlot(table') = NULL THEN 0 ELSE HighestSlot(table')
  /\ pc' = "store"
  /\ UNCHANGED <<tries, known_peers, latest_slot, channel, mainVars, poll, chain, clock, seen>>

(* The sleep arm, 15 seconds after the last time: prune, and compare the   *)
(* highest slot with latest_slot.                                          *)
PruneTable ==
  /\ pc = "select"
  /\ table' = Prune(table, clock)
  /\ outbox' = AllContactInfos(table')
  /\ LET slot == HighestSlot(table')
     IN  IF slot # NULL /\ slot > latest_slot
         THEN pc' = "store" /\ found' = slot
         ELSE pc' = "forward" /\ UNCHANGED found
  /\ UNCHANGED <<tries, known_peers, latest_slot, channel, mainVars, poll, chain, clock, seen>>

StoreSlot ==
  /\ pc = "store"
  /\ latest_slot' = found
  /\ found' = 0
  /\ pc' = "forward"
  /\ UNCHANGED <<tries, table, known_peers, outbox, channel, mainVars, poll, chain, clock, seen>>

(* tx.send(ci).await: waits while the channel is full.                     *)
Forward(ci) ==
  /\ pc = "forward" /\ ci \in outbox
  /\ Len(channel) < ChannelCap
  /\ channel' = Append(channel, ci)
  /\ outbox' = outbox \ {ci}
  /\ UNCHANGED <<pc, tries, table, known_peers, found, latest_slot, mainVars, poll, chain, clock, seen>>

(* Then every contact info's address becomes a peer, our own included.     *)
FinishPrune ==
  /\ pc = "forward" /\ outbox = {}
  /\ known_peers' = known_peers \cup {v.addr : v \in ContactInfos(table)}
  /\ pc' = "select"
  /\ UNCHANGED <<tries, table, found, outbox, latest_slot, channel, mainVars, poll, chain, clock, seen>>

GossipStep ==
  \/ \E m \in Messages : Handshake(m) \/ InitialWait(m)
  \/ \E values \in Batches : Handle(values)
  \/ LoopFails \/ PruneTable \/ StoreSlot
  \/ \E ci \in outbox : Forward(ci)
  \/ FinishPrune

-----------------------------------------------------------------------------
(* The slot-RPC task: ask, compare the answer, store.  A failed request is *)
(* repeated three seconds later.                                           *)

PollAnswer ==
  /\ poll.at = "idle"
  /\ poll' = [at |-> "compare", slot |-> chain]
  /\ UNCHANGED <<gossipVars, mainVars, latest_slot, channel, chain, clock, seen>>

PollCompare ==
  /\ poll.at = "compare"
  /\ poll' = IF poll.slot > latest_slot THEN [poll EXCEPT !.at = "store"] ELSE Idle
  /\ UNCHANGED <<gossipVars, mainVars, latest_slot, channel, chain, clock, seen>>

PollStore ==
  /\ poll.at = "store"
  /\ latest_slot' = poll.slot
  /\ poll' = Idle
  /\ UNCHANGED <<gossipVars, mainVars, channel, chain, clock, seen>>

PollStep == PollAnswer \/ PollCompare \/ PollStore

-----------------------------------------------------------------------------
(* The main loop.                                                          *)

(* Faulty variant, for the mutation runs: a known validator stays queued.  *)
TakeContactNew ==
  /\ channel # <<>>
  /\ validators[Head(channel).key] = NULL
  /\ validators' = [validators EXCEPT ![Head(channel).key] = Head(channel)]
  /\ channel' = Tail(channel)
  /\ UNCHANGED <<gossipVars, asked, latest_slot, poll, chain, clock, seen>>

TakeContact ==
  /\ channel # <<>>
  /\ validators' = IF Head(channel).repair = NULL THEN validators
                   ELSE [validators EXCEPT ![Head(channel).key] = Head(channel)]
  /\ channel' = Tail(channel)
  /\ UNCHANGED <<gossipVars, asked, latest_slot, poll, chain, clock, seen>>

(* Faulty variant, for the mutation runs: asks for the next slot.          *)
RepairPollNext ==
  /\ latest_slot > 0
  /\ \E k \in Keys : validators[k] # NULL
  /\ asked' = latest_slot + 1
  /\ UNCHANGED <<gossipVars, validators, latest_slot, channel, poll, chain, clock, seen>>

(* Every five seconds: all 64 indexes of the slot, from every validator.   *)
RepairPoll ==
  /\ latest_slot > 0
  /\ \E k \in Keys : validators[k] # NULL
  /\ asked' = latest_slot
  /\ UNCHANGED <<gossipVars, validators, latest_slot, channel, poll, chain, clock, seen>>

MainStep == TakeContact \/ RepairPoll

-----------------------------------------------------------------------------
(* The world outside.                                                      *)
NewSlot ==
  /\ chain < MaxChain
  /\ chain' = chain + 1
  /\ UNCHANGED <<gossipVars, mainVars, latest_slot, channel, poll, clock, seen>>

TimePasses ==
  /\ \E t \in Clocks : t > clock /\ clock' = t
  /\ UNCHANGED <<gossipVars, mainVars, latest_slot, channel, poll, chain, seen>>

Next == GossipStep \/ PollStep \/ MainStep \/ NewSlot \/ TimePasses

Spec == Init /\ [][Next]_vars

(***************************************************************************)
(* The executor runs every task that can go on; a receive of the start-up  *)
(* that gets nothing times out; select! picks a ready arm at random, so a  *)
(* queued contact info is taken.  The loop's own select is left unfair:    *)
(* its sleep is started anew by every packet, so steady traffic may keep   *)
(* the prune waiting for ever.                                             *)
(***************************************************************************)
FairSpec ==
  /\ Spec
  /\ WF_vars(Handshake("timeout") \/ InitialWait("timeout"))
  /\ WF_vars(StoreSlot \/ (\E ci \in outbox : Forward(ci)) \/ FinishPrune)
  /\ WF_vars(PollStep) /\ WF_vars(TakeContact)

-----------------------------------------------------------------------------
(* The tasks are at a known place, the channel holds no more than it may,  *)
(* values are filed under their own keys, and only the prune has contact   *)
(* infos to send.                                                          *)
TypeOK ==
  /\ pc \in {"ping", "wait", "select", "store", "forward", "dead"}
  /\ tries \in Nat /\ (pc = "ping" => tries < Attempts) /\ (pc = "wait" => tries < Waits)
  /\ {latest_slot, asked, found, chain} \subseteq Nat /\ clock \in Clocks
  /\ IsTable(table) /\ IsTable(validators)
  /\ \A k \in Keys : validators[k] # NULL => validators[k].repair # NULL
  /\ seen \subseteq Values /\ outbox \subseteq Values
  /\ outbox # {} => pc \in {"store", "forward"}
  /\ channel \in Seq(Values) /\ Len(channel) <= ChannelCap
  /\ poll \in [at : {"idle", "compare", "store"}, slot : Nat]

Fresh(v) == v.wallclock > (clock - PruneAge) * 1000

(* In whatever order, and however often, values arrive: of each pubkey the *)
(* table holds one as new as the newest that is less than 15 minutes old.  *)
NewestKept ==
  \A v \in seen : Fresh(v) => table[v.key] # NULL /\ table[v.key].wallclock >= v.wallclock

(* latest_slot, and so every slot repair asks for, is one that the RPC or  *)
(* a vote really named, never a leftover of both.                          *)
SlotReported ==
  \A s \in {latest_slot, asked} : s = 0 \/ s <= chain \/ s \in {v.slot : v \in seen}

(* A validator's repair address is only replaced by that of a newer        *)
(* contact info, through prunes, the queue and lost or repeated messages.  *)
ValidatorsNewer ==
  [][\A k \in Keys : validators[k] # NULL =>
       /\ validators'[k] # NULL
       /\ validators'[k].wallclock >= validators[k].wallclock]_vars

(* Whoever's contact info the table holds once a message is handled is     *)
(* asked for gossip ever after, also when a later message or a prune takes *)
(* it from the table.                                                      *)
PeersRemembered ==
  \A v \in {w \in Values : w.addr # NULL /\ w.key # Self} :
    [](table[v.key] = v => [](v.addr \in known_peers))

(* Start-up ends, whatever arrives or does not.                            *)
StartupEnds == <>(pc \notin {"ping", "wait"})

(* A full channel delays the gossip task but never stops it.               *)
ForwardEnds == pc \in {"store", "forward"} ~> pc = "select"

(* The unsynchronised updates heal: when the cluster has stopped,          *)
(* latest_slot is its slot or a later one for good.                        *)
CatchesUp == \A n \in 0 .. MaxChain : <>[](chain = n) => <>[](latest_slot >= n)

-----------------------------------------------------------------------------
(* What a document says and the code does not keep.                        *)

(* gossip_design.md:185 "Prune: entries with wallclock older than 15 min". *)
PrunedWhenOld ==
  [][pc = "select" /\ pc' \in {"store", "forward"} => \A v \in Entries(table') : Fresh(v)]_vars
=============================================================================
