------------------------------- MODULE PullLoop -------------------------------
(***************************************************************************)
(* Which peer is asked for which part of its table, and when: the timed    *)
(* select loop of the gossip library (dc-gossip/src/lib.rs) and that of    *)
(* the stand-alone gossip node (dc-gossip/src/main.rs), two copies of one  *)
(* loop that have grown apart, with the start-up of the latter.  `program` *)
(* says which of the two runs.  The library's start-up, its table and its  *)
(* channel are the subject of Gossip and CrdsTable.                        *)
(*                                                                         *)
(* Time passes in ticks while the loop waits.  Every pass of the loop      *)
(* starts a new sleep, so a packet puts the sleep off.  The elapsed times  *)
(* are counted no further than they are compared.                          *)
(***************************************************************************)
EXTENDS PullFilter

CONSTANTS Peers,        \* addresses of other nodes
          Entrypoint,   \* address of the entrypoint
          Own,          \* our own address
          CallerSizes,  \* sizes our signed contact info may have
          Attempts,     \* receives in the handshake: 10
          Windows,      \* receives after the first request: 6
          Sleep,        \* ticks of the sleep arm: 500 ms
          PullEvery,    \* program -> ticks between requests: 10 s, 5 s
          PruneEvery,   \* program -> ticks between prunes: 15 s, 30 s
          RoundBits     \* width of pull_round: 64

Programs == {"library", "standalone"}
Addrs == Peers \cup {Entrypoint, Own}

ASSUME PullLoopAssumption ==
  /\ Entrypoint \notin Peers /\ Own \notin Peers \cup {Entrypoint}
  /\ CallerSizes \subseteq Nat /\ Attempts \in Nat \ {0} /\ Windows \in Nat \ {0}
  /\ Sleep \in Nat \ {0} /\ RoundBits \in Nat
  /\ PullEvery \in [Programs -> Nat \ {0}] /\ PruneEvery \in [Programs -> Nat \ {0}]
  /\ \A caller \in CallerSizes :
       LET bytes == GetMaxBloomFilterBytes(caller)
       IN  /\ bytes > 0
           /\ MaskBits(bytes) \in 0 .. Min({WordBits - 1, RoundBits})

VARIABLES program,
          messages,      \* the requests, rebuilt alike for every pull
          pc,            \* "ping", "listen", "select" or "dead"
          tries,         \* receives done in the handshake or after it
          slept,         \* ticks since this pass of the loop began
          since_pull,    \* last_pull.elapsed()
          since_prune,   \* last_prune.elapsed()
          known_peers,
          contacts,      \* addresses get_contact_infos lists, our own too
          pull_round,
          asked,         \* history: the seeds each address was sent
          rounds         \* history: the rounds that sent it something, capped

loopVars == <<slept, since_pull, since_prune>>
vars == <<program, messages, pc, tries, loopVars, known_peers, contacts, pull_round, asked, rounds>>

num == Cardinality(DOMAIN messages)

(* send: every address `seeds` is defined on gets those requests.          *)
SendPulls(seeds) ==
  LET to == DOMAIN seeds
  IN  /\ asked' = [a \in Addrs |-> IF a \in to THEN asked[a] \cup seeds[a] ELSE asked[a]]
      /\ rounds' = [a \in Addrs |-> IF a \in to THEN Min({rounds[a] + 1, num}) ELSE rounds[a]]

(* The library enters the loop having asked the entrypoint once.           *)
Init ==
  /\ program \in Programs
  /\ \E caller \in CallerSizes : messages = CreatePullRequestMessages(caller)
  /\ pc = IF program = "library" THEN "select" ELSE "ping"
  /\ tries = 0 /\ slept = 0 /\ since_pull = 0 /\ since_prune = 0
  /\ known_peers = {Entrypoint} /\ contacts = {}
  /\ pull_round = 0
  /\ asked = [a \in Addrs |-> IF program = "library" /\ a = Entrypoint
                              THEN {SingleMask} ELSE {}]
  /\ rounds = [a \in Addrs |-> 0]

-----------------------------------------------------------------------------
(* Starting the stand-alone node.                                          *)

startUnchanged == <<program, messages, loopVars, known_peers, contacts, pull_round>>

Die == pc' = "dead" /\ UNCHANGED <<tries, asked, rounds>>

(* The handshake is over: the first request goes to the entrypoint.        *)
FirstPull ==
  /\ pc' = "listen" /\ tries' = 0
  /\ SendPulls([a \in {Entrypoint} |-> {SingleMask}])

(* A pong ends it, a packet that does not decode the process; a timeout,   *)
(* or an error of the socket, sends another ping.  Sending that, or the    *)
(* first request, may fail.                                                *)
Handshake(m) ==
  /\ pc = "ping"
  /\ \/ m = "pong" /\ FirstPull
     \/ /\ m \in {"ping", "values", "timeout"}
        /\ IF tries + 1 < Attempts THEN tries' = tries + 1 /\ UNCHANGED <<pc, asked, rounds>>
           ELSE FirstPull
     \/ /\ m \in {"pong", "timeout", "undecodable", "malformed"} \/ tries + 1 = Attempts
        /\ Die
  /\ UNCHANGED startUnchanged

(* Then a few windows that only answer pings; values are dropped.          *)
Listen(m) ==
  /\ pc = "listen"
  /\ \/ /\ m # "malformed"
        /\ IF tries + 1 < Windows THEN tries' = tries + 1 /\ UNCHANGED pc
           ELSE tries' = 0 /\ pc' = "select"
        /\ UNCHANGED <<asked, rounds>>
     \/ m \in {"ping", "malformed"} /\ Die
  /\ UNCHANGED startUnchanged

Messages == {"ping", "pong", "values", "undecodable", "malformed", "timeout"}

-----------------------------------------------------------------------------
(* The loop.                                                               *)

Tick ==
  /\ pc = "select" /\ slept < Sleep
  /\ slept' = slept + 1
  /\ since_pull' = Min({since_pull + 1, PullEvery[program]})
  /\ since_prune' = Min({since_prune + 1, PruneEvery[program]})
  /\ UNCHANGED <<program, messages, pc, tries, known_peers, contacts, pull_round, asked, rounds>>

(* The receive arm.  A message with the contact infos of `new` makes peers *)
(* of all the table lists but ourselves; others ({}) change nothing.       *)
Receive(new) ==
  /\ pc = "select"
  /\ slept' = 0
  /\ contacts' = contacts \cup new
  /\ known_peers' = IF new = {} THEN known_peers ELSE known_peers \cup (contacts' \ {Own})
  /\ UNCHANGED <<program, messages, pc, tries, since_pull, since_prune, pull_round, asked, rounds>>

(* A pong that cannot be sent, or a message that decode_from panics on.    *)
LoopFails ==
  /\ pc = "select"
  /\ Die
  /\ UNCHANGED startUnchanged

(* Faulty variant, for the mutation runs: the round counts every request.  *)
PullLibraryPerPeer ==
  LET others == known_peers \ {Entrypoint}
      order == CHOOSE f \in [others -> 0 .. Cardinality(others) - 1] :
                 \A a, b \in others : a # b => f[a] # f[b]
  IN  /\ SendPulls([a \in known_peers |->
                     IF a = Entrypoint THEN DOMAIN messages
                     ELSE {(pull_round + order[a]) % num}])
      /\ pull_round' = (pull_round + Cardinality(others)) % Pow2(RoundBits)

(* Faulty variant, for the mutation runs: the counter does not wrap.       *)
PullLibraryWide ==
  /\ SendPulls([a \in known_peers \cup {Entrypoint} |->
                 IF a = Entrypoint THEN DOMAIN messages ELSE {pull_round % num}])
  /\ pull_round' = pull_round + 1

(* Every partition to the entrypoint, the round's to every other peer.     *)
PullLibrary ==
  /\ SendPulls([a \in known_peers \cup {Entrypoint} |->
                 IF a = Entrypoint THEN DOMAIN messages ELSE {pull_round % num}])
  /\ pull_round' = (pull_round + 1) % Pow2(RoundBits)

(* The single mask to every peer.                                          *)
PullStandalone ==
  /\ SendPulls([a \in known_peers |-> {SingleMask}])
  /\ UNCHANGED pull_round

(* Faulty variant, for the mutation runs: the prune puts off the pull.     *)
SleepArmSharedTimer ==
  /\ pc = "select" /\ slept = Sleep /\ slept' = 0
  /\ LET pull == since_pull >= PullEvery[program]
         prune == since_prune >= PruneEvery[program]
     IN  /\ IF pull
            THEN IF program = "library" THEN PullLibrary ELSE PullStandalone
            ELSE UNCHANGED <<pull_round, asked, rounds>>
         /\ since_pull' = IF pull \/ prune THEN 0 ELSE since_pull
         /\ since_prune' = since_prune
         /\ UNCHANGED <<contacts, known_peers>>
  /\ UNCHANGED <<program, messages, pc, tries>>

(* The sleep arm: pull when due, then prune when due.  Which contact infos *)
(* a prune drops is CrdsTable's business; those it keeps become peers, our *)
(* own among them.                                                         *)
SleepArm ==
  /\ pc = "select" /\ slept = Sleep /\ slept' = 0
  /\ IF since_pull >= PullEvery[program]
     THEN /\ IF program = "library" THEN PullLibrary ELSE PullStandalone
          /\ since_pull' = 0
     ELSE UNCHANGED <<since_pull, pull_round, asked, rounds>>
  /\ IF since_prune >= PruneEvery[program]
     THEN /\ contacts' \in SUBSET contacts
          /\ known_peers' = known_peers \cup contacts'
          /\ since_prune' = 0
     ELSE UNCHANGED <<since_prune, contacts, known_peers>>
  /\ UNCHANGED <<program, messages, pc, tries>>

Next ==
  \/ \E m \in Messages : Handshake(m) \/ Listen(m)
  \/ Tick \/ SleepArm \/ LoopFails
  \/ \E new \in {{}} \cup {{a} : a \in Peers \cup {Own}} : Receive(new)

Spec == Init /\ [][Next]_vars

(***************************************************************************)
(* Time goes on; a receive of the start-up that gets nothing times out.    *)
(* When the sleep is over and a packet has come, select! picks either arm  *)
(* at random, so that the sleep arm is not passed over for ever: SF.       *)
(***************************************************************************)
FairSpec ==
  /\ Spec
  /\ WF_vars(Tick) /\ SF_vars(SleepArm)
  /\ WF_vars(Handshake("timeout") \/ Listen("timeout"))

-----------------------------------------------------------------------------
(* The loop is at a known place, its timers are within their bounds, and   *)
(* what was sent are requests there are.                                   *)
TypeOK ==
  /\ program \in Programs
  /\ pc \in {"ping", "listen", "select", "dead"}
  /\ tries \in 0 .. Max({Attempts, Windows}) - 1
  /\ slept \in 0 .. Sleep
  /\ since_pull \in 0 .. PullEvery[program] /\ since_prune \in 0 .. PruneEvery[program]
  /\ known_peers \subseteq Addrs /\ contacts \subseteq Addrs
  /\ pull_round \in 0 .. Pow2(RoundBits) - 1
  /\ asked \in [Addrs -> SUBSET DOMAIN messages] /\ rounds \in [Addrs -> 0 .. num]

(* pull_request.rs:24 whatever the size of our contact info, a request     *)
(* fits in one packet.                                                     *)
FitsPacket ==
  \A s \in DOMAIN messages : messages[s].size <= PacketSize

Covered(a, hash) == {s \in asked[a] : Matches(messages[s].filter, hash)}

(* lib.rs:194-203 whenever a peer joined, after as many rounds as there    *)
(* are partitions each value of its table was asked for by exactly one     *)
(* request; the rounds' counter may wrap in between.                       *)
RotationCovers ==
  program = "library" =>
    \A a \in known_peers : rounds[a] >= num => \A h \in Hashes : Cardinality(Covered(a, h)) = 1

Quiet == slept = Sleep

(* Unless packets come without a pause, every peer the node hears of is    *)
(* asked for its whole table by the library, and asked at all by the       *)
(* stand-alone node.                                                       *)
PeersCovered ==
  []<>Quiet =>
    \A a \in Peers : a \in known_peers ~>
      \/ pc = "dead"
      \/ asked[a] # {} /\ (program = "library" => \A h \in Hashes : Covered(a, h) # {})

-----------------------------------------------------------------------------
(* What a comment says and the code does not keep.                         *)

(* lib.rs:194 "one rotating partition per round to spread load while still *)
(* eventually covering the whole table": with a packet before the end of   *)
(* every sleep there are no rounds.                                        *)
EventuallyCovering ==
  program = "library" =>
    \A a \in Peers : a \in known_peers ~>
      pc = "dead" \/ \A h \in Hashes : Covered(a, h) # {}
=============================================================================
