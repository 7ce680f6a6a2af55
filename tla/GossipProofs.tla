---------------------------- MODULE GossipProofs ----------------------------
(***************************************************************************)
(* The safety properties of Gossip, for every set of nodes and values,     *)
(* every clock, channel capacity and number of attempts.                   *)
(***************************************************************************)
EXTENDS Gossip, DataLemmas

(* What is known of a value.                                               *)
LEMMA ValueFacts ==
  ASSUME NEW v \in Values
  PROVE  /\ v # NULL /\ v.key \in Keys /\ v.wallclock \in Nat
         /\ v.slot # NULL => v.slot \in Nat
         /\ v.repair # NULL => v.kind = "contact"
BY CrdsAssumption

(* merge keeps the table in order, forgets no key and goes back for none,  *)
(* and holds something as new as what it was given.                        *)
LEMMA MergeFacts ==
  ASSUME NEW t, IsTable(t), NEW v \in Values
  PROVE  /\ IsTable(Merge(t, v))
         /\ \A k \in Keys : Merge(t, v)[k] = t[k] \/ (k = v.key /\ Merge(t, v)[k] = v)
         /\ \A k \in Keys : t[k] # NULL =>
              Merge(t, v)[k] # NULL /\ Merge(t, v)[k].wallclock >= t[k].wallclock
         /\ Merge(t, v)[v.key] # NULL
         /\ Merge(t, v)[v.key].wallclock >= v.wallclock
<1>1. t \in [Keys -> Values \cup {NULL}] /\ \A k \in Keys : t[k] # NULL => t[k].key = k
  BY DEF IsTable
<1>2. v # NULL /\ v.key \in Keys /\ v.wallclock \in Nat
  BY ValueFacts
<1>3. \A k \in Keys : t[k] # NULL => t[k].wallclock \in Nat
  BY <1>1, ValueFacts
<1>4. CASE t[v.key] # NULL /\ t[v.key].wallclock >= v.wallclock
  <2>1. Merge(t, v) = t
    BY <1>4 DEF Merge
  <2> QED
    BY <1>1, <1>2, <1>3, <1>4, <2>1 DEF IsTable
<1>5. CASE ~(t[v.key] # NULL /\ t[v.key].wallclock >= v.wallclock)
  <2>1. Merge(t, v) = [t EXCEPT ![v.key] = v]
    BY <1>5 DEF Merge
  <2>2. IsTable(Merge(t, v))
    BY <1>1, <1>2, <2>1 DEF IsTable
  <2> QED
    BY <1>1, <1>2, <1>3, <1>5, <2>1, <2>2
<1> QED
  BY <1>4, <1>5

(* A list of values.                                                       *)
LEMMA BatchFacts ==
  ASSUME NEW values \in Batches
  PROVE  Len(values) \in Nat /\ DOMAIN values = 1 .. Len(values) /\ values \in Seq(Values)
<1>1. PICK n \in 0 .. MaxValues : values \in [1 .. n -> Values]
  BY GossipAssumption DEF Batches
<1> QED
  BY <1>1, GossipAssumption

(* A message takes the table through a loop, one value after the other.   *)
LEMMA MergeAllLoop ==
  ASSUME NEW t, IsTable(t), NEW values \in Batches
  PROVE  \E l : /\ \A i \in 0 .. Len(values) : IsTable(l[i])
                /\ l[0] = t /\ MergeAll(t, values) = l[Len(values)]
                /\ \A i \in 1 .. Len(values) : l[i] = Merge(l[i - 1], values[i])
<1> DEFINE Tables == {u \in [Keys -> Values \cup {NULL}] : IsTable(u)}
           n == Len(values)
           step == [i \in 1 .. n |-> [u \in Tables |-> Merge(u, values[i])]]
           Merges(l) == l = [i \in 0 .. n |-> IF i = 0 THEN t ELSE Merge(l[i - 1], values[i])]
           c == CHOOSE l : Merges(l)
<1>1. n \in Nat /\ \A i \in 1 .. n : values[i] \in Values
  BY BatchFacts
<1>2. t \in Tables
  BY DEF IsTable
<1>3. \A u \in Tables, i \in 1 .. n : Merge(u, values[i]) \in Tables
  BY <1>1, MergeFacts DEF IsTable
<1>4. step \in [1 .. n -> [Tables -> Tables]]
  BY <1>3
<1>5. \A i \in 1 .. n, u \in Tables : step[i][u] = Merge(u, values[i])
  OBVIOUS
<1>6. \A u \in Tables : IsTable(u)
  OBVIOUS
<1>7. MergeAll(t, values) = c[n]
  BY DEF MergeAll
<1> HIDE DEF Tables, step, n
<1>8. PICK l \in [0 .. n -> Tables] : Loops(l, t, step, n)
  BY <1>1, <1>2, <1>4, LoopExists
<1>9. Merges(l)
  <2>1. \A i \in 1 .. n : l[i - 1] \in Tables
    BY <1>1, <1>8
  <2>2. \A i \in 1 .. n : step[i][l[i - 1]] = Merge(l[i - 1], values[i])
    BY <1>5, <2>1
  <2> QED
    BY <1>1, <1>8, <2>2 DEF Loops
<1>10. Merges(c)
  BY <1>9
<1> HIDE DEF c
<1>11. c[0] = t /\ \A i \in 1 .. n : c[i] = Merge(c[i - 1], values[i])
  BY <1>1, <1>10
<1>12. \A i \in 0 .. n : i \in {k \in 0 .. n : c[k] \in Tables}
  <2> DEFINE S == {k \in 0 .. n : c[k] \in Tables}
  <2>1. 0 \in S
    BY <1>1, <1>2, <1>11
  <2>2. ASSUME NEW i \in 1 .. n, i - 1 \in S PROVE i \in S
    BY <1>1, <1>3, <1>11, <2>2
  <2> HIDE DEF S
  <2>3. \A i \in 0 .. n : i \in S
    BY <1>1, <2>1, <2>2, UpTo
  <2> QED
    BY <2>3 DEF S
<1> QED
  BY <1>1, <1>6, <1>7, <1>11, <1>12 DEF n

(* A whole message keeps the table in order, puts into it nothing but its  *)
(* own values, goes back for no key, and leaves something as new as each.  *)
LEMMA MergeAllFacts ==
  ASSUME NEW t, IsTable(t), NEW values \in Batches
  PROVE  /\ IsTable(MergeAll(t, values))
         /\ Entries(MergeAll(t, values)) \subseteq
              Entries(t) \cup {values[i] : i \in DOMAIN values}
         /\ \A k \in Keys : t[k] # NULL =>
              /\ MergeAll(t, values)[k] # NULL
              /\ MergeAll(t, values)[k].wallclock >= t[k].wallclock
         /\ \A i \in DOMAIN values :
              /\ MergeAll(t, values)[values[i].key] # NULL
              /\ MergeAll(t, values)[values[i].key].wallclock >= values[i].wallclock
<1>1. PICK l : /\ \A i \in 0 .. Len(values) : IsTable(l[i])
               /\ l[0] = t /\ MergeAll(t, values) = l[Len(values)]
               /\ \A i \in 1 .. Len(values) : l[i] = Merge(l[i - 1], values[i])
  BY MergeAllLoop
<1> DEFINE n == Len(values)
           Own == {values[i] : i \in DOMAIN values}
           NotBelow(u, w) == \A k \in Keys : u[k] # NULL =>
                               w[k] # NULL /\ w[k].wallclock >= u[k].wallclock
<1>2. n \in Nat /\ DOMAIN values = 1 .. n /\ \A i \in 1 .. n : values[i] \in Values
  BY BatchFacts
<1>3. ASSUME NEW i \in 1 .. n
      PROVE  /\ i - 1 \in 0 .. n /\ i \in 0 .. n
             /\ Entries(l[i]) \subseteq Entries(l[i - 1]) \cup Own
             /\ NotBelow(l[i - 1], l[i])
             /\ l[i][values[i].key] # NULL
             /\ l[i][values[i].key].wallclock >= values[i].wallclock
  <2>1. i - 1 \in 0 .. n /\ i \in 0 .. n
    BY <1>2
  <2>2. IsTable(l[i - 1]) /\ values[i] \in Values /\ l[i] = Merge(l[i - 1], values[i])
    BY <1>1, <1>2, <2>1
  <2>3. \A k \in Keys : l[i][k] \in {l[i - 1][k], values[i]} /\ values[i] \in Own
    <3>1. values[i] \in Own
      BY <1>2
    <3>2. \A k \in Keys : Merge(l[i - 1], values[i])[k] \in {l[i - 1][k], values[i]}
      BY <2>2, MergeFacts
    <3> QED
      BY <2>2, <3>1, <3>2
  <2>4. Entries(l[i]) \subseteq Entries(l[i - 1]) \cup Own
    BY <2>3 DEF Entries
  <2> QED
    BY <2>1, <2>2, <2>4, MergeFacts
<1>4. \A i \in 0 .. n : i \in {k \in 0 .. n : Entries(l[k]) \subseteq Entries(t) \cup Own}
  <2> HIDE DEF n, Own
  <2>1. 0 \in {k \in 0 .. n : Entries(l[k]) \subseteq Entries(t) \cup Own}
    BY <1>1, <1>2
  <2> QED
    BY <1>2, <1>3, <2>1, UpTo
<1>5. ASSUME NEW u, NEW v, NEW w, IsTable(u), IsTable(v), IsTable(w), NotBelow(u, v), NotBelow(v, w)
      PROVE  NotBelow(u, w)
  <2> SUFFICES ASSUME NEW k \in Keys, u[k] # NULL
               PROVE  w[k] # NULL /\ w[k].wallclock >= u[k].wallclock
    OBVIOUS
  <2>1. v[k] # NULL /\ w[k] # NULL /\ v[k].wallclock >= u[k].wallclock /\ w[k].wallclock >= v[k].wallclock
    BY <1>5
  <2>2. {u[k].wallclock, v[k].wallclock, w[k].wallclock} \subseteq Nat
    BY <1>5, <2>1, ValueFacts DEF IsTable
  <2> QED
    BY <2>1, <2>2
<1>6. ASSUME NEW j \in 0 .. n
      PROVE  NotBelow(l[j], l[n])
  <2> DEFINE S == {k \in 0 .. n : j <= k => NotBelow(l[j], l[k])}
  <2>1. \A u : IsTable(u) => NotBelow(u, u)
    BY ValueFacts DEF IsTable
  <2>2. \A k \in 0 .. n : IsTable(l[k])
    BY <1>1
  <2> HIDE DEF NotBelow, n
  <2>3. 0 \in S
    <3>1. 0 <= n /\ (j <= 0 => j = 0)
      BY <1>2
    <3> QED
      BY <1>2, <2>1, <2>2, <3>1
  <2>4. ASSUME NEW k \in 1 .. n, k - 1 \in S PROVE k \in S
    <3>1. NotBelow(l[k - 1], l[k]) /\ IsTable(l[k - 1]) /\ IsTable(l[k]) /\ IsTable(l[j])
      BY <1>3, <2>2
    <3>2. CASE j <= k - 1
      BY <1>3, <1>5, <2>4, <3>1, <3>2
    <3>3. CASE j = k
      BY <1>3, <2>1, <3>1, <3>3
    <3>4. CASE j > k
      BY <1>3, <3>4
    <3> QED
      BY <1>2, <3>2, <3>3, <3>4
  <2> HIDE DEF S
  <2>5. \A k \in 0 .. n : k \in S
    BY <1>2, <2>3, <2>4, UpTo
  <2> QED
    BY <1>2, <2>5 DEF S
<1>7. IsTable(l[n]) /\ Entries(l[n]) \subseteq Entries(t) \cup Own /\ NotBelow(t, l[n])
  <2>1. 0 \in 0 .. n /\ n \in 0 .. n
    BY <1>2
  <2> QED
    BY <1>1, <1>4, <1>6, <2>1
<1>8. ASSUME NEW i \in 1 .. n
      PROVE  l[n][values[i].key] # NULL /\ l[n][values[i].key].wallclock >= values[i].wallclock
  <2>1. i \in 0 .. n /\ n \in 0 .. n /\ values[i] \in Values
    BY <1>2
  <2>2. values[i].key \in Keys /\ values[i].wallclock \in Nat
    BY <2>1, ValueFacts
  <2>3. IsTable(l[i]) /\ IsTable(l[n])
    BY <1>1, <2>1
  <2>4. l[i][values[i].key] # NULL /\ l[i][values[i].key].wallclock >= values[i].wallclock
    BY <1>3
  <2>5. /\ l[n][values[i].key] # NULL
        /\ l[n][values[i].key].wallclock >= l[i][values[i].key].wallclock
    BY <1>6, <2>1, <2>2, <2>4
  <2>6. {l[i][values[i].key].wallclock, l[n][values[i].key].wallclock} \subseteq Nat
    BY <2>2, <2>3, <2>4, <2>5, ValueFacts DEF IsTable
  <2> QED
    BY <2>2, <2>4, <2>5, <2>6
<1> QED
  BY <1>1, <1>2, <1>7, <1>8

(* prune leaves of the table what is above its limit, and nothing else.    *)
LEMMA PruneFacts ==
  ASSUME NEW t, IsTable(t), NEW now \in Nat
  PROVE  /\ IsTable(Prune(t, now))
         /\ \A k \in Keys : Prune(t, now)[k] # NULL =>
              Prune(t, now)[k] = t[k] /\ t[k].wallclock > now - PruneAge
         /\ \A k \in Keys : t[k] # NULL /\ t[k].wallclock > now - PruneAge =>
              Prune(t, now)[k] = t[k]
BY DEF IsTable, Prune

(* Entries are values found under their keys.                              *)
LEMMA EntryFacts ==
  ASSUME NEW t, IsTable(t), NEW v \in Entries(t)
  PROVE  v \in Values /\ t[v.key] = v
BY CrdsAssumption DEF IsTable, Entries

(* The highest slot is one that some entry names.                          *)
LEMMA HighestSlotNamed ==
  ASSUME NEW t, IsTable(t), HighestSlot(t) # NULL
  PROVE  HighestSlot(t) \in Nat /\ \E v \in Entries(t) : v.slot = HighestSlot(t)
<1> DEFINE slots == {v.slot : v \in Entries(t)} \ {NULL}
           slotAt == [k \in Keys |-> t[k].slot]
<1>1. slots \in SUBSET Nat
  BY EntryFacts, ValueFacts
<1>2. IsFiniteSet(slots)
  <2>1. IsFiniteSet({slotAt[k] : k \in Keys})
    <3> HIDE DEF slotAt
    <3>1. DOMAIN slotAt = Keys /\ slotAt = [k \in Keys |-> slotAt[k]]
      BY DEF slotAt
    <3> QED
      BY <3>1, FiniteRange, CrdsAssumption
  <2>2. slots \subseteq {slotAt[k] : k \in Keys}
    BY DEF Entries
  <2> QED
    BY <2>1, <2>2, FS_Subset
<1>3. slots # {} /\ HighestSlot(t) = Max(slots)
  BY DEF HighestSlot
<1>4. Max(slots) \in slots
  BY <1>1, <1>2, <1>3, MaxOfFinite
<1> QED
  BY <1>1, <1>3, <1>4

-----------------------------------------------------------------------------
(* Types.                                                                  *)

LEMMA TypeInit == Init => TypeOK
<1> SUFFICES ASSUME Init PROVE TypeOK
  OBVIOUS
<1>1. clock \in Clocks
  BY GossipAssumption, MinOfNats DEF Init
<1>2. IsTable(table) /\ IsTable(validators)
  BY DEF Init, TableNew, IsTable
<1>3. channel \in Seq(Values) /\ Len(channel) = 0
  BY DEF Init
<1>4. {latest_slot, asked, found, chain} \subseteq Nat
  BY GossipAssumption DEF Init
<1>5. tries \in Nat /\ (pc = "ping" => tries < Attempts) /\ (pc = "wait" => tries < Waits)
  BY GossipAssumption DEF Init
<1>6. poll \in [at : {"idle", "compare", "store"}, slot : Nat]
  BY DEF Init, Idle
<1> QED
  BY <1>1, <1>2, <1>3, <1>4, <1>5, <1>6, GossipAssumption DEF Init, TypeOK

(* The start-up steps and the errors that end the task count receives or   *)
(* leave; they touch nothing else.                                         *)
LEMMA TypeStart ==
  ASSUME TypeOK, NEW m, Handshake(m) \/ InitialWait(m) \/ LoopFails
  PROVE  TypeOK'
<1>1. tries \in Nat /\ Attempts \in Nat \ {0} /\ Waits \in Nat \ {0}
  BY GossipAssumption DEF TypeOK
<1>2. /\ pc' \in {"ping", "wait", "select", "dead"} /\ tries' \in Nat
      /\ (pc' = "ping" => tries' < Attempts) /\ (pc' = "wait" => tries' < Waits)
  <2>1. CASE Handshake(m)
    BY <1>1, <2>1 DEF TypeOK, Handshake, Count, Die
  <2>2. CASE InitialWait(m)
    BY <1>1, <2>2 DEF TypeOK, InitialWait, Count, Die
  <2>3. CASE LoopFails
    BY <1>1, <2>3 DEF TypeOK, LoopFails, Die
  <2> QED
    BY <2>1, <2>2, <2>3
<1>3. /\ pc \in {"ping", "wait", "select"}
      /\ UNCHANGED startUnchanged
  BY DEF Handshake, InitialWait, LoopFails
<1> QED
  BY <1>2, <1>3 DEF TypeOK, startUnchanged, mainVars

LEMMA TypeGossip ==
  ASSUME TypeOK,
         \/ \E values \in Batches : Handle(values)
         \/ PruneTable \/ StoreSlot \/ (\E ci \in outbox : Forward(ci)) \/ FinishPrune
  PROVE  TypeOK'
<1>1. ASSUME NEW values \in Batches, Handle(values) PROVE TypeOK'
  <2>1. IsTable(table')
    BY <1>1, MergeAllFacts DEF TypeOK, Handle
  <2>2. seen' \subseteq Values
    BY <1>1, BatchFacts DEF TypeOK, Handle
  <2> QED
    BY <1>1, <2>1, <2>2 DEF TypeOK, Handle, mainVars
<1>2. CASE PruneTable
  <2>1. IsTable(table')
    BY <1>2, PruneFacts, GossipAssumption DEF TypeOK, PruneTable
  <2>2. outbox' \subseteq Values
    BY <1>2, <2>1, EntryFacts DEF PruneTable, AllContactInfos
  <2>3. found' \in Nat
    BY <1>2, <2>1, HighestSlotNamed DEF TypeOK, PruneTable
  <2>4. pc' \in {"store", "forward"}
    BY <1>2 DEF PruneTable
  <2>5. UNCHANGED <<tries, known_peers, latest_slot, channel, mainVars, poll, chain, clock, seen>>
    BY <1>2 DEF PruneTable
  <2> QED
    BY <2>1, <2>2, <2>3, <2>4, <2>5 DEF TypeOK, mainVars
<1>3. CASE StoreSlot
  BY <1>3 DEF TypeOK, StoreSlot, mainVars
<1>4. ASSUME NEW ci \in outbox, Forward(ci) PROVE TypeOK'
  <2>1. channel' \in Seq(Values) /\ Len(channel') <= ChannelCap
    <3>1. ci \in Values /\ channel \in Seq(Values) /\ Len(channel) < ChannelCap
      BY <1>4 DEF TypeOK, Forward
    <3>2. channel' = Append(channel, ci)
      BY <1>4 DEF Forward
    <3> QED
      BY <3>1, <3>2, GossipAssumption
  <2> QED
    BY <1>4, <2>1 DEF TypeOK, Forward, mainVars
<1>5. CASE FinishPrune
  BY <1>5 DEF TypeOK, FinishPrune, mainVars
<1> QED
  BY <1>1, <1>2, <1>3, <1>4, <1>5

LEMMA TypeOthers ==
  ASSUME TypeOK, PollStep \/ MainStep \/ NewSlot \/ TimePasses
  PROVE  TypeOK'
<1>1. CASE PollAnswer
  BY <1>1 DEF TypeOK, PollAnswer, gossipVars, mainVars
<1>2. CASE PollCompare
  BY <1>2 DEF TypeOK, PollCompare, Idle, gossipVars, mainVars
<1>3. CASE PollStore
  BY <1>3 DEF TypeOK, PollStore, Idle, gossipVars, mainVars
<1>4. CASE TakeContact
  <2>1. channel \in Seq(Values) /\ channel # <<>> /\ Len(channel) <= ChannelCap
    BY <1>4 DEF TypeOK, TakeContact
  <2>2. Head(channel) \in Values /\ Tail(channel) \in Seq(Values) /\ Len(Tail(channel)) <= ChannelCap
    BY <2>1, GossipAssumption
  <2>3. Head(channel).key \in Keys /\ Head(channel) # NULL
    BY <2>2, ValueFacts
  <2>4. IsTable(validators') /\ \A k \in Keys : validators'[k] # NULL => validators'[k].repair # NULL
    BY <1>4, <2>2, <2>3 DEF TypeOK, IsTable, TakeContact
  <2> QED
    BY <1>4, <2>2, <2>4 DEF TypeOK, TakeContact, gossipVars
<1>5. CASE RepairPoll
  BY <1>5 DEF TypeOK, RepairPoll, gossipVars
<1>6. CASE NewSlot
  BY <1>6 DEF TypeOK, NewSlot, gossipVars, mainVars
<1>7. CASE TimePasses
  BY <1>7 DEF TypeOK, TimePasses, gossipVars, mainVars
<1> QED
  BY <1>1, <1>2, <1>3, <1>4, <1>5, <1>6, <1>7 DEF PollStep, MainStep

LEMMA TypeStep ==
  ASSUME TypeOK, [Next]_vars
  PROVE  TypeOK'
<1>1. CASE UNCHANGED vars
  BY <1>1 DEF TypeOK, vars, gossipVars, mainVars
<1>2. CASE GossipStep
  BY <1>2, TypeStart, TypeGossip DEF GossipStep
<1> QED
  BY <1>1, <1>2, TypeOthers DEF Next

(* The tables stay tables, the channel within its capacity, the timers and *)
(* slots numbers, whatever arrives in whatever order.                      *)
THEOREM TypeCorrect == Spec => []TypeOK
BY TypeInit, TypeStep, PTL DEF Spec

-----------------------------------------------------------------------------
(* The table.                                                              *)

(* Only a message, a prune and the clock bear on what the table owes.      *)
LEMMA TableFrame ==
  ASSUME [Next]_vars,
         ~ \E values \in Batches : Handle(values), ~PruneTable, ~TimePasses
  PROVE  UNCHANGED <<table, seen, clock>>
<1>1. CASE UNCHANGED vars
  BY <1>1 DEF vars, gossipVars
<1>2. CASE GossipStep
  BY <1>2 DEF GossipStep, Handshake, InitialWait, LoopFails, StoreSlot, Forward, FinishPrune,
              startUnchanged
<1>3. CASE PollStep \/ MainStep \/ NewSlot
  BY <1>3 DEF PollStep, PollAnswer, PollCompare, PollStore, MainStep, TakeContact, RepairPoll,
              NewSlot, gossipVars
<1> QED
  BY <1>1, <1>2, <1>3 DEF Next

(* A prune compares milliseconds with seconds and so drops less than it    *)
(* is meant to: never a value younger than PruneAge.                       *)
LEMMA NewestKeptStep ==
  ASSUME TypeOK, NewestKept, [Next]_vars
  PROVE  NewestKept'
<1>1. IsTable(table) /\ clock \in Nat /\ PruneAge \in Nat /\ seen \subseteq Values
  BY GossipAssumption, CrdsAssumption DEF TypeOK
<1>2. ASSUME NEW values \in Batches, Handle(values) PROVE NewestKept'
  <2>1. /\ table' = MergeAll(table, values) /\ clock' = clock
        /\ seen' = seen \cup {values[i] : i \in DOMAIN values}
    BY <1>2 DEF Handle
  <2> SUFFICES ASSUME NEW v \in seen', Fresh(v)'
               PROVE  table'[v.key] # NULL /\ table'[v.key].wallclock >= v.wallclock
    BY DEF NewestKept
  <2>2. CASE \E i \in DOMAIN values : v = values[i]
    BY <1>1, <2>1, <2>2, MergeAllFacts
  <2>3. CASE v \in seen
    <3>1. v.key \in Keys /\ v.wallclock \in Nat
      BY <1>1, <2>3, ValueFacts
    <3>2. table[v.key] # NULL /\ table[v.key].wallclock >= v.wallclock
      BY <2>1, <2>3 DEF NewestKept, Fresh
    <3>3. table[v.key].wallclock \in Nat
      BY <1>1, <3>1, <3>2, ValueFacts DEF IsTable
    <3>4. table'[v.key] # NULL /\ table'[v.key].wallclock >= table[v.key].wallclock
      BY <1>1, <2>1, <3>1, <3>2, MergeAllFacts
    <3>5. table'[v.key].wallclock \in Nat
      BY <1>1, <2>1, <3>1, <3>4, MergeAllFacts, ValueFacts DEF IsTable
    <3> QED
      BY <3>1, <3>2, <3>3, <3>4, <3>5
  <2> QED
    BY <2>1, <2>2, <2>3
<1>3. CASE PruneTable
  <2>1. table' = Prune(table, clock) /\ seen' = seen /\ clock' = clock
    BY <1>3 DEF PruneTable
  <2> SUFFICES ASSUME NEW v \in seen, Fresh(v)
               PROVE  table'[v.key] # NULL /\ table'[v.key].wallclock >= v.wallclock
    BY <2>1 DEF NewestKept, Fresh
  <2>2. v.key \in Keys /\ v.wallclock \in Nat
    BY <1>1, ValueFacts
  <2>3. table[v.key] # NULL /\ table[v.key].wallclock >= v.wallclock
    BY DEF NewestKept
  <2>4. table[v.key].wallclock \in Nat
    BY <1>1, <2>2, <2>3, ValueFacts DEF IsTable
  <2>5. v.wallclock > (clock - PruneAge) * 1000
    BY DEF Fresh
  <2>6. table[v.key].wallclock > clock - PruneAge
    BY <1>1, <2>2, <2>3, <2>4, <2>5
  <2> QED
    BY <1>1, <2>1, <2>2, <2>3, <2>6, PruneFacts
<1>4. CASE TimePasses
  <2>1. clock' \in Nat /\ clock' > clock /\ table' = table /\ seen' = seen
    BY <1>4, GossipAssumption DEF TimePasses, gossipVars
  <2> SUFFICES ASSUME NEW v \in seen, Fresh(v)'
               PROVE  table[v.key] # NULL /\ table[v.key].wallclock >= v.wallclock
    BY <2>1 DEF NewestKept
  <2>2. v.wallclock \in Nat
    BY <1>1, ValueFacts
  <2>3. v.wallclock > (clock' - PruneAge) * 1000
    BY DEF Fresh
  <2>4. v.wallclock > (clock - PruneAge) * 1000
    BY <1>1, <2>1, <2>2, <2>3
  <2> QED
    BY <2>4 DEF NewestKept, Fresh
<1>5. CASE UNCHANGED <<table, seen, clock>>
  BY <1>5 DEF NewestKept, Fresh
<1> QED
  BY <1>2, <1>3, <1>4, <1>5, TableFrame

(* Of each pubkey the table holds one as new as the newest that is less    *)
(* than 15 minutes old, in whatever order and however often values arrive  *)
(* (merge and prune of crds.rs).                                           *)
THEOREM NewestSafe == Spec => []NewestKept
<1>1. Init => NewestKept
  BY DEF Init, NewestKept
<1> QED
  BY <1>1, NewestKeptStep, TypeCorrect, PTL DEF Spec

-----------------------------------------------------------------------------
(* The slot that repair asks for.                                          *)

(* A slot the RPC has reached or a value of `values` names.                *)
Reported(s, upTo, values) == s = 0 \/ s <= upTo \/ s \in {v.slot : v \in values}

(* SlotReported, with the two places a slot waits in before it is stored,  *)
(* and the table it is read from.                                          *)
SlotsReported ==
  /\ Entries(table) \subseteq seen
  /\ poll.slot <= chain
  /\ \A s \in {latest_slot, asked, found} : Reported(s, chain, seen)

(* What was reported stays so.                                             *)
LEMMA ReportedOn ==
  ASSUME NEW s \in Nat, NEW n \in Nat, NEW m \in Nat, n <= m,
         NEW V, NEW W, V \subseteq W, Reported(s, n, V)
  PROVE  Reported(s, m, W)
BY DEF Reported

LEMMA SlotsReportedStep ==
  ASSUME TypeOK, SlotsReported, [Next]_vars
  PROVE  SlotsReported'
<1>1. /\ {latest_slot, asked, found, chain, poll.slot} \subseteq Nat
      /\ IsTable(table) /\ clock \in Nat
  BY GossipAssumption DEF TypeOK
<1>2. ASSUME NEW values \in Batches, Handle(values) PROVE SlotsReported'
  <2>1. Entries(table') \subseteq Entries(table) \cup {values[i] : i \in DOMAIN values}
    BY <1>1, <1>2, MergeAllFacts DEF Handle
  <2>2. /\ seen' = seen \cup {values[i] : i \in DOMAIN values}
        /\ UNCHANGED <<found, latest_slot, asked, poll, chain>>
    BY <1>2 DEF Handle, mainVars
  <2> QED
    BY <1>1, <2>1, <2>2, ReportedOn DEF SlotsReported
<1>3. CASE PruneTable
  <2>1. IsTable(table') /\ Entries(table') \subseteq Entries(table)
    <3>1. table' = Prune(table, clock)
      BY <1>3 DEF PruneTable
    <3>2. IsTable(table')
      BY <1>1, <3>1, PruneFacts
    <3>3. \A k \in Keys : table'[k] # NULL => table'[k] = table[k]
      BY <1>1, <3>1, PruneFacts
    <3> QED
      BY <3>2, <3>3 DEF Entries
  <2>2. UNCHANGED <<latest_slot, asked, poll, chain, seen>>
    BY <1>3 DEF PruneTable, mainVars
  <2>3. found' = found \/ (HighestSlot(table') # NULL /\ found' = HighestSlot(table'))
    BY <1>3 DEF PruneTable
  <2>4. Reported(found', chain, seen)
    BY <2>1, <2>3, HighestSlotNamed DEF SlotsReported, Reported
  <2> QED
    BY <2>1, <2>2, <2>4 DEF SlotsReported
<1>4. CASE StoreSlot
  BY <1>4 DEF StoreSlot, SlotsReported, Reported, mainVars
<1>5. CASE PollStep
  <2>1. UNCHANGED <<table, found, asked, chain, seen>>
    BY <1>5 DEF PollStep, PollAnswer, PollCompare, PollStore, gossipVars, mainVars
  <2>2. poll'.slot <= chain /\ latest_slot' \in {latest_slot, poll.slot}
    BY <1>1, <1>5 DEF PollStep, PollAnswer, PollCompare, PollStore, Idle, SlotsReported, TypeOK
  <2>3. Reported(latest_slot', chain, seen)
    BY <2>2 DEF SlotsReported, Reported
  <2> QED
    BY <2>1, <2>2, <2>3 DEF SlotsReported
<1>6. CASE RepairPoll
  BY <1>6 DEF RepairPoll, SlotsReported, gossipVars
<1>7. CASE NewSlot
  <2>1. /\ chain' \in Nat /\ chain <= chain' /\ poll.slot <= chain'
        /\ UNCHANGED <<table, found, asked, latest_slot, poll, seen>>
    BY <1>1, <1>7 DEF NewSlot, SlotsReported, gossipVars, mainVars
  <2> QED
    BY <1>1, <2>1, ReportedOn DEF SlotsReported
<1>8. CASE UNCHANGED <<table, found, asked, latest_slot, poll, chain, seen>>
  BY <1>8 DEF SlotsReported
<1>9. CASE TimePasses \/ TakeContact \/ UNCHANGED vars
  BY <1>8, <1>9 DEF TimePasses, TakeContact, vars, gossipVars, mainVars
<1>10. CASE \/ \E m \in Messages : Handshake(m) \/ InitialWait(m)
            \/ LoopFails \/ (\E ci \in outbox : Forward(ci)) \/ FinishPrune
  BY <1>8, <1>10 DEF Handshake, InitialWait, LoopFails, Forward, FinishPrune, startUnchanged, mainVars
<1> QED
  BY <1>2, <1>3, <1>4, <1>5, <1>6, <1>7, <1>9, <1>10 DEF Next, GossipStep, MainStep

(* Two tasks write latest_slot without a lock, yet it is always a slot the *)
(* RPC or a received vote named, and so is the slot repair asks for.       *)
THEOREM SlotReportedSafe == Spec => []SlotReported
<1>1. Init => SlotsReported
  BY CrdsAssumption DEF Init, SlotsReported, Reported, Entries, TableNew, Idle
<1>2. SlotsReported => SlotReported
  BY DEF SlotsReported, SlotReported, Reported
<1> QED
  BY <1>1, <1>2, SlotsReportedStep, TypeCorrect, PTL DEF Spec

-----------------------------------------------------------------------------
(* The way of a contact info from the table to the main loop.              *)

NotNewer(x, y) == x.key = y.key => x.wallclock <= y.wallclock

(***************************************************************************)
(* Of each key the contact infos on their way are in order: validators,    *)
(* channel from its head on, outbox, table.  The last link is the subtle   *)
(* one: a prune may drop an entry, and an older value of that key may then *)
(* be merged again; but the next prune, which comes before anything is     *)
(* sent, drops that one too.                                               *)
(***************************************************************************)
Delivered == Entries(validators) \cup {channel[i] : i \in 1 .. Len(channel)}

Superseded(x) ==
  \/ x.wallclock <= clock - PruneAge
  \/ table[x.key] # NULL /\ table[x.key].wallclock >= x.wallclock

SentInOrder ==
  /\ \A x \in Entries(validators), i \in 1 .. Len(channel) : NotNewer(x, channel[i])
  /\ \A i, j \in 1 .. Len(channel) : i < j => NotNewer(channel[i], channel[j])
  /\ \A x \in Delivered, y \in outbox : NotNewer(x, y)
  /\ \A x, y \in outbox : x.key = y.key => x = y
  /\ \A x \in Delivered \cup outbox : Superseded(x)

(* Everything on its way is a value.                                       *)
LEMMA SentAreValues ==
  ASSUME TypeOK
  PROVE  /\ Delivered \cup outbox \subseteq Values
         /\ \A x \in Delivered \cup outbox : x.key \in Keys /\ x.wallclock \in Nat
<1>1. Entries(validators) \subseteq Values
  BY EntryFacts DEF TypeOK
<1>2. \A i \in 1 .. Len(channel) : channel[i] \in Values
  BY DEF TypeOK
<1>3. Delivered \cup outbox \subseteq Values
  BY <1>1, <1>2 DEF TypeOK, Delivered
<1> QED
  BY <1>3, ValueFacts

LEMMA OrderHandle ==
  ASSUME TypeOK, SentInOrder, NEW values \in Batches, Handle(values)
  PROVE  SentInOrder'
<1>1. /\ IsTable(table) /\ table' = MergeAll(table, values)
      /\ UNCHANGED <<validators, channel, outbox, clock>>
  BY DEF TypeOK, Handle, mainVars
<1>2. Delivered' = Delivered /\ Entries(validators') = Entries(validators)
  BY <1>1 DEF Delivered
<1>3. ASSUME NEW x \in Delivered \cup outbox PROVE Superseded(x)'
  <2>1. Superseded(x) /\ x.key \in Keys /\ x.wallclock \in Nat
    BY SentAreValues DEF SentInOrder
  <2>2. CASE x.wallclock <= clock - PruneAge
    BY <1>1, <2>2 DEF Superseded
  <2>3. CASE table[x.key] # NULL /\ table[x.key].wallclock >= x.wallclock
    <3>1. table'[x.key] # NULL /\ table'[x.key].wallclock >= table[x.key].wallclock
      BY <1>1, <2>1, <2>3, MergeAllFacts
    <3>2. table[x.key].wallclock \in Nat /\ table'[x.key].wallclock \in Nat
      BY <1>1, <2>1, <2>3, <3>1, MergeAllFacts, ValueFacts DEF IsTable
    <3> QED
      BY <2>1, <2>3, <3>1, <3>2 DEF Superseded
  <2> QED
    BY <2>1, <2>2, <2>3 DEF Superseded
<1> QED
  BY <1>1, <1>2, <1>3 DEF SentInOrder

LEMMA OrderPrune ==
  ASSUME TypeOK, SentInOrder, PruneTable
  PROVE  SentInOrder'
<1>1. /\ IsTable(table) /\ clock \in Nat /\ outbox = {} /\ PruneAge \in Nat
      /\ table' = Prune(table, clock) /\ outbox' = AllContactInfos(table')
      /\ UNCHANGED <<validators, channel, clock>>
  BY GossipAssumption, CrdsAssumption DEF TypeOK, PruneTable, mainVars
<1>2. IsTable(table')
  BY <1>1, PruneFacts
<1>3. Delivered' = Delivered /\ Entries(validators') = Entries(validators)
  BY <1>1 DEF Delivered
<1>4. ASSUME NEW y \in outbox'
      PROVE  /\ y \in Values /\ y.key \in Keys /\ y.wallclock \in Nat
             /\ y = table'[y.key] /\ y = table[y.key] /\ y.wallclock > clock - PruneAge
  <2>1. y \in Entries(table')
    BY <1>1 DEF AllContactInfos
  <2>2. y \in Values /\ y = table'[y.key]
    BY <1>2, <2>1, EntryFacts
  <2>3. y # NULL /\ y.key \in Keys /\ y.wallclock \in Nat
    BY <2>2, ValueFacts
  <2> QED
    BY <1>1, <2>2, <2>3, PruneFacts
<1>5. ASSUME NEW x \in Delivered PROVE Superseded(x)'
  <2>1. Superseded(x) /\ x.key \in Keys /\ x.wallclock \in Nat
    BY SentAreValues DEF SentInOrder
  <2>2. CASE x.wallclock <= clock - PruneAge
    BY <1>1, <2>2 DEF Superseded
  <2>3. CASE table[x.key] # NULL /\ table[x.key].wallclock >= x.wallclock
    <3>1. table[x.key].wallclock \in Nat
      BY <1>1, <2>1, <2>3, ValueFacts DEF IsTable
    <3>2. CASE table[x.key].wallclock > clock - PruneAge
      BY <1>1, <2>1, <2>3, <3>2, PruneFacts DEF Superseded
    <3>3. CASE ~(table[x.key].wallclock > clock - PruneAge)
      BY <1>1, <2>1, <2>3, <3>1, <3>3 DEF Superseded
    <3> QED
      BY <3>2, <3>3
  <2> QED
    BY <2>1, <2>2, <2>3 DEF Superseded
<1>6. ASSUME NEW x \in Delivered, NEW y \in outbox' PROVE NotNewer(x, y)
  <2>1. Superseded(x) /\ x.key \in Keys /\ x.wallclock \in Nat
    BY SentAreValues DEF SentInOrder
  <2> QED
    BY <1>1, <1>4, <2>1 DEF Superseded, NotNewer
<1>7. ASSUME NEW y \in outbox' PROVE Superseded(y)'
  BY <1>4, ValueFacts DEF Superseded
<1> QED
  BY <1>1, <1>3, <1>4, <1>5, <1>6, <1>7 DEF SentInOrder

LEMMA OrderForward ==
  ASSUME TypeOK, SentInOrder, NEW ci \in outbox, Forward(ci)
  PROVE  SentInOrder'
<1>1. /\ channel \in Seq(Values) /\ ci \in Values
      /\ channel' = Append(channel, ci) /\ outbox' = outbox \ {ci}
      /\ UNCHANGED <<validators, table, clock>>
  BY DEF TypeOK, Forward, mainVars
<1>2. /\ Len(channel) \in Nat /\ Len(channel') = Len(channel) + 1
      /\ \A i \in 1 .. Len(channel) : channel'[i] = channel[i]
      /\ channel'[Len(channel')] = ci
  BY <1>1
<1>3. Delivered' = Delivered \cup {ci} /\ Entries(validators') = Entries(validators)
  BY <1>1, <1>2 DEF Delivered
<1>4. ASSUME NEW x \in Entries(validators), NEW i \in 1 .. Len(channel')
      PROVE  NotNewer(x, channel'[i])
  BY <1>2 DEF SentInOrder, Delivered
<1>5. ASSUME NEW i \in 1 .. Len(channel'), NEW j \in 1 .. Len(channel'), i < j
      PROVE  NotNewer(channel'[i], channel'[j])
  <2>1. i \in 1 .. Len(channel)
    BY <1>2, <1>5
  <2>2. CASE j = Len(channel')
    BY <1>2, <2>1, <2>2 DEF SentInOrder, Delivered
  <2>3. CASE j \in 1 .. Len(channel)
    BY <1>2, <1>5, <2>1, <2>3 DEF SentInOrder
  <2> QED
    BY <1>2, <2>2, <2>3
<1>6. ASSUME NEW x \in Delivered', NEW y \in outbox' PROVE NotNewer(x, y)
  BY <1>1, <1>3 DEF SentInOrder, NotNewer
<1>7. \A x \in (Delivered \cup outbox)' : Superseded(x)'
  BY <1>1, <1>3 DEF SentInOrder, Superseded
<1> QED
  BY <1>1, <1>3, <1>4, <1>5, <1>6, <1>7 DEF SentInOrder

LEMMA OrderTake ==
  ASSUME TypeOK, SentInOrder, TakeContact
  PROVE  SentInOrder'
<1>1. /\ channel \in Seq(Values) /\ channel # <<>> /\ channel' = Tail(channel)
      /\ IsTable(validators)
      /\ UNCHANGED <<table, outbox, clock>>
  BY DEF TypeOK, TakeContact, gossipVars
<1>2. /\ Len(channel) \in Nat /\ Len(channel) > 0 /\ Len(channel') = Len(channel) - 1
      /\ \A i \in 1 .. Len(channel') : channel'[i] = channel[i + 1]
      /\ Head(channel) = channel[1]
  BY <1>1
<1>3. Head(channel) \in Values /\ Head(channel).key \in Keys
  BY <1>1, ValueFacts
<1>4. Entries(validators') \subseteq Entries(validators) \cup {channel[1]}
  BY <1>1, <1>2, <1>3 DEF TakeContact, Entries, IsTable
<1>5. Delivered' \subseteq Delivered
  BY <1>2, <1>4 DEF Delivered
<1>6. ASSUME NEW x \in Entries(validators'), NEW i \in 1 .. Len(channel')
      PROVE  NotNewer(x, channel'[i])
  <2>1. /\ i + 1 \in 1 .. Len(channel) /\ 1 \in 1 .. Len(channel) /\ 1 < i + 1
        /\ channel'[i] = channel[i + 1]
    BY <1>2
  <2> QED
    BY <1>4, <2>1 DEF SentInOrder
<1>7. ASSUME NEW i \in 1 .. Len(channel'), NEW j \in 1 .. Len(channel'), i < j
      PROVE  NotNewer(channel'[i], channel'[j])
  <2>1. i + 1 \in 1 .. Len(channel) /\ j + 1 \in 1 .. Len(channel) /\ i + 1 < j + 1
    BY <1>2, <1>7
  <2> QED
    BY <1>2, <2>1 DEF SentInOrder
<1>8. \A x \in (Delivered \cup outbox)' : Superseded(x)'
  BY <1>1, <1>5 DEF SentInOrder, Superseded
<1> QED
  BY <1>1, <1>5, <1>6, <1>7, <1>8 DEF SentInOrder

LEMMA OrderStep ==
  ASSUME TypeOK, SentInOrder, [Next]_vars
  PROVE  SentInOrder'
<1>1. CASE TimePasses
  <2>1. /\ clock \in Nat /\ clock' \in Nat /\ clock' > clock /\ PruneAge \in Nat
        /\ UNCHANGED <<table, validators, channel, outbox>>
    BY <1>1, GossipAssumption, CrdsAssumption DEF TypeOK, TimePasses, gossipVars, mainVars
  <2>2. \A x \in Delivered \cup outbox : Superseded(x)'
    BY <2>1, SentAreValues DEF SentInOrder, Superseded
  <2> QED
    BY <2>1, <2>2 DEF SentInOrder, Delivered
<1>2. CASE UNCHANGED <<table, validators, channel, outbox, clock>>
  BY <1>2 DEF SentInOrder, Delivered, Superseded
<1>3. CASE PollStep \/ RepairPoll \/ NewSlot \/ UNCHANGED vars
  BY <1>2, <1>3 DEF PollStep, PollAnswer, PollCompare, PollStore, RepairPoll, NewSlot,
                    vars, gossipVars, mainVars
<1>4. CASE \/ \E m \in Messages : Handshake(m) \/ InitialWait(m)
           \/ LoopFails \/ StoreSlot \/ FinishPrune
  BY <1>2, <1>4 DEF Handshake, InitialWait, LoopFails, StoreSlot, FinishPrune, startUnchanged,
                    mainVars
<1> QED
  BY <1>1, <1>3, <1>4, OrderHandle, OrderPrune, OrderForward, OrderTake
  DEF Next, GossipStep, MainStep

(* The order holds from the start on.                                      *)
LEMMA Ordered == Spec => []SentInOrder
<1>1. Init => SentInOrder
  BY DEF Init, SentInOrder, Delivered, Entries
<1> QED
  BY <1>1, OrderStep, TypeCorrect, PTL DEF Spec

(* A validator's repair address is only ever replaced by that of a contact *)
(* info at least as new (main.rs: validators.insert), through prunes, a    *)
(* full channel and lost or repeated messages.                             *)
THEOREM ValidatorsOnlyNewer == Spec => ValidatorsNewer
<1>1. ASSUME TypeOK, SentInOrder, [Next]_vars
      PROVE  [\A k \in Keys : validators[k] # NULL =>
                /\ validators'[k] # NULL
                /\ validators'[k].wallclock >= validators[k].wallclock]_vars
  <2> SUFFICES ASSUME NEW k \in Keys, validators[k] # NULL
               PROVE  /\ validators'[k] # NULL
                      /\ validators'[k].wallclock >= validators[k].wallclock
    OBVIOUS
  <2>1. /\ IsTable(validators) /\ validators[k] \in Values /\ validators[k].wallclock \in Nat
        /\ validators[k] \in Entries(validators) /\ validators[k].key = k
    BY <1>1, ValueFacts DEF TypeOK, IsTable, Entries
  <2>2. CASE TakeContact
    <3>1. channel \in Seq(Values) /\ channel # <<>>
      BY <1>1, <2>2 DEF TypeOK, TakeContact
    <3>2. Head(channel) = channel[1] /\ 1 \in 1 .. Len(channel) /\ channel[1] \in Values
      BY <3>1
    <3>3. channel[1] # NULL
      BY <3>2, ValueFacts
    <3>4. NotNewer(validators[k], channel[1]) /\ channel[1].wallclock \in Nat
      BY <1>1, <2>1, <3>2, ValueFacts DEF SentInOrder
    <3>5. validators'[k] = validators[k] \/ (channel[1].key = k /\ validators'[k] = channel[1])
      BY <2>1, <2>2, <3>2 DEF TakeContact, IsTable
    <3> QED
      BY <2>1, <3>3, <3>4, <3>5 DEF NotNewer
  <2>3. CASE UNCHANGED validators
    BY <2>1, <2>3
  <2>4. CASE PollStep \/ RepairPoll \/ NewSlot \/ TimePasses \/ UNCHANGED vars
    BY <2>3, <2>4 DEF PollStep, PollAnswer, PollCompare, PollStore, RepairPoll, NewSlot, TimePasses,
                      vars, mainVars
  <2>5. CASE GossipStep
    BY <2>3, <2>5 DEF GossipStep, Handshake, InitialWait, Handle, LoopFails, PruneTable, StoreSlot,
                      Forward, FinishPrune, startUnchanged, mainVars
  <2> QED
    BY <1>1, <2>2, <2>4, <2>5 DEF Next, MainStep
<1> QED
  BY <1>1, Ordered, TypeCorrect, PTL DEF Spec, ValidatorsNewer

-----------------------------------------------------------------------------
(* Peers.                                                                  *)

(* Every contact info of the table but our own is a peer.                  *)
Known == \A v \in Entries(table) : v.addr # NULL /\ v.key # Self => v.addr \in known_peers

LEMMA KnownStep ==
  ASSUME TypeOK, Known, [Next]_vars
  PROVE  Known' /\ known_peers \subseteq known_peers'
<1>1. IsTable(table) /\ clock \in Nat
  BY GossipAssumption DEF TypeOK
<1>2. ASSUME NEW values \in Batches, Handle(values)
      PROVE  Known' /\ known_peers \subseteq known_peers'
  BY <1>2 DEF Handle, Known, ContactInfos
<1>3. CASE PruneTable
  <2>1. table' = Prune(table, clock) /\ known_peers' = known_peers
    BY <1>3 DEF PruneTable
  <2>2. \A k \in Keys : table'[k] # NULL => table'[k] = table[k]
    BY <1>1, <2>1, PruneFacts
  <2> QED
    BY <2>1, <2>2 DEF Known, Entries
<1>4. CASE FinishPrune
  BY <1>4 DEF FinishPrune, Known
<1>5. CASE UNCHANGED <<table, known_peers>>
  BY <1>5 DEF Known
<1>6. CASE PollStep \/ MainStep \/ NewSlot \/ TimePasses \/ UNCHANGED vars
  BY <1>5, <1>6 DEF PollStep, PollAnswer, PollCompare, PollStore, MainStep, TakeContact, RepairPoll,
                    NewSlot, TimePasses, vars, gossipVars
<1>7. CASE \/ \E m \in Messages : Handshake(m) \/ InitialWait(m)
           \/ LoopFails \/ StoreSlot \/ (\E ci \in outbox : Forward(ci))
  BY <1>5, <1>7 DEF Handshake, InitialWait, LoopFails, StoreSlot, Forward, startUnchanged
<1> QED
  BY <1>2, <1>3, <1>4, <1>6, <1>7 DEF Next, GossipStep

(* Whoever's contact info the table holds once a message is handled is a   *)
(* peer ever after, also when the vote of a later message takes its place  *)
(* or a prune removes it (handler.rs, lib.rs).                             *)
THEOREM PeersStay == Spec => PeersRemembered
<1>1. Init => Known
  BY DEF Init, Known, Entries, TableNew
<1>2. Spec => []Known
  BY <1>1, KnownStep, TypeCorrect, PTL DEF Spec
<1>3. ASSUME NEW v \in {w \in Values : w.addr # NULL /\ w.key # Self}
      PROVE  Spec => [](table[v.key] = v => [](v.addr \in known_peers))
  <2>1. TypeOK /\ Known => (table[v.key] = v => v.addr \in known_peers)
    BY CrdsAssumption DEF Known, Entries, TypeOK
  <2>2. TypeOK /\ Known /\ v.addr \in known_peers /\ [Next]_vars => (v.addr \in known_peers)'
    BY KnownStep
  <2> QED
    BY <1>2, <2>1, <2>2, TypeCorrect, PTL DEF Spec
<1> QED
  BY <1>3 DEF PeersRemembered
=============================================================================
