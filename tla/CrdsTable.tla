------------------------------ MODULE CrdsTable ------------------------------
(***************************************************************************)
(* The table of gossip values, crates/dc-gossip/src/crds.rs, as operators  *)
(* on a function from pubkeys to values, NULL where there is none.         *)
(*                                                                         *)
(* A value is a record of the key it is filed under, its kind, its         *)
(* wallclock (milliseconds, as validators sign it), and of what this node  *)
(* reads of it: slot of votes and restart records, addr (the gossip        *)
(* socket) and repair (the socket of key 4) of contact infos; NULL where   *)
(* the value has none.                                                     *)
(***************************************************************************)
EXTENDS Integers, Sequences, FiniteSets, FiniteSetsExt, Optional

CONSTANTS Keys,      \* pubkeys, our own included
          Values,    \* CRDS values that may be received
          PruneAge   \* 15 * 60, in seconds

Kinds == {"contact", "legacy", "vote", "other"}

ASSUME CrdsAssumption ==
  /\ IsFiniteSet(Keys) /\ PruneAge \in Nat /\ NULL \notin Values
  /\ \A v \in Values :
       /\ v.key \in Keys /\ v.kind \in Kinds /\ v.wallclock \in Nat
       /\ v.slot # NULL => v.kind = "vote" /\ v.slot \in Nat
       /\ v.addr # NULL => v.kind \in {"contact", "legacy"}
       /\ v.repair # NULL => v.kind = "contact"

TableNew == [k \in Keys |-> NULL]

(* Values are filed under their own keys.                                  *)
IsTable(table) ==
  /\ table \in [Keys -> Values \cup {NULL}]
  /\ \A k \in Keys : table[k] # NULL => table[k].key = k

Entries(table) == {table[k] : k \in Keys} \ {NULL}

(* Faulty variant, for the mutation runs: the last to arrive wins.         *)
MergeLast(table, value) == [table EXCEPT ![value.key] = value]

(* One entry per pubkey, of whatever kind; it yields only to a newer one.  *)
Merge(table, value) ==
  IF table[value.key] # NULL /\ table[value.key].wallclock >= value.wallclock
  THEN table
  ELSE [table EXCEPT ![value.key] = value]

(* A list of values, one after the other.                                  *)
MergeAll(table, values) ==
  LET after[i \in 0 .. Len(values)] ==
        IF i = 0 THEN table ELSE Merge(after[i - 1], values[i])
  IN  after[Len(values)]

(* now() is in seconds, and the wallclocks are compared with it as they    *)
(* come.                                                                   *)
Prune(table, now) ==
  [k \in Keys |-> IF table[k] # NULL /\ table[k].wallclock > now - PruneAge
                  THEN table[k] ELSE NULL]

(* Entries get_contact_infos lists: those with a gossip socket.            *)
ContactInfos(table) == {v \in Entries(table) : v.addr # NULL}

AllContactInfos(table) == {v \in Entries(table) : v.kind = "contact"}

HighestSlot(table) ==
  LET slots == {v.slot : v \in Entries(table)} \ {NULL}
  IN  IF slots = {} THEN NULL ELSE Max(slots)
=============================================================================
