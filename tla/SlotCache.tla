------------------------------ MODULE SlotCache ------------------------------
(***************************************************************************)
(* What the hot tier promises its readers, and nothing of how: a partial   *)
(* map from slots to blocks.  A put may drop any entries, the new one      *)
(* included, but a lookup that hits returns what was last put under that   *)
(* very slot, and nothing appears that was not put.                        *)
(***************************************************************************)
CONSTANTS Slots, SlotDatas, NULL

VARIABLE cache

CacheInit == cache = [s \in Slots |-> NULL]

CachePut(data) ==
  /\ cache' = [s \in Slots |-> cache'[s]]
  /\ \A s \in Slots :
       cache'[s] \in {NULL, IF s = data.slot THEN data ELSE cache[s]}

CacheNext == \E data \in SlotDatas : CachePut(data)

CacheSpec == CacheInit /\ [][CacheNext]_cache
=============================================================================
