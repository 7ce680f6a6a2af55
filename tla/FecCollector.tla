---------------------------- MODULE FecCollector ----------------------------
(***************************************************************************)
(* The map of pending batches of the receive loop (main.rs), its repair    *)
(* poll and the network between them: the requests of a poll go to every   *)
(* validator, so any shred may arrive at any time, any number of times, in *)
(* any order, also long after its set was recovered, or never.             *)
(*                                                                         *)
(* The loop runs process_shred to its end before the next packet, and no   *)
(* other task sees `batches`, so one shred is one step here; the locks and *)
(* stores it goes through are in module Pipeline.                          *)
(***************************************************************************)
EXTENDS FecBatch

VARIABLES batches,     \* HashMap<ErasureSetId, FecBatch>
          asked,       \* the slot whose repair requests are out, or NULL
          alive,       \* FALSE after a panic of the main task, until restart
          arrived,     \* history: per set, the shreds processed since its batch was opened
          opener,      \* history: per set, the kind of the first of them
          last         \* history: the recovery the last step made, or NULL

vars == <<batches, asked, alive, arrived, opener, last>>

Kinds == {"data", "code"}
Recoveries == [set : ErasureSets, opener : Kinds, outcome : Outcomes, from : SUBSET Shreds]
Slots == {id.slot : id \in ErasureSets}

ASSUME CollectorNullAssumption == NULL \notin Recoveries \cup Kinds \cup Slots

Init == /\ batches = [id \in ErasureSets |-> NULL]
        /\ asked = NULL
        /\ alive = TRUE
        /\ arrived = [id \in ErasureSets |-> {}]
        /\ opener = [id \in ErasureSets |-> NULL]
        /\ last = NULL

(* The batch a shred belongs to, after it was added.                       *)
BatchWith(shred) ==
  AddShred(IF batches[shred.set] = NULL THEN OpenBatch(shred) ELSE batches[shred.set], shred)

OpenerOf(shred) ==
  IF batches[shred.set] = NULL THEN shred.kind ELSE opener[shred.set]

Keep(shred) ==
  /\ NULL \in TryRecover(BatchWith(shred), shred.set)
  /\ batches' = [batches EXCEPT ![shred.set] = BatchWith(shred)]
  /\ opener' = [opener EXCEPT ![shred.set] = OpenerOf(shred)]
  /\ arrived' = [arrived EXCEPT ![shred.set] = @ \cup {shred}]
  /\ last' = NULL
  /\ UNCHANGED alive

(* batches.remove, whatever deshredding makes of the payloads.             *)
Recover(shred) ==
  \E out \in TryRecover(BatchWith(shred), shred.set) \cap Outcomes :
    /\ last' = [set |-> shred.set, opener |-> OpenerOf(shred), outcome |-> out,
                from |-> arrived[shred.set] \cup {shred}]
    /\ batches' = [batches EXCEPT ![shred.set] = NULL]
    /\ opener' = [opener EXCEPT ![shred.set] = NULL]
    /\ arrived' = [arrived EXCEPT ![shred.set] = {}]
    /\ UNCHANGED alive

(* An index past the end of a received shred ends the main task.           *)
Panic(shred) ==
  /\ "panic" \in TryRecover(BatchWith(shred), shred.set)
  /\ alive' = FALSE
  /\ last' = NULL
  /\ UNCHANGED <<batches, arrived, opener>>

ProcessShred(shred) ==
  alive /\ (Keep(shred) \/ Recover(shred) \/ Panic(shred))

(***************************************************************************)
(* The sleep arm: indexes 0 .. NUM_DATA_SHREDS + NUM_CODE_SHREDS - 1 of    *)
(* the slot that is the latest just then, and of no other, are asked of    *)
(* every validator.  latest_slot moves on (module Gossip), so any slot may *)
(* be polled next; that the arm is reached at all is not promised, a       *)
(* packet within the second starts the sleep anew.                         *)
(***************************************************************************)
Poll ==
  /\ alive
  /\ \E slot \in Slots : slot > 0 /\ asked' = slot
  /\ UNCHANGED <<batches, alive, arrived, opener, last>>

(* The requests or their answers are lost, or another slot was asked for.  *)
Unasked ==
  /\ asked # NULL
  /\ asked' = NULL
  /\ UNCHANGED <<batches, alive, arrived, opener, last>>

(* An index past the end of the requests: faulty in the mutation runs.     *)
RequestsDataOnly == NUM_DATA_SHREDS
Requests == NUM_DATA_SHREDS + NUM_CODE_SHREDS

(* Validators answer a request with the data shred of that index in slot.  *)
IsAsked(shred) ==
  /\ asked = shred.set.slot
  /\ shred.kind = "data"
  /\ shred.set.fec_set_index + shred.pos < Requests

(* Shreds that answer a request, and shreds that come anyway: late or      *)
(* repeated answers, and what others send unasked.                         *)
Answer(shred) == IsAsked(shred) /\ ProcessShred(shred) /\ UNCHANGED asked
Unsolicited(shred) == ~IsAsked(shred) /\ ProcessShred(shred) /\ UNCHANGED asked

(* The process is started again: the map was only in memory.               *)
Restart ==
  /\ ~alive
  /\ alive' = TRUE
  /\ asked' = NULL
  /\ batches' = [id \in ErasureSets |-> NULL]
  /\ arrived' = [id \in ErasureSets |-> {}]
  /\ opener' = [id \in ErasureSets |-> NULL]
  /\ UNCHANGED last

Next ==
  \/ \E shred \in Shreds : Answer(shred) \/ Unsolicited(shred)
  \/ Poll \/ Unasked \/ Restart

Spec == Init /\ [][Next]_vars

(***************************************************************************)
(* The operator starts a node again that went down, and the network does   *)
(* not lose for ever the answers to a request that is made again and       *)
(* again.  Nothing is owed for what is not asked: code shreds, indexes the *)
(* poll does not reach, slots that are no longer the latest; and nothing   *)
(* is owed of the poll itself.                                             *)
(***************************************************************************)
Fairness ==
  /\ WF_vars(Restart)
  /\ \A shred \in Shreds : shred.kind = "data" => SF_vars(Answer(shred))

FairSpec == Spec /\ Fairness

-----------------------------------------------------------------------------
(* The map holds well-formed batches: only positions the batch has.        *)
TypeOK ==
  /\ batches \in [ErasureSets -> FecBatches \cup {NULL}]
  /\ \A id \in ErasureSets : batches[id] # NULL =>
       /\ batches[id].data_shreds \subseteq 0 .. batches[id].num_data - 1
       /\ batches[id].code_shreds \subseteq 0 .. batches[id].num_code - 1
  /\ asked \in Slots \cup {NULL}
  /\ alive \in BOOLEAN
  /\ arrived \in [ErasureSets -> SUBSET Shreds]
  /\ \A id \in ErasureSets : arrived[id] \subseteq ShredsOf(id)
  /\ opener \in [ErasureSets -> Kinds \cup {NULL}]
  /\ last \in Recoveries \cup {NULL}

(* Recovery comes with enough shreds, no sooner and no later.  Nothing     *)
(* complete is left waiting, unless it drew rows that do not solve, which  *)
(* takes more code than data positions or over 128 data positions.  And a  *)
(* duplicate never counts twice: whatever was recovered, that many         *)
(* different shreds of the set had arrived for that very batch.            *)
RecoveredWhenEnough ==
  /\ \A id \in ErasureSets : batches[id] # NULL =>
       \/ ReceivedCount(batches[id]) < batches[id].num_data
       \/ batches[id].num_code > batches[id].num_data \/ batches[id].num_data > 128
  /\ last # NULL => Cardinality(last.from) >= Min({NUM_DATA_SHREDS, Dims[last.set].num_data})

(* What is recovered is the leader's data exactly when all data shreds of  *)
(* the set had arrived for this very batch and its first shred gave it the *)
(* set's dimensions, whatever code shreds came with them, in any order and *)
(* whatever the payload lengths.  In place of a data shred that is missing *)
(* no code shred helps.                                                    *)
WholeIffAllData ==
  last # NULL =>
    (last.outcome = "whole" <=>
       /\ {shred \in ShredsOf(last.set) : shred.kind = "data"} \subseteq last.from
       /\ last.opener = "code" \/ Dims[last.set].num_data = NUM_DATA_SHREDS)

(* Sets of the default dimensions every data shred of which a poll of      *)
(* their slot asks for.                                                    *)
InReach(id) ==
  /\ Dims[id].num_data = NUM_DATA_SHREDS
  /\ id.fec_set_index + Dims[id].num_data <= NUM_DATA_SHREDS + NUM_CODE_SHREDS

RecoveredNow(id) == last # NULL /\ last.set = id

(* A code shred came to the batch of the set, or brought its recovery.     *)
CodeCame(id) ==
  \E shred \in arrived[id] \cup (IF RecoveredNow(id) THEN last.from ELSE {}) :
    shred.kind = "code"

(* If the polls come back to its slot again and again, such a set is       *)
(* recovered in the end, with the leader's data unless code shreds come    *)
(* between for ever, and unless the node panics over and over and loses    *)
(* its batches each time.                                                  *)
EventuallyRecovered ==
  \A id \in {set \in ErasureSets : InReach(set)} :
    []<>(asked = id.slot) =>
      \/ []<>~alive
      \/ <>(RecoveredNow(id) /\ last.outcome = "whole")
      \/ []<>CodeCame(id) /\ <>RecoveredNow(id)

=============================================================================
