---------------------------- MODULE EntryStream ----------------------------
(***************************************************************************)
(* The deshredder, crates/dc-tvu/src/deshredder.rs: measuring transactions *)
(* and cutting the payloads of a set, joined, into entries.                *)
(*                                                                         *)
(* A stream is what the leader serialised (an announced number of entries, *)
(* each a list of transactions) and the number `len` of its bytes that are *)
(* there: an entry batch may go on in the next set, and a file may end     *)
(* anywhere.  As every read moves to where the next field begins, a read   *)
(* gives the field's value if its bytes are there, and None if not.        *)
(***************************************************************************)
EXTENDS Integers, Sequences, SequencesExt, Optional, Totals

CONSTANTS MaxEntries,       \* 1_000_000: more are taken for garbage
          MaxTransactions   \* 100_000 per entry

(* Bytes of a compact-u16.                                                 *)
ShortU16Bytes(n) == IF n < 128 THEN 1 ELSE IF n < 16384 THEN 2 ELSE 3

(* read_shortu16 of the given bytes: seven bits of each, up to the first   *)
(* without a continuation bit, which is at most the third; in 16 bits.     *)
ReadShortU16(bytes) ==
  LET lasts == {k \in 1 .. 3 : k <= Len(bytes) /\ bytes[k] < 128}
      worth == [k \in 1 .. 3 |-> (bytes[k] % 128) * <<1, 128, 16384>>[k]]
  IN  IF lasts = {} THEN NULL
      ELSE [value |-> SumTo(worth, Min(lasts)) % 65536, read |-> Min(lasts)]

-----------------------------------------------------------------------------
(* tx_len's way through a transaction: a "read" or "peek" needs its bytes, *)
(* a "skip" only moves on.                                                 *)
Read(n) == [do |-> "read", bytes |-> ShortU16Bytes(n)]
Skip(n) == [do |-> "skip", bytes |-> n]
Peek == [do |-> "peek", bytes |-> 1]

(* A vector: its length, then the steps of each element.                   *)
VectorWalk(walks) == <<Read(Len(walks))>> \o FlattenSeq(walks)

InstructionWalk(ix) == <<Skip(1), Read(ix.accounts), Skip(ix.accounts), Read(ix.data), Skip(ix.data)>>
LookupWalk(l) == <<Skip(32), Read(l.writable), Skip(l.writable), Read(l.readonly), Skip(l.readonly)>>

(* A versioned message has a prefix byte and lookups at its end.           *)
TxWalk(tx) ==
  <<Read(tx.signatures), Skip(64 * tx.signatures), Peek>>
    \o (IF tx.versioned THEN <<Skip(1)>> ELSE <<>>)
    \o <<Skip(3), Read(tx.keys), Skip(32 * tx.keys), Skip(32)>>
    \o VectorWalk([i \in DOMAIN tx.instructions |-> InstructionWalk(tx.instructions[i])])
    \o (IF tx.versioned THEN VectorWalk([i \in DOMAIN tx.lookups |-> LookupWalk(tx.lookups[i])])
        ELSE <<>>)

(* Where a step from position p leads; -1 once a read has failed.          *)
Walk(p, step, len) ==
  IF p = -1 \/ (step.do # "skip" /\ p + step.bytes > len) THEN -1
  ELSE IF step.do = "peek" THEN p ELSE p + step.bytes

(* Where a walk from `start` leads.                                        *)
WalkEnd(len, start, steps) ==
  LET at[k \in 0 .. Len(steps)] == IF k = 0 THEN start ELSE Walk(at[k - 1], steps[k], len)
  IN  at[Len(steps)]

(* Faulty variant, for the mutation runs: the end is not compared.         *)
TxLenUnchecked(len, start, tx) ==
  LET end == WalkEnd(len, start, TxWalk(tx))
  IN  IF end = -1 THEN NULL ELSE end - start

(* The bytes of the transaction at `start`; that the last skip stayed      *)
(* within the data is checked at the end.                                  *)
TxLen(len, start, tx) ==
  LET end == WalkEnd(len, start, TxWalk(tx))
  IN  IF end = -1 \/ end > len THEN NULL ELSE end - start

-----------------------------------------------------------------------------
(* num_hashes, hash and tx_count.                                          *)
EntryHeader == 8 + 32 + 8

(* The transactions of an entry whose header is read, from position p: the *)
(* position after them, -1 when one of them is not all there.              *)
AfterTransactions(len, p, txs) ==
  LET next(q, tx) == IF q = -1 THEN -1
                     ELSE LET n == TxLen(len, q, tx) IN IF n = NULL THEN -1 ELSE q + n
      after[k \in 0 .. Len(txs)] == IF k = 0 THEN p ELSE next(after[k - 1], txs[k])
  IN  after[Len(txs)]

(* One entry after those read so far, or the end of the loop.              *)
NextEntry(state, txs, len) ==
  LET after == AfterTransactions(len, state.pos + EntryHeader, txs)
  IN  IF state.stop \/ state.pos + EntryHeader > len \/ Len(txs) > MaxTransactions \/ after = -1
      THEN [state EXCEPT !.stop = TRUE]
      ELSE [state EXCEPT !.pos = after, !.entries = Append(@, txs)]

(* deshred_into_txs: the entries, and all their transactions in a row.     *)
DeshredIntoTxs(stream) ==
  LET start == [pos |-> 8, entries |-> <<>>, stop |-> FALSE]
      there == SubSeq(stream.entries, 1, Min({stream.announced, Len(stream.entries)}))
      after[k \in 0 .. Len(there)] ==
        IF k = 0 THEN start ELSE NextEntry(after[k - 1], there[k], stream.len)
      state == after[Len(there)]
  IN  IF stream.len < 8 \/ stream.announced > MaxEntries \/ state.entries = <<>> THEN NULL
      ELSE [entries |-> state.entries, transactions |-> FlattenSeq(state.entries)]
=============================================================================
