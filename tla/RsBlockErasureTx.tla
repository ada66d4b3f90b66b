-------------------------- MODULE RsBlockErasureTx --------------------------
(***************************************************************************)
(* The transmit half of core/rs_block_erasure: app packets are collected   *)
(* until fec_k of them are pending or a timeout is due, and leave as one   *)
(* block: the pending packets' systematic shards, no pads, then the parity *)
(* shards.                                                                 *)
(*                                                                         *)
(* A member function is an operator from the object, a record tx, to       *)
(* [tx |-> the object afterwards, air |-> the shards it hands out].  A     *)
(* packet is [no, size]: its number in the order of input, and its size in *)
(* units that leave the constant headers out.  nblocks is a history field: *)
(* it numbers the blocks, where block_id is the ring id on the wire.       *)
(***************************************************************************)
EXTENDS BlockRing, Sequences, SequencesExt, FiniteSetsExt

\* A default-constructed object: disabled, with a random first id.
NewTx(first) ==
  [active |-> FALSE, k |-> 0, n |-> 0, max |-> 0, pending |-> <<>>,
   due |-> FALSE, block_id |-> first, nblocks |-> 0]

Nothing(tx) == [tx |-> tx, air |-> <<>>]

\* Mutant of init: a reconfigured sender starts over with its ids.
init_restarts_ids(tx, c) ==
  [tx EXCEPT !.active = TRUE, !.k = c.k, !.n = c.n, !.max = c.max,
             !.pending = <<>>, !.due = FALSE, !.block_id = 0]

\* block_id and its numbering go on: a receiver still remembers the old ids.
init(tx, c) ==
  [tx EXCEPT !.active = TRUE, !.k = c.k, !.n = c.n, !.max = c.max,
             !.pending = <<>>, !.due = FALSE]

disable(tx) ==
  [tx EXCEPT !.active = FALSE, !.k = 0, !.n = 0, !.pending = <<>>, !.due = FALSE]

\* A shard knows its packet, a parity shard (as long as the longest one) none.
encode_block(tx) ==
  LET sdu == Len(tx.pending)
      row == Max({tx.pending[j].size : j \in 1 .. sdu})
      shard(i, p) == [blk |-> tx.nblocks + 1, idx |-> i, pkt |-> p.no, size |-> p.size]
  IN  [j \in 1 .. sdu |-> shard(j - 1, tx.pending[j])]
      \o [j \in 1 .. tx.n - tx.k |-> shard(tx.k + j - 1, [no |-> 0, size |-> row])]

\* Every pending packet passed push_app's length check under the same limit,
\* so encode_block does not fail.
flush(tx) ==
  IF ~tx.active \/ tx.pending = <<>> THEN Nothing(tx)
  ELSE [tx |-> [tx EXCEPT !.pending = <<>>, !.due = FALSE, !.nblocks = @ + 1,
                          !.block_id = wire_block_id(@ + 1)],
        air |-> encode_block(tx)]

fits(tx, p) == tx.active /\ p.size <= tx.max

\* Mutant of push_app: one packet more than fec_k before the flush.
push_app_late(tx, p) ==
  LET t == [tx EXCEPT !.pending = Append(@, p)]
  IN  IF ~fits(tx, p) THEN Nothing(tx)
      ELSE IF Len(t.pending) > t.k THEN flush(t)
      ELSE Nothing(t)

push_app(tx, p) ==
  LET t == [tx EXCEPT !.pending = Append(@, p)]
  IN  IF ~fits(tx, p) THEN Nothing(tx)
      ELSE IF Len(t.pending) >= t.k THEN flush(t)
      ELSE Nothing(t)

\* Mutant of on_tick: a partial block waits for more packets.
on_tick_full(tx) ==
  IF tx.due /\ Len(tx.pending) >= tx.k THEN flush(tx) ELSE Nothing(tx)

\* due: the deadline set by the first pending packet has passed.
on_tick(tx) == IF tx.due THEN flush(tx) ELSE Nothing(tx)
=============================================================================
