------------------------------- MODULE FecLink -------------------------------
(***************************************************************************)
(* One FEC stream end to end: a sender that encodes blocks, a datagram     *)
(* link that loses, duplicates, reorders and delays shards, and the        *)
(* receiver's rs_block_erasure (RsBlockErasureRx).                         *)
(*                                                                         *)
(* The sender is reduced to flush(): every call turns the pending app      *)
(* packets into one block and takes the next block_id.  Blocks are         *)
(* numbered 0, 1, 2, ... in the order they were encoded; that number is    *)
(* the src of RsBlockErasureRx, and the ring id is what travels.           *)
(*                                                                         *)
(* A shard can arrive, any number of times or never, while its block is at *)
(* most MaxDelay old and at most MaxReorder newer blocks have been sent.   *)
(* The receive thread polls every 10 ms (stream_receiver.cpp k_poll_ms),   *)
(* far less than the shortest hold, so every tick holds at least one poll. *)
(***************************************************************************)
EXTENDS RsBlockErasureRx

CONSTANTS
  K, N,         \* the sender's fec_k and fec_n
  SduCounts,    \* how many app packets a block may hold when it is flushed
  StartIds,     \* ring ids a (re)started sender may draw from random_device
  MaxBlocks,    \* bound: blocks encoded
  MaxRestarts,  \* bound: sender restarts
  MaxDelay,     \* longest time a shard spends on the link
  MaxReorder    \* most blocks sent after a shard that can arrive before it

VARIABLES
  block_id,     \* sender: ring id of the next block
  sent,         \* sender: ring id and packet count of every block so far
  restarts,     \* sender: number of the first block after each restart
  air,          \* block -> time since it was sent, while its shards may arrive
  polled,       \* the receive thread has polled since time last passed
  delivered,    \* history: every packet the receiver returned
  written_off   \* history: every packet the receiver counted as lost

link == <<block_id, sent, restarts, air>>
vars == <<fec, link, polled, delivered, written_off>>

ASSUME LinkAssumption ==
  /\ N \in Nat \ {0} /\ K \in 1 .. N
  /\ SduCounts \subseteq 1 .. K
  /\ StartIds \subseteq BlockId
  /\ {MaxBlocks, MaxRestarts, MaxDelay, MaxReorder} \subseteq Nat

ShardOf(b, i) == [id |-> sent[b + 1].id, idx |-> i, k |-> K, n |-> N,
                  sdu |-> sent[b + 1].sdu, src |-> b]

\* encode_block sends the packets it has and the parity, not the pads.
IndexesSent(b) == (0 .. sent[b + 1].sdu - 1) \cup (K .. N - 1)

LinkInit ==
  /\ RxInit
  /\ block_id \in StartIds
  /\ sent = <<>> /\ restarts = <<>> /\ air = EmptyMap
  /\ polled = FALSE
  /\ delivered = {} /\ written_off = {}

\* What a call of the receiver returned.
Account ==
  /\ delivered'   = delivered \cup ToSet(fec'.out)
  /\ written_off' = written_off \cup fec'.lost

\* flush(): encode, send every shard, take the next id.
SendBlock ==
  /\ Len(sent) < MaxBlocks
  /\ \E c \in SduCounts : sent' = Append(sent, [id |-> block_id, sdu |-> c])
  /\ air' = With([b \in {c \in DOMAIN air : Len(sent) - c <= MaxReorder} |-> air[b]],
                 Len(sent), 0)
  /\ block_id' = wire_block_id(block_id + 1)
  /\ UNCHANGED <<fec, restarts, polled, delivered, written_off>>

\* The sender process is restarted and draws a new id.
Restart ==
  /\ Len(restarts) < MaxRestarts
  /\ sent # <<>> /\ Len(sent) \notin ToSet(restarts)
  /\ restarts' = Append(restarts, Len(sent))
  /\ block_id' \in StartIds
  /\ UNCHANGED <<fec, sent, air, polled, delivered, written_off>>

Arrive(b, i) ==
  /\ push_air(ShardOf(b, i))
  /\ Account
  /\ UNCHANGED <<link, polled>>

Poll ==
  /\ poll_rx
  /\ polled' = TRUE
  /\ Account
  /\ UNCHANGED link

TimePasses ==
  /\ polled /\ polled' = FALSE
  /\ Tick
  /\ air' = [b \in {c \in DOMAIN air : air[c] < MaxDelay} |-> air[b] + 1]
  /\ UNCHANGED <<block_id, sent, restarts, delivered, written_off>>

LinkNext ==
  \/ SendBlock
  \/ Restart
  \/ \E b \in DOMAIN air : \E i \in IndexesSent(b) : Arrive(b, i)
  \/ Poll
  \/ TimePasses

LinkSpec == LinkInit /\ [][LinkNext]_vars

\* Nothing is asked of the sender or the link: only the receive thread and the
\* clock go on for ever.  Poll is the only step that sets polled and
\* TimePasses the only one that resets it, and one of the two is always enabled.
FairLinkSpec ==
  LinkSpec /\ WF_polled(polled' = TRUE) /\ WF_polled(polled' = FALSE)

(* ------------------------------ properties ------------------------------ *)

\* Fields of the receiver and the link stay in their ranges.
LinkTypeOK ==
  /\ {fec.emit_next, fec.newest, block_id} \subseteq BlockId
  /\ DOMAIN fec.rx_blocks \cup DOMAIN fec.ready_blocks \subseteq BlockId
  /\ fec.later_block_since \in Age \cup {Never}
  /\ Len(fec.done) <= DoneMax
  /\ \A b \in DOMAIN fec.rx_blocks :
       LET blk == fec.rx_blocks[b]
       IN  blk.last_seen \in Age /\ blk.released \in 0 .. blk.sdu /\ DOMAIN blk.frags # {}
  /\ DOMAIN air \subseteq 0 .. Len(sent) - 1

\* However shards are repeated and reordered, no app packet is returned twice.
NoDuplicate ==
  [][/\ ToSet(fec'.out) \cap delivered = {}
     /\ Cardinality(ToSet(fec'.out)) = Len(fec'.out)]_fec

\* fail_lost_app_pkts counts a packet at most once, and only a packet that
\* is never returned, neither before nor after it was counted.
\* Of blocks with two packets or more: the hold that a block of one packet can leave
\* running (see HoldNeedsBlock) gives up the next block at its first shard, and the
\* next shard of that block is taken anew.
LossIsFinal ==
  [][/\ fec'.lost \cap (written_off \cup delivered \cup ToSet(fec'.out)) = {}
     /\ ToSet(fec'.out) \cap written_off = {}]_fec

Before(p, q) == p[1] < q[1] \/ (p[1] = q[1] /\ p[2] < q[2])

RingIdOf(p) == sent[p[1] + 1].id

\* Its block was given up incomplete: W are the packets written off.
Broken(p, W) == \E q \in W : q[1] = p[1]

\* A packet is returned after one that was sent later only if the head had
\* given up waiting for its own block, or one of the two came from a block
\* that was itself given up incomplete.  Complete blocks keep their order.
CompleteBlocksInOrder ==
  [][\A j \in 1 .. Len(fec'.out) :
       \/ fec.emit_base_set /\ dist_from_emit(fec, RingIdOf(fec'.out[j])) < 0
       \/ Broken(fec'.out[j], written_off')
       \/ /\ \A p \in delivered : Before(p, fec'.out[j]) \/ Broken(p, written_off)
          /\ \A l \in 1 .. j - 1 : \/ Before(fec'.out[l], fec'.out[j])
                                   \/ Broken(fec'.out[l], written_off')]_fec

\* The hold that lets the head be given up runs only while a block at or after
\* the head is here: the head never steps over an id that nothing has followed.
\* As long as one session has gone less than half the ring: past it a block sent
\* later can lie behind the head, and evict the one that started the hold.
\* And but for a newest block of one packet that was just passed.  Its shard evicts a
\* stale block at the head (ring_evict_stale) and decodes at once; if the head moved
\* on to a decoded block, on_block_decoded (rs_block_erasure.cpp:461) starts a hold
\* for the new block all the same, and the engine at the end of the call returns both
\* and leaves the hold running with nothing behind it.  The same happens to blocks of
\* more packets where MaxReorder > EvictDist, if their last shard is late.
HoldNeedsBlock ==
  (fec.later_block_since # Never /\ restarts = <<>> /\ Len(sent) < RingMod \div 2) =>
    \/ \E b \in DOMAIN fec.rx_blocks \cup DOMAIN fec.ready_blocks : dist_from_emit(fec, b) >= 0
    \/ /\ fec.emit_next = wire_block_id(fec.newest + 1)
       /\ [id |-> fec.newest, sdu |-> 1] \in ToSet(sent)

Silent == fec.emit_base_set /\ fec.last_shard_rx >= RxHold

\* The first shard after rx_hold without any, other than one of the block at
\* the head: i is its index in block b.
FirstAfterSilence(b, i) ==
  Silent /\ sent[b + 1].id # fec.emit_next /\ Arrive(b, i)

\* A restarted sender is heard at once, whatever id it drew: the first shard
\* after the silence, if it carries a block's first packet, is returned by that
\* same call.
ResumesAfterSilence ==
  [][\A b \in DOMAIN air : FirstAfterSilence(b, 0) => <<b, 0>> \in ToSet(fec'.out)]_fec

\* With that shard the receiver forgets all that came before: it holds and
\* returns nothing but this shard, and counts nothing of the old session lost.
SilenceStartsAfresh ==
  [][\A b \in DOMAIN air : \A i \in IndexesSent(b) :
       FirstAfterSilence(b, i) =>
         /\ fec'.ready_blocks = EmptyMap /\ fec'.lost = {}
         /\ \A c \in DOMAIN fec'.rx_blocks : ToSet(fec'.rx_blocks[c].frags) = {b}
         /\ \A j \in 1 .. Len(fec'.out) : fec'.out[j][1] = b]_fec

(* ------------------------------- liveness ------------------------------- *)

\* Once a later block waits, the head moves on or the wait is over.
HeadHoldEnds == fec.later_block_since # Never ~> fec.later_block_since = Never

\* A block being collected is decoded, given up or expired in the end.
BlocksSettle ==
  \A b \in BlockId : b \in DOMAIN fec.rx_blocks ~> b \notin DOMAIN fec.rx_blocks

\* rs_block_erasure.hpp:60-62: emit_hold is the "Max time a decoded block waits
\* in the in-order emit queue for an earlier block_id before the queue advances
\* past the hole"; so a decoded block is released, even with no more traffic.
ReadyReleased ==
  \A b \in BlockId : b \in DOMAIN fec.ready_blocks ~> b \notin DOMAIN fec.ready_blocks
=============================================================================
