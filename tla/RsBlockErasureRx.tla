-------------------------- MODULE RsBlockErasureRx --------------------------
(***************************************************************************)
(* The receive half of core/rs_block_erasure: the in-order emit queue that *)
(* collects Reed-Solomon shards into blocks, streams the systematic shards *)
(* of the block at the head, holds decoded blocks until the head reaches   *)
(* them, and gives up on holes after a hold time.                          *)
(*                                                                         *)
(* The C++ object is one record, fec.  Each C++ member function is an      *)
(* operator from record to record; where the code walks an unordered_map,  *)
(* whose order is unspecified, the operator yields the set of the records  *)
(* the walk may end in.  The three entry points push_air, poll_rx and the  *)
(* passing of time are the actions.  Time stamps are kept as ages (ticks   *)
(* since the stamp, capped one above the longest hold; the code only ever  *)
(* compares an age with a hold), Never standing for "not set".             *)
(*                                                                         *)
(* A payload is the pair <<src, i>>: src names the encoded block a shard   *)
(* came from (a sender's private knowledge, never on the wire, which only  *)
(* carries the ring id), i the index of the app packet in it.  The fields  *)
(* out and lost are a call's results: the payload list it returns and the  *)
(* packets it adds to fail_lost_app_pkts_count.  Both are reset on entry.  *)
(***************************************************************************)
EXTENDS BlockRing, FiniteSets, Sequences, SequencesExt

CONSTANTS
  EvictDist,    \* k_ring_evict_dist
  DoneMax,      \* k_done_max
  EmitHold,     \* emit_hold_ms(), in ticks
  RxHold,       \* rx_hold_ms()
  DoneHold,     \* done_hold_ms()
  Shards        \* the shards that can arrive (see IsShard)

Never   == -1
Garbage == -2   \* "source" of a packet rebuilt from shards of two blocks

IsShard(sh) ==
  /\ sh.id \in BlockId
  /\ sh.n \in Nat \ {0} /\ sh.k \in 1 .. sh.n /\ sh.sdu \in 1 .. sh.k
  /\ sh.idx \in (0 .. sh.sdu - 1) \cup (sh.k .. sh.n - 1)   \* pads are not sent
  /\ sh.src \in Nat

ASSUME RxAssumption ==
  /\ {EvictDist, DoneMax, EmitHold, RxHold, DoneHold} \subseteq Nat
  /\ EvictDist < RingMod \div 2 /\ DoneMax > 0
  /\ EmitHold <= RxHold /\ RxHold <= DoneHold
  /\ \A sh \in Shards : IsShard(sh)

AgeCap   == DoneHold + 1
Age      == 0 .. AgeCap
Older(a) == IF a = Never \/ a = AgeCap THEN a ELSE a + 1

VARIABLE fec

(* ----------------------------- the object ------------------------------ *)

EmptyMap == [b \in {} |-> b]
Without(f, S) == [b \in DOMAIN f \ S |-> f[b]]
With(f, b, v) == [x \in DOMAIN f \cup {b} |-> IF x = b THEN v ELSE f[x]]

\* A default-constructed object, and what init() and disable() reset to.
Cleared ==
  [ emit_base_set        |-> FALSE,
    emit_next            |-> 0,
    newest               |-> 0,
    rx_blocks            |-> EmptyMap,   \* ring id -> block being collected
    ready_blocks         |-> EmptyMap,   \* ring id -> decoded block, waiting
    done                 |-> <<>>,       \* done_order, each id with its stamp
    last_payload_emit    |-> Never,
    last_shard_rx        |-> Never,
    later_block_since    |-> Never,      \* Never: later_block_waiting = false
    out                  |-> <<>>,
    lost                 |-> {} ]

dist_from_emit(s, id) == ring_dist(id, s.emit_next)

IsDone(s, id) == \E j \in 1 .. Len(s.done) : s.done[j].id = id

NewBlock(sh) ==
  [k |-> sh.k, n |-> sh.n, sdu |-> sh.sdu, released |-> 0,
   frags |-> EmptyMap, last_seen |-> 0]

(* -------------------------- emission and done -------------------------- *)

\* emit_payload for each packet of a list; a non-empty list stamps
\* last_payload_emit.
emit_payloads(s, pkts) ==
  IF pkts = <<>> THEN s
  ELSE [s EXCEPT !.out = @ \o pkts, !.last_payload_emit = 0]

\* The packets i of a block, from <= i < sdu, whose systematic shard is here.
Systematic(blk, from) ==
  LET upto[i \in 0 .. blk.sdu] ==
        IF i = 0 THEN <<>>
        ELSE IF i - 1 >= from /\ i - 1 \in DOMAIN blk.frags
        THEN Append(upto[i - 1], <<blk.frags[i - 1], i - 1>>) ELSE upto[i - 1]
  IN  upto[blk.sdu]

\* Mutant of Decoded: packets already streamed are returned again.
DecodedFromStart(rdy) == [j \in 1 .. rdy.sdu |-> <<rdy.payloads[j - 1], j - 1>>]

\* The packets i of a decoded block, from <= i < sdu.
Decoded(rdy) ==
  [j \in 1 .. rdy.sdu - rdy.released |->
     <<rdy.payloads[rdy.released + j - 1], rdy.released + j - 1>>]

\* The packets an abandoned block does not deliver.  The code adds only
\* their number to the counter.
Missing(blk) ==
  LET src == blk.frags[CHOOSE i \in DOMAIN blk.frags : TRUE]
  IN  {<<src, i>> : i \in {j \in blk.released .. blk.sdu - 1 :
                             j \notin DOMAIN blk.frags}}

mark_done(done, id) ==
  LET again == [j \in 1 .. Len(done) |->
                  IF done[j].id = id THEN [done[j] EXCEPT !.age = 0] ELSE done[j]]
      queue == IF \E j \in 1 .. Len(done) : done[j].id = id
               THEN again ELSE Append(done, [id |-> id, age |-> 0])
  IN  IF Len(queue) > DoneMax THEN Tail(queue) ELSE queue

\* Erase the ids of a set from done_order.
forget(done, ids) ==
  LET kept[j \in 0 .. Len(done)] ==
        IF j = 0 THEN <<>>
        ELSE IF done[j].id \in ids THEN kept[j - 1] ELSE Append(kept[j - 1], done[j])
  IN  kept[Len(done)]

\* Mutant of PassHead: the head id is not wrapped.
PassHeadNoWrap(s, m) ==
  [s EXCEPT !.done = FoldLeft(mark_done, @, [j \in 1 .. m |-> s.emit_next + j - 1]),
            !.emit_next = @ + m]

\* mark_done(emit_next); emit_next++, for the next m ids.
PassHead(s, m) ==
  LET marked[j \in 0 .. m] ==
        IF j = 0 THEN s.done
        ELSE mark_done(marked[j - 1], wire_block_id(s.emit_next + j - 1))
  IN  [s EXCEPT !.done = marked[m], !.emit_next = wire_block_id(@ + m)]

\* Length of the run of consecutive ids of S that starts at id.
RunLength(S, id) ==
  CHOOSE m \in 0 .. RingMod :
    /\ \A j \in 0 .. m - 1 : wire_block_id(id + j) \in S
    /\ m = RingMod \/ wire_block_id(id + m) \notin S

(* --------------------------- giving up a block -------------------------- *)

\* Mutant of abandon_partial_block: the hold is not cleared.
abandon_keeps_hold(s, blk, id) ==
  LET t == [emit_payloads(s, Systematic(blk, blk.released))
              EXCEPT !.lost = @ \cup Missing(blk)]
  IN  IF id = s.emit_next THEN PassHead(t, 1) ELSE t

abandon_partial_block(s, blk, id) ==
  LET t == [emit_payloads(s, Systematic(blk, blk.released))
              EXCEPT !.lost = @ \cup Missing(blk)]
  IN  IF id = s.emit_next
      THEN [PassHead(t, 1) EXCEPT !.later_block_since = Never]
      ELSE t

\* order visits the m ids from e on, one after the other, and not the next.
HeadRun(order, e, m) ==
  LET id(j)    == wire_block_id(e + j)
      visit(b) == CHOOSE j \in 1 .. Len(order) : order[j] = b
      met(j)   == /\ id(j) \in ToSet(order)
                  /\ j > 0 => visit(id(j)) > visit(id(j - 1))
  IN  (\A j \in 0 .. m - 1 : met(j)) /\ (m = RingMod \/ ~met(m))

\* Erase and abandon every block of S, in the unspecified order in which
\* ring_evict_stale and expire_rx meet them.  The head moves each time the
\* walk meets the block at the head, so how far it gets depends on the order.
AbandonAll(s, S) ==
  LET emitted(order) ==
        [emit_payloads(s, FlattenSeq([j \in 1 .. Len(order) |->
           LET blk == s.rx_blocks[order[j]] IN Systematic(blk, blk.released)]))
         EXCEPT !.rx_blocks = Without(@, S),
                !.lost = @ \cup UNION {Missing(s.rx_blocks[b]) : b \in S}]
      walk(order, m) ==
        IF m = 0 THEN emitted(order)
        ELSE [PassHead(emitted(order), m) EXCEPT !.later_block_since = Never]
  IN  UNION {{walk(order, m) : m \in {l \in 0 .. RingMod : HeadRun(order, s.emit_next, l)}} :
               order \in SetToSeqs(S)}

(* ----------------------------- emit engine ------------------------------ *)

try_stream_head_systematic(s, id) ==
  LET blk  == s.rx_blocks[id]
      stop == CHOOSE r \in blk.released .. blk.sdu :
                /\ \A i \in blk.released .. r - 1 : i \in DOMAIN blk.frags
                /\ r = blk.sdu \/ r \notin DOMAIN blk.frags
      pkts == [j \in 1 .. stop - blk.released |->
                 <<blk.frags[blk.released + j - 1], blk.released + j - 1>>]
  IN  [emit_payloads(s, pkts) EXCEPT !.rx_blocks[id].released = stop]

\* The loop of run_emit_engine: pass every decoded block that is next, then
\* stream what the head block already has.
DrainHead(s) ==
  LET m    == RunLength(DOMAIN s.ready_blocks, s.emit_next)
      ids  == [j \in 1 .. m |-> wire_block_id(s.emit_next + j - 1)]
      pkts == FlattenSeq([j \in 1 .. m |-> Decoded(s.ready_blocks[ids[j]])])
      t    == [PassHead(emit_payloads(s, pkts), m) EXCEPT
                 !.ready_blocks = Without(@, {ids[j] : j \in 1 .. m})]
  IN  IF t.emit_next \in DOMAIN t.rx_blocks
      THEN try_stream_head_systematic(t, t.emit_next) ELSE t

HoldOver(s) == s.later_block_since # Never /\ s.later_block_since > EmitHold

ReadyAheadOf(s) == {b \in DOMAIN s.ready_blocks : dist_from_emit(s, b) > 0}

NearestReady(s) ==
  CHOOSE b \in ReadyAheadOf(s) :
    \A c \in ReadyAheadOf(s) : dist_from_emit(s, b) <= dist_from_emit(s, c)

maybe_give_up_head(s) ==
  LET e == s.emit_next
  IN  IF e \in DOMAIN s.rx_blocks
      THEN IF \/ Cardinality(DOMAIN s.rx_blocks[e].frags) >= s.rx_blocks[e].n
              \/ HoldOver(s)
           THEN abandon_partial_block([s EXCEPT !.rx_blocks = Without(@, {e})],
                                      s.rx_blocks[e], e)
           ELSE s
      ELSE IF e \notin DOMAIN s.ready_blocks /\ HoldOver(s)
      THEN [s EXCEPT !.emit_next = IF ReadyAheadOf(s) # {} THEN NearestReady(s)
                                   ELSE wire_block_id(e + 1),
                     !.later_block_since = Never]
      ELSE s

\* The code calls itself again after giving up.  Giving up clears
\* later_block_waiting, and a block with all n shards has been decoded, so
\* one call gives up at most once and the recursion is two drains.
run_emit_engine(s) ==
  IF ~s.emit_base_set THEN s ELSE DrainHead(maybe_give_up_head(DrainHead(s)))

(* ------------------------------- expiry --------------------------------- *)

\* Pops from the front only: an id marked again keeps its place in the queue.
expire_done(s) ==
  LET stays(j) == s.done[j].age <= DoneHold
      first == CHOOSE j \in 1 .. Len(s.done) + 1 :
                 /\ \A i \in 1 .. j - 1 : ~stays(i)
                 /\ j > Len(s.done) \/ stays(j)
  IN  [s EXCEPT !.done = SubSeq(@, first, Len(@))]

\* Mutant of expire_rx: the block at the head is left to the emit hold.
expire_behind_head(s) ==
  LET t == expire_done(s)
  IN  AbandonAll(t, {b \in DOMAIN t.rx_blocks \ {t.emit_next} : t.rx_blocks[b].last_seen > RxHold})

expire_rx(s) ==
  LET t == expire_done(s)
  IN  AbandonAll(t, {b \in DOMAIN t.rx_blocks : t.rx_blocks[b].last_seen > RxHold})

\* Mutant of ExpireThenEmit: the emit engine is left to the next shard.
ExpireOnly(s) == expire_rx(s)

\* poll_rx after out->clear(), and push_air_finish, which every push_air ends
\* in, a shard whose header is refused (hdr_errors_count) included.
ExpireThenEmit(s) == {run_emit_engine(t) : t \in expire_rx(s)}

ClearResults(s) == [s EXCEPT !.out = <<>>, !.lost = {}]

(* ------------------------- one arriving shard --------------------------- *)

note_emit_base(s, id) ==
  IF s.emit_base_set THEN s
  ELSE [s EXCEPT !.emit_base_set = TRUE, !.emit_next = id, !.newest = id]

\* Mutants of maybe_rebase_after_silence: a forward jump is taken for a gap, and
\* the blocks being collected survive.
rebase_backward_only(s, id) ==
  LET silent == s.last_shard_rx # Never /\ s.last_shard_rx >= RxHold
      t      == [s EXCEPT !.last_shard_rx = 0]
  IN  IF ~silent \/ dist_from_emit(s, id) >= 0 THEN t
      ELSE [t EXCEPT !.rx_blocks = EmptyMap, !.ready_blocks = EmptyMap,
                     !.done = <<>>, !.emit_next = id, !.newest = id,
                     !.later_block_since = Never]

rebase_keeps_partial(s, id) ==
  LET silent == s.last_shard_rx # Never /\ s.last_shard_rx >= RxHold
      t      == [s EXCEPT !.last_shard_rx = 0]
  IN  IF ~silent \/ dist_from_emit(s, id) = 0 THEN t
      ELSE [t EXCEPT !.ready_blocks = EmptyMap,
                     !.done = <<>>, !.emit_next = id, !.newest = id,
                     !.later_block_since = Never]

maybe_rebase_after_silence(s, id) ==
  LET silent == s.last_shard_rx # Never /\ s.last_shard_rx >= RxHold
      t      == [s EXCEPT !.last_shard_rx = 0]
  IN  IF ~silent \/ dist_from_emit(s, id) = 0 THEN t
      ELSE [t EXCEPT !.rx_blocks = EmptyMap, !.ready_blocks = EmptyMap,
                     !.done = <<>>, !.emit_next = id, !.newest = id,
                     !.later_block_since = Never]

touch_newest(s, id) ==
  IF ring_dist(id, s.newest) > 0 THEN [s EXCEPT !.newest = id] ELSE s

clear_state_behind(s, base) ==
  LET Behind(S) == {b \in S : ring_dist(b, base) < 0}
  IN  [s EXCEPT !.rx_blocks = Without(@, Behind(DOMAIN @)),
                !.ready_blocks = Without(@, Behind(DOMAIN @)),
                !.done = forget(@, Behind(BlockId))]

maybe_resync_on_late_shard(s, id) ==
  IF /\ dist_from_emit(s, id) < 0
     /\ s.last_payload_emit # Never
     /\ s.last_payload_emit >= RxHold
  THEN [clear_state_behind(s, id) EXCEPT !.emit_next = id, !.later_block_since = Never]
  ELSE s

ring_evict_stale(s) ==
  LET Stale(S) == {b \in S : ring_dist(b, s.newest) < -EvictDist}
  IN  {[t EXCEPT !.done = forget(@, Stale(BlockId))] :
         t \in AbandonAll(s, Stale(DOMAIN s.rx_blocks))}

ArmLater(s, id) ==
  IF dist_from_emit(s, id) > 0 /\ s.later_block_since = Never
  THEN [s EXCEPT !.later_block_since = 0] ELSE s

\* A block decodes when it holds k shards, the never-sent pads counted in.
Decodable(blk) ==
  LET pads == (blk.sdu .. blk.k - 1) \ DOMAIN blk.frags
  IN  /\ Cardinality(DOMAIN blk.frags) >= blk.sdu
      /\ Cardinality(DOMAIN blk.frags) + Cardinality(pads) >= blk.k

\* Shards of more than one encoded block under one ring id.
Mixed(blk) == \E i, j \in DOMAIN blk.frags : blk.frags[i] # blk.frags[j]

DecodedPayloads(blk) ==
  [i \in 0 .. blk.sdu - 1 |->
     IF i \in DOMAIN blk.frags THEN blk.frags[i]
     ELSE IF Mixed(blk) THEN Garbage
     ELSE blk.frags[CHOOSE j \in DOMAIN blk.frags : TRUE]]

\* Mutant of on_block_decoded: a block behind the head is held like one ahead.
hold_late_block(s, id, rdy) ==
  IF dist_from_emit(s, id) = 0
  THEN run_emit_engine([PassHead(emit_payloads(s, Decoded(rdy)), 1)
                          EXCEPT !.later_block_since = Never])
  ELSE ArmLater([s EXCEPT !.ready_blocks = With(@, id, rdy)], id)

on_block_decoded(s, id, rdy) ==
  IF dist_from_emit(s, id) < 0
  THEN [emit_payloads(s, Decoded(rdy)) EXCEPT !.done = mark_done(@, id)]
  ELSE IF dist_from_emit(s, id) = 0
  THEN run_emit_engine([PassHead(emit_payloads(s, Decoded(rdy)), 1)
                          EXCEPT !.later_block_since = Never])
  ELSE ArmLater([s EXCEPT !.ready_blocks = With(@, id, rdy)], id)

\* ok: whether decode_block succeeds.  It always does on shards of one block
\* (sender and receiver build the same matrix from k and n).
try_decode_block(s, id, ok) ==
  LET blk == s.rx_blocks[id]
      t   == [s EXCEPT !.rx_blocks = Without(@, {id})]
  IN  IF ~Decodable(blk) THEN run_emit_engine(s)
      ELSE IF ~ok THEN run_emit_engine(abandon_partial_block(t, blk, id))
      ELSE on_block_decoded(t, id, [sdu |-> blk.sdu, released |-> blk.released,
                                    payloads |-> DecodedPayloads(blk)])

\* Mutant of StreamOrArm: a block ahead of the head streams too.
StreamAhead(s, id) ==
  IF dist_from_emit(s, id) >= 0 THEN try_stream_head_systematic(s, id) ELSE s

\* A stored shard of the head block is streamed, one ahead starts the hold.
StreamOrArm(s, id) ==
  IF id = s.emit_next THEN try_stream_head_systematic(s, id) ELSE ArmLater(s, id)

\* The code first evicts the oldest block if there are k_block_max = 256 of
\* them: with 256 ring ids, one of which is about to be added, there are not.
StoreShard(s, sh, ok) ==
  LET id   == sh.id
      blk  == IF id \in DOMAIN s.rx_blocks THEN s.rx_blocks[id] ELSE NewBlock(sh)
      blk2 == [blk EXCEPT !.frags = With(@, sh.idx, sh.src), !.last_seen = 0]
      t    == [s EXCEPT !.rx_blocks = With(@, id, blk2)]
  IN  IF <<blk.k, blk.n, blk.sdu>> # <<sh.k, sh.n, sh.sdu>>
      THEN abandon_partial_block([s EXCEPT !.rx_blocks = Without(@, {id})], blk, id)
      ELSE IF sh.idx \in DOMAIN blk.frags THEN s
      ELSE try_decode_block(StreamOrArm(t, id), id, ok)

\* Mutant of TakeShard: a shard of a decoded block that still waits is stored.
TakeShardAgain(s, sh, ok) ==
  IF dist_from_emit(s, sh.id) < 0 /\ IsDone(s, sh.id) THEN s ELSE StoreShard(s, sh, ok)

\* From the header checks to the end of the body of push_air.
TakeShard(s, sh, ok) ==
  IF \/ dist_from_emit(s, sh.id) < 0 /\ IsDone(s, sh.id)
     \/ sh.id \in DOMAIN s.ready_blocks
  THEN s ELSE StoreShard(s, sh, ok)

BeforeTake(s, sh) ==
  LET t == touch_newest(maybe_rebase_after_silence(
             note_emit_base(ClearResults(s), sh.id), sh.id), sh.id)
  IN  ring_evict_stale(maybe_resync_on_late_shard(t, sh.id))

(* ------------------------------- actions -------------------------------- *)

\* decode_block can only fail when it has to rebuild a packet from the shards
\* of two encoded blocks.
MayFail(s, sh) ==
  \E b \in DOMAIN s.rx_blocks \cap {sh.id} :
    LET blk == [s.rx_blocks[b] EXCEPT !.frags = With(@, sh.idx, sh.src)]
    IN  Mixed(blk) /\ ~(0 .. blk.sdu - 1 \subseteq DOMAIN blk.frags)

push_air(sh) ==
  \E s \in BeforeTake(fec, sh), ok \in BOOLEAN :
    /\ ~ok => MayFail(s, sh)
    /\ fec' \in ExpireThenEmit(TakeShard(s, sh, ok))

poll_rx == fec' \in ExpireThenEmit(ClearResults(fec))

\* Time passes between calls (now() is steady_clock).
Tick ==
  LET marks(d)  == [j \in 1 .. Len(d) |-> [d[j] EXCEPT !.age = Older(@)]]
      blocks(m) == [b \in DOMAIN m |-> [m[b] EXCEPT !.last_seen = Older(@)]]
  IN  fec' = [ClearResults(fec) EXCEPT
                !.last_payload_emit = Older(@),
                !.last_shard_rx     = Older(@),
                !.later_block_since = Older(@),
                !.done              = marks(@),
                !.rx_blocks         = blocks(@)]

(* ------------------------------- shape ---------------------------------- *)

\* Between calls no decoded block waits at or behind the head, no ring id is
\* both being collected and decoded, and nothing is held before the first
\* shard set the head.
QueueShape ==
  /\ \A b \in DOMAIN fec.ready_blocks : dist_from_emit(fec, b) > 0
  /\ DOMAIN fec.rx_blocks \cap DOMAIN fec.ready_blocks = {}
  /\ ~fec.emit_base_set => DOMAIN fec.rx_blocks \cup DOMAIN fec.ready_blocks = {}

RxInit == fec = Cleared
RxNext == (\E sh \in Shards : push_air(sh)) \/ poll_rx \/ Tick
RxSpec == RxInit /\ [][RxNext]_fec
=============================================================================
