----------------------- MODULE RsBlockErasureRx_proofs -----------------------
(***************************************************************************)
(* QueueShape is an invariant of the receiver, for every ring, every hold  *)
(* and every shard that can arrive, in any order.                          *)
(*                                                                         *)
(* QueueShape only holds between calls: in the middle of a call the head   *)
(* may stand on a decoded block, which the emit engine is about to return. *)
(* QueueOK is the part that no statement of push_air or poll_rx breaks;    *)
(* Rested adds that the engine has run.  One lemma per member function     *)
(* shows that it keeps QueueOK, and run_emit_engine, which every call ends *)
(* in, turns QueueOK into Rested.                                          *)
(*                                                                         *)
(* The next section follows one call after a silence: from the rebase on,  *)
(* all that the object holds, returns or counts comes from that one shard. *)
(* The last goes through the operators once more for the ranges of the     *)
(* fields: a done list of bounded length, blocks that are never empty and  *)
(* never stream past their end, and stamps that do not run away.           *)
(***************************************************************************)
EXTENDS RsBlockErasureRx, BlockRing_proofs, SequenceTheorems, FiniteSetTheorems

Fields ==
  {"emit_base_set", "emit_next", "newest", "rx_blocks", "ready_blocks", "done",
   "last_payload_emit", "last_shard_rx", "later_block_since", "out", "lost"}

QueueOK(s) ==
  /\ DOMAIN s = Fields
  /\ s.emit_next \in BlockId
  /\ DOMAIN s.rx_blocks \subseteq BlockId
  /\ DOMAIN s.ready_blocks \subseteq BlockId
  /\ DOMAIN s.rx_blocks \cap DOMAIN s.ready_blocks = {}
  /\ \A b \in DOMAIN s.ready_blocks : ring_dist(b, s.emit_next) >= 0
  /\ ~s.emit_base_set => DOMAIN s.rx_blocks = {} /\ DOMAIN s.ready_blocks = {}

Rested(s) == QueueOK(s) /\ s.emit_next \notin DOMAIN s.ready_blocks

\* t holds the blocks of s, with the same head.
SameQueue(s, t) ==
  /\ DOMAIN t = Fields
  /\ t.emit_base_set = s.emit_base_set
  /\ t.emit_next = s.emit_next
  /\ DOMAIN t.rx_blocks = DOMAIN s.rx_blocks
  /\ DOMAIN t.ready_blocks = DOMAIN s.ready_blocks

------------------------------------------------------------------------------

\* emit_payloads changes no block.
LEMMA EmitKeeps ==
  ASSUME NEW s, NEW p, DOMAIN s = Fields
  PROVE  /\ SameQueue(s, emit_payloads(s, p))
         /\ emit_payloads(s, p).ready_blocks = s.ready_blocks
         /\ emit_payloads(s, p).rx_blocks = s.rx_blocks
BY DEF SameQueue, emit_payloads, Fields

\* QueueOK speaks of the queue only.
LEMMA SameQueueOK ==
  ASSUME NEW s, NEW t, QueueOK(s), SameQueue(s, t)
  PROVE  QueueOK(t)
BY DEF QueueOK, SameQueue

\* The head may move over ids that are not decoded, or no longer so, and
\* blocks may be erased.
LEMMA HeadMoved ==
  ASSUME NEW s, NEW t, NEW m \in 0 .. RingMod,
         QueueOK(s),
         DOMAIN t = Fields,
         t.emit_base_set = s.emit_base_set,
         t.emit_next = wire_block_id(s.emit_next + m),
         DOMAIN t.rx_blocks \subseteq DOMAIN s.rx_blocks,
         DOMAIN t.ready_blocks \subseteq DOMAIN s.ready_blocks,
         \A j \in 0 .. m - 1 : wire_block_id(s.emit_next + j) \notin DOMAIN t.ready_blocks
  PROVE  QueueOK(t)
<1>1. s.emit_next \in BlockId /\ s.emit_next + m \in Nat
  BY RingAssumption DEF QueueOK, BlockId
<1>2. t.emit_next \in BlockId
  BY <1>1, WireId
<1>3. \A b \in DOMAIN t.ready_blocks : ring_dist(b, t.emit_next) >= 0
  <2> SUFFICES ASSUME NEW b \in DOMAIN t.ready_blocks
               PROVE  ring_dist(b, t.emit_next) >= 0
    OBVIOUS
  <2>1. b \in BlockId /\ ring_dist(b, s.emit_next) >= 0
    BY DEF QueueOK
  <2>. QED
    BY <1>1, <2>1, DistPassed
<1>. QED
  BY <1>2, <1>3 DEF QueueOK

\* PassHead moves the head and touches no block.
LEMMA PassHeadKeeps ==
  ASSUME NEW s, NEW m, DOMAIN s = Fields
  PROVE  /\ DOMAIN PassHead(s, m) = Fields
         /\ PassHead(s, m).emit_base_set = s.emit_base_set
         /\ PassHead(s, m).emit_next = wire_block_id(s.emit_next + m)
         /\ PassHead(s, m).rx_blocks = s.rx_blocks
         /\ PassHead(s, m).ready_blocks = s.ready_blocks
BY DEF PassHead, Fields

\* A run of consecutive ids of S is all in S, and cannot be extended.
LEMMA RunLengthOK ==
  ASSUME NEW S, NEW e \in BlockId
  PROVE  /\ RunLength(S, e) \in 0 .. RingMod
         /\ \A j \in 0 .. RunLength(S, e) - 1 : wire_block_id(e + j) \in S
         /\ RunLength(S, e) = RingMod \/ wire_block_id(e + RunLength(S, e)) \notin S
<1> DEFINE T == {m \in 0 .. RingMod : m = RingMod \/ wire_block_id(e + m) \notin S}
<1>1. RingMod \in T /\ T \in SUBSET Nat
  BY RingAssumption
<1>2. PICK m \in T : \A l \in T : m <= l
  BY <1>1, NatMin
<1>3. \A j \in 0 .. m - 1 : wire_block_id(e + j) \in S
  BY <1>1, <1>2, RingAssumption
<1>4. \E l \in 0 .. RingMod :
        /\ \A j \in 0 .. l - 1 : wire_block_id(e + j) \in S
        /\ l = RingMod \/ wire_block_id(e + l) \notin S
  BY <1>2, <1>3
<1>. QED
  BY <1>4 DEF RunLength

\* Streaming the head changes no key.
LEMMA StreamKeeps ==
  ASSUME NEW s, NEW id, DOMAIN s = Fields, id \in DOMAIN s.rx_blocks
  PROVE  SameQueue(s, try_stream_head_systematic(s, id))
<1> DEFINE blk  == s.rx_blocks[id]
           stop == CHOOSE r \in blk.released .. blk.sdu :
                     /\ \A i \in blk.released .. r - 1 : i \in DOMAIN blk.frags
                     /\ r = blk.sdu \/ r \notin DOMAIN blk.frags
           pkts == [j \in 1 .. stop - blk.released |->
                      <<blk.frags[blk.released + j - 1], blk.released + j - 1>>]
           t    == emit_payloads(s, pkts)
<1>1. try_stream_head_systematic(s, id) = [t EXCEPT !.rx_blocks[id].released = stop]
  BY DEF try_stream_head_systematic
<1> HIDE DEF stop, pkts
<1>2. SameQueue(s, t)
  BY EmitKeeps
<1> HIDE DEF t
<1>. QED
  BY <1>1, <1>2 DEF SameQueue, Fields

\* After a drain the head is not on a decoded block.
LEMMA DrainHeadOK ==
  ASSUME NEW s, QueueOK(s)
  PROVE  Rested(DrainHead(s))
<1> DEFINE m    == RunLength(DOMAIN s.ready_blocks, s.emit_next)
           ids  == [j \in 1 .. m |-> wire_block_id(s.emit_next + j - 1)]
           pkts == FlattenSeq([j \in 1 .. m |-> Decoded(s.ready_blocks[ids[j]])])
           u    == PassHead(emit_payloads(s, pkts), m)
           gone == {ids[j] : j \in 1 .. m}
           t    == [u EXCEPT !.ready_blocks = Without(@, gone)]
<1>1. /\ m \in 0 .. RingMod
      /\ \A j \in 0 .. m - 1 : wire_block_id(s.emit_next + j) \in DOMAIN s.ready_blocks
      /\ m = RingMod \/ wire_block_id(s.emit_next + m) \notin DOMAIN s.ready_blocks
  BY RunLengthOK DEF QueueOK
<1>2. \A j \in 0 .. m - 1 : wire_block_id(s.emit_next + j) \in gone
  <2> SUFFICES ASSUME NEW j \in 0 .. m - 1
               PROVE  wire_block_id(s.emit_next + j) \in gone
    OBVIOUS
  <2>1. j + 1 \in 1 .. m /\ s.emit_next + (j + 1) - 1 = s.emit_next + j
    BY <1>1, RingAssumption DEF QueueOK, BlockId
  <2>2. ids[j + 1] = wire_block_id(s.emit_next + j)
    BY <2>1
  <2>. QED
    BY <2>1, <2>2
<1> HIDE DEF m, pkts, gone
<1>3. /\ DOMAIN u = Fields
      /\ u.emit_base_set = s.emit_base_set
      /\ u.emit_next = wire_block_id(s.emit_next + m)
      /\ u.rx_blocks = s.rx_blocks
      /\ u.ready_blocks = s.ready_blocks
  BY EmitKeeps, PassHeadKeeps DEF QueueOK, SameQueue
<1> HIDE DEF u
<1>4. /\ DOMAIN t = Fields
      /\ t.emit_base_set = s.emit_base_set
      /\ t.emit_next = wire_block_id(s.emit_next + m)
      /\ t.rx_blocks = s.rx_blocks
      /\ DOMAIN t.ready_blocks = DOMAIN s.ready_blocks \ gone
  BY <1>3 DEF Fields, Without
<1> HIDE DEF t
<1>5. QueueOK(t)
  BY <1>1, <1>2, <1>4, HeadMoved
<1>6. t.emit_next \notin DOMAIN t.ready_blocks
  <2>1. CASE m = RingMod
    <3>1. s.emit_next \in 0 .. RingMod - 1 /\ wire_block_id(s.emit_next + 0) \in gone
      BY <1>2, <2>1, RingAssumption DEF QueueOK, BlockId
    <3>2. wire_block_id(s.emit_next + m) = wire_block_id(s.emit_next + 0)
      <4>1. s.emit_next + m \in (-RingMod) .. (2 * RingMod - 1)
        BY <2>1, <3>1, RingAssumption
      <4>2. s.emit_next + 0 \in (-RingMod) .. (2 * RingMod - 1)
        BY <3>1, RingAssumption
      <4>3. wire_block_id(s.emit_next + m) = s.emit_next
        <5> DEFINE x == s.emit_next + m
        <5>1. x \in (-RingMod) .. (2 * RingMod - 1) /\ wire_block_id(x) = x % RingMod
          BY <4>1 DEF wire_block_id
        <5>2. x = s.emit_next + RingMod
          BY <2>1
        <5> HIDE DEF x
        <5>3. x % RingMod = IF x < 0 THEN x + RingMod ELSE IF x < RingMod THEN x ELSE x - RingMod
          BY <5>1, ModRange
        <5>4. ~(x < 0) /\ ~(x < RingMod) /\ x - RingMod = s.emit_next
          BY <3>1, <5>2, RingAssumption
        <5>. QED
          BY <5>1, <5>3, <5>4 DEF x
      <4>4. wire_block_id(s.emit_next + 0) = s.emit_next
        BY <3>1, <4>2, WireHere DEF BlockId
      <4>. QED
        BY <4>3, <4>4
    <3>. QED
      BY <1>4, <3>1, <3>2
  <2>. QED
    BY <1>1, <1>4, <2>1
<1>7. DrainHead(s) = IF t.emit_next \in DOMAIN t.rx_blocks
                     THEN try_stream_head_systematic(t, t.emit_next) ELSE t
  BY DEF DrainHead, t, u, m, pkts, gone
<1>8. SameQueue(t, DrainHead(s))
  <2>1. CASE t.emit_next \in DOMAIN t.rx_blocks
    BY <1>4, <1>7, <2>1, StreamKeeps
  <2>2. CASE t.emit_next \notin DOMAIN t.rx_blocks
    BY <1>4, <1>7, <2>2 DEF SameQueue
  <2>. QED
    BY <2>1, <2>2
<1>. QED
  BY <1>5, <1>6, <1>8, SameQueueOK DEF Rested, SameQueue

------------------------------------------------------------------------------

\* Giving up a block that is not decoded moves the head by at most one.
LEMMA AbandonOK ==
  ASSUME NEW s, NEW blk, NEW id, QueueOK(s), id \notin DOMAIN s.ready_blocks
  PROVE  /\ QueueOK(abandon_partial_block(s, blk, id))
         /\ abandon_partial_block(s, blk, id).ready_blocks = s.ready_blocks
<1> DEFINE e == emit_payloads(s, Systematic(blk, blk.released))
           t == [e EXCEPT !.lost = @ \cup Missing(blk)]
           p == PassHead(t, 1)
<1>1. SameQueue(s, t) /\ t.ready_blocks = s.ready_blocks
  <2>1. SameQueue(s, e) /\ e.ready_blocks = s.ready_blocks
    BY EmitKeeps DEF QueueOK
  <2> HIDE DEF e
  <2>. QED
    BY <2>1 DEF SameQueue, Fields
<1>2. abandon_partial_block(s, blk, id) =
        IF id = s.emit_next THEN [p EXCEPT !.later_block_since = Never] ELSE t
  BY DEF abandon_partial_block
<1> HIDE DEF t
<1>3. CASE id = s.emit_next
  <2> DEFINE r == [p EXCEPT !.later_block_since = Never]
  <2>1. /\ DOMAIN p = Fields
        /\ p.emit_base_set = s.emit_base_set
        /\ p.emit_next = wire_block_id(s.emit_next + 1)
        /\ DOMAIN p.rx_blocks = DOMAIN s.rx_blocks
        /\ p.ready_blocks = s.ready_blocks
    BY <1>1, PassHeadKeeps DEF SameQueue
  <2> HIDE DEF p
  <2>2. /\ DOMAIN r = Fields
        /\ r.emit_base_set = s.emit_base_set
        /\ r.emit_next = wire_block_id(s.emit_next + 1)
        /\ DOMAIN r.rx_blocks = DOMAIN s.rx_blocks
        /\ r.ready_blocks = s.ready_blocks
    BY <2>1 DEF Fields
  <2> HIDE DEF r
  <2>3. /\ 1 \in 0 .. RingMod
        /\ \A j \in 0 .. 1 - 1 : wire_block_id(s.emit_next + j) \notin DOMAIN r.ready_blocks
    <3>1. s.emit_next + 0 = s.emit_next /\ s.emit_next \in 0 .. RingMod - 1
      BY RingAssumption DEF QueueOK, BlockId
    <3>2. wire_block_id(s.emit_next + 0) = s.emit_next
      BY <3>1, WireHere DEF BlockId
    <3>. QED
      BY <1>3, <2>2, <3>2, RingAssumption
  <2>4. QueueOK(r)
    BY <2>2, <2>3, HeadMoved
  <2>. QED
    BY <1>2, <1>3, <2>2, <2>4 DEF r
<1>4. CASE id # s.emit_next
  BY <1>1, <1>2, <1>4, SameQueueOK
<1>. QED
  BY <1>3, <1>4

\* Erasing blocks keeps the queue in shape.
LEMMA EraseOK ==
  ASSUME NEW s, NEW S, QueueOK(s)
  PROVE  LET t == [s EXCEPT !.rx_blocks = Without(@, S)]
         IN  /\ QueueOK(t) /\ t.emit_next = s.emit_next
             /\ t.ready_blocks = s.ready_blocks /\ t.emit_base_set = s.emit_base_set
             /\ DOMAIN t.rx_blocks = DOMAIN s.rx_blocks \ S
<1> DEFINE t == [s EXCEPT !.rx_blocks = Without(@, S)]
<1>1. /\ DOMAIN t = Fields /\ t.emit_next = s.emit_next
      /\ t.ready_blocks = s.ready_blocks /\ t.emit_base_set = s.emit_base_set
      /\ DOMAIN t.rx_blocks = DOMAIN s.rx_blocks \ S
  BY DEF QueueOK, Fields, Without
<1> HIDE DEF t
<1>2. QueueOK(t)
  BY <1>1 DEF QueueOK
<1>. QED
  BY <1>1, <1>2 DEF t

\* If some decoded block is ahead of the head, NearestReady is the nearest.
LEMMA NearestReadyOK ==
  ASSUME NEW s, QueueOK(s), ReadyAheadOf(s) # {}
  PROVE  /\ NearestReady(s) \in ReadyAheadOf(s)
         /\ \A c \in ReadyAheadOf(s) :
              dist_from_emit(s, NearestReady(s)) <= dist_from_emit(s, c)
<1> DEFINE T == {dist_from_emit(s, b) : b \in ReadyAheadOf(s)}
<1>1. T \in SUBSET Nat /\ T # {}
  <2>1. \A b \in ReadyAheadOf(s) : ring_dist(b, s.emit_next) \in Int
    BY DistInt DEF QueueOK, ReadyAheadOf
  <2>. QED
    BY <2>1 DEF ReadyAheadOf, dist_from_emit
<1>2. PICK x \in T : \A y \in T : x <= y
  BY <1>1, NatMin
<1>3. PICK b \in ReadyAheadOf(s) : x = dist_from_emit(s, b)
  BY <1>2
<1>4. \A c \in ReadyAheadOf(s) : dist_from_emit(s, b) <= dist_from_emit(s, c)
  BY <1>2, <1>3
<1>. QED
  BY <1>3, <1>4 DEF NearestReady

\* Giving up the head, or stepping over a hole, jumps over no decoded block.
LEMMA GiveUpOK ==
  ASSUME NEW s, Rested(s)
  PROVE  QueueOK(maybe_give_up_head(s))
<1> DEFINE e == s.emit_next
           f == IF ReadyAheadOf(s) # {} THEN NearestReady(s) ELSE wire_block_id(e + 1)
           t == [s EXCEPT !.emit_next = f, !.later_block_since = Never]
           u == [s EXCEPT !.rx_blocks = Without(@, {e})]
<1>1. QueueOK(s) /\ e \in BlockId /\ e \notin DOMAIN s.ready_blocks
  BY DEF Rested, QueueOK
<1>2. QueueOK(abandon_partial_block(u, s.rx_blocks[e], e))
  <2>1. QueueOK(u) /\ u.ready_blocks = s.ready_blocks
    BY <1>1, EraseOK
  <2> HIDE DEF u
  <2>. QED
    BY <1>1, <2>1, AbandonOK
<1>3. QueueOK(t)
  <2>1. DOMAIN t = Fields /\ t.emit_next = f /\ t.emit_base_set = s.emit_base_set
        /\ t.rx_blocks = s.rx_blocks /\ t.ready_blocks = s.ready_blocks
    BY <1>1 DEF QueueOK, Fields
  <2>2. CASE ReadyAheadOf(s) # {}
    <3>1. f \in ReadyAheadOf(s) /\ f \in BlockId
      BY <1>1, <2>2, NearestReadyOK DEF ReadyAheadOf, QueueOK
    <3>2. \A b \in DOMAIN s.ready_blocks : ring_dist(b, f) >= 0
      <4> SUFFICES ASSUME NEW b \in DOMAIN s.ready_blocks
                   PROVE  ring_dist(b, f) >= 0
        OBVIOUS
      <4>1. b \in BlockId /\ ring_dist(b, e) >= 0 /\ ring_dist(b, e) # 0 /\ ring_dist(b, e) \in Int
        BY <1>1, DistZero, DistInt DEF QueueOK
      <4>2. b \in ReadyAheadOf(s)
        BY <4>1 DEF ReadyAheadOf, dist_from_emit
      <4>3. 0 <= ring_dist(f, e) /\ ring_dist(f, e) <= ring_dist(b, e)
        <5>1. ring_dist(f, e) > 0
          BY <3>1 DEF ReadyAheadOf, dist_from_emit
        <5>2. ring_dist(f, e) <= ring_dist(b, e)
          BY <1>1, <2>2, <4>2, NearestReadyOK DEF dist_from_emit
        <5>3. ring_dist(f, e) \in Int
          BY <1>1, <3>1, DistInt
        <5>. QED
          BY <5>1, <5>2, <5>3
      <4>. QED
        BY <1>1, <3>1, <4>1, <4>3, DistNearer
    <3> HIDE DEF t, f
    <3>. QED
      BY <1>1, <2>1, <3>1, <3>2 DEF QueueOK
  <2>3. CASE ReadyAheadOf(s) = {}
    <3>1. DOMAIN s.ready_blocks = {}
      <4> SUFFICES ASSUME NEW b \in DOMAIN s.ready_blocks
                   PROVE  b \in ReadyAheadOf(s)
        BY <2>3
      <4>1. b \in BlockId /\ ring_dist(b, e) >= 0 /\ ring_dist(b, e) # 0 /\ ring_dist(b, e) \in Int
        BY <1>1, DistZero, DistInt DEF QueueOK
      <4>. QED
        BY <4>1 DEF ReadyAheadOf, dist_from_emit
    <3>2. f \in BlockId
      BY <1>1, <2>3, WireId, RingAssumption DEF BlockId
    <3> HIDE DEF t, f
    <3>. QED
      BY <1>1, <2>1, <3>1, <3>2 DEF QueueOK
  <2>. QED
    BY <2>2, <2>3
<1> HIDE DEF t, u
<1>. QED
  BY <1>1, <1>2, <1>3 DEF maybe_give_up_head, t, u, f, e

\* The emit engine leaves no decoded block at the head.
LEMMA EngineOK ==
  ASSUME NEW s, QueueOK(s)
  PROVE  Rested(run_emit_engine(s))
<1>1. CASE ~s.emit_base_set
  BY <1>1 DEF run_emit_engine, Rested, QueueOK
<1>2. CASE s.emit_base_set
  <2>1. Rested(DrainHead(s))
    BY DrainHeadOK
  <2>2. QueueOK(maybe_give_up_head(DrainHead(s)))
    BY <2>1, GiveUpOK
  <2>3. Rested(DrainHead(maybe_give_up_head(DrainHead(s))))
    BY <2>2, DrainHeadOK
  <2>. QED
    BY <1>2, <2>3 DEF run_emit_engine
<1>. QED
  BY <1>1, <1>2

------------------------------------------------------------------------------

\* Giving up several blocks at once, in any order of the walk.
LEMMA AbandonAllOK ==
  ASSUME NEW s, NEW S, QueueOK(s), S \subseteq DOMAIN s.rx_blocks,
         NEW t \in AbandonAll(s, S)
  PROVE  /\ QueueOK(t)
         /\ t.ready_blocks = s.ready_blocks
         /\ t.emit_base_set = s.emit_base_set
<1> DEFINE pk(o)   == FlattenSeq([j \in 1 .. Len(o) |->
                        LET blk == s.rx_blocks[o[j]] IN Systematic(blk, blk.released)])
           em(o)   == [emit_payloads(s, pk(o))
                        EXCEPT !.rx_blocks = Without(@, S),
                               !.lost = @ \cup UNION {Missing(s.rx_blocks[b]) : b \in S}]
           wk(o, m) == IF m = 0 THEN em(o)
                       ELSE [PassHead(em(o), m) EXCEPT !.later_block_since = Never]
<1>1. PICK o \in SetToSeqs(S), m \in 0 .. RingMod :
        HeadRun(o, s.emit_next, m) /\ t = wk(o, m)
  BY DEF AbandonAll
<1>2. /\ DOMAIN em(o) = Fields
      /\ em(o).emit_base_set = s.emit_base_set
      /\ em(o).emit_next = s.emit_next
      /\ DOMAIN em(o).rx_blocks = DOMAIN s.rx_blocks \ S
      /\ em(o).ready_blocks = s.ready_blocks
  <2> HIDE DEF pk
  <2> DEFINE a == emit_payloads(s, pk(o))
  <2>1. /\ DOMAIN a = Fields /\ a.emit_base_set = s.emit_base_set
        /\ a.emit_next = s.emit_next
        /\ DOMAIN a.rx_blocks = DOMAIN s.rx_blocks
        /\ a.ready_blocks = s.ready_blocks
    BY EmitKeeps DEF QueueOK, SameQueue
  <2>2. em(o) = [a EXCEPT !.rx_blocks = Without(@, S),
                          !.lost = @ \cup UNION {Missing(s.rx_blocks[b]) : b \in S}]
    OBVIOUS
  <2> HIDE DEF a, em
  <2>. QED
    BY <2>1, <2>2 DEF Fields, Without
<1> HIDE DEF em
<1>3. /\ DOMAIN t = Fields
      /\ t.emit_base_set = s.emit_base_set
      /\ DOMAIN t.rx_blocks = DOMAIN s.rx_blocks \ S
      /\ t.ready_blocks = s.ready_blocks
      /\ m # 0 => t.emit_next = wire_block_id(s.emit_next + m)
      /\ m = 0 => t.emit_next = s.emit_next
  <2>1. CASE m = 0
    BY <1>1, <1>2, <2>1
  <2>2. CASE m # 0
    <3> DEFINE p == PassHead(em(o), m)
    <3>1. /\ DOMAIN p = Fields /\ p.emit_base_set = s.emit_base_set
          /\ p.emit_next = wire_block_id(s.emit_next + m)
          /\ DOMAIN p.rx_blocks = DOMAIN s.rx_blocks \ S
          /\ p.ready_blocks = s.ready_blocks
      BY <1>2, PassHeadKeeps
    <3>2. t = [p EXCEPT !.later_block_since = Never]
      BY <1>1, <2>2
    <3> HIDE DEF p
    <3>. QED
      BY <2>2, <3>1, <3>2 DEF Fields
  <2>. QED
    BY <2>1, <2>2
<1>4. \A j \in 0 .. m - 1 : wire_block_id(s.emit_next + j) \notin DOMAIN s.ready_blocks
  <2>1. ToSet(o) \subseteq S
    BY <1>1 DEF SetToSeqs, ToSet
  <2>2. \A j \in 0 .. m - 1 : wire_block_id(s.emit_next + j) \in ToSet(o)
    BY <1>1 DEF HeadRun
  <2>. QED
    BY <2>1, <2>2 DEF QueueOK
<1>5. QueueOK(t)
  <2>1. CASE m = 0
    BY <1>3, <2>1 DEF QueueOK
  <2>2. CASE m # 0
    <3>1. m \in 0 .. RingMod
      BY <1>1
    <3>2. QueueOK(t)
      BY <1>3, <1>4, <2>2, <3>1, HeadMoved
    <3>. QED
      BY <3>2
  <2>. QED
    BY <2>1, <2>2
<1>. QED
  BY <1>3, <1>5

\* The end of every call: expired blocks are given up, then the engine runs.
LEMMA CallEnds ==
  ASSUME NEW s, QueueOK(s), NEW t \in ExpireThenEmit(s)
  PROVE  Rested(t)
<1>1. PICK u \in expire_rx(s) : t = run_emit_engine(u)
  BY DEF ExpireThenEmit
<1> DEFINE d == expire_done(s)
<1>2. SameQueue(s, d) /\ d.ready_blocks = s.ready_blocks /\ d.rx_blocks = s.rx_blocks
  BY DEF expire_done, SameQueue, QueueOK, Fields
<1>3. QueueOK(d)
  BY <1>2, SameQueueOK
<1>4. u \in AbandonAll(d, {b \in DOMAIN d.rx_blocks : d.rx_blocks[b].last_seen > RxHold})
  BY <1>1 DEF expire_rx
<1> HIDE DEF d
<1>5. QueueOK(u)
  BY <1>3, <1>4, AbandonAllOK
<1>. QED
  BY <1>1, <1>5, EngineOK

------------------------------------------------------------------------------

\* Emptying the results of the last call touches no block.
LEMMA ClearResultsOK ==
  ASSUME NEW s, QueueOK(s)
  PROVE  QueueOK(ClearResults(s))
<1>1. SameQueue(s, ClearResults(s))
  BY DEF ClearResults, SameQueue, QueueOK, Fields
<1>. QED
  BY <1>1, SameQueueOK

\* The first shard sets the head while nothing is held.
LEMMA BaseOK ==
  ASSUME NEW s, NEW id \in BlockId, QueueOK(s)
  PROVE  QueueOK(note_emit_base(s, id)) /\ note_emit_base(s, id).emit_base_set
<1>1. CASE s.emit_base_set
  BY <1>1 DEF note_emit_base
<1>2. CASE ~s.emit_base_set
  <2> DEFINE t == [s EXCEPT !.emit_base_set = TRUE, !.emit_next = id, !.newest = id]
  <2>1. /\ DOMAIN t = Fields /\ t.emit_base_set = TRUE /\ t.emit_next = id
        /\ t.rx_blocks = s.rx_blocks /\ t.ready_blocks = s.ready_blocks
    BY DEF QueueOK, Fields
  <2>2. note_emit_base(s, id) = t
    BY <1>2 DEF note_emit_base
  <2> HIDE DEF t
  <2>. QED
    BY <1>2, <2>1, <2>2 DEF QueueOK
<1>. QED
  BY <1>1, <1>2

\* A rebase empties the queue and puts the head on the shard's block.
LEMMA RebaseOK ==
  ASSUME NEW s, NEW id \in BlockId, QueueOK(s), s.emit_base_set
  PROVE  QueueOK(maybe_rebase_after_silence(s, id))
         /\ maybe_rebase_after_silence(s, id).emit_base_set
<1> DEFINE t == [s EXCEPT !.last_shard_rx = 0]
           u == [t EXCEPT !.rx_blocks = EmptyMap, !.ready_blocks = EmptyMap,
                          !.done = <<>>, !.emit_next = id, !.newest = id,
                          !.later_block_since = Never]
<1>1. SameQueue(s, t)
  BY DEF SameQueue, QueueOK, Fields
<1>2. QueueOK(t) /\ t.emit_base_set
  BY <1>1, SameQueueOK DEF SameQueue
<1>3. maybe_rebase_after_silence(s, id) \in {t, u}
  BY DEF maybe_rebase_after_silence
<1> HIDE DEF t
<1>4. /\ DOMAIN u = Fields /\ u.emit_base_set = t.emit_base_set /\ u.emit_next = id
      /\ DOMAIN u.rx_blocks = {} /\ DOMAIN u.ready_blocks = {}
  BY <1>2 DEF QueueOK, Fields, EmptyMap
<1> HIDE DEF u
<1>5. QueueOK(u) /\ u.emit_base_set
  BY <1>2, <1>4 DEF QueueOK
<1>. QED
  BY <1>2, <1>3, <1>5

\* Noting the newest id touches no block.
LEMMA TouchOK ==
  ASSUME NEW s, NEW id, QueueOK(s), s.emit_base_set
  PROVE  QueueOK(touch_newest(s, id)) /\ touch_newest(s, id).emit_base_set
<1>1. SameQueue(s, touch_newest(s, id))
  BY DEF touch_newest, SameQueue, QueueOK, Fields
<1>. QED
  BY <1>1, SameQueueOK DEF SameQueue

\* The head goes back to a late shard only after every block behind is erased.
LEMMA ResyncOK ==
  ASSUME NEW s, NEW id \in BlockId, QueueOK(s), s.emit_base_set
  PROVE  QueueOK(maybe_resync_on_late_shard(s, id))
         /\ maybe_resync_on_late_shard(s, id).emit_base_set
<1> DEFINE c == clear_state_behind(s, id)
           t == [c EXCEPT !.emit_next = id, !.later_block_since = Never]
<1>1. /\ DOMAIN c = Fields /\ c.emit_base_set = s.emit_base_set
      /\ DOMAIN c.rx_blocks \subseteq DOMAIN s.rx_blocks
      /\ DOMAIN c.ready_blocks \subseteq DOMAIN s.ready_blocks
      /\ \A b \in DOMAIN c.ready_blocks : ~(ring_dist(b, id) < 0)
  BY DEF clear_state_behind, Without, QueueOK, Fields
<1>2. maybe_resync_on_late_shard(s, id) \in {s, t}
  BY DEF maybe_resync_on_late_shard
<1> HIDE DEF c
<1>3. /\ DOMAIN t = Fields /\ t.emit_base_set = s.emit_base_set /\ t.emit_next = id
      /\ t.rx_blocks = c.rx_blocks /\ t.ready_blocks = c.ready_blocks
  BY <1>1 DEF Fields
<1> HIDE DEF t
<1>4. \A b \in DOMAIN t.ready_blocks : ring_dist(b, id) >= 0
  BY <1>1, <1>3, DistInt DEF QueueOK
<1>5. QueueOK(t)
  BY <1>1, <1>3, <1>4 DEF QueueOK
<1>. QED
  BY <1>2, <1>3, <1>5

\* All that push_air does before it looks at the shard's block.
LEMMA BeforeTakeOK ==
  ASSUME NEW s, NEW sh, sh.id \in BlockId, QueueOK(s), NEW t \in BeforeTake(s, sh)
  PROVE  QueueOK(t) /\ t.emit_base_set
<1> DEFINE a == note_emit_base(ClearResults(s), sh.id)
           b == maybe_rebase_after_silence(a, sh.id)
           c == touch_newest(b, sh.id)
           d == maybe_resync_on_late_shard(c, sh.id)
<1>1. QueueOK(a) /\ a.emit_base_set
  BY ClearResultsOK, BaseOK
<1>2. QueueOK(b) /\ b.emit_base_set
  BY <1>1, RebaseOK
<1>3. QueueOK(c) /\ c.emit_base_set
  BY <1>2, TouchOK
<1>4. QueueOK(d) /\ d.emit_base_set
  BY <1>3, ResyncOK
<1>5. t \in ring_evict_stale(d)
  BY DEF BeforeTake
<1> HIDE DEF d
<1> DEFINE Stale(S) == {i \in S : ring_dist(i, d.newest) < -EvictDist}
           fresh(v) == [v EXCEPT !.done = forget(@, Stale(BlockId))]
<1>6. PICK v \in AbandonAll(d, Stale(DOMAIN d.rx_blocks)) : t = fresh(v)
  BY <1>5 DEF ring_evict_stale
<1>7. QueueOK(v) /\ v.emit_base_set
  BY <1>4, <1>6, AbandonAllOK
<1>8. SameQueue(v, t)
  BY <1>6, <1>7 DEF SameQueue, QueueOK, Fields
<1>. QED
  BY <1>7, <1>8, SameQueueOK DEF SameQueue

------------------------------------------------------------------------------

\* Starting the hold touches no block.
LEMMA ArmLaterKeeps ==
  ASSUME NEW s, NEW id, DOMAIN s = Fields
  PROVE  SameQueue(s, ArmLater(s, id))
BY DEF ArmLater, SameQueue, Fields

\* A decoded block is returned at once, late or at the head, or waits ahead.
LEMMA DecodedOK ==
  ASSUME NEW s, NEW id \in BlockId, NEW rdy, QueueOK(s), s.emit_base_set,
         id \notin DOMAIN s.rx_blocks, id \notin DOMAIN s.ready_blocks
  PROVE  QueueOK(on_block_decoded(s, id, rdy))
<1> DEFINE e == emit_payloads(s, Decoded(rdy))
           l == [e EXCEPT !.done = mark_done(@, id)]
           p == PassHead(e, 1)
           h == [p EXCEPT !.later_block_since = Never]
           r == [s EXCEPT !.ready_blocks = With(@, id, rdy)]
<1>1. SameQueue(s, e)
  BY EmitKeeps DEF QueueOK
<1>2. s.emit_next \in BlockId /\ DOMAIN s = Fields
  BY DEF QueueOK
<1> HIDE DEF e
<1>3. CASE dist_from_emit(s, id) < 0
  <2>1. SameQueue(s, l)
    <3> DEFINE q == mark_done(e.done, id)
    <3>1. l = [e EXCEPT !.done = q]
      OBVIOUS
    <3> HIDE DEF q, l
    <3>. QED
      BY <1>1, <3>1 DEF SameQueue, Fields
  <2>2. on_block_decoded(s, id, rdy) = l
    BY <1>3 DEF on_block_decoded, e
  <2>. QED
    BY <2>1, <2>2, SameQueueOK
<1>4. CASE dist_from_emit(s, id) = 0
  <2>1. id = s.emit_next
    BY <1>2, <1>4, DistZero DEF dist_from_emit
  <2>2. /\ DOMAIN p = Fields
        /\ p.emit_base_set = s.emit_base_set
        /\ p.emit_next = wire_block_id(s.emit_next + 1)
        /\ DOMAIN p.rx_blocks = DOMAIN s.rx_blocks
        /\ DOMAIN p.ready_blocks = DOMAIN s.ready_blocks
    <3>1. DOMAIN e = Fields
      BY <1>1 DEF SameQueue
    <3>2. /\ DOMAIN p = Fields
          /\ p.emit_base_set = e.emit_base_set
          /\ p.emit_next = wire_block_id(e.emit_next + 1)
          /\ p.rx_blocks = e.rx_blocks
          /\ p.ready_blocks = e.ready_blocks
      BY <3>1, PassHeadKeeps
    <3> HIDE DEF p
    <3>. QED
      BY <1>1, <3>2 DEF SameQueue
  <2> HIDE DEF p
  <2>3. /\ DOMAIN h = Fields
        /\ h.emit_base_set = s.emit_base_set
        /\ h.emit_next = wire_block_id(s.emit_next + 1)
        /\ DOMAIN h.rx_blocks = DOMAIN s.rx_blocks
        /\ DOMAIN h.ready_blocks = DOMAIN s.ready_blocks
    BY <2>2 DEF Fields
  <2> HIDE DEF h
  <2>4. /\ 1 \in 0 .. RingMod
        /\ \A j \in 0 .. 1 - 1 : wire_block_id(s.emit_next + j) \notin DOMAIN h.ready_blocks
    <3>1. s.emit_next + 0 = s.emit_next /\ s.emit_next \in 0 .. RingMod - 1
      BY <1>2, RingAssumption DEF BlockId
    <3>2. wire_block_id(s.emit_next + 0) = s.emit_next
      BY <3>1, WireHere DEF BlockId
    <3>. QED
      BY <2>1, <2>3, <3>2, RingAssumption
  <2>5. QueueOK(h)
    BY <2>3, <2>4, HeadMoved
  <2>6. on_block_decoded(s, id, rdy) = run_emit_engine(h)
    BY <1>4 DEF on_block_decoded, h, p, e
  <2>. QED
    BY <2>5, <2>6, EngineOK DEF Rested
<1>5. CASE dist_from_emit(s, id) > 0
  <2>1. /\ DOMAIN r = Fields /\ r.emit_base_set = s.emit_base_set
        /\ r.emit_next = s.emit_next /\ r.rx_blocks = s.rx_blocks
        /\ DOMAIN r.ready_blocks = DOMAIN s.ready_blocks \cup {id}
    BY <1>2 DEF Fields, With
  <2>2. ~(dist_from_emit(s, id) < 0) /\ dist_from_emit(s, id) # 0
    BY <1>2, <1>5, DistInt DEF dist_from_emit
  <2>3. on_block_decoded(s, id, rdy) = ArmLater(r, id)
    BY <2>2 DEF on_block_decoded
  <2> HIDE DEF r
  <2>4. ring_dist(id, s.emit_next) >= 0
    BY <1>2, <1>5, DistInt DEF dist_from_emit
  <2>5. QueueOK(r)
    BY <2>1, <2>4 DEF QueueOK
  <2>. QED
    BY <2>1, <2>3, <2>5, ArmLaterKeeps, SameQueueOK
<1>6. ring_dist(id, s.emit_next) \in Int
  BY <1>2, DistInt
<1>. QED
  BY <1>3, <1>4, <1>5, <1>6 DEF dist_from_emit

\* A block being collected is decoded, given up, or left where it is.
LEMMA TryDecodeOK ==
  ASSUME NEW s, NEW id \in DOMAIN s.rx_blocks, NEW ok, QueueOK(s), s.emit_base_set
  PROVE  QueueOK(try_decode_block(s, id, ok))
<1> DEFINE blk == s.rx_blocks[id]
           t   == [s EXCEPT !.rx_blocks = Without(@, {id})]
           rdy == [sdu |-> blk.sdu, released |-> blk.released,
                   payloads |-> DecodedPayloads(blk)]
<1>1. /\ QueueOK(t) /\ t.emit_base_set
      /\ id \in BlockId /\ id \notin DOMAIN t.rx_blocks /\ id \notin DOMAIN t.ready_blocks
  <2>1. id \in BlockId /\ id \notin DOMAIN s.ready_blocks
    BY DEF QueueOK
  <2>2. /\ QueueOK(t) /\ t.emit_base_set = s.emit_base_set
        /\ t.ready_blocks = s.ready_blocks
        /\ DOMAIN t.rx_blocks = DOMAIN s.rx_blocks \ {id}
    BY EraseOK
  <2> HIDE DEF t
  <2>. QED
    BY <2>1, <2>2
<1>2. try_decode_block(s, id, ok) =
        IF ~Decodable(blk) THEN run_emit_engine(s)
        ELSE IF ~ok THEN run_emit_engine(abandon_partial_block(t, blk, id))
        ELSE on_block_decoded(t, id, rdy)
  BY DEF try_decode_block
<1> HIDE DEF t, rdy, blk
<1>3. QueueOK(run_emit_engine(s))
  BY EngineOK DEF Rested
<1>4. QueueOK(run_emit_engine(abandon_partial_block(t, blk, id)))
  BY <1>1, AbandonOK, EngineOK DEF Rested
<1>5. QueueOK(on_block_decoded(t, id, rdy))
  BY <1>1, DecodedOK
<1>. QED
  BY <1>2, <1>3, <1>4, <1>5

\* Storing a shard of a block that is not decoded keeps the queue in shape.
LEMMA StoreOK ==
  ASSUME NEW s, NEW sh, NEW ok, QueueOK(s), s.emit_base_set,
         sh.id \in BlockId, sh.id \notin DOMAIN s.ready_blocks
  PROVE  QueueOK(StoreShard(s, sh, ok))
<1> DEFINE id   == sh.id
           blk  == IF id \in DOMAIN s.rx_blocks THEN s.rx_blocks[id] ELSE NewBlock(sh)
           blk2 == [blk EXCEPT !.frags = With(@, sh.idx, sh.src), !.last_seen = 0]
           t    == [s EXCEPT !.rx_blocks = With(@, id, blk2)]
           u    == [s EXCEPT !.rx_blocks = Without(@, {id})]
           v    == StreamOrArm(t, id)
<1>1. StoreShard(s, sh, ok) =
        IF <<blk.k, blk.n, blk.sdu>> # <<sh.k, sh.n, sh.sdu>>
        THEN abandon_partial_block(u, blk, id)
        ELSE IF sh.idx \in DOMAIN blk.frags THEN s
        ELSE try_decode_block(v, id, ok)
  BY DEF StoreShard
<1> HIDE DEF blk2, blk
<1>2. QueueOK(abandon_partial_block(u, blk, id))
  <2>1. QueueOK(u) /\ u.ready_blocks = s.ready_blocks
    BY EraseOK
  <2> HIDE DEF u
  <2>. QED
    BY <2>1, AbandonOK
<1>3. QueueOK(try_decode_block(v, id, ok))
  <2>1. /\ DOMAIN t = Fields /\ t.emit_base_set = s.emit_base_set
        /\ t.emit_next = s.emit_next /\ t.ready_blocks = s.ready_blocks
        /\ DOMAIN t.rx_blocks = DOMAIN s.rx_blocks \cup {id}
    BY DEF QueueOK, Fields, With
  <2> HIDE DEF t
  <2>2. QueueOK(t)
    BY <2>1 DEF QueueOK
  <2>3. SameQueue(t, v)
    BY <2>1, StreamKeeps, ArmLaterKeeps DEF StreamOrArm
  <2>4. QueueOK(v) /\ v.emit_base_set /\ id \in DOMAIN v.rx_blocks
    BY <2>1, <2>2, <2>3, SameQueueOK DEF SameQueue
  <2> HIDE DEF v
  <2>. QED
    BY <2>4, TryDecodeOK
<1>. QED
  BY <1>1, <1>2, <1>3

\* The whole of push_air.
LEMMA PushAirOK ==
  ASSUME NEW sh, sh.id \in BlockId, Rested(fec), push_air(sh)
  PROVE  Rested(fec')
<1>1. PICK s \in BeforeTake(fec, sh), ok \in BOOLEAN :
        fec' \in ExpireThenEmit(TakeShard(s, sh, ok))
  BY DEF push_air
<1>2. QueueOK(s) /\ s.emit_base_set
  BY BeforeTakeOK DEF Rested
<1>3. QueueOK(TakeShard(s, sh, ok))
  BY <1>2, StoreOK DEF TakeShard
<1>. QED
  BY <1>1, <1>3, CallEnds

\* The whole of poll_rx.
LEMMA PollOK ==
  ASSUME Rested(fec), poll_rx
  PROVE  Rested(fec')
BY ClearResultsOK, CallEnds DEF poll_rx, Rested

\* Time touches no block.
LEMMA TickOK ==
  ASSUME Rested(fec), Tick
  PROVE  Rested(fec')
<1> DEFINE c == ClearResults(fec)
<1> DEFINE marks(d)  == [j \in 1 .. Len(d) |-> [d[j] EXCEPT !.age = Older(@)]]
           blocks(m) == [b \in DOMAIN m |-> [m[b] EXCEPT !.last_seen = Older(@)]]
<1>1. QueueOK(c) /\ SameQueue(fec, c)
  BY ClearResultsOK DEF Rested, ClearResults, SameQueue, QueueOK, Fields
<1> HIDE DEF c
<1>2. fec' = [c EXCEPT
                !.last_payload_emit = Older(@),
                !.last_shard_rx     = Older(@),
                !.later_block_since = Older(@),
                !.done = marks(@),
                !.rx_blocks = blocks(@)]
  BY DEF Tick, c
<1>3. SameQueue(c, fec')
  BY <1>1, <1>2 DEF SameQueue, QueueOK, Fields
<1>. QED
  BY <1>1, <1>3, SameQueueOK DEF Rested, SameQueue

\* A new object is empty.
LEMMA ClearedOK == Rested(Cleared)
<1>1. /\ DOMAIN Cleared = Fields
      /\ Cleared.emit_next = 0
      /\ DOMAIN Cleared.rx_blocks = {} /\ DOMAIN Cleared.ready_blocks = {}
  BY DEF Cleared, Fields, EmptyMap
<1>2. 0 \in BlockId
  BY RingAssumption DEF BlockId
<1>. QED
  BY <1>1, <1>2 DEF Rested, QueueOK

\* Rested is QueueShape, in the words of the proofs.
LEMMA RestedShape ==
  ASSUME Rested(fec)
  PROVE  QueueShape
<1>1. \A b \in DOMAIN fec.ready_blocks : dist_from_emit(fec, b) > 0
  <2> SUFFICES ASSUME NEW b \in DOMAIN fec.ready_blocks
               PROVE  dist_from_emit(fec, b) > 0
    OBVIOUS
  <2>1. /\ b \in BlockId /\ fec.emit_next \in BlockId /\ b # fec.emit_next
        /\ ring_dist(b, fec.emit_next) >= 0
    BY DEF Rested, QueueOK
  <2>2. ring_dist(b, fec.emit_next) # 0 /\ ring_dist(b, fec.emit_next) \in Int
    BY <2>1, DistZero, DistInt
  <2>. QED
    BY <2>1, <2>2 DEF dist_from_emit
<1>. QED
  BY <1>1 DEF QueueShape, Rested, QueueOK

\* For every sequence of shards, polls and waits: between calls no decoded
\* block waits at or behind the head, no ring id is both collected and
\* decoded, and nothing is held before the first shard (push_air, poll_rx).
THEOREM RxShape == RxSpec => []QueueShape
<1>1. RxInit => Rested(fec)
  BY ClearedOK DEF RxInit
<1>2. Rested(fec) /\ [RxNext]_fec => Rested(fec)'
  <2> SUFFICES ASSUME Rested(fec), [RxNext]_fec
               PROVE  Rested(fec')
    OBVIOUS
  <2>1. CASE UNCHANGED fec
    BY <2>1
  <2>2. ASSUME NEW sh \in Shards, push_air(sh)
        PROVE  Rested(fec')
    BY <2>2, PushAirOK, RxAssumption DEF IsShard
  <2>3. CASE poll_rx
    BY <2>3, PollOK
  <2>4. CASE Tick
    BY <2>4, TickOK
  <2>. QED
    BY <2>1, <2>2, <2>3, <2>4 DEF RxNext
<1>3. Rested(fec) => QueueShape
  BY RestedShape
<1>. QED
  BY <1>1, <1>2, <1>3, PTL DEF RxSpec

------------------------------------------------------------------------------

(* A call after a silence.  The receiver starts afresh: what it holds and     *)
(* returns from here to the end of the call is of one block, that of the      *)
(* shard which ended the silence.                                             *)

BlockFields == {"k", "n", "sdu", "released", "frags", "last_seen"}

\* A block with one shard, of the encoded block src.
Single(blk, src) ==
  /\ DOMAIN blk = BlockFields
  /\ \E i : DOMAIN blk.frags = {i} /\ blk.frags[i] = src
  /\ blk.last_seen = 0
  /\ blk.n \in Nat /\ blk.sdu \in Nat /\ blk.released \in 0 .. blk.sdu

\* s has nothing but what comes from src.
Only(s, src) ==
  /\ QueueOK(s) /\ s.emit_base_set
  /\ s.ready_blocks = EmptyMap /\ s.lost = {} /\ s.later_block_since = Never
  /\ \A c \in DOMAIN s.rx_blocks : Single(s.rx_blocks[c], src)
  /\ s.out \in Seq({src} \X Nat)

\* So has t, which s turned into without taking back a packet.
OnlyAfter(s, t, src) == Only(t, src) /\ ToSet(s.out) \subseteq ToSet(t.out)

\* No block with all its shards is held.
Incomplete(s) == \A c \in DOMAIN s.rx_blocks : s.rx_blocks[c].n > 1

\* What is appended to a list takes nothing from it.
LEMMA AppendedTo ==
  ASSUME NEW S, NEW a \in Seq(S), NEW b \in Seq(S)
  PROVE  /\ a \o b \in Seq(S)
         /\ ToSet(a) \subseteq ToSet(a \o b) /\ ToSet(b) \subseteq ToSet(a \o b)
<1>1. /\ a \o b \in Seq(S) /\ Len(a) \in Nat /\ Len(b) \in Nat
      /\ DOMAIN a = 1 .. Len(a) /\ DOMAIN b = 1 .. Len(b)
      /\ DOMAIN (a \o b) = 1 .. Len(a) + Len(b)
  BY ConcatProperties, LenProperties
<1>2. \A i \in DOMAIN a : i \in DOMAIN (a \o b) /\ (a \o b)[i] = a[i]
  BY <1>1, ConcatProperties
<1>3. \A i \in DOMAIN b : Len(a) + i \in DOMAIN (a \o b) /\ (a \o b)[Len(a) + i] = b[i]
  BY <1>1, ConcatProperties
<1>4. ToSet(a) \subseteq ToSet(a \o b)
  BY <1>2 DEF ToSet
<1>5. ToSet(b) \subseteq ToSet(a \o b)
  BY <1>3 DEF ToSet
<1>. QED
  BY <1>1, <1>4, <1>5

\* A call returns more packets; that changes nothing else.
LEMMA EmitOnly ==
  ASSUME NEW s, NEW src, NEW p \in Seq({src} \X Nat),
         DOMAIN s = Fields, s.out \in Seq({src} \X Nat)
  PROVE  LET t == emit_payloads(s, p)
         IN  /\ DOMAIN t = Fields
             /\ t.out \in Seq({src} \X Nat)
             /\ ToSet(s.out) \subseteq ToSet(t.out) /\ ToSet(p) \subseteq ToSet(t.out)
             /\ t.emit_base_set = s.emit_base_set /\ t.emit_next = s.emit_next
             /\ t.rx_blocks = s.rx_blocks /\ t.ready_blocks = s.ready_blocks
             /\ t.lost = s.lost /\ t.later_block_since = s.later_block_since
<1> DEFINE t == emit_payloads(s, p)
<1>1. CASE p = <<>>
  <2>1. t = s
    BY <1>1 DEF emit_payloads
  <2>2. ToSet(p) = {}
    BY <1>1 DEF ToSet
  <2>. QED
    BY <2>1, <2>2
<1>2. CASE p # <<>>
  <2> DEFINE o == s.out \o p
  <2>1. t = [s EXCEPT !.out = o, !.last_payload_emit = 0]
    BY <1>2 DEF emit_payloads
  <2>2. /\ o \in Seq({src} \X Nat)
        /\ ToSet(s.out) \subseteq ToSet(o) /\ ToSet(p) \subseteq ToSet(o)
    BY AppendedTo
  <2> HIDE DEF o, t
  <2>3. t.out = o
    BY <2>1 DEF Fields
  <2>. QED
    BY <2>1, <2>2, <2>3 DEF Fields, t
<1>. QED
  BY <1>1, <1>2

\* A function on 1 .. n is a list of length n.
LEMMA ASeq ==
  ASSUME NEW S, NEW n \in Nat, NEW q \in [1 .. n -> S]
  PROVE  q \in Seq(S) /\ Len(q) = n
<1>1. q \in Seq(S)
  BY SeqDef
<1>. QED
  BY <1>1, LenProperties

\* Nothing is flattened to nothing.
LEMMA FlattenNothing ==
  ASSUME NEW q, NEW S, q \in Seq(S), Len(q) = 0
  PROVE  FlattenSeq(q) = <<>>
<1>1. q = <<>>
  BY EmptySeq
<1>. QED
  BY <1>1 DEF FlattenSeq

\* t has the blocks of s with the shards they hold, and its head.
SameBlocks(s, t) ==
  /\ DOMAIN t.rx_blocks = DOMAIN s.rx_blocks
  /\ t.emit_next = s.emit_next
  /\ \A c \in DOMAIN s.rx_blocks :
       /\ t.rx_blocks[c].n = s.rx_blocks[c].n /\ t.rx_blocks[c].k = s.rx_blocks[c].k
       /\ t.rx_blocks[c].sdu = s.rx_blocks[c].sdu
       /\ t.rx_blocks[c].frags = s.rx_blocks[c].frags

\* Streaming stops somewhere in the block: at the first shard that is missing,
\* or at the end.
LEMMA StopExists ==
  ASSUME NEW blk, blk.sdu \in Nat, blk.released \in 0 .. blk.sdu
  PROVE  \E r \in blk.released .. blk.sdu :
           /\ \A i \in blk.released .. r - 1 : i \in DOMAIN blk.frags
           /\ r = blk.sdu \/ r \notin DOMAIN blk.frags
<1> DEFINE T == {r \in blk.released .. blk.sdu : r = blk.sdu \/ r \notin DOMAIN blk.frags}
<1>1. T \in SUBSET Nat /\ blk.sdu \in T
  OBVIOUS
<1>2. PICK r \in T : \A x \in T : r <= x
  BY <1>1, NatMin
<1>3. r \in blk.released .. blk.sdu /\ (r = blk.sdu \/ r \notin DOMAIN blk.frags)
  BY <1>2
<1>4. \A i \in blk.released .. r - 1 : i \in DOMAIN blk.frags
  <2> SUFFICES ASSUME NEW i \in blk.released .. r - 1, i \notin DOMAIN blk.frags
               PROVE  FALSE
    OBVIOUS
  <2>1. i \in T
    BY <1>3
  <2>. QED
    BY <1>2, <1>3, <2>1
<1>. QED
  BY <1>3, <1>4

\* Streaming returns the packets of a block that are here, from released on.
LEMMA StreamOnly ==
  ASSUME NEW s, NEW src, NEW id \in DOMAIN s.rx_blocks, Only(s, src)
  PROVE  LET t == try_stream_head_systematic(s, id)
         IN  /\ OnlyAfter(s, t, src)
             /\ SameBlocks(s, t)
             /\ (/\ 0 \in DOMAIN s.rx_blocks[id].frags /\ s.rx_blocks[id].released = 0
                 /\ s.rx_blocks[id].sdu > 0)
                  => <<src, 0>> \in ToSet(t.out)
<1> DEFINE blk  == s.rx_blocks[id]
           R(r) == /\ \A i \in blk.released .. r - 1 : i \in DOMAIN blk.frags
                   /\ r = blk.sdu \/ r \notin DOMAIN blk.frags
           stop == CHOOSE r \in blk.released .. blk.sdu : R(r)
           pkts == [j \in 1 .. stop - blk.released |->
                      <<blk.frags[blk.released + j - 1], blk.released + j - 1>>]
           e    == emit_payloads(s, pkts)
           t    == try_stream_head_systematic(s, id)
<1>1. /\ DOMAIN blk = BlockFields
      /\ \E i : DOMAIN blk.frags = {i} /\ blk.frags[i] = src
      /\ blk.last_seen = 0
      /\ blk.n \in Nat /\ blk.sdu \in Nat /\ blk.released \in 0 .. blk.sdu
  BY DEF Only, Single
<1>2. t = [e EXCEPT !.rx_blocks[id].released = stop]
  BY DEF try_stream_head_systematic
<1>3. stop \in blk.released .. blk.sdu /\ R(stop)
  <2>1. blk.sdu \in Nat /\ blk.released \in 0 .. blk.sdu
    BY <1>1
  <2> HIDE DEF blk
  <2>2. \E x \in blk.released .. blk.sdu : R(x)
    BY <2>1, StopExists
  <2>. QED
    BY <2>2
<1>4. \A i \in DOMAIN blk.frags : blk.frags[i] = src
  BY <1>1
<1>5. \A j \in 1 .. stop - blk.released :
         pkts[j] = <<src, blk.released + j - 1>> /\ pkts[j] \in {src} \X Nat
  <2> SUFFICES ASSUME NEW j \in 1 .. stop - blk.released
               PROVE  pkts[j] = <<src, blk.released + j - 1>> /\ pkts[j] \in {src} \X Nat
    OBVIOUS
  <2> HIDE DEF blk, stop
  <2>1. blk.released + j - 1 \in blk.released .. stop - 1 /\ blk.released + j - 1 \in Nat
    BY <1>1, <1>3
  <2>2. blk.frags[blk.released + j - 1] = src
    BY <1>3, <1>4, <2>1
  <2>. QED
    BY <2>1, <2>2
<1>6. pkts \in Seq({src} \X Nat)
  <2>1. pkts \in [1 .. stop - blk.released -> {src} \X Nat]
    BY <1>5
  <2>2. blk.released \in Nat /\ stop \in Nat /\ stop >= blk.released
    BY <1>1, <1>3
  <2>3. stop - blk.released \in Nat
    BY <2>2
  <2> HIDE DEF pkts
  <2>. QED
    BY <2>1, <2>3, ASeq
<1>7. (0 \in DOMAIN blk.frags /\ blk.released = 0 /\ blk.sdu > 0) => <<src, 0>> \in ToSet(pkts)
  <2> SUFFICES ASSUME 0 \in DOMAIN blk.frags, blk.released = 0, blk.sdu > 0
               PROVE  <<src, 0>> \in ToSet(pkts)
    OBVIOUS
  <2>1. stop # 0 /\ stop \in Nat /\ stop - blk.released = stop
    BY <1>1, <1>3
  <2>2. 1 \in 1 .. stop - blk.released /\ blk.released + 1 - 1 = 0
    BY <2>1
  <2>3. 1 \in DOMAIN pkts /\ pkts[1] = <<src, 0>>
    BY <1>5, <2>2
  <2> HIDE DEF pkts
  <2>. QED
    BY <2>3 DEF ToSet
<1> DEFINE out2 == e.out
<1>8. /\ DOMAIN e = Fields
      /\ out2 \in Seq({src} \X Nat)
      /\ ToSet(s.out) \subseteq ToSet(out2) /\ ToSet(pkts) \subseteq ToSet(out2)
      /\ e.emit_base_set = s.emit_base_set /\ e.emit_next = s.emit_next
      /\ e.rx_blocks = s.rx_blocks /\ e.ready_blocks = s.ready_blocks
      /\ e.lost = s.lost /\ e.later_block_since = s.later_block_since
  <2> HIDE DEF pkts
  <2>. QED
    BY <1>6, EmitOnly DEF Only, QueueOK
<1> HIDE DEF out2, pkts
<1>9. /\ DOMAIN t = Fields /\ t.out = out2
      /\ t.emit_base_set = s.emit_base_set /\ t.emit_next = s.emit_next
      /\ t.ready_blocks = s.ready_blocks
      /\ t.lost = s.lost /\ t.later_block_since = s.later_block_since
      /\ t.rx_blocks = [s.rx_blocks EXCEPT ![id] = [@ EXCEPT !.released = stop]]
  <2> HIDE DEF e, stop
  <2>1. e.out = out2
    BY DEF out2
  <2> HIDE DEF t
  <2>. QED
    BY <1>2, <1>8, <2>1 DEF Fields
<1> HIDE DEF t, stop, e
<1>10. /\ DOMAIN t.rx_blocks = DOMAIN s.rx_blocks
       /\ \A c \in DOMAIN s.rx_blocks : c # id => t.rx_blocks[c] = s.rx_blocks[c]
       /\ t.rx_blocks[id] = [blk EXCEPT !.released = stop]
  BY <1>9
<1>11. /\ t.rx_blocks[id].n = blk.n /\ t.rx_blocks[id].k = blk.k
       /\ t.rx_blocks[id].sdu = blk.sdu /\ t.rx_blocks[id].frags = blk.frags
       /\ t.rx_blocks[id].last_seen = blk.last_seen /\ t.rx_blocks[id].released = stop
       /\ DOMAIN t.rx_blocks[id] = BlockFields
  <2> HIDE DEF blk
  <2>. QED
    BY <1>1, <1>10 DEF BlockFields
<1>12. stop \in 0 .. blk.sdu
  BY <1>1, <1>3
<1>13. Single(t.rx_blocks[id], src)
  <2> HIDE DEF blk
  <2>. QED
    BY <1>1, <1>11, <1>12 DEF Single
<1>14. \A c \in DOMAIN t.rx_blocks : Single(t.rx_blocks[c], src)
  BY <1>10, <1>13 DEF Only
<1>15. SameQueue(s, t)
  BY <1>9, <1>10 DEF SameQueue
<1>16. QueueOK(t)
  BY <1>15, SameQueueOK DEF Only
<1>17. OnlyAfter(s, t, src)
  BY <1>8, <1>9, <1>14, <1>16 DEF Only, OnlyAfter
<1>18. \A c \in DOMAIN s.rx_blocks :
         /\ t.rx_blocks[c].n = s.rx_blocks[c].n /\ t.rx_blocks[c].k = s.rx_blocks[c].k
         /\ t.rx_blocks[c].sdu = s.rx_blocks[c].sdu
         /\ t.rx_blocks[c].frags = s.rx_blocks[c].frags
  BY <1>10, <1>11
<1>19. (0 \in DOMAIN blk.frags /\ blk.released = 0 /\ blk.sdu > 0) => <<src, 0>> \in ToSet(t.out)
  BY <1>7, <1>8, <1>9
<1>20. SameBlocks(s, t)
  BY <1>9, <1>10, <1>18 DEF SameBlocks
<1>. QED
  BY <1>17, <1>19, <1>20 DEF t, blk

\* t has the blocks, the results and the hold of s.
Untouched(s, t) ==
  /\ t.emit_next = s.emit_next /\ t.out = s.out /\ t.lost = s.lost
  /\ DOMAIN t.rx_blocks = DOMAIN s.rx_blocks
  /\ \A b \in DOMAIN s.rx_blocks : t.rx_blocks[b] = s.rx_blocks[b]
  /\ t.later_block_since = s.later_block_since
  /\ t.ready_blocks = s.ready_blocks /\ t.done = s.done

\* Erasing no block touches nothing.
LEMMA AbandonNone ==
  ASSUME NEW s, NEW t \in AbandonAll(s, {}), QueueOK(s)
  PROVE  Untouched(s, t)
<1> DEFINE pk(o)   == FlattenSeq([j \in 1 .. Len(o) |->
                        LET blk == s.rx_blocks[o[j]] IN Systematic(blk, blk.released)])
           em(o)   == [emit_payloads(s, pk(o))
                        EXCEPT !.rx_blocks = Without(@, {}),
                               !.lost = @ \cup UNION {Missing(s.rx_blocks[b]) : b \in {}}]
           wk(o, m) == IF m = 0 THEN em(o)
                       ELSE [PassHead(em(o), m) EXCEPT !.later_block_since = Never]
<1>1. PICK o \in SetToSeqs({}), m \in 0 .. RingMod :
        HeadRun(o, s.emit_next, m) /\ t = wk(o, m)
  BY DEF AbandonAll
<1>2. o \in [1 .. 0 -> {}]
  BY <1>1, FS_EmptySet DEF SetToSeqs
<1>3. o \in Seq({}) /\ Len(o) = 0 /\ ToSet(o) = {}
  <2>1. o \in Seq({}) /\ Len(o) = 0
    BY <1>2, ASeq
  <2>2. DOMAIN o = {}
    BY <1>2
  <2>. QED
    BY <2>1, <2>2 DEF ToSet
<1>4. m = 0
  <2> SUFFICES ASSUME m # 0 PROVE FALSE
    OBVIOUS
  <2>1. 0 \in 0 .. m - 1
    BY RingAssumption
  <2>2. wire_block_id(s.emit_next + 0) \in ToSet(o)
    BY <1>1, <2>1 DEF HeadRun
  <2>. QED
    BY <1>3, <2>2
<1>5. pk(o) = <<>>
  <2> DEFINE q == [j \in 1 .. Len(o) |->
                        LET blk == s.rx_blocks[o[j]] IN Systematic(blk, blk.released)]
  <2>1. q \in [1 .. 0 -> {}]
    BY <1>3
  <2>2. pk(o) = FlattenSeq(q)
    OBVIOUS
  <2> HIDE DEF q, pk
  <2>. QED
    BY <2>1, <2>2, ASeq, FlattenNothing
<1> HIDE DEF pk
<1>6. t = [s EXCEPT !.rx_blocks = Without(@, {}),
                    !.lost = @ \cup UNION {Missing(s.rx_blocks[b]) : b \in {}}]
  BY <1>1, <1>4, <1>5 DEF emit_payloads
<1> DEFINE none == UNION {Missing(s.rx_blocks[b]) : b \in {}}
<1>7. none = {}
  OBVIOUS
<1>8. t = [s EXCEPT !.rx_blocks = Without(@, {}), !.lost = @ \cup none]
  BY <1>6
<1> HIDE DEF none, em, wk
<1>9. /\ t.emit_next = s.emit_next /\ t.out = s.out /\ t.lost = s.lost \cup none
      /\ t.rx_blocks = Without(s.rx_blocks, {})
      /\ t.later_block_since = s.later_block_since
      /\ t.ready_blocks = s.ready_blocks /\ t.done = s.done
  BY <1>8 DEF QueueOK, Fields
<1>10. DOMAIN t.rx_blocks = DOMAIN s.rx_blocks
       /\ \A b \in DOMAIN s.rx_blocks : t.rx_blocks[b] = s.rx_blocks[b]
  BY <1>9 DEF Without
<1>. QED
  BY <1>7, <1>9, <1>10 DEF Untouched

\* The holds are numbers.
LEMMA HoldsAre == EmitHold \in Nat /\ RxHold \in Nat /\ DoneHold \in Nat
BY RxAssumption

\* Nothing that waits: the head stays where it is.
LEMMA NoRun ==
  ASSUME NEW e \in BlockId
  PROVE  RunLength({}, e) = 0
<1>1. /\ RunLength({}, e) \in 0 .. RingMod
      /\ \A j \in 0 .. RunLength({}, e) - 1 : wire_block_id(e + j) \in {}
  BY RunLengthOK
<1>. QED
  BY <1>1, RingAssumption

\* The drain of a receiver with blocks of one source only.
LEMMA DrainOnly ==
  ASSUME NEW s, NEW src, Only(s, src)
  PROVE  /\ OnlyAfter(s, DrainHead(s), src)
         /\ Incomplete(s) => Incomplete(DrainHead(s))
<1> DEFINE m    == RunLength(DOMAIN s.ready_blocks, s.emit_next)
           ids  == [j \in 1 .. m |-> wire_block_id(s.emit_next + j - 1)]
           pkts == FlattenSeq([j \in 1 .. m |-> Decoded(s.ready_blocks[ids[j]])])
           p    == PassHead(emit_payloads(s, pkts), m)
           t    == [p EXCEPT !.ready_blocks = Without(@, {ids[j] : j \in 1 .. m})]
<1>1. DOMAIN s.ready_blocks = {} /\ s.emit_next \in BlockId /\ DOMAIN s = Fields
  BY DEF Only, EmptyMap, QueueOK
<1>2. m = 0
  BY <1>1, NoRun
<1>3. pkts = <<>>
  <2> DEFINE q == [j \in 1 .. m |-> Decoded(s.ready_blocks[ids[j]])]
  <2>1. q \in [1 .. 0 -> {}]
    BY <1>2
  <2>2. pkts = FlattenSeq(q)
    OBVIOUS
  <2> HIDE DEF q, pkts
  <2>. QED
    BY <2>1, <2>2, ASeq, FlattenNothing
<1>4. p = PassHead(s, 0)
  BY <1>2, <1>3 DEF emit_payloads
<1>5. /\ DOMAIN p = Fields
      /\ p.emit_base_set = s.emit_base_set
      /\ p.emit_next = wire_block_id(s.emit_next + 0)
      /\ p.rx_blocks = s.rx_blocks
      /\ p.ready_blocks = s.ready_blocks
  <2> HIDE DEF p
  <2>. QED
    BY <1>1, <1>4, PassHeadKeeps
<1>6. p.out = s.out /\ p.lost = s.lost /\ p.later_block_since = s.later_block_since
  <2> HIDE DEF p
  <2>. QED
    BY <1>1, <1>4 DEF PassHead, Fields
<1> DEFINE gone == {ids[j] : j \in 1 .. m}
<1>7. DrainHead(s) = IF t.emit_next \in DOMAIN t.rx_blocks
                     THEN try_stream_head_systematic(t, t.emit_next) ELSE t
  BY DEF DrainHead
<1>8. t = [p EXCEPT !.ready_blocks = Without(@, gone)]
  OBVIOUS
<1> HIDE DEF t, p, gone, pkts
<1>9. /\ DOMAIN t = Fields
      /\ t.emit_base_set = s.emit_base_set
      /\ t.emit_next = wire_block_id(s.emit_next + 0)
      /\ t.rx_blocks = s.rx_blocks
      /\ t.ready_blocks = Without(s.ready_blocks, gone)
      /\ t.out = s.out /\ t.lost = s.lost /\ t.later_block_since = s.later_block_since
  BY <1>5, <1>6, <1>8 DEF Fields
<1>10. t.emit_next = s.emit_next
  BY <1>1, <1>9, WireHere
<1>11. t.ready_blocks = EmptyMap
  BY <1>1, <1>9 DEF Without, EmptyMap
<1>12. SameQueue(s, t)
  BY <1>9, <1>10, <1>11 DEF SameQueue, Only
<1>13. Only(t, src) /\ t.out = s.out /\ t.rx_blocks = s.rx_blocks
  BY <1>9, <1>11, <1>12, SameQueueOK DEF Only
<1>14. CASE t.emit_next \in DOMAIN t.rx_blocks
  <2> DEFINE u == try_stream_head_systematic(t, t.emit_next)
  <2>1. OnlyAfter(t, u, src) /\ SameBlocks(t, u)
    BY <1>13, <1>14, StreamOnly
  <2>2. DrainHead(s) = u
    BY <1>7, <1>14
  <2> HIDE DEF u
  <2>. QED
    BY <1>13, <2>1, <2>2 DEF OnlyAfter, Incomplete, SameBlocks
<1>15. CASE t.emit_next \notin DOMAIN t.rx_blocks
  BY <1>7, <1>13, <1>15 DEF OnlyAfter, Incomplete
<1>. QED
  BY <1>14, <1>15

\* No hold runs and no block is complete: nothing is given up.
LEMMA NothingGivenUp ==
  ASSUME NEW s, NEW src, Only(s, src), Incomplete(s)
  PROVE  maybe_give_up_head(s) = s
<1> DEFINE e == s.emit_next
<1>1. ~HoldOver(s)
  BY DEF Only, HoldOver
<1>2. ASSUME e \in DOMAIN s.rx_blocks
      PROVE  ~(Cardinality(DOMAIN s.rx_blocks[e].frags) >= s.rx_blocks[e].n)
  <2>1. PICK i : DOMAIN s.rx_blocks[e].frags = {i}
    BY <1>2 DEF Only, Single
  <2>2. Cardinality(DOMAIN s.rx_blocks[e].frags) = 1
    BY <2>1, FS_Singleton
  <2>3. s.rx_blocks[e].n \in Nat /\ s.rx_blocks[e].n > 1
    BY <1>2 DEF Only, Single, Incomplete
  <2>. QED
    BY <2>2, <2>3
<1>. QED
  BY <1>1, <1>2 DEF maybe_give_up_head

\* The emit engine.
LEMMA EngineOnly ==
  ASSUME NEW s, NEW src, Only(s, src), Incomplete(s)
  PROVE  OnlyAfter(s, run_emit_engine(s), src) /\ Incomplete(run_emit_engine(s))
<1> DEFINE d == DrainHead(s)
<1>1. OnlyAfter(s, d, src) /\ Incomplete(d)
  BY DrainOnly
<1>2. maybe_give_up_head(d) = d
  BY <1>1, NothingGivenUp DEF OnlyAfter
<1>3. OnlyAfter(d, DrainHead(d), src) /\ Incomplete(DrainHead(d))
  BY <1>1, DrainOnly DEF OnlyAfter
<1>4. run_emit_engine(s) = DrainHead(d)
  BY <1>2 DEF run_emit_engine, Only
<1>. QED
  BY <1>1, <1>3, <1>4 DEF OnlyAfter

\* The end of the call: what has just come does not expire.
LEMMA EndOnly ==
  ASSUME NEW s, NEW src, Only(s, src), Incomplete(s), NEW t \in ExpireThenEmit(s)
  PROVE  OnlyAfter(s, t, src)
<1>1. PICK u \in expire_rx(s) : t = run_emit_engine(u)
  BY DEF ExpireThenEmit
<1> DEFINE d == expire_done(s)
           old == {b \in DOMAIN d.rx_blocks : d.rx_blocks[b].last_seen > RxHold}
<1>2. /\ DOMAIN d = Fields
      /\ d.emit_base_set = s.emit_base_set /\ d.emit_next = s.emit_next
      /\ d.rx_blocks = s.rx_blocks /\ d.ready_blocks = s.ready_blocks
      /\ d.out = s.out /\ d.lost = s.lost /\ d.later_block_since = s.later_block_since
  BY DEF expire_done, Only, QueueOK, Fields
<1>3. u \in AbandonAll(d, old)
  BY <1>1 DEF expire_rx
<1> HIDE DEF d
<1>4. SameQueue(s, d)
  BY <1>2 DEF SameQueue
<1>5. Only(d, src) /\ Incomplete(d)
  BY <1>2, <1>4, SameQueueOK DEF Only, Incomplete
<1>6. old = {}
  <2>1. \A b \in DOMAIN d.rx_blocks : d.rx_blocks[b].last_seen = 0
    BY <1>5 DEF Only, Single
  <2>2. ~(0 > RxHold)
    BY HoldsAre
  <2>. QED
    BY <2>1, <2>2
<1> HIDE DEF old
<1>7. u \in AbandonAll(d, {}) /\ QueueOK(d)
  BY <1>3, <1>5, <1>6 DEF Only
<1>8. Untouched(d, u)
  BY <1>7, AbandonNone
<1>9. QueueOK(u) /\ u.ready_blocks = d.ready_blocks /\ u.emit_base_set = d.emit_base_set
  <2>1. {} \subseteq DOMAIN d.rx_blocks
    OBVIOUS
  <2>. QED
    BY <1>7, <2>1, AbandonAllOK
<1>10. Only(u, src) /\ Incomplete(u) /\ u.out = s.out
  BY <1>2, <1>5, <1>8, <1>9 DEF Only, Incomplete, Untouched
<1>11. OnlyAfter(u, t, src)
  BY <1>1, <1>10, EngineOnly
<1>. QED
  BY <1>10, <1>11 DEF OnlyAfter

\* The first shard after a silence, of another block than the head's: all that
\* was held is forgotten, and the head is on the shard's block.
LEMMA StartsAfresh ==
  ASSUME NEW s, NEW sh, sh.id \in BlockId, QueueOK(s), s.emit_base_set,
         s.last_shard_rx >= RxHold, sh.id # s.emit_next, NEW t \in BeforeTake(s, sh)
  PROVE  Only(t, sh.src) /\ DOMAIN t.rx_blocks = {} /\ t.emit_next = sh.id
<1> DEFINE id == sh.id
           a == note_emit_base(ClearResults(s), id)
           b == maybe_rebase_after_silence(a, id)
           c == touch_newest(b, id)
           d == maybe_resync_on_late_shard(c, id)
<1>1. /\ DOMAIN a = Fields /\ a.emit_base_set /\ a.emit_next = s.emit_next
      /\ a.last_shard_rx = s.last_shard_rx /\ a.out = <<>> /\ a.lost = {}
  BY DEF note_emit_base, ClearResults, QueueOK, Fields
<1>2. QueueOK(d) /\ d.emit_base_set
  <2>1. QueueOK(a) /\ a.emit_base_set
    BY ClearResultsOK, BaseOK
  <2>2. QueueOK(b) /\ b.emit_base_set
    BY <2>1, RebaseOK
  <2>3. QueueOK(c) /\ c.emit_base_set
    BY <2>2, TouchOK
  <2>. QED
    BY <2>3, ResyncOK
<1> HIDE DEF a
<1>3. a.last_shard_rx # Never
  BY <1>1, HoldsAre DEF Never
<1>4. dist_from_emit(a, id) # 0
  BY <1>1, DistZero DEF dist_from_emit, QueueOK
<1> DEFINE fresh == [[a EXCEPT !.last_shard_rx = 0] EXCEPT
                       !.rx_blocks = EmptyMap, !.ready_blocks = EmptyMap,
                       !.done = <<>>, !.emit_next = id, !.newest = id,
                       !.later_block_since = Never]
<1>5. b = fresh
  BY <1>1, <1>3, <1>4 DEF maybe_rebase_after_silence
<1> HIDE DEF b
<1>6. /\ DOMAIN b = Fields /\ b.emit_base_set /\ b.emit_next = id /\ b.newest = id
      /\ b.rx_blocks = EmptyMap /\ b.ready_blocks = EmptyMap
      /\ b.out = <<>> /\ b.lost = {} /\ b.later_block_since = Never
  BY <1>1, <1>5 DEF Fields
<1> HIDE DEF fresh
<1>7. ring_dist(id, id) = 0 /\ ~(0 > 0) /\ ~(0 < 0)
  BY DistZero
<1>8. c = b
  BY <1>6, <1>7 DEF touch_newest
<1>9. d = b
  BY <1>6, <1>7, <1>8 DEF maybe_resync_on_late_shard, dist_from_emit
<1>10. t \in ring_evict_stale(d)
  BY DEF BeforeTake, a, b
<1> HIDE DEF c, d
<1> DEFINE Stale(S) == {i \in S : ring_dist(i, d.newest) < -EvictDist}
           keep(v) == [v EXCEPT !.done = forget(@, Stale(BlockId))]
<1>11. PICK v \in AbandonAll(d, Stale(DOMAIN d.rx_blocks)) : t = keep(v)
  BY <1>10 DEF ring_evict_stale
<1>12. DOMAIN d.rx_blocks = {} /\ DOMAIN d.ready_blocks = {}
  BY <1>6, <1>9 DEF EmptyMap
<1>13. v \in AbandonAll(d, {})
  BY <1>11, <1>12
<1>14. Untouched(d, v)
  BY <1>2, <1>13, AbandonNone
<1>15. QueueOK(v) /\ v.ready_blocks = d.ready_blocks /\ v.emit_base_set = d.emit_base_set
  BY <1>2, <1>12, <1>13, AbandonAllOK
<1> DEFINE q == forget(v.done, Stale(BlockId))
<1>16. t = [v EXCEPT !.done = q]
  BY <1>11
<1> HIDE DEF q, keep
<1>17. /\ DOMAIN t = Fields
       /\ t.emit_base_set = v.emit_base_set /\ t.emit_next = v.emit_next
       /\ t.rx_blocks = v.rx_blocks /\ t.ready_blocks = v.ready_blocks
       /\ t.out = v.out /\ t.lost = v.lost /\ t.later_block_since = v.later_block_since
  BY <1>15, <1>16 DEF QueueOK, Fields
<1>18. QueueOK(t)
  BY <1>15, <1>17, SameQueueOK DEF SameQueue
<1>19. DOMAIN t.rx_blocks = {} /\ t.emit_next = id /\ t.out = <<>> /\ t.lost = {}
       /\ t.later_block_since = Never /\ t.ready_blocks = EmptyMap /\ t.emit_base_set
  BY <1>2, <1>6, <1>9, <1>12, <1>14, <1>15, <1>17 DEF Untouched
<1>20. <<>> \in Seq({sh.src} \X Nat)
  BY EmptySeq
<1>. QED
  BY <1>18, <1>19, <1>20 DEF Only

\* A decoded block of shards of src gives back packets of src.
LEMMA DecodedOnly ==
  ASSUME NEW blk, NEW src, Single(blk, src)
  PROVE  Decoded([sdu |-> blk.sdu, released |-> blk.released,
                  payloads |-> DecodedPayloads(blk)]) \in Seq({src} \X Nat)
<1> DEFINE pl  == DecodedPayloads(blk)
           rdy == [sdu |-> blk.sdu, released |-> blk.released, payloads |-> pl]
           n   == blk.sdu - blk.released
<1>1. \A i \in DOMAIN blk.frags : blk.frags[i] = src
  BY DEF Single
<1>2. (CHOOSE j \in DOMAIN blk.frags : TRUE) \in DOMAIN blk.frags
  BY DEF Single
<1>3. ~Mixed(blk)
  BY <1>1 DEF Mixed
<1>4. \A i \in 0 .. blk.sdu - 1 : pl[i] = src
  BY <1>1, <1>2, <1>3 DEF DecodedPayloads
<1>5. blk.sdu \in Nat /\ blk.released \in Nat /\ n \in Nat
  BY DEF Single
<1>6. \A j \in 1 .. n : /\ blk.released + j - 1 \in 0 .. blk.sdu - 1
                        /\ blk.released + j - 1 \in Nat
  BY <1>5
<1> HIDE DEF pl
<1>7. Decoded(rdy) = [j \in 1 .. n |-> <<pl[blk.released + j - 1], blk.released + j - 1>>]
  BY DEF Decoded
<1> HIDE DEF rdy, n
<1>8. \A j \in 1 .. n : <<pl[blk.released + j - 1], blk.released + j - 1>> \in {src} \X Nat
  BY <1>4, <1>6
<1>9. Decoded(rdy) \in [1 .. n -> {src} \X Nat]
  BY <1>7, <1>8
<1>10. Decoded(rdy) \in Seq({src} \X Nat)
  BY <1>5, <1>9, ASeq
<1>. QED
  BY <1>10 DEF rdy, pl

\* The decoding of the block at the head, of one shard of src.
LEMMA DecodeOnly ==
  ASSUME NEW s, NEW src, NEW id, Only(s, src), DOMAIN s.rx_blocks = {id}, s.emit_next = id
  PROVE  LET blk == s.rx_blocks[id]
             t   == on_block_decoded([s EXCEPT !.rx_blocks = Without(@, {id})], id,
                      [sdu |-> blk.sdu, released |-> blk.released,
                       payloads |-> DecodedPayloads(blk)])
         IN  OnlyAfter(s, t, src) /\ Incomplete(t)
<1> DEFINE blk == s.rx_blocks[id]
           rdy == [sdu |-> blk.sdu, released |-> blk.released,
                   payloads |-> DecodedPayloads(blk)]
           w   == [s EXCEPT !.rx_blocks = Without(@, {id})]
           pk  == Decoded(rdy)
           e   == emit_payloads(w, pk)
           p   == PassHead(e, 1)
           h   == [p EXCEPT !.later_block_since = Never]
<1>1. Single(blk, src)
  BY DEF Only
<1>2. pk \in Seq({src} \X Nat)
  <2> HIDE DEF blk
  <2>. QED
    BY <1>1, DecodedOnly
<1>3. /\ DOMAIN w = Fields /\ w.emit_next = id /\ w.emit_base_set
      /\ DOMAIN w.rx_blocks = {} /\ w.ready_blocks = EmptyMap
      /\ w.out = s.out /\ w.lost = {}
  BY DEF Only, QueueOK, Fields, Without
<1>4. s.out \in Seq({src} \X Nat) /\ id \in BlockId
  BY DEF Only, QueueOK
<1>5. dist_from_emit(w, id) = 0 /\ ~(0 < 0)
  BY <1>3, <1>4, DistZero DEF dist_from_emit
<1>6. on_block_decoded(w, id, rdy) = run_emit_engine(h)
  BY <1>5 DEF on_block_decoded
<1> HIDE DEF w, rdy, pk
<1>7. /\ DOMAIN e = Fields
      /\ e.out \in Seq({src} \X Nat) /\ ToSet(s.out) \subseteq ToSet(e.out)
      /\ e.emit_base_set /\ e.emit_next = id
      /\ DOMAIN e.rx_blocks = {} /\ e.ready_blocks = EmptyMap
      /\ e.lost = {}
  <2> HIDE DEF e
  <2>1. w.out \in Seq({src} \X Nat)
    BY <1>3, <1>4
  <2>2. LET t == emit_payloads(w, pk)
         IN  /\ DOMAIN t = Fields
             /\ t.out \in Seq({src} \X Nat)
             /\ ToSet(w.out) \subseteq ToSet(t.out) /\ ToSet(pk) \subseteq ToSet(t.out)
             /\ t.emit_base_set = w.emit_base_set /\ t.emit_next = w.emit_next
             /\ t.rx_blocks = w.rx_blocks /\ t.ready_blocks = w.ready_blocks
             /\ t.lost = w.lost /\ t.later_block_since = w.later_block_since
    BY <1>2, <1>3, <2>1, EmitOnly
  <2>. QED
    BY <1>3, <2>2 DEF e
<1> HIDE DEF e
<1>8. /\ DOMAIN p = Fields /\ p.out = e.out /\ p.lost = e.lost
      /\ p.emit_base_set = e.emit_base_set
      /\ p.emit_next = wire_block_id(id + 1)
      /\ p.rx_blocks = e.rx_blocks /\ p.ready_blocks = e.ready_blocks
  BY <1>7 DEF PassHead, Fields
<1> HIDE DEF p
<1>9. /\ DOMAIN h = Fields /\ h.out = e.out /\ h.lost = {}
      /\ h.emit_base_set
      /\ h.emit_next = wire_block_id(id + 1)
      /\ DOMAIN h.rx_blocks = {} /\ h.ready_blocks = EmptyMap
      /\ h.later_block_since = Never
  BY <1>7, <1>8 DEF Fields
<1> HIDE DEF h
<1>10. h.emit_next \in BlockId
  <2>1. id + 1 \in Nat
    BY <1>4, RingAssumption DEF BlockId
  <2>. QED
    BY <1>9, <2>1, WireId
<1>11. DOMAIN h.ready_blocks = {}
  BY <1>9 DEF EmptyMap
<1>12. QueueOK(h)
  BY <1>9, <1>10, <1>11 DEF QueueOK
<1>13. Only(h, src) /\ Incomplete(h)
  BY <1>7, <1>9, <1>12 DEF Only, Incomplete
<1>14. OnlyAfter(h, run_emit_engine(h), src) /\ Incomplete(run_emit_engine(h))
  BY <1>13, EngineOnly
<1>15. on_block_decoded(w, id, rdy) = run_emit_engine(h) /\ ToSet(s.out) \subseteq ToSet(h.out)
  BY <1>6, <1>7, <1>9
<1>. QED
  BY <1>14, <1>15 DEF OnlyAfter, w, rdy

\* A shard taken by a receiver that holds nothing, with the head on its block.
LEMMA TakeOnly ==
  ASSUME NEW s, NEW sh, IsShard(sh), Only(s, sh.src), DOMAIN s.rx_blocks = {},
         s.emit_next = sh.id
  PROVE  LET t == TakeShard(s, sh, TRUE)
         IN  /\ Only(t, sh.src) /\ Incomplete(t)
             /\ sh.idx = 0 => <<sh.src, 0>> \in ToSet(t.out)
<1> DEFINE id   == sh.id
           src  == sh.src
           blk  == [NewBlock(sh) EXCEPT !.frags = With(@, sh.idx, src), !.last_seen = 0]
           w    == [s EXCEPT !.rx_blocks = With(@, id, blk)]
           v    == try_stream_head_systematic(w, id)
           t    == TakeShard(s, sh, TRUE)
<1>1. /\ id \in BlockId
      /\ sh.n \in Nat \ {0} /\ sh.k \in 1 .. sh.n /\ sh.sdu \in 1 .. sh.k
  BY DEF IsShard
<1>2. dist_from_emit(s, id) = 0 /\ ~(0 < 0)
  BY <1>1, DistZero DEF dist_from_emit
<1>3. id \notin DOMAIN s.ready_blocks /\ DOMAIN s = Fields
  BY DEF Only, EmptyMap, QueueOK
<1>4. t = StoreShard(s, sh, TRUE)
  BY <1>2, <1>3 DEF TakeShard
<1>5. /\ DOMAIN blk = BlockFields
      /\ DOMAIN blk.frags = {sh.idx} /\ blk.frags[sh.idx] = src
      /\ blk.last_seen = 0 /\ blk.released = 0
      /\ blk.n = sh.n /\ blk.k = sh.k /\ blk.sdu = sh.sdu
  BY DEF NewBlock, With, EmptyMap, BlockFields
<1>6. t = try_decode_block(StreamOrArm(w, id), id, TRUE)
  <2>1. NewBlock(sh).frags = EmptyMap /\ DOMAIN EmptyMap = {}
    BY DEF NewBlock, EmptyMap
  <2>2. <<NewBlock(sh).k, NewBlock(sh).n, NewBlock(sh).sdu>> = <<sh.k, sh.n, sh.sdu>>
    BY DEF NewBlock
  <2>. QED
    BY <1>4, <2>1, <2>2 DEF StoreShard
<1> HIDE DEF blk, t
<1>7. /\ DOMAIN w = Fields /\ w.emit_base_set = s.emit_base_set
      /\ w.emit_next = id /\ w.ready_blocks = s.ready_blocks
      /\ w.rx_blocks = With(s.rx_blocks, id, blk)
      /\ w.out = s.out /\ w.lost = s.lost /\ w.later_block_since = s.later_block_since
  BY <1>3 DEF Fields
<1> HIDE DEF w
<1>8. DOMAIN w.rx_blocks = {id} /\ w.rx_blocks[id] = blk
  BY <1>7 DEF With
<1>9. StreamOrArm(w, id) = v
  BY <1>7 DEF StreamOrArm
<1>10. Single(blk, src)
  BY <1>1, <1>5 DEF Single
<1>11. DOMAIN w.ready_blocks = {}
  BY <1>7 DEF Only, EmptyMap
<1>12. QueueOK(w)
  BY <1>1, <1>7, <1>8, <1>11 DEF QueueOK, Only
<1>13. Only(w, src)
  BY <1>7, <1>8, <1>10, <1>12 DEF Only
<1>14. /\ OnlyAfter(w, v, src) /\ DOMAIN v.rx_blocks = {id} /\ v.emit_next = id
       /\ v.rx_blocks[id].n = sh.n /\ v.rx_blocks[id].k = sh.k /\ v.rx_blocks[id].sdu = sh.sdu
       /\ v.rx_blocks[id].frags = blk.frags
  <2> HIDE DEF v
  <2>0. id \in DOMAIN w.rx_blocks
    BY <1>8
  <2>1. OnlyAfter(w, v, src) /\ SameBlocks(w, v)
    BY <1>13, <2>0, StreamOnly DEF v
  <2>. QED
    BY <1>5, <1>7, <1>8, <2>1 DEF SameBlocks
<1>15. sh.idx = 0 => <<src, 0>> \in ToSet(v.out)
  <2> SUFFICES ASSUME sh.idx = 0 PROVE <<src, 0>> \in ToSet(v.out)
    OBVIOUS
  <2>1. /\ 0 \in DOMAIN w.rx_blocks[id].frags /\ w.rx_blocks[id].released = 0
        /\ w.rx_blocks[id].sdu > 0 /\ id \in DOMAIN w.rx_blocks
    BY <1>1, <1>5, <1>8
  <2>. QED
    BY <1>13, <2>1, StreamOnly
<1> HIDE DEF v
<1> DEFINE b == v.rx_blocks[id]
           x == on_block_decoded([v EXCEPT !.rx_blocks = Without(@, {id})], id,
                  [sdu |-> b.sdu, released |-> b.released, payloads |-> DecodedPayloads(b)])
<1>16. t = IF ~Decodable(b) THEN run_emit_engine(v) ELSE x
  BY <1>6, <1>9 DEF try_decode_block
<1>17. CASE Decodable(b)
  <2>1. OnlyAfter(v, x, src) /\ Incomplete(x)
    BY <1>14, DecodeOnly DEF OnlyAfter
  <2>2. t = x
    BY <1>16, <1>17
  <2> HIDE DEF x
  <2>. QED
    BY <1>15, <2>1, <2>2 DEF OnlyAfter, t
<1>18. CASE ~Decodable(b)
  <2>1. sh.n # 1
    <3> SUFFICES ASSUME sh.n = 1 PROVE Decodable(b)
      BY <1>18
    <3>1. b.k = 1 /\ b.sdu = 1 /\ DOMAIN b.frags = {sh.idx}
      BY <1>1, <1>5, <1>14
    <3>2. Cardinality(DOMAIN b.frags) = 1
      BY <3>1, FS_Singleton
    <3>3. ((b.sdu .. b.k - 1) \ DOMAIN b.frags) = {}
      BY <3>1
    <3>4. Cardinality({}) = 0
      BY FS_EmptySet
    <3> HIDE DEF b
    <3>. QED
      BY <3>1, <3>2, <3>3, <3>4 DEF Decodable
  <2>2. Incomplete(v)
    BY <1>1, <1>14, <2>1 DEF Incomplete
  <2>3. OnlyAfter(v, run_emit_engine(v), src) /\ Incomplete(run_emit_engine(v))
    BY <1>14, <2>2, EngineOnly DEF OnlyAfter
  <2>4. t = run_emit_engine(v)
    BY <1>16, <1>18
  <2>. QED
    BY <1>15, <2>3, <2>4 DEF OnlyAfter, t
<1>. QED
  BY <1>17, <1>18

\* The whole of push_air, after a silence.
LEMMA PushAirAfresh ==
  ASSUME NEW sh, IsShard(sh), Rested(fec), fec.emit_base_set,
         fec.last_shard_rx >= RxHold, sh.id # fec.emit_next, push_air(sh)
  PROVE  /\ Only(fec', sh.src)
         /\ sh.idx = 0 => <<sh.src, 0>> \in ToSet(fec'.out)
<1>1. PICK s \in BeforeTake(fec, sh), ok \in BOOLEAN :
        (~ok => MayFail(s, sh)) /\ fec' \in ExpireThenEmit(TakeShard(s, sh, ok))
  BY DEF push_air
<1>2. Only(s, sh.src) /\ DOMAIN s.rx_blocks = {} /\ s.emit_next = sh.id
  BY StartsAfresh DEF Rested, IsShard
<1>3. ok = TRUE
  BY <1>1, <1>2 DEF MayFail
<1> DEFINE t == TakeShard(s, sh, TRUE)
<1>4. /\ Only(t, sh.src) /\ Incomplete(t)
      /\ sh.idx = 0 => <<sh.src, 0>> \in ToSet(t.out)
  BY <1>2, TakeOnly
<1>5. fec' \in ExpireThenEmit(t)
  BY <1>1, <1>3
<1> HIDE DEF t
<1>6. OnlyAfter(t, fec', sh.src)
  BY <1>4, <1>5, EndOnly
<1>. QED
  BY <1>4, <1>6 DEF OnlyAfter

------------------------------------------------------------------------------

(* The ranges of the fields.  The shape of the queue comes from QueueOK; what *)
(* is added here is that done_order never outgrows k_done_max, that a block    *)
(* never streams past its end and never stays without a shard, and that no     *)
(* stamp runs away.                                                            *)

Mark  == [id : BlockId, age : Age]
Marks == {d \in Seq(Mark) : Len(d) <= DoneMax}

BlockOK(blk) ==
  /\ DOMAIN blk = BlockFields
  /\ blk.sdu \in Nat /\ blk.released \in 0 .. blk.sdu
  /\ blk.last_seen \in Age
  /\ DOMAIN blk.frags # {}

InRange(s) ==
  /\ s.newest \in BlockId
  /\ s.later_block_since \in Age \cup {Never}
  /\ s.done \in Marks
  /\ \A b \in DOMAIN s.rx_blocks : BlockOK(s.rx_blocks[b])

\* The queue in shape and its fields in range.
RxOK(s) == QueueOK(s) /\ InRange(s)

\* t differs from s in no field that InRange speaks of.
SameRange(s, t) ==
  /\ t.newest = s.newest /\ t.later_block_since = s.later_block_since
  /\ t.done = s.done /\ t.rx_blocks = s.rx_blocks

\* Ages stay in their range as they grow.
LEMMA AgeFacts ==
  /\ 0 \in Age /\ Never \notin Age
  /\ \A a \in Age : Older(a) \in Age
  /\ Older(Never) = Never
<1>1. DoneHold \in Nat
  BY RxAssumption
<1>. QED
  BY <1>1 DEF Age, AgeCap, Older, Never

LEMMA DoneMaxNat == DoneMax \in Nat /\ DoneMax > 0
BY RxAssumption

\* Nothing marked is a list of marks.
LEMMA NoMarks == <<>> \in Marks
<1>1. <<>> \in Seq(Mark) /\ Len(<<>>) = 0
  BY EmptySeq
<1>. QED
  BY <1>1, DoneMaxNat DEF Marks

\* mark_done keeps at most k_done_max ids: the oldest leaves for a new one.
LEMMA MarkDoneOK ==
  ASSUME NEW d \in Marks, NEW id \in BlockId
  PROVE  mark_done(d, id) \in Marks
<1> DEFINE n     == Len(d)
           again == [j \in 1 .. Len(d) |->
                      IF d[j].id = id THEN [d[j] EXCEPT !.age = 0] ELSE d[j]]
           new   == [id |-> id, age |-> 0]
           queue == IF \E j \in 1 .. Len(d) : d[j].id = id THEN again ELSE Append(d, new)
<1>1. d \in Seq(Mark) /\ n \in Nat /\ n <= DoneMax /\ \A j \in 1 .. n : d[j] \in Mark
  BY ElementOfSeq, LenProperties DEF Marks
<1>2. again \in Seq(Mark) /\ Len(again) = n
  <2>1. \A j \in 1 .. n : [d[j] EXCEPT !.age = 0] \in Mark
    BY <1>1, AgeFacts DEF Mark
  <2>2. again \in [1 .. n -> Mark]
    BY <1>1, <2>1
  <2> HIDE DEF again, n
  <2>. QED
    BY <1>1, <2>2, ASeq
<1>3. new \in Mark
  BY AgeFacts DEF Mark
<1> HIDE DEF again, new
<1>4. Append(d, new) \in Seq(Mark) /\ Len(Append(d, new)) = n + 1
  BY <1>1, <1>3, AppendProperties
<1>5. queue \in Seq(Mark) /\ Len(queue) \in {n, n + 1}
  BY <1>2, <1>4
<1>6. mark_done(d, id) = IF Len(queue) > DoneMax THEN Tail(queue) ELSE queue
  BY DEF mark_done, again, new
<1> HIDE DEF queue
<1>7. CASE Len(queue) > DoneMax
  <2>1. queue # <<>>
    BY <1>7, EmptySeq, DoneMaxNat
  <2>2. Tail(queue) \in Seq(Mark) /\ Len(Tail(queue)) = Len(queue) - 1
    BY <1>5, <2>1, HeadTailProperties
  <2>3. Len(Tail(queue)) <= DoneMax
    <3> DEFINE q == Len(queue)
               p == Len(Tail(queue))
    <3>1. q \in {n, n + 1} /\ p = q - 1 /\ n \in Nat /\ n <= DoneMax /\ DoneMax \in Nat
      BY <1>1, <1>5, <2>2, DoneMaxNat
    <3> HIDE DEF n, p, q
    <3>2. p <= DoneMax
      BY <3>1
    <3>. QED
      BY <3>2 DEF p
  <2>. QED
    BY <1>6, <1>7, <2>2, <2>3 DEF Marks
<1>8. CASE ~(Len(queue) > DoneMax)
  <2>1. Len(queue) <= DoneMax
    BY <1>1, <1>5, <1>8, DoneMaxNat
  <2>. QED
    BY <1>5, <1>6, <1>8, <2>1 DEF Marks
<1>. QED
  BY <1>7, <1>8

\* The list that marks the m ids from e on, one after the other.
IsMarked(d, e, m, f) ==
  f = [j \in 0 .. m |-> IF j = 0 THEN d
                        ELSE mark_done(f[j - 1], wire_block_id(e + j - 1))]

\* It can be built.
LEMMA MarkedExists ==
  ASSUME NEW d, NEW e, NEW m \in Nat
  PROVE  \E f : IsMarked(d, e, m, f)
<1> DEFINE T == {l \in Nat : ~(\E f : IsMarked(d, e, l, f))}
<1> SUFFICES ASSUME T # {} PROVE FALSE
  OBVIOUS
<1>1. PICK l \in T : \A k \in T : l <= k
  <2>1. T \in SUBSET Nat
    OBVIOUS
  <2> HIDE DEF T
  <2>. QED
    BY <2>1, NatMin
<1>2. l \in Nat /\ ~(\E f : IsMarked(d, e, l, f))
  OBVIOUS
<1>3. l # 0
  <2> SUFFICES ASSUME l = 0 PROVE FALSE
    OBVIOUS
  <2> DEFINE f == [j \in 0 .. 0 |-> d]
  <2>1. f = [j \in 0 .. 0 |-> IF j = 0 THEN d
                              ELSE mark_done(f[j - 1], wire_block_id(e + j - 1))]
    OBVIOUS
  <2> HIDE DEF f
  <2>. QED
    BY <1>2, <2>1 DEF IsMarked
<1>4. l - 1 \in Nat /\ l - 1 \notin T
  <2> HIDE DEF T
  <2>. QED
    BY <1>1, <1>2, <1>3
<1>5. PICK f : IsMarked(d, e, l - 1, f)
  BY <1>4
<1> DEFINE g == [j \in 0 .. l |-> IF j = l THEN mark_done(f[l - 1], wire_block_id(e + l - 1))
                                  ELSE f[j]]
<1>6. \A j \in 0 .. l : g[j] = IF j = 0 THEN d
                               ELSE mark_done(g[j - 1], wire_block_id(e + j - 1))
  <2> TAKE j \in 0 .. l
  <2>1. CASE j = l
    <3>1. l - 1 \in 0 .. l /\ l - 1 # l
      BY <1>2, <1>3
    <3>2. g[l - 1] = f[l - 1]
      BY <3>1
    <3>. QED
      BY <1>3, <2>1, <3>2
  <2>2. CASE j # l /\ j = 0
    <3>1. 0 \in 0 .. l - 1 /\ g[j] = f[0]
      BY <1>2, <1>3, <2>2
    <3>2. f[0] = d
      BY <1>5, <3>1, Zenon DEF IsMarked
    <3>. QED
      BY <2>2, <3>1, <3>2
  <2>3. CASE j # l /\ j # 0
    <3>1. j \in 0 .. l - 1 /\ j - 1 \in 0 .. l /\ j - 1 # l /\ g[j] = f[j]
      BY <1>2, <2>3
    <3>2. g[j - 1] = f[j - 1]
      BY <3>1
    <3>3. f[j] = mark_done(f[j - 1], wire_block_id(e + j - 1))
      BY <1>5, <2>3, <3>1, Zenon DEF IsMarked
    <3>. QED
      BY <2>3, <3>1, <3>2, <3>3
  <2>. QED
    BY <2>1, <2>2, <2>3
<1>7. g = [j \in 0 .. l |-> g[j]]
  OBVIOUS
<1> HIDE DEF g
<1>8. g = [j \in 0 .. l |-> IF j = 0 THEN d
                            ELSE mark_done(g[j - 1], wire_block_id(e + j - 1))]
  BY <1>6, <1>7
<1>. QED
  BY <1>2, <1>8 DEF IsMarked

\* Passing the head keeps done_order a list of marks.
LEMMA PassHeadMarks ==
  ASSUME NEW s, NEW m \in Nat, DOMAIN s = Fields, s.done \in Marks, s.emit_next \in BlockId
  PROVE  PassHead(s, m).done \in Marks
<1> DEFINE d == s.done
           e == s.emit_next
           f == CHOOSE h : IsMarked(d, e, m, h)
           T == {j \in 0 .. m : f[j] \notin Marks}
<1>1. IsMarked(d, e, m, f)
  BY MarkedExists
<1>2. PassHead(s, m).done = f[m]
  BY DEF PassHead, IsMarked, Fields
<1> HIDE DEF f, d
<1>3. /\ f[0] = d
      /\ \A j \in 1 .. m : f[j] = mark_done(f[j - 1], wire_block_id(e + j - 1))
  <2>1. 0 \in 0 .. m /\ \A j \in 1 .. m : j \in 0 .. m /\ j # 0
    OBVIOUS
  <2>. QED
    BY <1>1, <2>1, Zenon DEF IsMarked
<1>4. T = {}
  <2> SUFFICES ASSUME T # {} PROVE FALSE
    OBVIOUS
  <2>1. PICK j \in T : \A k \in T : j <= k
    <3>1. T \in SUBSET Nat
      OBVIOUS
    <3> HIDE DEF T
    <3>. QED
      BY <3>1, NatMin
  <2>2. j \in 0 .. m /\ f[j] \notin Marks
    OBVIOUS
  <2>3. j # 0
    BY <1>3, <2>2 DEF d
  <2>4. j \in 1 .. m /\ j - 1 \in 0 .. m /\ j - 1 \notin T
    <3> HIDE DEF T
    <3>. QED
      BY <2>1, <2>2, <2>3
  <2>5. f[j - 1] \in Marks
    BY <2>4
  <2>6. wire_block_id(e + j - 1) \in BlockId
    <3>1. e + j - 1 \in Nat
      BY <2>4, RingAssumption DEF BlockId
    <3>. QED
      BY <3>1, WireId
  <2>7. f[j] = mark_done(f[j - 1], wire_block_id(e + j - 1))
    BY <1>3, <2>4
  <2>. QED
    BY <2>2, <2>5, <2>6, <2>7, MarkDoneOK
<1>. QED
  BY <1>2, <1>4

\* The list that keeps, of the marks up to each place, those not of a set.
IsKept(d, ids, n, f) ==
  f = [j \in 0 .. n |-> IF j = 0 THEN <<>>
                        ELSE IF d[j].id \in ids THEN f[j - 1] ELSE Append(f[j - 1], d[j])]

\* It can be built.
LEMMA KeptExists ==
  ASSUME NEW d, NEW ids, NEW m \in Nat
  PROVE  \E f : IsKept(d, ids, m, f)
<1> DEFINE T == {l \in Nat : ~(\E f : IsKept(d, ids, l, f))}
<1> SUFFICES ASSUME T # {} PROVE FALSE
  OBVIOUS
<1>1. PICK l \in T : \A k \in T : l <= k
  <2>1. T \in SUBSET Nat
    OBVIOUS
  <2> HIDE DEF T
  <2>. QED
    BY <2>1, NatMin
<1>2. l \in Nat /\ ~(\E f : IsKept(d, ids, l, f))
  OBVIOUS
<1>3. l # 0
  <2> SUFFICES ASSUME l = 0 PROVE FALSE
    OBVIOUS
  <2> DEFINE f == [j \in 0 .. 0 |-> <<>>]
  <2>1. f = [j \in 0 .. 0 |-> IF j = 0 THEN <<>>
                              ELSE IF d[j].id \in ids THEN f[j - 1] ELSE Append(f[j - 1], d[j])]
    OBVIOUS
  <2> HIDE DEF f
  <2>. QED
    BY <1>2, <2>1 DEF IsKept
<1>4. l - 1 \in Nat /\ l - 1 \notin T
  <2> HIDE DEF T
  <2>. QED
    BY <1>1, <1>2, <1>3
<1>5. PICK f : IsKept(d, ids, l - 1, f)
  BY <1>4
<1> DEFINE g == [j \in 0 .. l |-> IF j = l
                                  THEN IF d[l].id \in ids THEN f[l - 1] ELSE Append(f[l - 1], d[l])
                                  ELSE f[j]]
<1>6. \A j \in 0 .. l : g[j] = IF j = 0 THEN <<>>
                               ELSE IF d[j].id \in ids THEN g[j - 1] ELSE Append(g[j - 1], d[j])
  <2> TAKE j \in 0 .. l
  <2>1. CASE j = l
    <3>1. l - 1 \in 0 .. l /\ l - 1 # l
      BY <1>2, <1>3
    <3>2. g[l - 1] = f[l - 1]
      BY <3>1
    <3>. QED
      BY <1>3, <2>1, <3>2
  <2>2. CASE j # l /\ j = 0
    <3>1. 0 \in 0 .. l - 1 /\ g[j] = f[0]
      BY <1>2, <1>3, <2>2
    <3>2. f[0] = <<>>
      BY <1>5, <3>1, Zenon DEF IsKept
    <3>. QED
      BY <2>2, <3>1, <3>2
  <2>3. CASE j # l /\ j # 0
    <3>1. j \in 0 .. l - 1 /\ j - 1 \in 0 .. l /\ j - 1 # l /\ g[j] = f[j]
      BY <1>2, <2>3
    <3>2. g[j - 1] = f[j - 1]
      BY <3>1
    <3>3. f[j] = IF d[j].id \in ids THEN f[j - 1] ELSE Append(f[j - 1], d[j])
      BY <1>5, <2>3, <3>1, Zenon DEF IsKept
    <3>. QED
      BY <2>3, <3>1, <3>2, <3>3
  <2>. QED
    BY <2>1, <2>2, <2>3
<1>7. g = [j \in 0 .. l |-> g[j]]
  OBVIOUS
<1> HIDE DEF g
<1>8. g = [j \in 0 .. l |-> IF j = 0 THEN <<>>
                            ELSE IF d[j].id \in ids THEN g[j - 1] ELSE Append(g[j - 1], d[j])]
  BY <1>6, <1>7
<1>. QED
  BY <1>2, <1>8 DEF IsKept

\* Erasing ids from done_order leaves a list of marks, no longer than before.
LEMMA ForgetOK ==
  ASSUME NEW d \in Marks, NEW ids
  PROVE  forget(d, ids) \in Marks
<1> DEFINE n == Len(d)
           f == CHOOSE h : IsKept(d, ids, n, h)
           T == {j \in 0 .. n : ~(f[j] \in Seq(Mark) /\ Len(f[j]) <= j)}
<1>1. d \in Seq(Mark) /\ n \in Nat /\ n <= DoneMax /\ \A j \in 1 .. n : d[j] \in Mark
  BY ElementOfSeq, LenProperties DEF Marks
<1>2. IsKept(d, ids, n, f)
  <2> HIDE DEF n
  <2>. QED
    BY <1>1, KeptExists
<1>3. forget(d, ids) = f[n]
  BY DEF forget, IsKept
<1> HIDE DEF f, n
<1>4. /\ f[0] = <<>>
      /\ \A j \in 1 .. n : f[j] = IF d[j].id \in ids THEN f[j - 1] ELSE Append(f[j - 1], d[j])
  <2>1. 0 \in 0 .. n /\ \A j \in 1 .. n : j \in 0 .. n /\ j # 0
    BY <1>1
  <2>. QED
    BY <1>2, <2>1, Zenon DEF IsKept
<1>5. T = {}
  <2> SUFFICES ASSUME T # {} PROVE FALSE
    OBVIOUS
  <2>1. PICK j \in T : \A k \in T : j <= k
    <3>1. T \in SUBSET Nat
      OBVIOUS
    <3> HIDE DEF T
    <3>. QED
      BY <3>1, NatMin
  <2>2. j \in 0 .. n /\ ~(f[j] \in Seq(Mark) /\ Len(f[j]) <= j)
    OBVIOUS
  <2>3. j # 0
    <3>1. f[0] \in Seq(Mark) /\ Len(f[0]) <= 0
      BY <1>4, EmptySeq
    <3>. QED
      BY <2>2, <3>1
  <2>4. j \in 1 .. n /\ j - 1 \in 0 .. n /\ j - 1 \notin T
    <3> HIDE DEF T
    <3>. QED
      BY <1>1, <2>1, <2>2, <2>3
  <2>5. f[j - 1] \in Seq(Mark) /\ Len(f[j - 1]) <= j - 1
    BY <2>4
  <2>6. d[j] \in Mark
    BY <1>1, <2>4
  <2>7. /\ Append(f[j - 1], d[j]) \in Seq(Mark)
        /\ Len(Append(f[j - 1], d[j])) = Len(f[j - 1]) + 1
        /\ Len(f[j - 1]) \in Nat
    BY <2>5, <2>6, AppendProperties, LenProperties
  <2>8. f[j] = IF d[j].id \in ids THEN f[j - 1] ELSE Append(f[j - 1], d[j])
    BY <1>4, <2>4
  <2>9. f[j] \in Seq(Mark) /\ Len(f[j]) <= j
    <3>1. CASE d[j].id \in ids
      BY <2>2, <2>5, <2>7, <2>8, <3>1
    <3>2. CASE d[j].id \notin ids
      BY <2>2, <2>5, <2>7, <2>8, <3>2
    <3>. QED
      BY <3>1, <3>2
  <2>. QED
    BY <2>2, <2>9
<1>6. n \in 0 .. n
  BY <1>1
<1>7. f[n] \in Seq(Mark) /\ Len(f[n]) <= n
  BY <1>5, <1>6
<1>8. Len(f[n]) <= DoneMax
  <2>1. Len(f[n]) \in Nat
    BY <1>7, LenProperties
  <2>. QED
    BY <1>1, <1>7, <2>1, DoneMaxNat
<1>. QED
  BY <1>3, <1>7, <1>8 DEF Marks

------------------------------------------------------------------------------

\* emit_payloads and the bookkeeping of a call touch none of the ranges.
LEMMA SameRangeOK ==
  ASSUME NEW s, NEW t, InRange(s), SameRange(s, t)
  PROVE  InRange(t)
BY DEF InRange, SameRange

LEMMA EmitRange ==
  ASSUME NEW s, NEW p, DOMAIN s = Fields
  PROVE  SameRange(s, emit_payloads(s, p))
BY DEF SameRange, emit_payloads, Fields

\* Passing the head changes done_order alone.
LEMMA PassHeadRange ==
  ASSUME NEW s, NEW m \in Nat, DOMAIN s = Fields, s.emit_next \in BlockId, InRange(s)
  PROVE  InRange(PassHead(s, m))
<1> DEFINE p == PassHead(s, m)
<1>1. /\ p.newest = s.newest /\ p.later_block_since = s.later_block_since
      /\ p.rx_blocks = s.rx_blocks
  BY DEF PassHead, Fields
<1>2. p.done \in Marks
  BY PassHeadMarks DEF InRange
<1> HIDE DEF p
<1>. QED
  BY <1>1, <1>2 DEF InRange, p

\* Streaming stops within the block.
LEMMA StreamRange ==
  ASSUME NEW s, NEW id \in DOMAIN s.rx_blocks, DOMAIN s = Fields, InRange(s)
  PROVE  InRange(try_stream_head_systematic(s, id))
<1> DEFINE blk  == s.rx_blocks[id]
           R(r) == /\ \A i \in blk.released .. r - 1 : i \in DOMAIN blk.frags
                   /\ r = blk.sdu \/ r \notin DOMAIN blk.frags
           stop == CHOOSE r \in blk.released .. blk.sdu : R(r)
           pkts == [j \in 1 .. stop - blk.released |->
                      <<blk.frags[blk.released + j - 1], blk.released + j - 1>>]
           e    == emit_payloads(s, pkts)
           t    == try_stream_head_systematic(s, id)
<1>1. BlockOK(blk)
  BY DEF InRange
<1>2. t = [e EXCEPT !.rx_blocks[id].released = stop]
  BY DEF try_stream_head_systematic
<1>3. stop \in blk.released .. blk.sdu
  <2>1. blk.sdu \in Nat /\ blk.released \in 0 .. blk.sdu
    BY <1>1 DEF BlockOK
  <2> HIDE DEF blk
  <2>2. \E x \in blk.released .. blk.sdu : R(x)
    BY <2>1, StopExists
  <2>. QED
    BY <2>2
<1> HIDE DEF stop, pkts, t
<1>4. /\ DOMAIN e = Fields
      /\ e.newest = s.newest /\ e.later_block_since = s.later_block_since
      /\ e.done = s.done /\ e.rx_blocks = s.rx_blocks
  BY EmitKeeps, EmitRange DEF SameQueue, SameRange
<1> HIDE DEF e
<1>5. /\ t.newest = s.newest /\ t.later_block_since = s.later_block_since
      /\ t.done = s.done
      /\ t.rx_blocks = [s.rx_blocks EXCEPT ![id] = [@ EXCEPT !.released = stop]]
  BY <1>2, <1>4 DEF Fields
<1>6. /\ DOMAIN t.rx_blocks = DOMAIN s.rx_blocks
      /\ \A c \in DOMAIN s.rx_blocks : c # id => t.rx_blocks[c] = s.rx_blocks[c]
      /\ t.rx_blocks[id] = [blk EXCEPT !.released = stop]
  BY <1>5
<1> HIDE DEF blk
<1>7. BlockOK(t.rx_blocks[id])
  BY <1>1, <1>3, <1>6 DEF BlockOK, BlockFields
<1>. QED
  BY <1>5, <1>6, <1>7 DEF InRange, t

\* A drain only passes ids and streams.
LEMMA DrainRange ==
  ASSUME NEW s, RxOK(s)
  PROVE  InRange(DrainHead(s))
<1> DEFINE m    == RunLength(DOMAIN s.ready_blocks, s.emit_next)
           ids  == [j \in 1 .. m |-> wire_block_id(s.emit_next + j - 1)]
           pkts == FlattenSeq([j \in 1 .. m |-> Decoded(s.ready_blocks[ids[j]])])
           e    == emit_payloads(s, pkts)
           u    == PassHead(e, m)
           gone == {ids[j] : j \in 1 .. m}
           t    == [u EXCEPT !.ready_blocks = Without(@, gone)]
<1>1. m \in Nat /\ DOMAIN s = Fields /\ s.emit_next \in BlockId /\ InRange(s)
  BY RunLengthOK, RingAssumption DEF RxOK, QueueOK
<1> HIDE DEF m, pkts, gone
<1>2. DOMAIN e = Fields /\ e.emit_next \in BlockId /\ InRange(e)
  BY <1>1, EmitKeeps, EmitRange, SameRangeOK DEF SameQueue
<1> HIDE DEF e
<1>3. DOMAIN u = Fields /\ InRange(u)
  BY <1>1, <1>2, PassHeadKeeps, PassHeadRange
<1> HIDE DEF u
<1>4. DOMAIN t = Fields /\ SameRange(u, t)
  BY <1>3 DEF Fields, SameRange
<1> HIDE DEF t
<1>5. InRange(t)
  BY <1>3, <1>4, SameRangeOK
<1>6. DrainHead(s) = IF t.emit_next \in DOMAIN t.rx_blocks
                     THEN try_stream_head_systematic(t, t.emit_next) ELSE t
  BY DEF DrainHead, t, u, e, m, pkts, gone
<1>7. CASE t.emit_next \in DOMAIN t.rx_blocks
  BY <1>4, <1>5, <1>6, <1>7, StreamRange
<1>8. CASE t.emit_next \notin DOMAIN t.rx_blocks
  BY <1>5, <1>6, <1>8
<1>. QED
  BY <1>7, <1>8

\* Giving up a block passes at most the head, and ends the hold.
LEMMA AbandonRange ==
  ASSUME NEW s, NEW blk, NEW id, DOMAIN s = Fields, s.emit_next \in BlockId, InRange(s)
  PROVE  InRange(abandon_partial_block(s, blk, id))
<1> DEFINE e == emit_payloads(s, Systematic(blk, blk.released))
           t == [e EXCEPT !.lost = @ \cup Missing(blk)]
           p == PassHead(t, 1)
           h == [p EXCEPT !.later_block_since = Never]
<1>1. abandon_partial_block(s, blk, id) = IF id = s.emit_next THEN h ELSE t
  BY DEF abandon_partial_block
<1>2. DOMAIN e = Fields /\ e.emit_next = s.emit_next /\ SameRange(s, e)
  BY EmitKeeps, EmitRange DEF SameQueue
<1> HIDE DEF e
<1>3. DOMAIN t = Fields /\ t.emit_next = s.emit_next /\ SameRange(s, t)
  BY <1>2 DEF Fields, SameRange
<1> HIDE DEF t
<1>4. InRange(t)
  BY <1>3, SameRangeOK
<1>5. DOMAIN p = Fields /\ InRange(p)
  BY <1>3, <1>4, PassHeadKeeps, PassHeadRange
<1> HIDE DEF p
<1>6. /\ h.newest = p.newest /\ h.later_block_since = Never
      /\ h.done = p.done /\ h.rx_blocks = p.rx_blocks
  BY <1>5 DEF Fields
<1> HIDE DEF h
<1>7. InRange(h)
  BY <1>5, <1>6 DEF InRange
<1>. QED
  BY <1>1, <1>4, <1>7

\* Erasing blocks leaves the others as they are.
LEMMA EraseRange ==
  ASSUME NEW s, NEW S, DOMAIN s = Fields, InRange(s)
  PROVE  InRange([s EXCEPT !.rx_blocks = Without(@, S)])
<1> DEFINE t == [s EXCEPT !.rx_blocks = Without(@, S)]
<1>1. /\ t.newest = s.newest /\ t.later_block_since = s.later_block_since
      /\ t.done = s.done /\ t.rx_blocks = Without(s.rx_blocks, S)
  BY DEF Fields
<1> HIDE DEF t
<1>2. \A b \in DOMAIN t.rx_blocks : b \in DOMAIN s.rx_blocks /\ t.rx_blocks[b] = s.rx_blocks[b]
  BY <1>1 DEF Without
<1>3. InRange(t)
  BY <1>1, <1>2 DEF InRange
<1>. QED
  BY <1>3 DEF t

\* Giving up the head, or stepping over a hole.
LEMMA GiveUpRange ==
  ASSUME NEW s, RxOK(s)
  PROVE  InRange(maybe_give_up_head(s))
<1> DEFINE e == s.emit_next
           f == IF ReadyAheadOf(s) # {} THEN NearestReady(s) ELSE wire_block_id(e + 1)
           t == [s EXCEPT !.emit_next = f, !.later_block_since = Never]
           u == [s EXCEPT !.rx_blocks = Without(@, {e})]
<1>1. DOMAIN s = Fields /\ e \in BlockId /\ InRange(s)
  BY DEF RxOK, QueueOK
<1>2. InRange(abandon_partial_block(u, s.rx_blocks[e], e))
  <2>1. DOMAIN u = Fields /\ u.emit_next = e
    BY <1>1 DEF Fields
  <2>2. InRange(u)
    BY <1>1, EraseRange
  <2> HIDE DEF u
  <2>. QED
    BY <1>1, <2>1, <2>2, AbandonRange
<1>3. InRange(t)
  <2>1. /\ t.newest = s.newest /\ t.later_block_since = Never
        /\ t.done = s.done /\ t.rx_blocks = s.rx_blocks
    BY <1>1 DEF Fields
  <2> HIDE DEF t
  <2>. QED
    BY <1>1, <2>1 DEF InRange
<1>4. maybe_give_up_head(s) \in {abandon_partial_block(u, s.rx_blocks[e], e), t, s}
  BY DEF maybe_give_up_head
<1> HIDE DEF t, u
<1>. QED
  BY <1>1, <1>2, <1>3, <1>4

\* The emit engine.
LEMMA EngineRange ==
  ASSUME NEW s, RxOK(s)
  PROVE  RxOK(run_emit_engine(s))
<1> DEFINE d == DrainHead(s)
           g == maybe_give_up_head(d)
<1>1. Rested(d) /\ InRange(d)
  BY DrainHeadOK, DrainRange DEF RxOK
<1> HIDE DEF d
<1>2. QueueOK(g) /\ InRange(g)
  BY <1>1, GiveUpOK, GiveUpRange DEF RxOK, Rested
<1> HIDE DEF g
<1>3. QueueOK(DrainHead(g)) /\ InRange(DrainHead(g))
  BY <1>2, DrainHeadOK, DrainRange DEF RxOK, Rested
<1>. QED
  BY <1>3 DEF run_emit_engine, RxOK, d, g

\* Giving up several blocks at once.
LEMMA AbandonAllRange ==
  ASSUME NEW s, NEW S, DOMAIN s = Fields, s.emit_next \in BlockId, InRange(s),
         NEW t \in AbandonAll(s, S)
  PROVE  InRange(t)
<1> DEFINE pk(o)   == FlattenSeq([j \in 1 .. Len(o) |->
                        LET blk == s.rx_blocks[o[j]] IN Systematic(blk, blk.released)])
           em(o)   == [emit_payloads(s, pk(o))
                        EXCEPT !.rx_blocks = Without(@, S),
                               !.lost = @ \cup UNION {Missing(s.rx_blocks[b]) : b \in S}]
           wk(o, m) == IF m = 0 THEN em(o)
                       ELSE [PassHead(em(o), m) EXCEPT !.later_block_since = Never]
<1>1. PICK o \in SetToSeqs(S), m \in 0 .. RingMod :
        HeadRun(o, s.emit_next, m) /\ t = wk(o, m)
  BY DEF AbandonAll
<1> DEFINE a == emit_payloads(s, pk(o))
           c == em(o)
<1>2. DOMAIN a = Fields /\ a.emit_next = s.emit_next /\ SameRange(s, a)
  <2> HIDE DEF pk
  <2>. QED
    BY EmitKeeps, EmitRange DEF SameQueue
<1>3. c = [a EXCEPT !.rx_blocks = Without(@, S),
                    !.lost = @ \cup UNION {Missing(s.rx_blocks[b]) : b \in S}]
  OBVIOUS
<1>4. t = IF m = 0 THEN c ELSE [PassHead(c, m) EXCEPT !.later_block_since = Never]
  BY <1>1
<1> HIDE DEF a, c, em, wk
<1>5. /\ DOMAIN c = Fields /\ c.emit_next = s.emit_next
      /\ c.newest = s.newest /\ c.later_block_since = s.later_block_since
      /\ c.done = s.done /\ c.rx_blocks = Without(s.rx_blocks, S)
  BY <1>2, <1>3 DEF Fields, SameRange
<1>6. \A b \in DOMAIN c.rx_blocks : b \in DOMAIN s.rx_blocks /\ c.rx_blocks[b] = s.rx_blocks[b]
  BY <1>5 DEF Without
<1>7. InRange(c)
  BY <1>5, <1>6 DEF InRange
<1> DEFINE p == PassHead(c, m)
           h == [p EXCEPT !.later_block_since = Never]
<1>8. DOMAIN p = Fields /\ InRange(p)
  <2>1. m \in Nat
    OBVIOUS
  <2>. QED
    BY <1>5, <1>7, <2>1, PassHeadKeeps, PassHeadRange
<1> HIDE DEF p
<1>9. /\ h.newest = p.newest /\ h.later_block_since = Never
      /\ h.done = p.done /\ h.rx_blocks = p.rx_blocks
  BY <1>8 DEF Fields
<1>10. InRange(h)
  <2> HIDE DEF h
  <2>. QED
    BY <1>8, <1>9 DEF InRange
<1>. QED
  BY <1>4, <1>7, <1>10 DEF p

\* expire_done takes marks from the front.
LEMMA ExpireDoneRange ==
  ASSUME NEW s, DOMAIN s = Fields, InRange(s)
  PROVE  InRange(expire_done(s))
<1> DEFINE d        == s.done
           n        == Len(s.done)
           stays(j) == s.done[j].age <= DoneHold
           first    == CHOOSE j \in 1 .. Len(s.done) + 1 :
                         /\ \A i \in 1 .. j - 1 : ~stays(i)
                         /\ j > Len(s.done) \/ stays(j)
           t        == [s EXCEPT !.done = SubSeq(@, first, Len(@))]
<1>1. d \in Seq(Mark) /\ n \in Nat /\ n <= DoneMax
  BY LenProperties DEF InRange, Marks
<1>2. first \in 1 .. n + 1
  <2> DEFINE T == {j \in 1 .. n + 1 : j > n \/ stays(j)}
  <2>1. n + 1 \in T /\ T \in SUBSET Nat
    BY <1>1
  <2>2. PICK j \in T : \A i \in T : j <= i
    <3> HIDE DEF T
    <3>. QED
      BY <2>1, NatMin
  <2>3. j \in 1 .. n + 1 /\ (j > n \/ stays(j))
    OBVIOUS
  <2>4. \A i \in 1 .. j - 1 : ~stays(i)
    <3> SUFFICES ASSUME NEW i \in 1 .. j - 1, stays(i) PROVE FALSE
      OBVIOUS
    <3> HIDE DEF stays, n
    <3>1. i \in T
      BY <1>1, <2>3
    <3> HIDE DEF T
    <3>. QED
      BY <1>1, <2>2, <2>3, <3>1
  <2>5. \E i \in 1 .. n + 1 : /\ \A l \in 1 .. i - 1 : ~stays(l)
                              /\ i > n \/ stays(i)
    BY <2>3, <2>4
  <2> HIDE DEF stays
  <2>. QED
    BY <2>5
<1>3. expire_done(s) = t
  BY DEF expire_done
<1> HIDE DEF first
<1> DEFINE q == SubSeq(d, first, n)
<1>4. q \in Marks
  <2> HIDE DEF n, d
  <2>1. n = Len(d)
    BY DEF n, d
  <2>2. \A i \in first .. n : i \in 1 .. Len(d)
    BY <1>1, <1>2, <2>1
  <2>3. q \in Seq(Mark) /\ Len(q) = IF first <= n THEN n - first + 1 ELSE 0
    BY <1>1, <1>2, <2>2, SubSeqProperties
  <2>4. Len(q) <= DoneMax
    BY <1>1, <1>2, <2>3, DoneMaxNat
  <2>. QED
    BY <2>3, <2>4 DEF Marks
<1>5. /\ t.newest = s.newest /\ t.later_block_since = s.later_block_since
      /\ t.done = q /\ t.rx_blocks = s.rx_blocks
  BY DEF Fields
<1> HIDE DEF t, q
<1>6. InRange(t)
  BY <1>4, <1>5 DEF InRange
<1>. QED
  BY <1>3, <1>6

\* The end of every call.
LEMMA CallEndsRange ==
  ASSUME NEW s, RxOK(s), NEW t \in ExpireThenEmit(s)
  PROVE  RxOK(t)
<1>1. PICK u \in expire_rx(s) : t = run_emit_engine(u)
  BY DEF ExpireThenEmit
<1> DEFINE d   == expire_done(s)
           old == {b \in DOMAIN d.rx_blocks : d.rx_blocks[b].last_seen > RxHold}
<1>2. SameQueue(s, d) /\ InRange(d)
  <2>1. SameQueue(s, d)
    BY DEF expire_done, SameQueue, RxOK, QueueOK, Fields
  <2> HIDE DEF d
  <2>. QED
    BY <2>1, ExpireDoneRange DEF d, RxOK, QueueOK
<1>3. u \in AbandonAll(d, old)
  BY <1>1 DEF expire_rx
<1>4. QueueOK(d)
  BY <1>2, SameQueueOK DEF RxOK
<1> HIDE DEF d
<1>5. old \subseteq DOMAIN d.rx_blocks
  OBVIOUS
<1> HIDE DEF old
<1>6. QueueOK(u)
  BY <1>3, <1>4, <1>5, AbandonAllOK
<1>7. InRange(u)
  BY <1>2, <1>3, <1>4, AbandonAllRange DEF QueueOK
<1>. QED
  BY <1>1, <1>6, <1>7, EngineRange DEF RxOK

------------------------------------------------------------------------------

\* Emptying the results of the last call.
LEMMA ClearResultsRange ==
  ASSUME NEW s, RxOK(s)
  PROVE  RxOK(ClearResults(s))
<1>1. SameRange(s, ClearResults(s))
  BY DEF ClearResults, SameRange, RxOK, QueueOK, Fields
<1>. QED
  BY <1>1, SameRangeOK, ClearResultsOK DEF RxOK

\* What push_air does before it looks at the shard's block: the base, the
\* rebase after a silence, the newest id, and the resync on a late shard.
LEMMA BaseRange ==
  ASSUME NEW s, NEW id \in BlockId, RxOK(s)
  PROVE  InRange(note_emit_base(s, id))
<1> DEFINE t == [s EXCEPT !.emit_base_set = TRUE, !.emit_next = id, !.newest = id]
<1>1. /\ t.newest = id /\ t.later_block_since = s.later_block_since
      /\ t.done = s.done /\ t.rx_blocks = s.rx_blocks
  BY DEF RxOK, QueueOK, Fields
<1>2. note_emit_base(s, id) \in {s, t}
  BY DEF note_emit_base
<1> HIDE DEF t
<1>. QED
  BY <1>1, <1>2 DEF RxOK, InRange

LEMMA RebaseRange ==
  ASSUME NEW s, NEW id \in BlockId, RxOK(s)
  PROVE  InRange(maybe_rebase_after_silence(s, id))
<1> DEFINE t == [s EXCEPT !.last_shard_rx = 0]
           u == [t EXCEPT !.rx_blocks = EmptyMap, !.ready_blocks = EmptyMap,
                          !.done = <<>>, !.emit_next = id, !.newest = id,
                          !.later_block_since = Never]
<1>1. DOMAIN t = Fields /\ SameRange(s, t)
  BY DEF SameRange, RxOK, QueueOK, Fields
<1>2. maybe_rebase_after_silence(s, id) \in {t, u}
  BY DEF maybe_rebase_after_silence
<1> HIDE DEF t
<1>3. /\ u.newest = id /\ u.later_block_since = Never
      /\ u.done = <<>> /\ DOMAIN u.rx_blocks = {}
  BY <1>1 DEF Fields, EmptyMap
<1> HIDE DEF u
<1>4. InRange(u)
  BY <1>3, NoMarks DEF InRange
<1>5. InRange(t)
  BY <1>1, SameRangeOK DEF RxOK
<1>. QED
  BY <1>2, <1>4, <1>5

LEMMA TouchRange ==
  ASSUME NEW s, NEW id \in BlockId, RxOK(s)
  PROVE  InRange(touch_newest(s, id))
<1> DEFINE t == [s EXCEPT !.newest = id]
<1>1. /\ t.newest = id /\ t.later_block_since = s.later_block_since
      /\ t.done = s.done /\ t.rx_blocks = s.rx_blocks
  BY DEF RxOK, QueueOK, Fields
<1>2. touch_newest(s, id) \in {s, t}
  BY DEF touch_newest
<1> HIDE DEF t
<1>. QED
  BY <1>1, <1>2 DEF RxOK, InRange

LEMMA ResyncRange ==
  ASSUME NEW s, NEW id \in BlockId, RxOK(s)
  PROVE  InRange(maybe_resync_on_late_shard(s, id))
<1> DEFINE Behind(S) == {b \in S : ring_dist(b, id) < 0}
           gone == Behind(DOMAIN s.rx_blocks)
           c    == clear_state_behind(s, id)
           t    == [c EXCEPT !.emit_next = id, !.later_block_since = Never]
           ids  == Behind(BlockId)
           q    == forget(s.done, ids)
<1>1. q \in Marks
  <2> HIDE DEF ids
  <2>. QED
    BY ForgetOK DEF RxOK, InRange
<1>2. c = [s EXCEPT !.rx_blocks = Without(@, gone),
                    !.ready_blocks = Without(@, Behind(DOMAIN @)),
                    !.done = q]
  BY DEF clear_state_behind, RxOK, QueueOK, Fields
<1>3. maybe_resync_on_late_shard(s, id) \in {s, t}
  BY DEF maybe_resync_on_late_shard
<1> HIDE DEF c, q, gone
<1>4. /\ DOMAIN c = Fields
      /\ c.newest = s.newest
      /\ c.done = q /\ c.rx_blocks = Without(s.rx_blocks, gone)
  BY <1>2 DEF RxOK, QueueOK, Fields
<1>5. /\ t.newest = s.newest /\ t.later_block_since = Never
      /\ t.done = q /\ t.rx_blocks = Without(s.rx_blocks, gone)
  BY <1>4 DEF Fields
<1> HIDE DEF t
<1>6. \A b \in DOMAIN t.rx_blocks : b \in DOMAIN s.rx_blocks /\ t.rx_blocks[b] = s.rx_blocks[b]
  BY <1>5 DEF Without
<1>7. InRange(t)
  BY <1>1, <1>5, <1>6 DEF RxOK, InRange
<1>. QED
  BY <1>3, <1>7 DEF RxOK

\* All of it, and the eviction of what is far behind the newest id.
LEMMA BeforeTakeRange ==
  ASSUME NEW s, NEW sh, sh.id \in BlockId, RxOK(s), NEW t \in BeforeTake(s, sh)
  PROVE  RxOK(t) /\ t.emit_base_set
<1> DEFINE r == ClearResults(s)
           a == note_emit_base(r, sh.id)
           b == maybe_rebase_after_silence(a, sh.id)
           c == touch_newest(b, sh.id)
           d == maybe_resync_on_late_shard(c, sh.id)
<1>0. RxOK(r)
  BY ClearResultsRange
<1> HIDE DEF r
<1>1. RxOK(a) /\ a.emit_base_set
  BY <1>0, BaseOK, BaseRange DEF RxOK
<1> HIDE DEF a
<1>2. RxOK(b) /\ b.emit_base_set
  BY <1>1, RebaseOK, RebaseRange DEF RxOK
<1> HIDE DEF b
<1>3. RxOK(c) /\ c.emit_base_set
  BY <1>2, TouchOK, TouchRange DEF RxOK
<1> HIDE DEF c
<1>4. RxOK(d)
  BY <1>3, ResyncOK, ResyncRange DEF RxOK
<1>5. t \in ring_evict_stale(d)
  BY DEF BeforeTake, r, a, b, c
<1> HIDE DEF d
<1> DEFINE Stale(S) == {i \in S : ring_dist(i, d.newest) < -EvictDist}
           old  == Stale(DOMAIN d.rx_blocks)
           ids  == Stale(BlockId)
<1>6. PICK v \in AbandonAll(d, old) : t = [v EXCEPT !.done = forget(@, ids)]
  BY <1>5 DEF ring_evict_stale
<1>7. old \subseteq DOMAIN d.rx_blocks
  OBVIOUS
<1> HIDE DEF old, ids
<1>8. QueueOK(v)
  BY <1>4, <1>6, <1>7, AbandonAllOK DEF RxOK
<1>9. InRange(v)
  BY <1>4, <1>6, AbandonAllRange DEF RxOK, QueueOK
<1> DEFINE q == forget(v.done, ids)
<1>10. q \in Marks
  BY <1>9, ForgetOK DEF InRange
<1>11. t = [v EXCEPT !.done = q]
  BY <1>6
<1> HIDE DEF q
<1>12. /\ t.newest = v.newest /\ t.later_block_since = v.later_block_since
       /\ t.done = q /\ t.rx_blocks = v.rx_blocks
  BY <1>8, <1>11 DEF QueueOK, Fields
<1>13. InRange(t)
  BY <1>9, <1>10, <1>12 DEF InRange
<1>14. QueueOK(t) /\ t.emit_base_set
  BY BeforeTakeOK DEF RxOK
<1>. QED
  BY <1>13, <1>14 DEF RxOK

\* Starting the hold.
LEMMA ArmLaterRange ==
  ASSUME NEW s, NEW id, DOMAIN s = Fields, InRange(s)
  PROVE  InRange(ArmLater(s, id))
<1> DEFINE t == [s EXCEPT !.later_block_since = 0]
<1>1. /\ t.newest = s.newest /\ t.later_block_since = 0
      /\ t.done = s.done /\ t.rx_blocks = s.rx_blocks
  BY DEF Fields
<1>2. ArmLater(s, id) \in {s, t}
  BY DEF ArmLater
<1> HIDE DEF t
<1>. QED
  BY <1>1, <1>2, AgeFacts DEF InRange

\* A decoded block is marked done at once, passed with the head, or waits.
LEMMA DecodedRange ==
  ASSUME NEW s, NEW id \in BlockId, NEW rdy, RxOK(s), s.emit_base_set,
         id \notin DOMAIN s.rx_blocks, id \notin DOMAIN s.ready_blocks
  PROVE  InRange(on_block_decoded(s, id, rdy))
<1> DEFINE e == emit_payloads(s, Decoded(rdy))
           q == mark_done(e.done, id)
           l == [e EXCEPT !.done = q]
           p == PassHead(e, 1)
           h == [p EXCEPT !.later_block_since = Never]
           r == [s EXCEPT !.ready_blocks = With(@, id, rdy)]
<1>1. /\ DOMAIN s = Fields /\ s.emit_next \in BlockId /\ InRange(s)
  BY DEF RxOK, QueueOK
<1>2. SameQueue(s, e) /\ DOMAIN e = Fields /\ e.emit_next = s.emit_next /\ SameRange(s, e)
  BY <1>1, EmitKeeps, EmitRange DEF SameQueue
<1>3. on_block_decoded(s, id, rdy) =
        IF dist_from_emit(s, id) < 0 THEN l
        ELSE IF dist_from_emit(s, id) = 0 THEN run_emit_engine(h)
        ELSE ArmLater(r, id)
  BY DEF on_block_decoded
<1> HIDE DEF e
<1>4. InRange(e)
  BY <1>1, <1>2, SameRangeOK
<1>5. InRange(l)
  <2>1. q \in Marks
    BY <1>4, MarkDoneOK DEF InRange
  <2> HIDE DEF q
  <2>2. /\ l.newest = e.newest /\ l.later_block_since = e.later_block_since
        /\ l.done = q /\ l.rx_blocks = e.rx_blocks
    BY <1>2 DEF Fields
  <2> HIDE DEF l
  <2>. QED
    BY <1>4, <2>1, <2>2 DEF InRange
<1>6. ASSUME dist_from_emit(s, id) = 0
      PROVE  InRange(run_emit_engine(h))
  <2>1. DOMAIN p = Fields /\ InRange(p)
    BY <1>1, <1>2, <1>4, PassHeadKeeps, PassHeadRange
  <2>2. /\ p.emit_base_set = s.emit_base_set
        /\ p.emit_next = wire_block_id(s.emit_next + 1)
        /\ DOMAIN p.rx_blocks = DOMAIN s.rx_blocks
        /\ DOMAIN p.ready_blocks = DOMAIN s.ready_blocks
    <3>1. /\ p.emit_base_set = e.emit_base_set
          /\ p.emit_next = wire_block_id(e.emit_next + 1)
          /\ p.rx_blocks = e.rx_blocks
          /\ p.ready_blocks = e.ready_blocks
      BY <1>2, PassHeadKeeps
    <3> HIDE DEF p
    <3>. QED
      BY <1>2, <3>1 DEF SameQueue
  <2> HIDE DEF p
  <2>3. /\ h.newest = p.newest /\ h.later_block_since = Never
        /\ h.done = p.done /\ h.rx_blocks = p.rx_blocks
        /\ DOMAIN h = Fields
        /\ h.emit_base_set = p.emit_base_set /\ h.emit_next = p.emit_next
        /\ h.ready_blocks = p.ready_blocks
    BY <2>1 DEF Fields
  <2> HIDE DEF h
  <2>4. InRange(h)
    BY <2>1, <2>3 DEF InRange
  <2>5. QueueOK(h)
    <3>1. id = s.emit_next
      BY <1>1, <1>6, DistZero DEF dist_from_emit
    <3>2. 1 \in 0 .. RingMod
      BY RingAssumption
    <3>3. \A j \in 0 .. 1 - 1 : wire_block_id(s.emit_next + j) \notin DOMAIN h.ready_blocks
      BY <1>1, <2>2, <2>3, <3>1, WireHere
    <3>4. QueueOK(s)
      BY DEF RxOK
    <3>. QED
      BY <2>2, <2>3, <3>2, <3>3, <3>4, HeadMoved
  <2>. QED
    BY <2>4, <2>5, EngineRange DEF RxOK
<1>7. InRange(ArmLater(r, id))
  <2>1. DOMAIN r = Fields /\ SameRange(s, r)
    BY <1>1 DEF Fields, SameRange
  <2> HIDE DEF r
  <2>. QED
    BY <1>1, <2>1, SameRangeOK, ArmLaterRange
<1> HIDE DEF l, h, r
<1>. QED
  BY <1>3, <1>5, <1>6, <1>7

\* A block being collected is decoded, given up, or left where it is.
LEMMA TryDecodeRange ==
  ASSUME NEW s, NEW id \in DOMAIN s.rx_blocks, NEW ok, RxOK(s), s.emit_base_set
  PROVE  InRange(try_decode_block(s, id, ok))
<1> DEFINE blk == s.rx_blocks[id]
           t   == [s EXCEPT !.rx_blocks = Without(@, {id})]
           rdy == [sdu |-> blk.sdu, released |-> blk.released,
                   payloads |-> DecodedPayloads(blk)]
           a   == abandon_partial_block(t, blk, id)
<1>1. try_decode_block(s, id, ok) =
        IF ~Decodable(blk) THEN run_emit_engine(s)
        ELSE IF ~ok THEN run_emit_engine(a)
        ELSE on_block_decoded(t, id, rdy)
  BY DEF try_decode_block
<1>2. /\ RxOK(t) /\ t.emit_base_set
      /\ id \in BlockId /\ id \notin DOMAIN t.rx_blocks /\ id \notin DOMAIN t.ready_blocks
  <2>1. id \in BlockId /\ id \notin DOMAIN s.ready_blocks
    BY DEF RxOK, QueueOK
  <2>2. InRange(t)
    BY EraseRange DEF RxOK, QueueOK
  <2>3. /\ QueueOK(t) /\ t.emit_base_set = s.emit_base_set
        /\ t.ready_blocks = s.ready_blocks
        /\ DOMAIN t.rx_blocks = DOMAIN s.rx_blocks \ {id}
    BY EraseOK DEF RxOK
  <2> HIDE DEF t
  <2>. QED
    BY <2>1, <2>2, <2>3 DEF RxOK
<1> HIDE DEF t, rdy, blk
<1>3. InRange(run_emit_engine(s))
  BY EngineRange DEF RxOK
<1>4. InRange(run_emit_engine(a))
  <2>1. QueueOK(a)
    BY <1>2, AbandonOK DEF RxOK
  <2>2. InRange(a)
    BY <1>2, AbandonRange DEF RxOK, QueueOK
  <2> HIDE DEF a
  <2>. QED
    BY <2>1, <2>2, EngineRange DEF RxOK
<1>5. InRange(on_block_decoded(t, id, rdy))
  BY <1>2, DecodedRange
<1> HIDE DEF a
<1>. QED
  BY <1>1, <1>3, <1>4, <1>5

\* Storing a shard gives its block a shard and a fresh stamp.
LEMMA StoreRange ==
  ASSUME NEW s, NEW sh, NEW ok, RxOK(s), s.emit_base_set,
         IsShard(sh), sh.id \notin DOMAIN s.ready_blocks
  PROVE  InRange(StoreShard(s, sh, ok))
<1> DEFINE id   == sh.id
           blk  == IF id \in DOMAIN s.rx_blocks THEN s.rx_blocks[id] ELSE NewBlock(sh)
           blk2 == [blk EXCEPT !.frags = With(@, sh.idx, sh.src), !.last_seen = 0]
           t    == [s EXCEPT !.rx_blocks = With(@, id, blk2)]
           u    == [s EXCEPT !.rx_blocks = Without(@, {id})]
           v    == StreamOrArm(t, id)
<1>1. StoreShard(s, sh, ok) =
        IF <<blk.k, blk.n, blk.sdu>> # <<sh.k, sh.n, sh.sdu>>
        THEN abandon_partial_block(u, blk, id)
        ELSE IF sh.idx \in DOMAIN blk.frags THEN s
        ELSE try_decode_block(v, id, ok)
  BY DEF StoreShard
<1>2. id \in BlockId /\ sh.sdu \in Nat
  BY DEF IsShard
<1>3. BlockOK(blk2)
  <2>1. DOMAIN blk = BlockFields /\ blk.sdu \in Nat /\ blk.released \in 0 .. blk.sdu
    <3>1. CASE id \in DOMAIN s.rx_blocks
      BY <3>1 DEF RxOK, InRange, BlockOK
    <3>2. CASE id \notin DOMAIN s.rx_blocks
      BY <1>2, <3>2 DEF NewBlock, BlockFields
    <3>. QED
      BY <3>1, <3>2
  <2> HIDE DEF blk
  <2> DEFINE f == With(blk.frags, sh.idx, sh.src)
  <2>2. sh.idx \in DOMAIN f
    BY DEF With
  <2>3. blk2 = [blk EXCEPT !.frags = f, !.last_seen = 0]
    BY <2>1 DEF BlockFields
  <2> HIDE DEF f, blk2
  <2>4. /\ DOMAIN blk2 = BlockFields /\ blk2.sdu = blk.sdu /\ blk2.released = blk.released
        /\ blk2.frags = f /\ blk2.last_seen = 0
    BY <2>1, <2>3 DEF BlockFields
  <2>. QED
    BY <2>1, <2>2, <2>4, AgeFacts DEF BlockOK
<1> HIDE DEF blk2, blk
<1>4. InRange(abandon_partial_block(u, blk, id))
  <2>1. InRange(u)
    BY EraseRange DEF RxOK, QueueOK
  <2>2. DOMAIN u = Fields /\ u.emit_next = s.emit_next /\ s.emit_next \in BlockId
    BY DEF RxOK, QueueOK, Fields
  <2> HIDE DEF u
  <2>. QED
    BY <2>1, <2>2, AbandonRange
<1>5. InRange(try_decode_block(v, id, ok))
  <2>1. /\ DOMAIN t = Fields /\ t.emit_base_set = s.emit_base_set
        /\ t.emit_next = s.emit_next /\ t.ready_blocks = s.ready_blocks
        /\ t.newest = s.newest /\ t.later_block_since = s.later_block_since
        /\ t.done = s.done /\ t.rx_blocks = With(s.rx_blocks, id, blk2)
    BY DEF RxOK, QueueOK, Fields
  <2> HIDE DEF t
  <2>2. DOMAIN t.rx_blocks = DOMAIN s.rx_blocks \cup {id}
    BY <2>1 DEF With
  <2>3. \A b \in DOMAIN t.rx_blocks :
          t.rx_blocks[b] = blk2 \/ (b \in DOMAIN s.rx_blocks /\ t.rx_blocks[b] = s.rx_blocks[b])
    BY <2>1 DEF With
  <2>4. QueueOK(t)
    BY <1>2, <2>1, <2>2 DEF RxOK, QueueOK
  <2>5. InRange(t)
    BY <1>3, <2>1, <2>3 DEF RxOK, InRange
  <2>6. SameQueue(t, v)
    BY <2>1, <2>2, StreamKeeps, ArmLaterKeeps DEF StreamOrArm
  <2>7. InRange(v)
    BY <2>1, <2>2, <2>5, StreamRange, ArmLaterRange DEF StreamOrArm
  <2>8. QueueOK(v) /\ v.emit_base_set /\ id \in DOMAIN v.rx_blocks
    BY <2>1, <2>2, <2>4, <2>6, SameQueueOK DEF SameQueue
  <2> HIDE DEF v
  <2>. QED
    BY <2>7, <2>8, TryDecodeRange DEF RxOK
<1> HIDE DEF u, v
<1>. QED
  BY <1>1, <1>4, <1>5 DEF RxOK

\* The whole of push_air.
LEMMA PushAirRange ==
  ASSUME NEW sh, IsShard(sh), Rested(fec), InRange(fec), push_air(sh)
  PROVE  InRange(fec')
<1>1. PICK s \in BeforeTake(fec, sh), ok \in BOOLEAN :
        fec' \in ExpireThenEmit(TakeShard(s, sh, ok))
  BY DEF push_air
<1>2. sh.id \in BlockId
  BY DEF IsShard
<1>3. RxOK(s) /\ s.emit_base_set
  BY <1>2, BeforeTakeRange DEF Rested, RxOK
<1> DEFINE t == TakeShard(s, sh, ok)
<1>4. QueueOK(t)
  BY <1>2, <1>3, StoreOK DEF TakeShard, RxOK
<1>5. InRange(t)
  BY <1>3, StoreRange DEF TakeShard, RxOK
<1>6. fec' \in ExpireThenEmit(t)
  BY <1>1
<1> HIDE DEF t
<1>. QED
  BY <1>4, <1>5, <1>6, CallEndsRange DEF RxOK

\* The whole of poll_rx.
LEMMA PollRange ==
  ASSUME Rested(fec), InRange(fec), poll_rx
  PROVE  InRange(fec')
<1>1. RxOK(ClearResults(fec))
  BY ClearResultsRange DEF Rested, RxOK
<1>. QED
  BY <1>1, CallEndsRange DEF poll_rx, RxOK

\* Time passes.
LEMMA TickRange ==
  ASSUME Rested(fec), InRange(fec), Tick
  PROVE  InRange(fec')
<1> DEFINE c == ClearResults(fec)
           q == [j \in 1 .. Len(c.done) |-> [c.done[j] EXCEPT !.age = Older(@)]]
           r == [b \in DOMAIN c.rx_blocks |-> [c.rx_blocks[b] EXCEPT !.last_seen = Older(@)]]
<1>1. QueueOK(c) /\ InRange(c)
  BY ClearResultsRange DEF Rested, RxOK
<1> HIDE DEF c
<1>2. fec' = [c EXCEPT
                !.last_payload_emit = Older(@),
                !.last_shard_rx     = Older(@),
                !.later_block_since = Older(@),
                !.done              = q,
                !.rx_blocks         = r]
  BY DEF Tick, c
<1> HIDE DEF q, r
<1>3. /\ fec'.newest = c.newest /\ fec'.later_block_since = Older(c.later_block_since)
      /\ fec'.done = q /\ fec'.rx_blocks = r
  BY <1>1, <1>2 DEF QueueOK, Fields
<1>4. q \in Marks
  <2> DEFINE n == Len(c.done)
  <2>1. c.done \in Seq(Mark) /\ n \in Nat /\ n <= DoneMax
    BY <1>1, LenProperties DEF InRange, Marks
  <2>2. \A j \in 1 .. n : c.done[j] \in Mark
    BY <2>1, ElementOfSeq
  <2>3. \A j \in 1 .. n : [c.done[j] EXCEPT !.age = Older(@)] \in Mark
    BY <2>2, AgeFacts DEF Mark
  <2>4. q \in [1 .. n -> Mark]
    BY <2>3 DEF q
  <2> HIDE DEF n
  <2>. QED
    BY <2>1, <2>4, ASeq DEF Marks
<1>5. \A b \in DOMAIN r : BlockOK(r[b])
  <2> SUFFICES ASSUME NEW b \in DOMAIN c.rx_blocks PROVE BlockOK(r[b])
    BY DEF r
  <2> DEFINE blk == c.rx_blocks[b]
  <2>1. r[b] = [blk EXCEPT !.last_seen = Older(@)]
    BY DEF r
  <2>2. BlockOK(blk)
    BY <1>1 DEF InRange
  <2> HIDE DEF blk
  <2>3. /\ DOMAIN r[b] = BlockFields /\ r[b].sdu = blk.sdu /\ r[b].released = blk.released
        /\ r[b].frags = blk.frags /\ r[b].last_seen = Older(blk.last_seen)
    BY <2>1, <2>2 DEF BlockOK, BlockFields
  <2>. QED
    BY <2>2, <2>3, AgeFacts DEF BlockOK
<1>6. fec'.later_block_since \in Age \cup {Never}
  BY <1>1, <1>3, AgeFacts DEF InRange
<1>. QED
  BY <1>1, <1>3, <1>4, <1>5, <1>6 DEF InRange

\* A new object.
LEMMA ClearedRange == InRange(Cleared)
<1>1. /\ Cleared.newest = 0 /\ Cleared.later_block_since = Never
      /\ Cleared.done = <<>> /\ DOMAIN Cleared.rx_blocks = {}
  BY DEF Cleared, EmptyMap
<1>2. 0 \in BlockId
  BY RingAssumption DEF BlockId
<1>. QED
  BY <1>1, <1>2, NoMarks DEF InRange
==============================================================================
