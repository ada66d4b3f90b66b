---------------------------- MODULE FecLink_proofs ----------------------------
(***************************************************************************)
(* On the lossy link the receiver only ever sees shards with a ring id, so  *)
(* its queue keeps its shape whatever is lost, repeated, reordered or       *)
(* restarted, for every code, every number of blocks and every delay.       *)
(* Its fields stay in range, the done list in its bound.                    *)
(* And the first shard after a silence is heard at once and leaves nothing  *)
(* of the session before it.                                                *)
(* On a link that does not reorder past the eviction distance, the hold     *)
(* never runs for nothing.  Along one session an id has a place, how many   *)
(* blocks were sent before it: in these the ring is a line, on which the    *)
(* head, the newest id and the blocks held can be compared.                 *)
(* And if the link is also faster than rx_hold, a session shorter than      *)
(* half the ring never gets a packet twice: what the receiver remembers of  *)
(* a block outlives its last shard.                                         *)
(***************************************************************************)
EXTENDS FecLink, RsBlockErasureRx_proofs

\* What the sender numbers and puts on the air.
SenderOK ==
  /\ block_id \in BlockId
  /\ sent \in Seq([id : BlockId, sdu : SduCounts])
  /\ DOMAIN air \subseteq 0 .. Len(sent) - 1

LinkInv == Rested(fec) /\ SenderOK

\* Every shard on the air carries a ring id.
LEMMA AirId ==
  ASSUME SenderOK, NEW b \in DOMAIN air, NEW i
  PROVE  ShardOf(b, i).id \in BlockId
<1>1. b + 1 \in 1 .. Len(sent)
  BY DEF SenderOK
<1>2. sent[b + 1] \in [id : BlockId, sdu : SduCounts]
  BY <1>1, ElementOfSeq DEF SenderOK
<1>. QED
  BY <1>2 DEF ShardOf

\* A new sender has sent nothing.
LEMMA LinkStarts ==
  ASSUME LinkInit
  PROVE  LinkInv
<1>1. Rested(fec)
  BY ClearedOK DEF LinkInit, RxInit
<1>2. SenderOK
  BY LinkAssumption DEF LinkInit, SenderOK, EmptyMap
<1>. QED
  BY <1>1, <1>2 DEF LinkInv

\* Each block takes the next ring id.
LEMMA SendOK ==
  ASSUME LinkInv, SendBlock
  PROVE  LinkInv'
<1>1. block_id' \in BlockId
  <2>1. block_id + 1 \in Nat
    BY RingAssumption DEF LinkInv, SenderOK, BlockId
  <2>. QED
    BY <2>1, WireId DEF SendBlock
<1>2. PICK c \in SduCounts : sent' = Append(sent, [id |-> block_id, sdu |-> c])
  BY DEF SendBlock
<1>3. /\ sent' \in Seq([id : BlockId, sdu : SduCounts])
      /\ Len(sent') = Len(sent) + 1
  BY <1>2 DEF LinkInv, SenderOK
<1>4. DOMAIN air' \subseteq DOMAIN air \cup {Len(sent)}
  BY DEF SendBlock, With
<1>5. DOMAIN air' \subseteq 0 .. Len(sent') - 1
  BY <1>3, <1>4 DEF LinkInv, SenderOK
<1>. QED
  BY <1>1, <1>3, <1>5 DEF LinkInv, SenderOK, SendBlock

\* The other steps of the sender and the clock.
LEMMA RestOfLinkOK ==
  ASSUME LinkInv
  PROVE  (Restart => LinkInv') /\ (TimePasses => LinkInv')
<1>1. ASSUME Restart PROVE LinkInv'
  <2>1. block_id' \in BlockId
    BY <1>1, LinkAssumption DEF Restart
  <2>. QED
    BY <1>1, <2>1 DEF Restart, LinkInv, SenderOK
<1>2. ASSUME TimePasses PROVE LinkInv'
  <2>1. Rested(fec')
    BY <1>2, TickOK DEF TimePasses, LinkInv
  <2>2. DOMAIN air' \subseteq DOMAIN air
    BY <1>2 DEF TimePasses
  <2>. QED
    BY <1>2, <2>1, <2>2 DEF TimePasses, LinkInv, SenderOK
<1>. QED
  BY <1>1, <1>2

\* Every step keeps the invariant.
LEMMA LinkStep ==
  ASSUME LinkInv, [LinkNext]_vars
  PROVE  LinkInv'
<1>1. CASE UNCHANGED vars
  BY <1>1 DEF vars, link, LinkInv, SenderOK
<1>2. ASSUME NEW b \in DOMAIN air, NEW i \in IndexesSent(b), Arrive(b, i)
      PROVE  LinkInv'
  <2>1. Rested(fec')
    BY <1>2, AirId, PushAirOK DEF Arrive, LinkInv
  <2>. QED
    BY <1>2, <2>1 DEF Arrive, link, LinkInv, SenderOK
<1>3. ASSUME Poll PROVE LinkInv'
  <2>1. Rested(fec')
    BY <1>3, PollOK DEF Poll, LinkInv
  <2>. QED
    BY <1>3, <2>1 DEF Poll, link, LinkInv, SenderOK
<1>. QED
  BY <1>1, <1>2, <1>3, SendOK, RestOfLinkOK DEF LinkNext

\* QueueShape holds of the receiver at the end of every link: for every k and
\* n, every start id, any loss, repetition and reordering of the shards, and
\* any number of restarts of the sender.
THEOREM LinkShape == LinkSpec => []QueueShape
<1>1. LinkInit => LinkInv
  BY LinkStarts
<1>2. LinkInv /\ [LinkNext]_vars => LinkInv'
  BY LinkStep
<1>3. LinkInv => QueueShape
  BY RestedShape DEF LinkInv
<1>. QED
  BY <1>1, <1>2, <1>3, PTL DEF LinkSpec

\* A block on the air has a ring id, and as many packets as its code allows.
LEMMA AirBlock ==
  ASSUME SenderOK, NEW b \in DOMAIN air
  PROVE  b \in Nat /\ sent[b + 1].id \in BlockId /\ sent[b + 1].sdu \in 1 .. K
<1>1. b + 1 \in 1 .. Len(sent) /\ b \in Nat
  BY DEF SenderOK
<1>2. sent[b + 1] \in [id : BlockId, sdu : SduCounts]
  BY <1>1, ElementOfSeq DEF SenderOK
<1>3. SduCounts \subseteq 1 .. K
  BY LinkAssumption
<1>. QED
  BY <1>1, <1>2, <1>3

\* What is on the air is a shard the receiver accepts.
LEMMA AirShard ==
  ASSUME SenderOK, NEW b \in DOMAIN air, NEW i \in IndexesSent(b)
  PROVE  IsShard(ShardOf(b, i))
<1>1. N \in Nat \ {0} /\ K \in 1 .. N
  BY LinkAssumption
<1>2. b \in Nat /\ sent[b + 1].id \in BlockId /\ sent[b + 1].sdu \in 1 .. K
  BY AirBlock
<1>3. i \in (0 .. sent[b + 1].sdu - 1) \cup (K .. N - 1)
  BY DEF IndexesSent
<1>. QED
  BY <1>1, <1>2, <1>3 DEF IsShard, ShardOf

\* Every step keeps the fields in range.
LEMMA RangeStep ==
  ASSUME LinkInv, InRange(fec), [LinkNext]_vars
  PROVE  InRange(fec')
<1>1. CASE UNCHANGED fec
  BY <1>1
<1>2. ASSUME NEW b \in DOMAIN air, NEW i \in IndexesSent(b), Arrive(b, i)
      PROVE  InRange(fec')
  <2>1. IsShard(ShardOf(b, i))
    BY AirShard DEF LinkInv
  <2>. QED
    BY <1>2, <2>1, PushAirRange DEF Arrive, LinkInv
<1>3. ASSUME Poll PROVE InRange(fec')
  BY <1>3, PollRange DEF Poll, LinkInv
<1>4. ASSUME TimePasses PROVE InRange(fec')
  BY <1>4, TickRange DEF TimePasses, LinkInv
<1>5. UNCHANGED fec \/ Poll \/ TimePasses
        \/ \E b \in DOMAIN air : \E i \in IndexesSent(b) : Arrive(b, i)
  BY DEF LinkNext, vars, SendBlock, Restart
<1>. QED
  BY <1>1, <1>2, <1>3, <1>4, <1>5

\* HoldNeedsBlock.

\* LinkTypeOK holds on every link, whatever the bounds: done_order stays within
\* k_done_max through every mark, eviction and expiry, every block being
\* collected has a shard and has not streamed past its end, and the stamps and
\* ring ids stay in range (push_air, poll_rx and all they call).
THEOREM LinkTyped == LinkSpec => []LinkTypeOK
<1> DEFINE Inv == LinkInv /\ InRange(fec)
<1>1. LinkInit => Inv
  BY LinkStarts, ClearedRange DEF LinkInit, RxInit
<1>2. Inv /\ [LinkNext]_vars => Inv'
  BY LinkStep, RangeStep
<1>3. Inv => LinkTypeOK
  <2> SUFFICES ASSUME LinkInv, InRange(fec)
               PROVE  LinkTypeOK
    OBVIOUS
  <2>1. {fec.emit_next, fec.newest, block_id} \subseteq BlockId
    BY DEF LinkInv, Rested, QueueOK, InRange, SenderOK
  <2>2. DOMAIN fec.rx_blocks \cup DOMAIN fec.ready_blocks \subseteq BlockId
    BY DEF LinkInv, Rested, QueueOK
  <2>3. fec.later_block_since \in Age \cup {Never} /\ Len(fec.done) <= DoneMax
    BY DEF InRange, Marks
  <2>4. \A b \in DOMAIN fec.rx_blocks :
          LET blk == fec.rx_blocks[b]
          IN  blk.last_seen \in Age /\ blk.released \in 0 .. blk.sdu /\ DOMAIN blk.frags # {}
    BY DEF InRange, BlockOK
  <2>. QED
    BY <2>1, <2>2, <2>3, <2>4 DEF LinkTypeOK, LinkInv, SenderOK
<1>. QED
  BY <1>1, <1>2, <1>3, PTL DEF LinkSpec

------------------------------------------------------------------------------

(* The receiver after a silence (see Only in RsBlockErasureRx_proofs).      *)

\* The first packet of a block is sent.
LEMMA FirstShardSent ==
  ASSUME SenderOK, NEW b \in DOMAIN air
  PROVE  0 \in IndexesSent(b)
<1>1. sent[b + 1].sdu \in 1 .. K
  BY AirBlock
<1>2. K \in Nat
  BY LinkAssumption
<1>. QED
  BY <1>1, <1>2 DEF IndexesSent

\* The first shard after the silence leaves the receiver with its block only.
LEMMA AloneAfterSilence ==
  ASSUME LinkInv, NEW b \in DOMAIN air, NEW i \in IndexesSent(b), FirstAfterSilence(b, i)
  PROVE  /\ Only(fec', b)
         /\ i = 0 => <<b, 0>> \in ToSet(fec'.out)
<1> DEFINE sh == ShardOf(b, i)
<1>1. IsShard(sh) /\ sh.src = b /\ sh.idx = i /\ sh.id = sent[b + 1].id
  BY AirShard DEF LinkInv, ShardOf
<1>2. /\ fec.emit_base_set /\ fec.last_shard_rx >= RxHold
      /\ sh.id # fec.emit_next /\ push_air(sh)
  BY <1>1 DEF FirstAfterSilence, Silent, Arrive
<1> HIDE DEF sh
<1>. QED
  BY <1>1, <1>2, PushAirAfresh DEF LinkInv

\* ResumesAfterSilence holds for every code, ring, hold and link: a restarted
\* sender is heard at once, with no wait for the head, whatever id it drew
\* (maybe_rebase_after_silence and all that push_air does after it).
THEOREM HeardAtOnce == LinkSpec => ResumesAfterSilence
<1>1. LinkInit => LinkInv
  BY LinkStarts
<1>2. LinkInv /\ [LinkNext]_vars => LinkInv'
  BY LinkStep
<1>3. LinkInv /\ [LinkNext]_vars =>
        [\A b \in DOMAIN air : FirstAfterSilence(b, 0) => <<b, 0>> \in ToSet(fec'.out)]_fec
  <2> SUFFICES ASSUME LinkInv, NEW b \in DOMAIN air, FirstAfterSilence(b, 0)
               PROVE  <<b, 0>> \in ToSet(fec'.out)
    OBVIOUS
  <2>1. 0 \in IndexesSent(b)
    BY FirstShardSent DEF LinkInv
  <2>. QED
    BY <2>1, AloneAfterSilence
<1>. QED
  BY <1>1, <1>2, <1>3, PTL DEF LinkSpec, ResumesAfterSilence

\* SilenceStartsAfresh holds for every code, ring, hold and link: nothing of
\* the session before the silence is held, returned or counted as lost from
\* that shard on.
THEOREM AfreshAfterSilence == LinkSpec => SilenceStartsAfresh
<1> DEFINE Afresh ==
      \A b \in DOMAIN air : \A i \in IndexesSent(b) :
       FirstAfterSilence(b, i) =>
         /\ fec'.ready_blocks = EmptyMap /\ fec'.lost = {}
         /\ \A c \in DOMAIN fec'.rx_blocks : ToSet(fec'.rx_blocks[c].frags) = {b}
         /\ \A j \in 1 .. Len(fec'.out) : fec'.out[j][1] = b
<1>1. LinkInit => LinkInv
  BY LinkStarts
<1>2. LinkInv /\ [LinkNext]_vars => LinkInv'
  BY LinkStep
<1>3. LinkInv /\ [LinkNext]_vars => [Afresh]_fec
  <2> SUFFICES ASSUME LinkInv, NEW b \in DOMAIN air, NEW i \in IndexesSent(b),
                      FirstAfterSilence(b, i)
               PROVE  /\ fec'.ready_blocks = EmptyMap /\ fec'.lost = {}
                      /\ \A c \in DOMAIN fec'.rx_blocks : ToSet(fec'.rx_blocks[c].frags) = {b}
                      /\ \A j \in 1 .. Len(fec'.out) : fec'.out[j][1] = b
    OBVIOUS
  <2>1. Only(fec', b)
    BY AloneAfterSilence
  <2>2. ASSUME NEW c \in DOMAIN fec'.rx_blocks
        PROVE  ToSet(fec'.rx_blocks[c].frags) = {b}
    <3>1. Single(fec'.rx_blocks[c], b)
      BY <2>1 DEF Only
    <3>. QED
      BY <3>1 DEF Single, ToSet
  <2>3. ASSUME NEW j \in 1 .. Len(fec'.out)
        PROVE  fec'.out[j][1] = b
    <3>1. fec'.out[j] \in {b} \X Nat
      BY <2>1, ElementOfSeq DEF Only
    <3>. QED
      BY <3>1
  <2>. QED
    BY <2>1, <2>2, <2>3 DEF Only
<1>. QED
  BY <1>1, <1>2, <1>3, PTL DEF LinkSpec, SilenceStartsAfresh

------------------------------------------------------------------------------

(* Places along one session (see HoldKept).                                 *)

\* How many blocks after f, the session's first, an id is.
Place(f, id) == (id - f) % RingMod

\* A place is a number less than RingMod, and different ids have different places.
LEMMA PlaceValue ==
  ASSUME NEW f \in BlockId, NEW a \in BlockId
  PROVE  /\ Place(f, a) = IF a >= f THEN a - f ELSE a - f + RingMod
         /\ Place(f, a) \in 0 .. RingMod - 1
<1>1. a - f \in (-RingMod) .. (2 * RingMod - 1) /\ a \in 0 .. RingMod - 1 /\ f \in 0 .. RingMod - 1
  BY RingAssumption DEF BlockId
<1> DEFINE x == a - f
<1>2. x \in (-RingMod) .. (2 * RingMod - 1)
  BY <1>1
<1> HIDE DEF x
<1>3. x % RingMod = IF x < 0 THEN x + RingMod ELSE IF x < RingMod THEN x ELSE x - RingMod
  BY <1>2, ModRange
<1>4. x = a - f /\ Place(f, a) = x % RingMod
  BY DEF x, Place
<1>. QED
  BY <1>1, <1>3, <1>4, RingAssumption

\* The signed difference of two ids is that of their places, within half a ring.
LEMMA PlaceDist ==
  ASSUME NEW f \in BlockId, NEW a \in BlockId, NEW b \in BlockId,
         Place(f, a) - Place(f, b) < RingMod \div 2,
         Place(f, b) - Place(f, a) <= RingMod \div 2
  PROVE  ring_dist(a, b) = Place(f, a) - Place(f, b)
<1> DEFINE H == RingMod \div 2
           p == Place(f, a)
           q == Place(f, b)
<1>1. H \in Nat /\ 2 * H = RingMod /\ RingMod \in Nat \ {0}
  BY HalfRing, RingAssumption
<1>2. /\ a \in Nat /\ b \in Nat /\ f \in Nat
      /\ a < RingMod /\ b < RingMod /\ f < RingMod
  BY <1>1 DEF BlockId
<1>3. /\ p = IF a >= f THEN a - f ELSE a - f + RingMod
      /\ q = IF b >= f THEN b - f ELSE b - f + RingMod
  BY PlaceValue
<1>4. p - q < H /\ q - p <= H
  OBVIOUS
<1>5. ring_dist(a, b) = IF a >= b THEN (IF a - b < H THEN a - b ELSE a - b - RingMod)
                           ELSE IF a - b + RingMod < H THEN a - b + RingMod ELSE a - b
  BY DistValue
<1> HIDE DEF H, p, q
<1>6. ring_dist(a, b) = p - q
  BY <1>1, <1>2, <1>3, <1>4, <1>5
<1>. QED
  BY <1>6 DEF p, q

\* The id m after e is m places further.
LEMMA PlaceNext ==
  ASSUME NEW f \in BlockId, NEW e \in BlockId, NEW m \in Nat, Place(f, e) + m < RingMod
  PROVE  wire_block_id(e + m) \in BlockId /\ Place(f, wire_block_id(e + m)) = Place(f, e) + m
<1> DEFINE p == Place(f, e)
           w == wire_block_id(e + m)
<1>1. /\ e \in Nat /\ f \in Nat /\ e < RingMod /\ f < RingMod /\ RingMod \in Nat \ {0}
  BY RingAssumption DEF BlockId
<1>2. p = (IF e >= f THEN e - f ELSE e - f + RingMod) /\ p \in 0 .. RingMod - 1 /\ p + m < RingMod
  BY PlaceValue
<1> HIDE DEF p
<1>3. m \in 0 .. RingMod - 1
  BY <1>1, <1>2
<1>4. w = (IF e + m < RingMod THEN e + m ELSE e + m - RingMod) /\ w \in BlockId
  BY <1>1, <1>3, Ahead, WireId
<1>5. Place(f, w) = IF w >= f THEN w - f ELSE w - f + RingMod
  BY <1>4, PlaceValue
<1>6. w \in Nat /\ w < RingMod
  BY <1>1, <1>4 DEF BlockId
<1>7. Place(f, w) = p + m
  <2> HIDE DEF w
  <2>. QED
    BY <1>1, <1>2, <1>4, <1>5, <1>6
<1>. QED
  BY <1>4, <1>7 DEF p

\* Only an id itself is at its place.
LEMMA PlaceSame ==
  ASSUME NEW f \in BlockId, NEW a \in BlockId, NEW b \in BlockId, Place(f, a) = Place(f, b)
  PROVE  a = b
<1> DEFINE p == Place(f, a)
           q == Place(f, b)
<1>1. /\ a \in Nat /\ b \in Nat /\ f \in Nat /\ RingMod \in Nat
      /\ a < RingMod /\ b < RingMod /\ f < RingMod
  BY RingAssumption DEF BlockId
<1>2. /\ p = IF a >= f THEN a - f ELSE a - f + RingMod
      /\ q = IF b >= f THEN b - f ELSE b - f + RingMod
      /\ p = q
  BY PlaceValue
<1> HIDE DEF p, q
<1>. QED
  BY <1>1, <1>2

\* A head that passes m ids, all of them at places up to n, moves m places, and
\* not further than one past n.
LEMMA PlacePassed ==
  ASSUME NEW f \in BlockId, NEW e \in BlockId, NEW n \in Nat, n + 2 < RingMod,
         Place(f, e) <= n + 2, NEW S \in SUBSET BlockId, \A c \in S : Place(f, c) <= n,
         NEW m \in 0 .. RingMod, \A j \in 0 .. m - 1 : wire_block_id(e + j) \in S
  PROVE  /\ Place(f, wire_block_id(e + m)) = Place(f, e) + m
         /\ m # 0 => Place(f, e) + m <= n + 1
<1> DEFINE p == Place(f, e)
<1>1. p \in 0 .. RingMod - 1 /\ p <= n + 2 /\ RingMod \in Nat \ {0} /\ m \in Nat
  BY PlaceValue, RingAssumption
<1>2. \A j \in 0 .. m - 1 : p + j < RingMod => p + j <= n
  <2> SUFFICES ASSUME NEW j \in 0 .. m - 1, p + j < RingMod PROVE p + j <= n
    OBVIOUS
  <2>1. j \in Nat /\ Place(f, wire_block_id(e + j)) = p + j
    BY <1>1, PlaceNext
  <2>. QED
    BY <2>1
<1> HIDE DEF p
<1>3. m # 0 => p + m <= n + 1
  <2> SUFFICES ASSUME m # 0, p + m > n + 1 PROVE FALSE
    BY <1>1
  <2>1. CASE p > n
    <3>1. 0 \in 0 .. m - 1 /\ p + 0 = p
      BY <1>1
    <3>. QED
      BY <1>1, <1>2, <2>1, <3>1
  <2>2. CASE p <= n
    <3>1. PICK j \in 0 .. m - 1 : p + j = n + 1
      <4>1. n + 1 - p \in 0 .. m - 1 /\ p + (n + 1 - p) = n + 1
        BY <1>1, <2>2
      <4>. QED
        BY <4>1
    <3>2. p + j < RingMod
      BY <1>1, <3>1
    <3>3. p + j <= n
      BY <1>2, <3>2
    <3>. QED
      BY <3>1, <3>3
  <2>. QED
    BY <1>1, <2>1, <2>2
<1>4. p + m < RingMod
  BY <1>1, <1>3
<1>. QED
  BY <1>1, <1>3, <1>4, PlaceNext DEF p

------------------------------------------------------------------------------

(* The hold (see HoldNeedsBlock): f is the id of the session's first block, *)
(* z what has been sent.                                                    *)

\* The shards of blk are of the block that has its place.
BlockAt(z, f, blk, c) ==
  LET b == Place(f, c)
  IN  /\ blk.k = K /\ blk.n = N /\ blk.sdu = z[b + 1].sdu
      /\ \A i \in DOMAIN blk.frags : blk.frags[i] = b

\* Nothing lies past the newest block, and the head is at most two past it.
OnTrack(z, f, s) ==
  /\ RxOK(s) /\ s.emit_base_set
  /\ Len(z) \in Nat /\ Len(z) < RingMod \div 2
  /\ Place(f, s.newest) < Len(z)
  /\ Place(f, s.emit_next) <= Place(f, s.newest) + 2
  /\ s.later_block_since # Never => Place(f, s.emit_next) <= Place(f, s.newest) + 1
  /\ \A c \in DOMAIN s.rx_blocks \cup DOMAIN s.ready_blocks : Place(f, c) <= Place(f, s.newest)
  /\ \A c \in DOMAIN s.rx_blocks : BlockAt(z, f, s.rx_blocks[c], c)

\* What is being collected is not stale.
Fresh(f, s) == \A c \in DOMAIN s.rx_blocks : Place(f, c) >= Place(f, s.newest) - EvictDist

\* The newest block decodes from one shard.
Lone(z, f, s) == z[Place(f, s.newest) + 1].sdu = 1

\* What keeps the hold: a block at or after the head that was collected for no
\* longer than the hold runs; a decoded block, and the head on none; a newest
\* block of one packet, just passed; or one that is about to be.
Collected(f, s) ==
  \E c \in DOMAIN s.rx_blocks :
    Place(f, c) >= Place(f, s.emit_next) /\ s.rx_blocks[c].last_seen <= s.later_block_since
Waits(s)        == DOMAIN s.ready_blocks # {} /\ s.emit_next \notin DOMAIN s.ready_blocks
Passed(z, f, s) == Lone(z, f, s) /\ Place(f, s.emit_next) = Place(f, s.newest) + 1
Runs(z, f, s)   == Lone(z, f, s) /\ s.newest \in DOMAIN s.ready_blocks

Held(z, f, s) ==
  s.later_block_since # Never =>
    Collected(f, s) \/ Waits(s) \/ Passed(z, f, s) \/ Runs(z, f, s)

\* The places of what OnTrack speaks of.
LEMMA TrackPlaces ==
  ASSUME NEW z, NEW f \in BlockId, NEW s, OnTrack(z, f, s)
  PROVE  /\ s.emit_next \in BlockId /\ s.newest \in BlockId
         /\ Place(f, s.newest) \in Nat /\ Place(f, s.newest) + 2 <= RingMod \div 2
         /\ Place(f, s.emit_next) \in Nat /\ Place(f, s.emit_next) <= RingMod \div 2
         /\ RingMod \div 2 \in Nat /\ 2 * (RingMod \div 2) = RingMod
<1> DEFINE H == RingMod \div 2
           n == Place(f, s.newest)
           e == Place(f, s.emit_next)
<1>1. s.emit_next \in BlockId /\ s.newest \in BlockId
  BY DEF OnTrack, RxOK, QueueOK, InRange
<1>2. n \in 0 .. RingMod - 1 /\ e \in 0 .. RingMod - 1
  BY <1>1, PlaceValue
<1>3. Len(z) \in Nat /\ Len(z) < H /\ n < Len(z) /\ e <= n + 2
  BY DEF OnTrack
<1>4. H \in Nat /\ 2 * H = RingMod
  BY HalfRing
<1> HIDE DEF H, n, e
<1>5. n \in Nat /\ n + 2 <= H /\ e \in Nat /\ e <= H
  BY <1>2, <1>3, <1>4
<1>. QED
  BY <1>1, <1>4, <1>5 DEF H, n, e

\* How far an id of the session is from the head and from the newest.
LEMMA TrackDist ==
  ASSUME NEW z, NEW f \in BlockId, NEW s, OnTrack(z, f, s),
         NEW c \in BlockId, Place(f, c) < Len(z)
  PROVE  /\ Place(f, c) \in Nat
         /\ ring_dist(c, s.emit_next) = Place(f, c) - Place(f, s.emit_next)
         /\ ring_dist(c, s.newest) = Place(f, c) - Place(f, s.newest)
<1> DEFINE H == RingMod \div 2
           n == Place(f, s.newest)
           e == Place(f, s.emit_next)
           p == Place(f, c)
<1>1. p \in 0 .. RingMod - 1 /\ p < Len(z) /\ Len(z) \in Nat /\ Len(z) < H
  BY PlaceValue DEF OnTrack
<1>2. /\ s.emit_next \in BlockId /\ s.newest \in BlockId /\ n \in Nat /\ n + 2 <= H
      /\ e \in Nat /\ e <= H /\ H \in Nat
  BY TrackPlaces
<1> HIDE DEF H, n, e, p
<1>3. p - e < H /\ e - p <= H /\ p - n < H /\ n - p <= H /\ p \in Nat
  BY <1>1, <1>2
<1>4. ring_dist(c, s.emit_next) = p - e /\ ring_dist(c, s.newest) = p - n
  BY <1>2, <1>3, PlaceDist DEF H, n, e, p
<1>. QED
  BY <1>3, <1>4 DEF n, e, p

\* The places of the blocks held: what is decoded is not behind the head.
LEMMA TrackHeld ==
  ASSUME NEW z, NEW f \in BlockId, NEW s, OnTrack(z, f, s)
  PROVE  /\ \A c \in DOMAIN s.rx_blocks \cup DOMAIN s.ready_blocks :
              c \in BlockId /\ Place(f, c) \in Nat /\ Place(f, c) <= Place(f, s.newest)
                /\ Place(f, c) < Len(z)
         /\ \A c \in DOMAIN s.ready_blocks : Place(f, s.emit_next) <= Place(f, c)
<1>1. \A c \in DOMAIN s.rx_blocks \cup DOMAIN s.ready_blocks :
              c \in BlockId /\ Place(f, c) \in Nat /\ Place(f, c) <= Place(f, s.newest)
                /\ Place(f, c) < Len(z)
  <2> TAKE c \in DOMAIN s.rx_blocks \cup DOMAIN s.ready_blocks
  <2>1. c \in BlockId /\ Place(f, c) <= Place(f, s.newest)
    BY DEF OnTrack, RxOK, QueueOK
  <2>2. Place(f, c) \in 0 .. RingMod - 1 /\ Place(f, s.newest) \in Nat
    BY <2>1, PlaceValue, TrackPlaces
  <2>3. Place(f, s.newest) < Len(z) /\ Len(z) \in Nat
    BY DEF OnTrack
  <2>. QED
    BY <2>1, <2>2, <2>3
<1>2. ASSUME NEW c \in DOMAIN s.ready_blocks PROVE Place(f, s.emit_next) <= Place(f, c)
  <2>1. ring_dist(c, s.emit_next) >= 0
    BY DEF OnTrack, RxOK, QueueOK
  <2>2. ring_dist(c, s.emit_next) = Place(f, c) - Place(f, s.emit_next)
    BY <1>1, TrackDist
  <2>3. Place(f, c) \in Nat /\ Place(f, s.emit_next) \in Nat
    BY <1>1, TrackPlaces
  <2>. QED
    BY <2>1, <2>2, <2>3
<1>. QED
  BY <1>1, <1>2

\* The blocks of t are blocks of s, with the same shards.
SameShards(a, b) ==
  b.k = a.k /\ b.n = a.n /\ b.sdu = a.sdu /\ b.frags = a.frags /\ b.last_seen = a.last_seen

Fewer(s, t) ==
  /\ t.newest = s.newest /\ t.emit_base_set = s.emit_base_set
  /\ DOMAIN t.rx_blocks \subseteq DOMAIN s.rx_blocks
  /\ DOMAIN t.ready_blocks \subseteq DOMAIN s.ready_blocks
  /\ \A c \in DOMAIN t.rx_blocks : SameShards(s.rx_blocks[c], t.rx_blocks[c])

\* And t has the head and the hold of s.
Still(s, t) ==
  Fewer(s, t) /\ t.emit_next = s.emit_next /\ t.later_block_since = s.later_block_since

\* The head of t is m ids further, and the hold is as it was.
Onward(s, t, m) ==
  /\ Fewer(s, t)
  /\ t.emit_next = wire_block_id(s.emit_next + m) /\ t.later_block_since = s.later_block_since

\* Fewer, step by step.
LEMMA FewerTrans ==
  ASSUME NEW s, NEW t, NEW u, Fewer(s, t), Fewer(t, u)
  PROVE  Fewer(s, u)
<1>1. \A c \in DOMAIN u.rx_blocks : SameShards(s.rx_blocks[c], u.rx_blocks[c])
  <2> TAKE c \in DOMAIN u.rx_blocks
  <2>1. c \in DOMAIN t.rx_blocks
    BY DEF Fewer
  <2>2. SameShards(s.rx_blocks[c], t.rx_blocks[c]) /\ SameShards(t.rx_blocks[c], u.rx_blocks[c])
    BY <2>1 DEF Fewer
  <2>. QED
    BY <2>2 DEF SameShards
<1>. QED
  BY <1>1 DEF Fewer

\* Blocks that are the same have the same shards.
LEMMA FewerSame ==
  ASSUME NEW s, NEW t, t.newest = s.newest, t.emit_base_set = s.emit_base_set,
         DOMAIN t.rx_blocks \subseteq DOMAIN s.rx_blocks,
         DOMAIN t.ready_blocks \subseteq DOMAIN s.ready_blocks,
         \A c \in DOMAIN t.rx_blocks : t.rx_blocks[c] = s.rx_blocks[c]
  PROVE  Fewer(s, t)
<1>1. \A c \in DOMAIN t.rx_blocks : SameShards(s.rx_blocks[c], t.rx_blocks[c])
  BY DEF SameShards
<1>. QED
  BY <1>1 DEF Fewer

\* Returning packets.
LEMMA EmitStill ==
  ASSUME NEW s, NEW p, DOMAIN s = Fields
  PROVE  /\ Still(s, emit_payloads(s, p)) /\ DOMAIN emit_payloads(s, p) = Fields
         /\ emit_payloads(s, p).rx_blocks = s.rx_blocks
         /\ emit_payloads(s, p).ready_blocks = s.ready_blocks
<1> DEFINE t == emit_payloads(s, p)
<1>1. /\ t.newest = s.newest /\ t.emit_base_set = s.emit_base_set /\ DOMAIN t = Fields
      /\ t.rx_blocks = s.rx_blocks /\ t.ready_blocks = s.ready_blocks
      /\ t.emit_next = s.emit_next /\ t.later_block_since = s.later_block_since
  BY EmitKeeps, EmitRange DEF SameQueue, SameRange
<1> HIDE DEF t
<1>2. Fewer(s, t)
  BY <1>1, FewerSame
<1>. QED
  BY <1>1, <1>2 DEF Still, t

\* Passing the head.
LEMMA PassHeadOnward ==
  ASSUME NEW s, NEW m, DOMAIN s = Fields
  PROVE  /\ Onward(s, PassHead(s, m), m) /\ DOMAIN PassHead(s, m) = Fields
         /\ PassHead(s, m).rx_blocks = s.rx_blocks
         /\ PassHead(s, m).ready_blocks = s.ready_blocks
<1> DEFINE t == PassHead(s, m)
<1>1. /\ DOMAIN t = Fields /\ t.emit_base_set = s.emit_base_set
      /\ t.emit_next = wire_block_id(s.emit_next + m)
      /\ t.rx_blocks = s.rx_blocks /\ t.ready_blocks = s.ready_blocks
  BY PassHeadKeeps
<1>2. t.newest = s.newest /\ t.later_block_since = s.later_block_since
  BY DEF PassHead, Fields
<1> HIDE DEF t
<1>3. Fewer(s, t)
  BY <1>1, <1>2, FewerSame
<1>. QED
  BY <1>1, <1>2, <1>3 DEF Onward, t

\* Streaming the head.
LEMMA StreamStill ==
  ASSUME NEW s, NEW id \in DOMAIN s.rx_blocks, DOMAIN s = Fields, InRange(s)
  PROVE  LET t == try_stream_head_systematic(s, id)
         IN  /\ Still(s, t) /\ DOMAIN t.rx_blocks = DOMAIN s.rx_blocks
             /\ t.ready_blocks = s.ready_blocks
<1> DEFINE blk  == s.rx_blocks[id]
           R(r) == /\ \A i \in blk.released .. r - 1 : i \in DOMAIN blk.frags
                   /\ r = blk.sdu \/ r \notin DOMAIN blk.frags
           stop == CHOOSE r \in blk.released .. blk.sdu : R(r)
           pkts == [j \in 1 .. stop - blk.released |->
                      <<blk.frags[blk.released + j - 1], blk.released + j - 1>>]
           e    == emit_payloads(s, pkts)
           t    == try_stream_head_systematic(s, id)
<1>1. DOMAIN blk = BlockFields
  BY DEF InRange, BlockOK
<1>2. t = [e EXCEPT !.rx_blocks[id].released = stop]
  BY DEF try_stream_head_systematic
<1> HIDE DEF stop, pkts, t
<1>3. /\ DOMAIN e = Fields /\ Still(s, e)
      /\ e.rx_blocks = s.rx_blocks /\ e.ready_blocks = s.ready_blocks
  BY EmitStill
<1> HIDE DEF e
<1>4. /\ t.newest = s.newest /\ t.later_block_since = s.later_block_since
      /\ t.emit_base_set = s.emit_base_set /\ t.emit_next = s.emit_next
      /\ t.ready_blocks = s.ready_blocks
      /\ t.rx_blocks = [s.rx_blocks EXCEPT ![id] = [@ EXCEPT !.released = stop]]
  BY <1>2, <1>3 DEF Fields, Still, Fewer
<1>5. /\ DOMAIN t.rx_blocks = DOMAIN s.rx_blocks
      /\ \A c \in DOMAIN s.rx_blocks : c # id => t.rx_blocks[c] = s.rx_blocks[c]
      /\ t.rx_blocks[id] = [blk EXCEPT !.released = stop]
  BY <1>4
<1> HIDE DEF blk
<1>6. SameShards(blk, t.rx_blocks[id])
  BY <1>1, <1>5 DEF SameShards, BlockFields
<1>7. \A c \in DOMAIN t.rx_blocks : SameShards(s.rx_blocks[c], t.rx_blocks[c])
  <2> TAKE c \in DOMAIN t.rx_blocks
  <2>1. CASE c = id
    BY <1>6, <2>1 DEF blk
  <2>2. CASE c # id
    BY <1>5, <2>2 DEF SameShards
  <2>. QED
    BY <2>1, <2>2
<1>. QED
  BY <1>4, <1>5, <1>7 DEF Still, Fewer, t

\* Giving up a block that is no longer held; at the head, that ends the hold.
LEMMA AbandonFewer ==
  ASSUME NEW s, NEW blk, NEW id, DOMAIN s = Fields
  PROVE  LET t == abandon_partial_block(s, blk, id)
         IN  /\ Fewer(s, t) /\ t.rx_blocks = s.rx_blocks /\ t.ready_blocks = s.ready_blocks
             /\ id = s.emit_next => /\ t.emit_next = wire_block_id(s.emit_next + 1)
                                    /\ t.later_block_since = Never
             /\ id # s.emit_next => Still(s, t)
<1> DEFINE e == emit_payloads(s, Systematic(blk, blk.released))
           t == [e EXCEPT !.lost = @ \cup Missing(blk)]
           p == PassHead(t, 1)
           h == [p EXCEPT !.later_block_since = Never]
           r == abandon_partial_block(s, blk, id)
<1>1. r = IF id = s.emit_next THEN h ELSE t
  BY DEF abandon_partial_block
<1>2. /\ DOMAIN e = Fields /\ Still(s, e)
      /\ e.rx_blocks = s.rx_blocks /\ e.ready_blocks = s.ready_blocks
  BY EmitStill
<1> HIDE DEF e, r
<1>3. /\ DOMAIN t = Fields /\ t.newest = s.newest /\ t.later_block_since = s.later_block_since
      /\ t.emit_base_set = s.emit_base_set /\ t.emit_next = s.emit_next
      /\ t.rx_blocks = s.rx_blocks /\ t.ready_blocks = s.ready_blocks
  BY <1>2 DEF Fields, Still, Fewer
<1> HIDE DEF t
<1>4. Still(s, t)
  BY <1>3, FewerSame DEF Still
<1>5. /\ DOMAIN p = Fields /\ Onward(t, p, 1)
      /\ p.rx_blocks = s.rx_blocks /\ p.ready_blocks = s.ready_blocks
  BY <1>3, PassHeadOnward
<1> HIDE DEF p
<1>6. /\ h.newest = s.newest /\ h.emit_base_set = s.emit_base_set
      /\ h.emit_next = wire_block_id(s.emit_next + 1) /\ h.later_block_since = Never
      /\ h.rx_blocks = s.rx_blocks /\ h.ready_blocks = s.ready_blocks
  BY <1>3, <1>5 DEF Fields, Onward, Fewer
<1> HIDE DEF h
<1>7. Fewer(s, h)
  BY <1>6, FewerSame
<1>8. CASE id = s.emit_next
  BY <1>1, <1>6, <1>7, <1>8 DEF r
<1>9. CASE id # s.emit_next
  BY <1>1, <1>3, <1>4, <1>9 DEF r, Still
<1>. QED
  BY <1>8, <1>9

\* Giving up several: the head passes only what is given up, and if it passes any
\* the hold ends.
LEMMA AbandonAllFewer ==
  ASSUME NEW s, NEW S, DOMAIN s = Fields, NEW t \in AbandonAll(s, S)
  PROVE  /\ Fewer(s, t) /\ DOMAIN t.rx_blocks = DOMAIN s.rx_blocks \ S
         /\ t.ready_blocks = s.ready_blocks
         /\ \/ Still(s, t)
            \/ /\ t.later_block_since = Never
               /\ \E m \in 0 .. RingMod :
                    /\ t.emit_next = wire_block_id(s.emit_next + m)
                    /\ \A j \in 0 .. m - 1 : wire_block_id(s.emit_next + j) \in S
<1> DEFINE pk(o)   == FlattenSeq([j \in 1 .. Len(o) |->
                        LET blk == s.rx_blocks[o[j]] IN Systematic(blk, blk.released)])
           em(o)   == [emit_payloads(s, pk(o))
                        EXCEPT !.rx_blocks = Without(@, S),
                               !.lost = @ \cup UNION {Missing(s.rx_blocks[b]) : b \in S}]
           wk(o, m) == IF m = 0 THEN em(o)
                       ELSE [PassHead(em(o), m) EXCEPT !.later_block_since = Never]
<1>1. PICK o \in SetToSeqs(S), m \in 0 .. RingMod :
        HeadRun(o, s.emit_next, m) /\ t = wk(o, m)
  BY DEF AbandonAll
<1> DEFINE a == emit_payloads(s, pk(o))
           c == em(o)
           p == PassHead(c, m)
           h == [p EXCEPT !.later_block_since = Never]
<1>2. /\ DOMAIN a = Fields /\ Still(s, a)
      /\ a.rx_blocks = s.rx_blocks /\ a.ready_blocks = s.ready_blocks
  <2> HIDE DEF pk
  <2>. QED
    BY EmitStill
<1>3. c = [a EXCEPT !.rx_blocks = Without(@, S),
                    !.lost = @ \cup UNION {Missing(s.rx_blocks[b]) : b \in S}]
  OBVIOUS
<1>4. t = IF m = 0 THEN c ELSE h
  BY <1>1
<1> HIDE DEF a, c, em, wk
<1>5. /\ DOMAIN c = Fields /\ c.emit_next = s.emit_next
      /\ c.newest = s.newest /\ c.later_block_since = s.later_block_since
      /\ c.emit_base_set = s.emit_base_set /\ c.ready_blocks = s.ready_blocks
      /\ c.rx_blocks = Without(s.rx_blocks, S)
  BY <1>2, <1>3 DEF Fields, Still, Fewer
<1>6. /\ DOMAIN c.rx_blocks = DOMAIN s.rx_blocks \ S
      /\ \A b \in DOMAIN c.rx_blocks : c.rx_blocks[b] = s.rx_blocks[b]
  BY <1>5 DEF Without
<1>7. Still(s, c)
  BY <1>5, <1>6, FewerSame DEF Still
<1>8. /\ DOMAIN p = Fields /\ Onward(c, p, m)
      /\ p.rx_blocks = c.rx_blocks /\ p.ready_blocks = c.ready_blocks
  BY <1>5, PassHeadOnward
<1> HIDE DEF p
<1>9. /\ h.newest = s.newest /\ h.emit_base_set = s.emit_base_set
      /\ h.emit_next = wire_block_id(s.emit_next + m) /\ h.later_block_since = Never
      /\ h.rx_blocks = c.rx_blocks /\ h.ready_blocks = s.ready_blocks
  BY <1>5, <1>8 DEF Fields, Onward, Fewer
<1> HIDE DEF h
<1>10. Fewer(s, h)
  BY <1>6, <1>9, FewerSame
<1>11. \A j \in 0 .. m - 1 : wire_block_id(s.emit_next + j) \in S
  <2>1. ToSet(o) \subseteq S
    BY <1>1 DEF SetToSeqs, ToSet
  <2>2. \A j \in 0 .. m - 1 : wire_block_id(s.emit_next + j) \in ToSet(o)
    BY <1>1 DEF HeadRun
  <2>. QED
    BY <2>1, <2>2
<1>12. CASE m = 0
  BY <1>4, <1>5, <1>6, <1>7, <1>12 DEF Still
<1>13. CASE m # 0
  BY <1>4, <1>6, <1>9, <1>10, <1>11, <1>13
<1>. QED
  BY <1>12, <1>13

\* The drain passes decoded blocks, as many as follow, and those only.
LEMMA DrainOnward ==
  ASSUME NEW s, RxOK(s)
  PROVE  LET t == DrainHead(s)
         IN  \E m \in 0 .. RingMod :
               /\ Onward(s, t, m) /\ DOMAIN t.rx_blocks = DOMAIN s.rx_blocks
               /\ DOMAIN t.ready_blocks =
                    DOMAIN s.ready_blocks \ {wire_block_id(s.emit_next + j) : j \in 0 .. m - 1}
               /\ \A j \in 0 .. m - 1 : wire_block_id(s.emit_next + j) \in DOMAIN s.ready_blocks
               /\ t.emit_next \notin DOMAIN t.ready_blocks
<1> DEFINE m    == RunLength(DOMAIN s.ready_blocks, s.emit_next)
           ids  == [j \in 1 .. m |-> wire_block_id(s.emit_next + j - 1)]
           pkts == FlattenSeq([j \in 1 .. m |-> Decoded(s.ready_blocks[ids[j]])])
           e    == emit_payloads(s, pkts)
           u    == PassHead(e, m)
           gone == {ids[j] : j \in 1 .. m}
           t    == [u EXCEPT !.ready_blocks = Without(@, gone)]
           r    == DrainHead(s)
<1>1. /\ m \in 0 .. RingMod /\ DOMAIN s = Fields /\ s.emit_next \in BlockId /\ InRange(s)
      /\ \A j \in 0 .. m - 1 : wire_block_id(s.emit_next + j) \in DOMAIN s.ready_blocks
  BY RunLengthOK DEF RxOK, QueueOK
<1>2. gone = {wire_block_id(s.emit_next + j) : j \in 0 .. m - 1}
  <2>1. m \in Nat /\ s.emit_next \in Nat
    BY <1>1, RingAssumption DEF BlockId
  <2> HIDE DEF m
  <2>2. \A j \in 1 .. m : ids[j] = wire_block_id(s.emit_next + (j - 1)) /\ j - 1 \in 0 .. m - 1
    <3> TAKE j \in 1 .. m
    <3>1. s.emit_next + j - 1 = s.emit_next + (j - 1) /\ j - 1 \in 0 .. m - 1
      BY <2>1
    <3>. QED
      BY <3>1
  <2>3. \A j \in 0 .. m - 1 : j + 1 \in 1 .. m /\ wire_block_id(s.emit_next + j) = ids[j + 1]
    <3> TAKE j \in 0 .. m - 1
    <3>1. j + 1 \in 1 .. m /\ (j + 1) - 1 = j
      BY <2>1
    <3>. QED
      BY <2>2, <3>1
  <2> HIDE DEF ids
  <2>. QED
    BY <2>2, <2>3
<1>3. r.emit_next \notin DOMAIN r.ready_blocks
  BY DrainHeadOK DEF RxOK, Rested
<1>4. r = IF t.emit_next \in DOMAIN t.rx_blocks
          THEN try_stream_head_systematic(t, t.emit_next) ELSE t
  BY DEF DrainHead
<1> HIDE DEF m, pkts, gone, r
<1>5. /\ DOMAIN e = Fields /\ Still(s, e) /\ InRange(e)
      /\ e.rx_blocks = s.rx_blocks /\ e.ready_blocks = s.ready_blocks
  BY <1>1, EmitStill, EmitRange, SameRangeOK
<1> HIDE DEF e
<1>6. /\ DOMAIN u = Fields /\ Onward(e, u, m) /\ InRange(u)
      /\ u.rx_blocks = s.rx_blocks /\ u.ready_blocks = s.ready_blocks
  <2>1. m \in Nat /\ e.emit_next \in BlockId
    BY <1>1, <1>5 DEF Still
  <2>. QED
    BY <1>5, <2>1, PassHeadOnward, PassHeadRange
<1> HIDE DEF u
<1>7. /\ DOMAIN t = Fields /\ t.newest = s.newest /\ t.later_block_since = s.later_block_since
      /\ t.emit_base_set = s.emit_base_set /\ t.emit_next = wire_block_id(s.emit_next + m)
      /\ t.rx_blocks = s.rx_blocks /\ DOMAIN t.ready_blocks = DOMAIN s.ready_blocks \ gone
      /\ t.done = u.done
  BY <1>5, <1>6 DEF Fields, Still, Onward, Fewer, Without
<1> HIDE DEF t
<1>8. Onward(s, t, m) /\ InRange(t)
  <2>1. Fewer(s, t)
    BY <1>7, FewerSame
  <2>2. SameRange(u, t)
    BY <1>5, <1>6, <1>7 DEF SameRange, Onward, Still, Fewer
  <2>. QED
    BY <1>6, <1>7, <2>1, <2>2, SameRangeOK DEF Onward
<1>9. Still(t, r) /\ DOMAIN r.rx_blocks = DOMAIN t.rx_blocks /\ r.ready_blocks = t.ready_blocks
  <2>1. CASE t.emit_next \in DOMAIN t.rx_blocks
    <3>1. r = try_stream_head_systematic(t, t.emit_next)
      BY <1>4, <2>1
    <3>. QED
      BY <1>7, <1>8, <2>1, <3>1, StreamStill
  <2>2. CASE t.emit_next \notin DOMAIN t.rx_blocks
    <3>1. r = t
      BY <1>4, <2>2
    <3>. QED
      BY <3>1, FewerSame DEF Still
  <2>. QED
    BY <2>1, <2>2
<1>10. Onward(s, r, m)
  BY <1>8, <1>9, FewerTrans DEF Onward, Still
<1>11. /\ DOMAIN r.rx_blocks = DOMAIN s.rx_blocks
       /\ DOMAIN r.ready_blocks = DOMAIN s.ready_blocks \ gone
  BY <1>7, <1>9
<1>. QED
  BY <1>1, <1>2, <1>3, <1>10, <1>11 DEF r

\* Fewer blocks, and a head that is not too far, stay on track.
LEMMA TrackFewer ==
  ASSUME NEW z, NEW f \in BlockId, NEW s, NEW t, OnTrack(z, f, s), RxOK(t), Fewer(s, t),
         Place(f, t.emit_next) <= Place(f, s.newest) + 2,
         t.later_block_since # Never => Place(f, t.emit_next) <= Place(f, s.newest) + 1
  PROVE  OnTrack(z, f, t) /\ (Fresh(f, s) => Fresh(f, t))
<1>1. t.newest = s.newest /\ t.emit_base_set
  BY DEF Fewer, OnTrack
<1>2. \A c \in DOMAIN t.rx_blocks \cup DOMAIN t.ready_blocks : Place(f, c) <= Place(f, t.newest)
  BY <1>1 DEF Fewer, OnTrack
<1>3. \A c \in DOMAIN t.rx_blocks : BlockAt(z, f, t.rx_blocks[c], c)
  <2> TAKE c \in DOMAIN t.rx_blocks
  <2>1. BlockAt(z, f, s.rx_blocks[c], c) /\ SameShards(s.rx_blocks[c], t.rx_blocks[c])
    BY DEF Fewer, OnTrack
  <2>. QED
    BY <2>1 DEF BlockAt, SameShards
<1>4. Fresh(f, s) => Fresh(f, t)
  BY <1>1 DEF Fresh, Fewer
<1>. QED
  BY <1>1, <1>2, <1>3, <1>4 DEF OnTrack

\* A head that passes blocks that are held comes at most one past the newest.
LEMMA HeadPast ==
  ASSUME NEW z, NEW f \in BlockId, NEW s, OnTrack(z, f, s),
         NEW m \in 0 .. RingMod,
         \A j \in 0 .. m - 1 :
           wire_block_id(s.emit_next + j) \in DOMAIN s.rx_blocks \cup DOMAIN s.ready_blocks
  PROVE  /\ Place(f, wire_block_id(s.emit_next + m)) = Place(f, s.emit_next) + m
         /\ m # 0 => Place(f, s.emit_next) + m <= Place(f, s.newest) + 1
<1> DEFINE n == Place(f, s.newest)
           S == DOMAIN s.rx_blocks \cup DOMAIN s.ready_blocks
<1>1. /\ s.emit_next \in BlockId /\ n \in Nat /\ n + 2 < RingMod
      /\ Place(f, s.emit_next) <= n + 2
  <2>1. /\ s.emit_next \in BlockId /\ n \in Nat /\ Place(f, s.emit_next) <= n + 2
    BY TrackPlaces DEF OnTrack
  <2> DEFINE H == RingMod \div 2
  <2>2. H \in Nat /\ 2 * H = RingMod /\ n + 2 <= H
    BY TrackPlaces
  <2> HIDE DEF H, n
  <2>. QED
    BY <2>1, <2>2
<1>2. S \in SUBSET BlockId /\ \A c \in S : Place(f, c) <= n
  BY TrackHeld
<1> HIDE DEF n, S
<1>3. /\ Place(f, wire_block_id(s.emit_next + m)) = Place(f, s.emit_next) + m
      /\ m # 0 => Place(f, s.emit_next) + m <= n + 1
  <2>1. \A j \in 0 .. m - 1 : wire_block_id(s.emit_next + j) \in S
    BY DEF S
  <2>. QED
    BY <1>1, <1>2, <2>1, PlacePassed
<1>. QED
  BY <1>3 DEF n

\* The drain: what kept the hold still does.
LEMMA DrainTrack ==
  ASSUME NEW z, NEW f \in BlockId, NEW s, OnTrack(z, f, s)
  PROVE  LET t == DrainHead(s)
         IN  /\ OnTrack(z, f, t) /\ (Fresh(f, s) => Fresh(f, t))
             /\ t.later_block_since = s.later_block_since
             /\ t.emit_next \notin DOMAIN t.ready_blocks
             /\ Held(z, f, s) => Held(z, f, t)
<1> DEFINE t == DrainHead(s)
           n == Place(f, s.newest)
           e == Place(f, s.emit_next)
<1>1. RxOK(s) /\ RxOK(t)
  BY DrainHeadOK, DrainRange DEF OnTrack, RxOK, Rested
<1>2. PICK m \in 0 .. RingMod :
        /\ Onward(s, t, m) /\ DOMAIN t.rx_blocks = DOMAIN s.rx_blocks
        /\ DOMAIN t.ready_blocks =
             DOMAIN s.ready_blocks \ {wire_block_id(s.emit_next + j) : j \in 0 .. m - 1}
        /\ \A j \in 0 .. m - 1 : wire_block_id(s.emit_next + j) \in DOMAIN s.ready_blocks
        /\ t.emit_next \notin DOMAIN t.ready_blocks
  BY <1>1, DrainOnward
<1> HIDE DEF t
<1>3. /\ Fewer(s, t) /\ t.emit_next = wire_block_id(s.emit_next + m)
      /\ t.later_block_since = s.later_block_since /\ t.newest = s.newest
  BY <1>2 DEF Onward, Fewer
<1>4. Place(f, t.emit_next) = e + m /\ (m # 0 => e + m <= n + 1)
  <2>1. \A j \in 0 .. m - 1 :
          wire_block_id(s.emit_next + j) \in DOMAIN s.rx_blocks \cup DOMAIN s.ready_blocks
    BY <1>2
  <2>2. /\ Place(f, wire_block_id(s.emit_next + m)) = Place(f, s.emit_next) + m
        /\ m # 0 => Place(f, s.emit_next) + m <= Place(f, s.newest) + 1
    BY <2>1, HeadPast
  <2>. QED
    BY <1>3, <2>2
<1>5. n \in Nat /\ e \in Nat /\ m \in Nat /\ e <= n + 2 /\ s.emit_next \in BlockId
  BY TrackPlaces, RingAssumption DEF OnTrack
<1>6. s.later_block_since # Never => e <= n + 1
  BY DEF OnTrack
<1>7. OnTrack(z, f, t) /\ (Fresh(f, s) => Fresh(f, t))
  <2>1. /\ Place(f, t.emit_next) <= n + 2
        /\ t.later_block_since # Never => Place(f, t.emit_next) <= n + 1
    <3> HIDE DEF n, e
    <3>. QED
      BY <1>3, <1>4, <1>5, <1>6
  <2>. QED
    BY <1>1, <1>3, <2>1, TrackFewer
<1>8. ASSUME Collected(f, s) PROVE Collected(f, t)
  <2>1. PICK c \in DOMAIN s.rx_blocks :
          Place(f, c) >= e /\ s.rx_blocks[c].last_seen <= s.later_block_since
    BY <1>8 DEF Collected
  <2>2. c \in BlockId /\ Place(f, c) \in Nat /\ c \notin DOMAIN s.ready_blocks /\ Place(f, c) <= n
    BY TrackHeld DEF OnTrack, RxOK, QueueOK
  <2>3. Place(f, c) >= e + m
    <3> SUFFICES ASSUME Place(f, c) < e + m PROVE FALSE
      BY <1>5, <2>2
    <3> DEFINE p == Place(f, c)
    <3>1. PICK j \in 0 .. m - 1 : e + j = p
      <4>1. p - e \in 0 .. m - 1 /\ e + (p - e) = p
        <5> HIDE DEF p, e
        <5>1. p \in Nat /\ p >= e /\ p < e + m
          BY <2>1, <2>2 DEF p
        <5>. QED
          BY <1>5, <5>1
      <4>. QED
        BY <4>1
    <3>2. e + j < RingMod
      <4>1. n + 2 <= RingMod \div 2 /\ RingMod \div 2 \in Nat /\ 2 * (RingMod \div 2) = RingMod
        BY TrackPlaces
      <4> DEFINE H == RingMod \div 2
      <4>2. n + 2 <= H /\ H \in Nat /\ 2 * H = RingMod
        BY <4>1
      <4> HIDE DEF H, n, e, p
      <4>. QED
        BY <1>5, <2>2, <3>1, <4>2 DEF p
    <3>3. j \in Nat /\ wire_block_id(s.emit_next + j) \in BlockId
          /\ Place(f, wire_block_id(s.emit_next + j)) = p
      BY <1>5, <3>1, <3>2, PlaceNext
    <3>4. wire_block_id(s.emit_next + j) = c
      BY <2>2, <3>3, PlaceSame
    <3>. QED
      BY <1>2, <2>2, <3>4
  <2>4. c \in DOMAIN t.rx_blocks /\ t.rx_blocks[c].last_seen = s.rx_blocks[c].last_seen
    BY <1>2, <1>3 DEF Fewer, SameShards
  <2>5. Place(f, c) >= Place(f, t.emit_next) /\ t.rx_blocks[c].last_seen <= t.later_block_since
    BY <1>3, <1>4, <2>1, <2>3, <2>4
  <2>. QED
    BY <2>4, <2>5 DEF Collected
<1>9. ASSUME Waits(s) PROVE Waits(t)
  <2>1. m = 0
    <3> SUFFICES ASSUME m # 0 PROVE FALSE
      OBVIOUS
    <3>1. 0 \in 0 .. m - 1
      BY <1>5
    <3>2. wire_block_id(s.emit_next + 0) \in DOMAIN s.ready_blocks
      BY <1>2, <3>1
    <3>. QED
      BY <1>5, <1>9, <3>2, WireHere DEF Waits
  <2>2. 0 .. m - 1 = {}
    BY <2>1
  <2>3. DOMAIN t.ready_blocks = DOMAIN s.ready_blocks
    BY <1>2, <2>2
  <2>. QED
    BY <1>2, <1>9, <2>3 DEF Waits
<1>10. Lone(z, f, s) => Lone(z, f, t)
  BY <1>3 DEF Lone
<1>11. ASSUME Passed(z, f, s) PROVE Passed(z, f, t)
  <2>1. e = n + 1 /\ Lone(z, f, t)
    BY <1>10, <1>11 DEF Passed
  <2>2. e + m = n + 1
    <3> HIDE DEF e, n
    <3>. QED
      BY <1>4, <1>5, <2>1
  <2>. QED
    BY <1>3, <1>4, <2>1, <2>2 DEF Passed
<1>12. ASSUME Runs(z, f, s) PROVE Waits(t) \/ Passed(z, f, t)
  <2>1. CASE s.newest \in DOMAIN t.ready_blocks
    BY <1>2, <2>1 DEF Waits
  <2>2. CASE s.newest \notin DOMAIN t.ready_blocks
    <3>1. PICK j \in 0 .. m - 1 : s.newest = wire_block_id(s.emit_next + j)
      BY <1>2, <1>12, <2>2 DEF Runs
    <3>2. j \in Nat /\ j \in 0 .. RingMod /\ m # 0 /\ j <= m - 1
      BY <1>5, <3>1, RingAssumption
    <3>3. n = e + j
      <4>1. \A i \in 0 .. j - 1 : i \in 0 .. m - 1
        BY <1>5, <3>2
      <4>2. \A i \in 0 .. j - 1 :
              wire_block_id(s.emit_next + i) \in DOMAIN s.rx_blocks \cup DOMAIN s.ready_blocks
        BY <1>2, <4>1
      <4>3. Place(f, wire_block_id(s.emit_next + j)) = Place(f, s.emit_next) + j
        BY <3>2, <4>2, HeadPast
      <4>. QED
        BY <3>1, <4>3
    <3>4. e + m = n + 1
      <4> HIDE DEF e, n
      <4>. QED
        BY <1>4, <1>5, <3>2, <3>3
    <3>5. Lone(z, f, t)
      BY <1>10, <1>12 DEF Runs
    <3>. QED
      BY <1>3, <1>4, <3>4, <3>5 DEF Passed
  <2>. QED
    BY <2>1, <2>2
<1>13. Held(z, f, s) => Held(z, f, t)
  BY <1>3, <1>8, <1>9, <1>11, <1>12 DEF Held
<1>. QED
  BY <1>2, <1>3, <1>7, <1>13 DEF t

\* Giving up the head: either the hold ends, or nothing is given up and it is not over.
LEMMA GiveUpTrack ==
  ASSUME NEW z, NEW f \in BlockId, NEW s, OnTrack(z, f, s), s.emit_next \notin DOMAIN s.ready_blocks
  PROVE  LET t == maybe_give_up_head(s)
         IN  /\ OnTrack(z, f, t) /\ (Fresh(f, s) => Fresh(f, t))
             /\ t.later_block_since = Never \/ (t = s /\ ~HoldOver(s))
<1> DEFINE t == maybe_give_up_head(s)
           e == s.emit_next
           n == Place(f, s.newest)
           p == Place(f, e)
           u == [s EXCEPT !.rx_blocks = Without(@, {e})]
           g == IF ReadyAheadOf(s) # {} THEN NearestReady(s) ELSE wire_block_id(e + 1)
           v == [s EXCEPT !.emit_next = g, !.later_block_since = Never]
<1>1. RxOK(s) /\ RxOK(t) /\ DOMAIN s = Fields /\ QueueOK(s)
  BY GiveUpOK, GiveUpRange DEF OnTrack, RxOK, Rested, QueueOK
<1>2. /\ e \in BlockId /\ n \in Nat /\ p \in Nat /\ p <= n + 2
      /\ s.later_block_since # Never => p <= n + 1
  BY TrackPlaces DEF OnTrack
<1>3. Place(f, wire_block_id(e + 1)) = p + 1
  <2>1. p + 1 < RingMod
    <3> DEFINE H == RingMod \div 2
    <3>1. p <= H /\ n + 2 <= H /\ H \in Nat /\ 2 * H = RingMod
      BY TrackPlaces
    <3> HIDE DEF H, p, n
    <3>. QED
      BY <1>2, <3>1
  <2>. QED
    BY <1>2, <2>1, PlaceNext
<1>4. t = IF e \in DOMAIN s.rx_blocks
          THEN IF \/ Cardinality(DOMAIN s.rx_blocks[e].frags) >= s.rx_blocks[e].n
                  \/ HoldOver(s)
               THEN abandon_partial_block(u, s.rx_blocks[e], e) ELSE s
          ELSE IF e \notin DOMAIN s.ready_blocks /\ HoldOver(s) THEN v ELSE s
  BY DEF maybe_give_up_head
<1> HIDE DEF t
<1>5. ASSUME e \in DOMAIN s.rx_blocks, t = abandon_partial_block(u, s.rx_blocks[e], e)
      PROVE  OnTrack(z, f, t) /\ (Fresh(f, s) => Fresh(f, t)) /\ t.later_block_since = Never
  <2>1. /\ DOMAIN u = Fields /\ u.emit_next = e /\ u.newest = s.newest
        /\ u.emit_base_set = s.emit_base_set /\ u.ready_blocks = s.ready_blocks
        /\ u.rx_blocks = Without(s.rx_blocks, {e})
    BY <1>1 DEF Fields
  <2> HIDE DEF u
  <2>2. /\ DOMAIN u.rx_blocks \subseteq DOMAIN s.rx_blocks
        /\ \A c \in DOMAIN u.rx_blocks : u.rx_blocks[c] = s.rx_blocks[c]
    BY <2>1 DEF Without
  <2>3. Fewer(s, u)
    BY <2>1, <2>2, FewerSame
  <2>4. /\ Fewer(u, t) /\ t.emit_next = wire_block_id(e + 1) /\ t.later_block_since = Never
    BY <1>5, <2>1, AbandonFewer
  <2>5. Fewer(s, t) /\ p <= n
    BY <1>5, <2>3, <2>4, FewerTrans, TrackHeld
  <2>6. Place(f, t.emit_next) <= n + 2
    <3> HIDE DEF p, n
    <3>. QED
      BY <1>2, <1>3, <2>4, <2>5
  <2>. QED
    BY <1>1, <2>4, <2>5, <2>6, TrackFewer
<1>6. ASSUME HoldOver(s), t = v
      PROVE  OnTrack(z, f, t) /\ (Fresh(f, s) => Fresh(f, t)) /\ t.later_block_since = Never
  <2>1. /\ t.emit_next = g /\ t.newest = s.newest /\ t.later_block_since = Never
        /\ t.emit_base_set = s.emit_base_set /\ t.ready_blocks = s.ready_blocks
        /\ t.rx_blocks = s.rx_blocks
    BY <1>1, <1>6 DEF Fields
  <2>2. Fewer(s, t)
    BY <2>1, FewerSame
  <2>3. Place(f, g) <= n + 2
    <3>1. CASE ReadyAheadOf(s) # {}
      <4>1. g \in DOMAIN s.ready_blocks
        BY <1>1, <3>1, NearestReadyOK DEF ReadyAheadOf
      <4>2. Place(f, g) \in Nat /\ Place(f, g) <= n
        BY <4>1, TrackHeld
      <4> HIDE DEF g, n
      <4>. QED
        BY <1>2, <4>2
    <3>2. CASE ReadyAheadOf(s) = {}
      <4>1. Place(f, g) = p + 1 /\ p <= n + 1
        BY <1>2, <1>3, <1>6, <3>2 DEF HoldOver
      <4> HIDE DEF g, n, p
      <4>. QED
        BY <1>2, <4>1
    <3>. QED
      BY <3>1, <3>2
  <2> HIDE DEF g, v
  <2>. QED
    BY <1>1, <2>1, <2>2, <2>3, TrackFewer
<1> HIDE DEF u, v
<1>. QED
  BY <1>4, <1>5, <1>6 DEF t

\* The emit engine: the hold is kept by something, or it is over and ends.
LEMMA EngineTrack ==
  ASSUME NEW z, NEW f \in BlockId, NEW s, OnTrack(z, f, s), Held(z, f, s) \/ HoldOver(s)
  PROVE  LET t == run_emit_engine(s)
         IN  OnTrack(z, f, t) /\ (Fresh(f, s) => Fresh(f, t)) /\ Held(z, f, t)
<1> DEFINE d == DrainHead(s)
           g == maybe_give_up_head(d)
           t == DrainHead(g)
<1>1. run_emit_engine(s) = t
  BY DEF run_emit_engine, OnTrack
<1>2. /\ OnTrack(z, f, d) /\ (Fresh(f, s) => Fresh(f, d))
      /\ d.later_block_since = s.later_block_since
      /\ d.emit_next \notin DOMAIN d.ready_blocks
      /\ Held(z, f, s) => Held(z, f, d)
  BY DrainTrack
<1>3. Held(z, f, d) \/ HoldOver(d)
  BY <1>2 DEF HoldOver
<1> HIDE DEF d
<1>4. /\ OnTrack(z, f, g) /\ (Fresh(f, d) => Fresh(f, g))
      /\ g.later_block_since = Never \/ (g = d /\ ~HoldOver(d))
  BY <1>2, GiveUpTrack
<1>5. Held(z, f, g)
  <2>1. CASE g.later_block_since = Never
    BY <2>1 DEF Held
  <2>2. CASE g = d /\ ~HoldOver(d)
    BY <1>3, <2>2
  <2>. QED
    BY <1>4, <2>1, <2>2
<1> HIDE DEF g
<1>6. OnTrack(z, f, t) /\ (Fresh(f, g) => Fresh(f, t)) /\ Held(z, f, t)
  BY <1>4, <1>5, DrainTrack
<1> HIDE DEF t
<1>. QED
  BY <1>1, <1>2, <1>4, <1>6

\* t has the blocks, the head and the hold of s.
SameTrack(s, t) ==
  /\ t.newest = s.newest /\ t.emit_base_set = s.emit_base_set
  /\ t.emit_next = s.emit_next /\ t.later_block_since = s.later_block_since
  /\ t.rx_blocks = s.rx_blocks /\ t.ready_blocks = s.ready_blocks

\* What OnTrack, Fresh and Held say holds of both.
LEMMA SameTrackOK ==
  ASSUME NEW z, NEW f \in BlockId, NEW s, NEW t, OnTrack(z, f, s), RxOK(t), SameTrack(s, t)
  PROVE  /\ OnTrack(z, f, t) /\ (Fresh(f, s) => Fresh(f, t))
         /\ Held(z, f, s) => Held(z, f, t)
<1>1. OnTrack(z, f, t)
  BY DEF OnTrack, SameTrack
<1>2. Fresh(f, s) => Fresh(f, t)
  BY DEF Fresh, SameTrack
<1>3. Held(z, f, s) => Held(z, f, t)
  BY DEF Held, Collected, Waits, Passed, Runs, Lone, SameTrack
<1>. QED
  BY <1>1, <1>2, <1>3

\* Giving up several: the hold ends, or neither it nor the head changes.
LEMMA AbandonAllTrack ==
  ASSUME NEW z, NEW f \in BlockId, NEW s, OnTrack(z, f, s),
         NEW S, S \subseteq DOMAIN s.rx_blocks, NEW t \in AbandonAll(s, S)
  PROVE  /\ OnTrack(z, f, t) /\ (Fresh(f, s) => Fresh(f, t))
         /\ DOMAIN t.rx_blocks = DOMAIN s.rx_blocks \ S /\ t.ready_blocks = s.ready_blocks
         /\ t.later_block_since = Never \/ Still(s, t)
<1> DEFINE n == Place(f, s.newest)
           e == Place(f, s.emit_next)
<1>1. RxOK(t) /\ DOMAIN s = Fields
  BY AbandonAllOK, AbandonAllRange DEF OnTrack, RxOK, QueueOK
<1>2. /\ Fewer(s, t) /\ DOMAIN t.rx_blocks = DOMAIN s.rx_blocks \ S
      /\ t.ready_blocks = s.ready_blocks
      /\ \/ Still(s, t)
         \/ /\ t.later_block_since = Never
            /\ \E m \in 0 .. RingMod :
                 /\ t.emit_next = wire_block_id(s.emit_next + m)
                 /\ \A j \in 0 .. m - 1 : wire_block_id(s.emit_next + j) \in S
  BY <1>1, AbandonAllFewer
<1>3. e \in Nat /\ n \in Nat /\ e <= n + 2 /\ (s.later_block_since # Never => e <= n + 1)
  BY TrackPlaces DEF OnTrack
<1>4. CASE Still(s, t)
  BY <1>1, <1>2, <1>3, <1>4, TrackFewer DEF Still
<1>5. ASSUME t.later_block_since = Never, NEW m \in 0 .. RingMod,
             t.emit_next = wire_block_id(s.emit_next + m),
             \A j \in 0 .. m - 1 : wire_block_id(s.emit_next + j) \in S
      PROVE  OnTrack(z, f, t) /\ (Fresh(f, s) => Fresh(f, t))
  <2>1. \A j \in 0 .. m - 1 :
          wire_block_id(s.emit_next + j) \in DOMAIN s.rx_blocks \cup DOMAIN s.ready_blocks
    BY <1>5
  <2>2. Place(f, t.emit_next) = e + m /\ (m # 0 => e + m <= n + 1)
    BY <1>5, <2>1, HeadPast
  <2>3. Place(f, t.emit_next) <= n + 2
    <3>1. m \in Nat
      BY RingAssumption
    <3> HIDE DEF e, n
    <3>. QED
      BY <1>3, <2>2, <3>1
  <2>. QED
    BY <1>1, <1>2, <1>5, <2>3, TrackFewer
<1>. QED
  BY <1>2, <1>4, <1>5

\* The end of every call: what expires has been there longer than the emit hold,
\* so a hold it alone kept is over, and the engine ends it.
LEMMA EndTrack ==
  ASSUME NEW z, NEW f \in BlockId, NEW s, OnTrack(z, f, s), Fresh(f, s), Held(z, f, s),
         NEW t \in ExpireThenEmit(s)
  PROVE  OnTrack(z, f, t) /\ Fresh(f, t) /\ Held(z, f, t)
<1> DEFINE d == expire_done(s)
           S == {b \in DOMAIN d.rx_blocks : d.rx_blocks[b].last_seen > RxHold}
<1>1. PICK u \in AbandonAll(d, S) : t = run_emit_engine(u)
  BY DEF ExpireThenEmit, expire_rx
<1>2. RxOK(s) /\ DOMAIN s = Fields
  BY DEF OnTrack, RxOK, QueueOK
<1>3. RxOK(d) /\ SameTrack(s, d)
  <2>1. /\ SameQueue(s, d) /\ SameTrack(s, d)
    BY <1>2 DEF expire_done, SameQueue, SameTrack, Fields
  <2>2. QueueOK(d) /\ InRange(d)
    BY <1>2, <2>1, SameQueueOK, ExpireDoneRange DEF RxOK
  <2>. QED
    BY <2>1, <2>2 DEF RxOK
<1> HIDE DEF d
<1>4. OnTrack(z, f, d) /\ Fresh(f, d) /\ Held(z, f, d)
  BY <1>3, SameTrackOK
<1>5. /\ OnTrack(z, f, u) /\ Fresh(f, u)
      /\ DOMAIN u.rx_blocks = DOMAIN d.rx_blocks \ S /\ u.ready_blocks = d.ready_blocks
      /\ u.later_block_since = Never \/ Still(d, u)
  <2>1. S \subseteq DOMAIN d.rx_blocks
    OBVIOUS
  <2>2. u \in AbandonAll(d, S)
    OBVIOUS
  <2> HIDE DEF S
  <2>. QED
    BY <1>4, <2>1, <2>2, AbandonAllTrack
<1>6. Held(z, f, u) \/ HoldOver(u)
  <2> SUFFICES ASSUME u.later_block_since # Never PROVE Held(z, f, u) \/ HoldOver(u)
    BY DEF Held
  <2>1. /\ u.newest = d.newest /\ u.emit_next = d.emit_next
        /\ u.later_block_since = d.later_block_since
        /\ \A c \in DOMAIN u.rx_blocks : SameShards(d.rx_blocks[c], u.rx_blocks[c])
    BY <1>5 DEF Still, Fewer
  <2>2. CASE Collected(f, d)
    <3>1. PICK c \in DOMAIN d.rx_blocks :
            Place(f, c) >= Place(f, d.emit_next) /\ d.rx_blocks[c].last_seen <= d.later_block_since
      BY <2>2 DEF Collected
    <3>2. CASE c \in S
      <4>1. d.rx_blocks[c].last_seen \in Nat /\ d.later_block_since \in Nat
        <5>1. d.rx_blocks[c].last_seen \in Age /\ d.later_block_since \in Age
          BY <1>3, <2>1 DEF RxOK, InRange, BlockOK
        <5>. QED
          BY <5>1 DEF Age
      <4>2. /\ d.rx_blocks[c].last_seen > RxHold /\ EmitHold <= RxHold
            /\ EmitHold \in Nat /\ RxHold \in Nat
        BY <3>2, HoldsAre, RxAssumption
      <4>3. u.later_block_since > EmitHold
        BY <2>1, <3>1, <4>1, <4>2
      <4>. QED
        BY <4>3 DEF HoldOver
    <3>3. CASE c \notin S
      <4>1. c \in DOMAIN u.rx_blocks /\ u.rx_blocks[c].last_seen = d.rx_blocks[c].last_seen
        BY <1>5, <2>1, <3>3 DEF SameShards
      <4>2. Collected(f, u)
        BY <2>1, <3>1, <4>1 DEF Collected
      <4>. QED
        BY <4>2 DEF Held
    <3>. QED
      BY <3>2, <3>3
  <2>3. CASE Waits(d) \/ Passed(z, f, d) \/ Runs(z, f, d)
    <3>1. Waits(u) \/ Passed(z, f, u) \/ Runs(z, f, u)
      BY <1>5, <2>1, <2>3 DEF Waits, Passed, Runs, Lone
    <3>. QED
      BY <3>1 DEF Held
  <2>. QED
    BY <1>4, <2>1, <2>2, <2>3 DEF Held
<1>. QED
  BY <1>1, <1>5, <1>6, EngineTrack

------------------------------------------------------------------------------

(* What push_air does before it looks at the shard's block.                 *)

\* Between calls; and in the call of the first shard of a new newest block, before
\* it is stored.
Settled(z, f, s) == Held(z, f, s) /\ Fresh(f, s) /\ s.emit_next \notin DOMAIN s.ready_blocks
Awaited(f, s, id) ==
  /\ id = s.newest /\ id \notin DOMAIN s.rx_blocks /\ id \notin DOMAIN s.ready_blocks
  /\ s.later_block_since # Never => Place(f, s.emit_next) <= Place(f, id)

\* A receiver that holds nothing, with its head and its newest on id.
LEMMA EmptyTrack ==
  ASSUME NEW z, NEW f \in BlockId, NEW id \in BlockId, Len(z) \in Nat, Len(z) < RingMod \div 2,
         Place(f, id) < Len(z), NEW s, RxOK(s), s.emit_base_set,
         s.emit_next = id, s.newest = id, s.later_block_since = Never,
         DOMAIN s.rx_blocks = {}, DOMAIN s.ready_blocks = {}
  PROVE  OnTrack(z, f, s) /\ Settled(z, f, s)
<1>1. Place(f, id) \in Nat
  BY PlaceValue
<1> DEFINE p == Place(f, id)
<1>2. p <= p + 2 /\ p <= p + 1
  <2>1. p \in Nat
    BY <1>1
  <2> HIDE DEF p
  <2>. QED
    BY <2>1
<1>. QED
  BY <1>2 DEF OnTrack, Settled, Held, Fresh

\* The first shard sets the base.
LEMMA BaseTrack ==
  ASSUME NEW z, NEW f \in BlockId, NEW id \in BlockId, Len(z) \in Nat, Len(z) < RingMod \div 2,
         Place(f, id) < Len(z), NEW s, RxOK(s),
         s.emit_base_set => OnTrack(z, f, s) /\ Settled(z, f, s),
         ~s.emit_base_set => s.later_block_since = Never
  PROVE  OnTrack(z, f, note_emit_base(s, id)) /\ Settled(z, f, note_emit_base(s, id))
<1> DEFINE t == note_emit_base(s, id)
<1>1. CASE s.emit_base_set
  BY <1>1 DEF note_emit_base
<1>2. CASE ~s.emit_base_set
  <2>1. RxOK(t) /\ t.emit_base_set
    BY BaseOK, BaseRange DEF RxOK
  <2>2. /\ t.emit_next = id /\ t.newest = id /\ t.later_block_since = Never
        /\ DOMAIN t.rx_blocks = {} /\ DOMAIN t.ready_blocks = {}
    BY <1>2 DEF note_emit_base, RxOK, QueueOK, Fields
  <2> HIDE DEF t
  <2>. QED
    BY <2>1, <2>2, EmptyTrack DEF t
<1>. QED
  BY <1>1, <1>2

\* A rebase leaves nothing but the head.
LEMMA RebaseTrack ==
  ASSUME NEW z, NEW f \in BlockId, NEW id \in BlockId, Place(f, id) < Len(z), NEW s,
         OnTrack(z, f, s), Settled(z, f, s)
  PROVE  LET t == maybe_rebase_after_silence(s, id) IN OnTrack(z, f, t) /\ Settled(z, f, t)
<1> DEFINE t == maybe_rebase_after_silence(s, id)
           a == [s EXCEPT !.last_shard_rx = 0]
           b == [a EXCEPT !.rx_blocks = EmptyMap, !.ready_blocks = EmptyMap,
                     !.done = <<>>, !.emit_next = id, !.newest = id,
                     !.later_block_since = Never]
<1>1. RxOK(t) /\ t.emit_base_set
  BY RebaseOK, RebaseRange DEF OnTrack, RxOK
<1>2. t = a \/ t = b
  BY DEF maybe_rebase_after_silence
<1>3. DOMAIN s = Fields /\ s.emit_base_set /\ Len(z) \in Nat /\ Len(z) < RingMod \div 2
  BY DEF OnTrack, RxOK, QueueOK
<1> HIDE DEF t
<1>4. CASE t = a
  <2>1. SameTrack(s, t)
    BY <1>3, <1>4 DEF SameTrack, Fields
  <2>. QED
    BY <1>1, <2>1, SameTrackOK DEF Settled, SameTrack, t
<1>5. CASE t = b
  <2>1. DOMAIN a = Fields /\ a.emit_base_set
    BY <1>3 DEF Fields
  <2> HIDE DEF a
  <2>2. /\ t.emit_next = id /\ t.newest = id /\ t.later_block_since = Never
        /\ t.rx_blocks = EmptyMap /\ t.ready_blocks = EmptyMap
    BY <1>5, <2>1 DEF Fields
  <2>3. DOMAIN t.rx_blocks = {} /\ DOMAIN t.ready_blocks = {}
    BY <2>2 DEF EmptyMap
  <2> HIDE DEF b
  <2>. QED
    BY <1>1, <1>3, <2>2, <2>3, EmptyTrack DEF t
<1>. QED
  BY <1>2, <1>4, <1>5

\* A newest id that moves on is of a block of which nothing has come yet.
LEMMA TouchTrack ==
  ASSUME NEW z, NEW f \in BlockId, NEW id \in BlockId, Place(f, id) < Len(z), NEW s,
         OnTrack(z, f, s), Settled(z, f, s)
  PROVE  LET t == touch_newest(s, id)
         IN  /\ OnTrack(z, f, t) /\ Place(f, id) <= Place(f, t.newest)
             /\ Settled(z, f, t) \/ Awaited(f, t, id)
<1> DEFINE t == touch_newest(s, id)
           n == Place(f, s.newest)
           e == Place(f, s.emit_next)
           p == Place(f, id)
<1>1. /\ n \in Nat /\ e \in Nat /\ p \in Nat /\ e <= n + 2
      /\ s.later_block_since # Never => e <= n + 1
      /\ ring_dist(id, s.newest) = p - n
  BY TrackPlaces, TrackDist DEF OnTrack
<1>2. RxOK(t) /\ DOMAIN s = Fields
  BY TouchOK, TouchRange DEF OnTrack, RxOK, QueueOK
<1>3. CASE ring_dist(id, s.newest) > 0
  <2>1. /\ t.newest = id /\ t.emit_base_set = s.emit_base_set
        /\ t.emit_next = s.emit_next /\ t.later_block_since = s.later_block_since
        /\ t.rx_blocks = s.rx_blocks /\ t.ready_blocks = s.ready_blocks
    BY <1>2, <1>3 DEF touch_newest, Fields
  <2>2. p > n /\ e <= p + 2 /\ (s.later_block_since # Never => e <= p + 1 /\ e <= p) /\ p <= p
    <3> HIDE DEF n, e, p
    <3>. QED
      BY <1>1, <1>3
  <2>3. \A c \in DOMAIN s.rx_blocks \cup DOMAIN s.ready_blocks : Place(f, c) <= p /\ c # id
    <3> TAKE c \in DOMAIN s.rx_blocks \cup DOMAIN s.ready_blocks
    <3>1. Place(f, c) \in Nat /\ Place(f, c) <= n
      BY TrackHeld
    <3> DEFINE q == Place(f, c)
    <3>2. q \in Nat /\ q <= n
      BY <3>1
    <3>3. q <= p /\ q # p
      <4> HIDE DEF q, n, p
      <4>. QED
        BY <1>1, <2>2, <3>2
    <3>. QED
      BY <3>3
  <2> HIDE DEF t
  <2>4. OnTrack(z, f, t)
    BY <1>2, <2>1, <2>2, <2>3 DEF OnTrack
  <2>5. Awaited(f, t, id)
    BY <2>1, <2>2, <2>3 DEF Awaited
  <2>. QED
    BY <2>1, <2>2, <2>4, <2>5 DEF t
<1>4. CASE ~(ring_dist(id, s.newest) > 0)
  <2>1. t = s
    BY <1>4 DEF touch_newest
  <2>2. p <= n
    <3> HIDE DEF n, e, p
    <3>. QED
      BY <1>1, <1>4
  <2>. QED
    BY <2>1, <2>2
<1>. QED
  BY <1>3, <1>4

\* The resync on a late shard ends the hold.
LEMMA ResyncTrack ==
  ASSUME NEW z, NEW f \in BlockId, NEW id \in BlockId, NEW s, Place(f, id) < Len(z),
         OnTrack(z, f, s), Place(f, id) <= Place(f, s.newest),
         Settled(z, f, s) \/ Awaited(f, s, id)
  PROVE  LET t == maybe_resync_on_late_shard(s, id)
         IN  /\ OnTrack(z, f, t) /\ t.newest = s.newest
             /\ Settled(z, f, t) \/ Awaited(f, t, id)
<1> DEFINE t == maybe_resync_on_late_shard(s, id)
           B(S) == {b \in S : ring_dist(b, id) < 0}
           u == clear_state_behind(s, id)
           v == [u EXCEPT !.emit_next = id, !.later_block_since = Never]
<1>1. CASE t = s
  BY <1>1
<1>2. ASSUME dist_from_emit(s, id) < 0, t = v
      PROVE  /\ OnTrack(z, f, t) /\ t.newest = s.newest
             /\ Settled(z, f, t) \/ Awaited(f, t, id)
  <2>1. RxOK(t) /\ DOMAIN s = Fields
    BY ResyncOK, ResyncRange DEF OnTrack, RxOK, QueueOK
  <2> HIDE DEF t
  <2>2. u = [s EXCEPT !.rx_blocks = Without(@, B(DOMAIN @)),
                !.ready_blocks = Without(@, B(DOMAIN @)),
                !.done = forget(@, B(BlockId))]
    BY DEF clear_state_behind
  <2> HIDE DEF u
  <2>3. /\ DOMAIN u = Fields /\ u.newest = s.newest /\ u.emit_base_set = s.emit_base_set
        /\ u.rx_blocks = Without(s.rx_blocks, B(DOMAIN s.rx_blocks))
        /\ u.ready_blocks = Without(s.ready_blocks, B(DOMAIN s.ready_blocks))
    <3> HIDE DEF B
    <3>. QED
      BY <2>1, <2>2 DEF Fields
  <2>4. /\ t.newest = s.newest /\ t.emit_base_set = s.emit_base_set
        /\ t.emit_next = id /\ t.later_block_since = Never
        /\ t.rx_blocks = Without(s.rx_blocks, B(DOMAIN s.rx_blocks))
        /\ t.ready_blocks = Without(s.ready_blocks, B(DOMAIN s.ready_blocks))
    <3> HIDE DEF B
    <3>. QED
      BY <1>2, <2>3 DEF Fields
  <2> HIDE DEF B, v
  <2>5. /\ DOMAIN t.rx_blocks \subseteq DOMAIN s.rx_blocks
        /\ DOMAIN t.ready_blocks \subseteq DOMAIN s.ready_blocks
        /\ \A c \in DOMAIN t.rx_blocks : t.rx_blocks[c] = s.rx_blocks[c]
    BY <2>4 DEF Without
  <2>6. Fewer(s, t)
    BY <2>4, <2>5, FewerSame
  <2>7. Place(f, t.emit_next) <= Place(f, s.newest) + 2
    <3> DEFINE p == Place(f, id)
               n == Place(f, s.newest)
    <3>1. p \in Nat /\ n \in Nat /\ p <= n
      BY TrackPlaces, TrackDist
    <3>2. p <= n + 2
      <4> HIDE DEF p, n
      <4>. QED
        BY <3>1
    <3>. QED
      BY <2>4, <3>2
  <2>8. OnTrack(z, f, t) /\ (Fresh(f, s) => Fresh(f, t))
    BY <2>1, <2>4, <2>6, <2>7, TrackFewer
  <2>9. Settled(z, f, s) => Settled(z, f, t)
    <3>1. id \notin DOMAIN s.ready_blocks
      <4> SUFFICES ASSUME id \in DOMAIN s.ready_blocks PROVE FALSE
        OBVIOUS
      <4>1. ring_dist(id, s.emit_next) >= 0 /\ ring_dist(id, s.emit_next) < 0
            /\ ring_dist(id, s.emit_next) \in Int
        BY <1>2, TrackPlaces, DistInt DEF dist_from_emit, OnTrack, RxOK, QueueOK
      <4>. QED
        BY <4>1
    <3>. QED
      BY <2>4, <2>5, <2>8, <3>1 DEF Settled, Held
  <2>10. Awaited(f, s, id) => Awaited(f, t, id)
    BY <2>4, <2>5 DEF Awaited
  <2>. QED
    BY <2>4, <2>8, <2>9, <2>10
<1>. QED
  BY <1>1, <1>2 DEF maybe_resync_on_late_shard

\* The eviction: nothing is stale unless the newest block is new.
LEMMA EvictTrack ==
  ASSUME NEW z, NEW f \in BlockId, NEW id \in BlockId, NEW s, OnTrack(z, f, s),
         Settled(z, f, s) \/ Awaited(f, s, id), NEW t \in ring_evict_stale(s), RxOK(t)
  PROVE  /\ OnTrack(z, f, t) /\ Fresh(f, t) /\ t.newest = s.newest
         /\ Settled(z, f, t) \/ Awaited(f, t, id)
<1> DEFINE Stale(S) == {i \in S : ring_dist(i, s.newest) < -EvictDist}
           old  == Stale(DOMAIN s.rx_blocks)
           ids  == Stale(BlockId)
<1>1. PICK v \in AbandonAll(s, old) : t = [v EXCEPT !.done = forget(@, ids)]
  BY DEF ring_evict_stale
<1>2. old \subseteq DOMAIN s.rx_blocks
  OBVIOUS
<1>3. \A c \in DOMAIN s.rx_blocks :
        c \notin old <=> Place(f, c) >= Place(f, s.newest) - EvictDist
  <2> TAKE c \in DOMAIN s.rx_blocks
  <2>1. c \in BlockId /\ Place(f, c) \in Nat /\ Place(f, s.newest) \in Nat
    BY TrackHeld, TrackPlaces
  <2>2. ring_dist(c, s.newest) = Place(f, c) - Place(f, s.newest)
    <3>1. Place(f, c) < Len(z)
      BY TrackHeld
    <3>. QED
      BY <2>1, <3>1, TrackDist
  <2>3. EvictDist \in Nat
    BY RxAssumption
  <2> DEFINE p == Place(f, c)
             n == Place(f, s.newest)
  <2>4. (p - n < -EvictDist) <=> ~(p >= n - EvictDist)
    <3>1. p \in Nat /\ n \in Nat
      BY <2>1
    <3> HIDE DEF p, n
    <3>. QED
      BY <2>3, <3>1
  <2>. QED
    BY <2>2, <2>4
<1> HIDE DEF old, ids
<1>4. RxOK(v) /\ DOMAIN v = Fields
  BY <1>2, AbandonAllOK, AbandonAllRange DEF OnTrack, RxOK, QueueOK
<1>5. SameTrack(v, t)
  BY <1>1, <1>4 DEF SameTrack, Fields
<1>6. /\ OnTrack(z, f, v) /\ (Fresh(f, s) => Fresh(f, v))
      /\ DOMAIN v.rx_blocks = DOMAIN s.rx_blocks \ old /\ v.ready_blocks = s.ready_blocks
      /\ v.later_block_since = Never \/ Still(s, v)
  BY <1>2, AbandonAllTrack
<1>7. v.newest = s.newest
  <2>1. Fewer(s, v)
    BY AbandonAllFewer DEF OnTrack, RxOK, QueueOK
  <2>. QED
    BY <2>1 DEF Fewer
<1>8. Fresh(f, v)
  BY <1>3, <1>6, <1>7 DEF Fresh
<1>9. OnTrack(z, f, t) /\ Fresh(f, t) /\ t.newest = s.newest
  BY <1>5, <1>6, <1>7, <1>8, SameTrackOK DEF SameTrack
<1>10. ASSUME Settled(z, f, s) PROVE Settled(z, f, t)
  <2>1. old = {}
    BY <1>2, <1>3, <1>10 DEF Settled, Fresh
  <2>2. Untouched(s, v)
    BY <2>1, AbandonNone DEF OnTrack, RxOK
  <2>3. /\ v.emit_next = s.emit_next /\ v.later_block_since = s.later_block_since
        /\ DOMAIN v.rx_blocks = DOMAIN s.rx_blocks
        /\ \A c \in DOMAIN s.rx_blocks : v.rx_blocks[c] = s.rx_blocks[c]
    BY <2>2 DEF Untouched
  <2>4. Held(z, f, v)
    BY <1>6, <1>7, <1>10, <2>3 DEF Settled, Held, Collected, Waits, Passed, Runs, Lone
  <2>5. Held(z, f, t)
    BY <1>4, <1>5, <1>6, <1>9, <2>4, SameTrackOK
  <2>. QED
    BY <1>5, <1>6, <1>9, <1>10, <2>3, <2>5 DEF Settled, SameTrack
<1>11. ASSUME Awaited(f, s, id) PROVE Awaited(f, t, id)
  <2>1. id = t.newest /\ id \notin DOMAIN t.rx_blocks /\ id \notin DOMAIN t.ready_blocks
    BY <1>5, <1>6, <1>9, <1>11 DEF Awaited, SameTrack
  <2>2. t.later_block_since # Never => Place(f, t.emit_next) <= Place(f, id)
    BY <1>5, <1>6, <1>11 DEF Awaited, SameTrack, Still
  <2>. QED
    BY <2>1, <2>2 DEF Awaited
<1>. QED
  BY <1>9, <1>10, <1>11

\* All that push_air does before it looks at the shard's block.
LEMMA BeforeTakeTrack ==
  ASSUME NEW z, NEW f \in BlockId, NEW sh, sh.id \in BlockId,
         Len(z) \in Nat, Len(z) < RingMod \div 2, Place(f, sh.id) < Len(z),
         NEW s, Rested(s), InRange(s),
         s.emit_base_set => OnTrack(z, f, s) /\ Settled(z, f, s),
         ~s.emit_base_set => s.later_block_since = Never,
         NEW t \in BeforeTake(s, sh)
  PROVE  /\ OnTrack(z, f, t) /\ Fresh(f, t) /\ Place(f, sh.id) <= Place(f, t.newest)
         /\ Settled(z, f, t) \/ Awaited(f, t, sh.id)
<1> DEFINE r == ClearResults(s)
           a == note_emit_base(r, sh.id)
           b == maybe_rebase_after_silence(a, sh.id)
           c == touch_newest(b, sh.id)
           d == maybe_resync_on_late_shard(c, sh.id)
<1>0. RxOK(s)
  BY DEF Rested, RxOK
<1>1. RxOK(r) /\ SameTrack(s, r)
  <2>1. SameTrack(s, r)
    BY <1>0 DEF ClearResults, SameTrack, RxOK, QueueOK, Fields
  <2>. QED
    BY <1>0, <2>1, ClearResultsRange
<1>2. t \in ring_evict_stale(d) /\ RxOK(t)
  BY <1>0, BeforeTakeRange DEF BeforeTake
<1> HIDE DEF r
<1>3. /\ r.emit_base_set => OnTrack(z, f, r) /\ Settled(z, f, r)
      /\ ~r.emit_base_set => r.later_block_since = Never
  <2>1. ASSUME s.emit_base_set PROVE OnTrack(z, f, r) /\ Settled(z, f, r)
    BY <1>1, <2>1, SameTrackOK DEF Settled, SameTrack
  <2>. QED
    BY <1>1, <2>1 DEF SameTrack
<1>4. OnTrack(z, f, a) /\ Settled(z, f, a)
  BY <1>1, <1>3, BaseTrack
<1> HIDE DEF a
<1>5. OnTrack(z, f, b) /\ Settled(z, f, b)
  BY <1>4, RebaseTrack
<1> HIDE DEF b
<1>6. /\ OnTrack(z, f, c) /\ Place(f, sh.id) <= Place(f, c.newest)
      /\ Settled(z, f, c) \/ Awaited(f, c, sh.id)
  BY <1>5, TouchTrack
<1> HIDE DEF c
<1>7. /\ OnTrack(z, f, d) /\ d.newest = c.newest
      /\ Settled(z, f, d) \/ Awaited(f, d, sh.id)
  BY <1>6, ResyncTrack
<1> HIDE DEF d
<1>8. /\ OnTrack(z, f, t) /\ Fresh(f, t) /\ t.newest = d.newest
      /\ Settled(z, f, t) \/ Awaited(f, t, sh.id)
  BY <1>2, <1>7, EvictTrack
<1>. QED
  BY <1>6, <1>7, <1>8

------------------------------------------------------------------------------

(* The shard is stored, its block streamed or decoded.                      *)

\* The hold of a block ahead starts when its first shard is stored.
LEMMA ArmTrack ==
  ASSUME NEW z, NEW f \in BlockId, NEW s, OnTrack(z, f, s), NEW id \in BlockId,
         Place(f, id) <= Place(f, s.newest)
  PROVE  LET t == ArmLater(s, id)
         IN  /\ OnTrack(z, f, t) /\ (Fresh(f, s) => Fresh(f, t)) /\ Fewer(s, t)
             /\ t.emit_next = s.emit_next /\ t.rx_blocks = s.rx_blocks
             /\ t.ready_blocks = s.ready_blocks
             /\ dist_from_emit(s, id) > 0 => t.later_block_since # Never
             /\ \/ t.later_block_since = s.later_block_since
                \/ t.later_block_since = 0 /\ dist_from_emit(s, id) > 0
<1> DEFINE t == ArmLater(s, id)
           n == Place(f, s.newest)
           e == Place(f, s.emit_next)
           p == Place(f, id)
<1>1. RxOK(s) /\ RxOK(t) /\ DOMAIN s = Fields
  BY ArmLaterKeeps, ArmLaterRange, SameQueueOK DEF OnTrack, RxOK, QueueOK
<1>2. /\ t.newest = s.newest /\ t.emit_base_set = s.emit_base_set
      /\ t.emit_next = s.emit_next /\ t.rx_blocks = s.rx_blocks
      /\ t.ready_blocks = s.ready_blocks
      /\ t.later_block_since =
           IF dist_from_emit(s, id) > 0 /\ s.later_block_since = Never
           THEN 0 ELSE s.later_block_since
  BY <1>1 DEF ArmLater, Fields
<1> HIDE DEF t
<1>3. /\ n \in Nat /\ e \in Nat /\ p \in Nat /\ p <= n /\ e <= n + 2
      /\ s.later_block_since # Never => e <= n + 1
  BY TrackPlaces, PlaceValue DEF OnTrack
<1>4. dist_from_emit(s, id) = p - e
  <2>1. p < Len(z)
    <3>1. n < Len(z) /\ Len(z) \in Nat
      BY DEF OnTrack
    <3> HIDE DEF n, p
    <3>. QED
      BY <1>3, <3>1
  <2>. QED
    BY <2>1, TrackDist DEF dist_from_emit
<1>5. t.later_block_since # Never => e <= n + 1
  <2>1. dist_from_emit(s, id) > 0 => e <= n + 1
    <3> HIDE DEF n, e, p
    <3>. QED
      BY <1>3, <1>4
  <2>. QED
    BY <1>2, <1>3, <2>1
<1>6. Fewer(s, t)
  BY <1>2, FewerSame
<1>7. OnTrack(z, f, t) /\ (Fresh(f, s) => Fresh(f, t))
  BY <1>1, <1>2, <1>3, <1>5, <1>6, TrackFewer
<1>8. 0 # Never
  BY DEF Never
<1>. QED
  BY <1>2, <1>6, <1>7, <1>8 DEF t

\* A block being collected that is decoded, or left to the engine: if it alone
\* keeps the hold, it waits then, or it is the newest and of one packet.
LEMMA DecodeTrack ==
  ASSUME NEW z, NEW f \in BlockId, NEW s, OnTrack(z, f, s), Fresh(f, s), Held(z, f, s),
         NEW id \in DOMAIN s.rx_blocks,
         dist_from_emit(s, id) > 0 => s.later_block_since # Never,
         s.emit_next \notin DOMAIN s.ready_blocks
           \/ (id = s.newest /\ (Decodable(s.rx_blocks[id]) => Lone(z, f, s)))
  PROVE  LET t == try_decode_block(s, id, TRUE)
         IN  OnTrack(z, f, t) /\ Fresh(f, t) /\ Held(z, f, t)
<1> DEFINE n   == Place(f, s.newest)
           e   == Place(f, s.emit_next)
           p   == Place(f, id)
           blk == s.rx_blocks[id]
           w   == [s EXCEPT !.rx_blocks = Without(@, {id})]
           rdy == [sdu |-> blk.sdu, released |-> blk.released, payloads |-> DecodedPayloads(blk)]
           d   == on_block_decoded(w, id, rdy)
           t   == try_decode_block(s, id, TRUE)
<1>1. /\ RxOK(s) /\ DOMAIN s = Fields /\ s.emit_base_set /\ id \in BlockId
      /\ id \notin DOMAIN s.ready_blocks /\ s.emit_next \in BlockId
  BY DEF OnTrack, RxOK, QueueOK
<1>2. /\ n \in Nat /\ e \in Nat /\ p \in Nat /\ p <= n /\ e <= n + 2
      /\ s.later_block_since # Never => e <= n + 1
      /\ ring_dist(id, s.emit_next) = p - e
  BY TrackPlaces, TrackHeld, TrackDist DEF OnTrack
<1>3. t = IF ~Decodable(blk) THEN run_emit_engine(s) ELSE d
  BY DEF try_decode_block
<1>4. CASE ~Decodable(blk)
  BY <1>3, <1>4, EngineTrack
<1>5. CASE Decodable(blk)
  <2>1. /\ DOMAIN w = Fields /\ w.newest = s.newest /\ w.emit_base_set = s.emit_base_set
        /\ w.emit_next = s.emit_next /\ w.later_block_since = s.later_block_since
        /\ w.ready_blocks = s.ready_blocks /\ w.rx_blocks = Without(s.rx_blocks, {id})
    BY <1>1 DEF Fields
  <2>2. RxOK(w)
    BY <1>1, EraseOK, EraseRange DEF RxOK
  <2> HIDE DEF w, blk, rdy
  <2>3. /\ DOMAIN w.rx_blocks = DOMAIN s.rx_blocks \ {id}
        /\ \A c \in DOMAIN w.rx_blocks : w.rx_blocks[c] = s.rx_blocks[c]
    BY <2>1 DEF Without
  <2>4. Fewer(s, w)
    BY <2>1, <2>3, FewerSame
  <2>5. OnTrack(z, f, w) /\ Fresh(f, w)
    BY <1>2, <2>1, <2>2, <2>4, TrackFewer
  <2>6. RxOK(d)
    BY <1>1, <2>1, <2>2, <2>3, DecodedOK, DecodedRange DEF RxOK
  <2>7. dist_from_emit(w, id) = p - e /\ dist_from_emit(s, id) = p - e
    BY <1>2, <2>1 DEF dist_from_emit
  <2>8. ASSUME dist_from_emit(w, id) < 0
        PROVE  OnTrack(z, f, d) /\ Fresh(f, d) /\ Held(z, f, d)
    <3> DEFINE q == emit_payloads(w, Decoded(rdy))
    <3>1. d = [q EXCEPT !.done = mark_done(@, id)]
      BY <2>8 DEF on_block_decoded
    <3>2. /\ DOMAIN q = Fields /\ Still(w, q)
          /\ q.rx_blocks = w.rx_blocks /\ q.ready_blocks = w.ready_blocks
      BY <2>1, EmitStill
    <3> HIDE DEF q, d
    <3>3. SameTrack(w, d)
      BY <3>1, <3>2 DEF SameTrack, Still, Fewer, Fields
    <3>4. ASSUME s.later_block_since # Never, Collected(f, s) PROVE Collected(f, w)
      <4>1. PICK c \in DOMAIN s.rx_blocks :
              Place(f, c) >= e /\ s.rx_blocks[c].last_seen <= s.later_block_since
        BY <3>4 DEF Collected
      <4>2. c # id
        <5> HIDE DEF e
        <5>. QED
          <6> SUFFICES ASSUME c = id PROVE FALSE
            OBVIOUS
          <6>1. p >= e /\ p - e < 0
            BY <2>7, <2>8, <4>1
          <6> HIDE DEF p
          <6>. QED
            BY <1>2, <6>1
      <4>. QED
        BY <2>1, <2>3, <4>1, <4>2 DEF Collected
    <3>5. Held(z, f, w)
      BY <2>1, <3>4 DEF Held, Waits, Passed, Runs, Lone
    <3>. QED
      BY <2>5, <2>6, <3>3, <3>5, SameTrackOK
  <2>9. ASSUME dist_from_emit(w, id) = 0
        PROVE  OnTrack(z, f, d) /\ Fresh(f, d) /\ Held(z, f, d)
    <3> DEFINE q == emit_payloads(w, Decoded(rdy))
               h == PassHead(q, 1)
               g == [h EXCEPT !.later_block_since = Never]
    <3>1. d = run_emit_engine(g)
      BY <2>9 DEF on_block_decoded
    <3>2. /\ DOMAIN q = Fields /\ Still(w, q) /\ InRange(q)
          /\ q.rx_blocks = w.rx_blocks /\ q.ready_blocks = w.ready_blocks
      BY <2>1, <2>2, EmitStill, EmitRange, SameRangeOK DEF RxOK
    <3> HIDE DEF q, d
    <3>3. /\ DOMAIN h = Fields /\ Onward(q, h, 1) /\ InRange(h)
          /\ h.rx_blocks = q.rx_blocks /\ h.ready_blocks = q.ready_blocks
      <4>1. 1 \in Nat /\ q.emit_next \in BlockId
        BY <1>1, <2>1, <3>2 DEF Still
      <4>. QED
        BY <3>2, <4>1, PassHeadOnward, PassHeadRange
    <3> HIDE DEF h
    <3>4. /\ DOMAIN g = Fields /\ g.newest = s.newest /\ g.emit_base_set = s.emit_base_set
          /\ g.emit_next = wire_block_id(s.emit_next + 1) /\ g.later_block_since = Never
          /\ g.rx_blocks = w.rx_blocks /\ g.ready_blocks = w.ready_blocks /\ g.done = h.done
      BY <2>1, <3>2, <3>3 DEF Onward, Still, Fewer, Fields
    <3> HIDE DEF g
    <3>5. Fewer(w, g)
      BY <2>1, <3>4, FewerSame
    <3>6. id = s.emit_next
      BY <1>1, <2>1, <2>9, DistZero DEF dist_from_emit
    <3>7. RxOK(g)
      <4>1. QueueOK(g)
        <5>1. \A j \in 0 .. 1 - 1 : wire_block_id(w.emit_next + j) \notin DOMAIN g.ready_blocks
          BY <1>1, <2>1, <3>4, <3>6, WireHere
        <5>2. 1 \in 0 .. RingMod
          BY RingAssumption
        <5>. QED
          BY <2>1, <2>2, <3>4, <5>1, <5>2, HeadMoved DEF RxOK
      <4>2. InRange(g)
        <5>1. g.newest = h.newest /\ g.done = h.done /\ g.rx_blocks = h.rx_blocks
          BY <2>1, <3>2, <3>3, <3>4 DEF Onward, Still, Fewer
        <5>. QED
          BY <3>3, <3>4, <5>1 DEF InRange
      <4>. QED
        BY <4>1, <4>2 DEF RxOK
    <3>8. Place(f, g.emit_next) <= n + 2
      <4>1. e + 1 < RingMod /\ p = e
        <5>1. p = e
          BY <3>6
        <5> DEFINE H == RingMod \div 2
        <5>2. n + 2 <= H /\ H \in Nat /\ 2 * H = RingMod
          BY TrackPlaces
        <5> HIDE DEF H, n, e, p
        <5>. QED
          BY <1>2, <5>1, <5>2
      <4>2. Place(f, g.emit_next) = e + 1
        BY <1>1, <3>4, <4>1, PlaceNext
      <4> HIDE DEF n, e, p
      <4>. QED
        BY <1>2, <4>1, <4>2
    <3>9. OnTrack(z, f, g) /\ Fresh(f, g)
      BY <2>1, <2>5, <3>4, <3>5, <3>7, <3>8, TrackFewer
    <3>10. Held(z, f, g)
      BY <3>4 DEF Held
    <3>. QED
      BY <3>1, <3>9, <3>10, EngineTrack
  <2>10. ASSUME dist_from_emit(w, id) > 0
         PROVE  OnTrack(z, f, d) /\ Fresh(f, d) /\ Held(z, f, d)
    <3> DEFINE r == [w EXCEPT !.ready_blocks = With(@, id, rdy)]
    <3>1. ~(dist_from_emit(w, id) < 0) /\ ~(dist_from_emit(w, id) = 0)
      <4> HIDE DEF p, e
      <4>. QED
        BY <1>2, <2>7, <2>10
    <3>2. d = ArmLater(r, id)
      BY <3>1 DEF on_block_decoded
    <3> HIDE DEF d
    <3>3. /\ DOMAIN r = Fields /\ r.newest = s.newest /\ r.emit_base_set = s.emit_base_set
          /\ r.emit_next = s.emit_next /\ r.later_block_since = s.later_block_since
          /\ r.rx_blocks = w.rx_blocks /\ DOMAIN r.ready_blocks = DOMAIN s.ready_blocks \cup {id}
      BY <2>1 DEF Fields, With
    <3>4. s.later_block_since # Never
      BY <2>7, <2>10
    <3>5. d = r
      BY <3>2, <3>3, <3>4 DEF ArmLater
    <3> HIDE DEF r
    <3>6. OnTrack(z, f, d) /\ Fresh(f, d)
      <4>1. \A c \in DOMAIN d.rx_blocks \cup DOMAIN d.ready_blocks :
              Place(f, c) <= Place(f, d.newest)
        BY <2>3, <3>3, <3>5 DEF OnTrack
      <4>2. /\ \A c \in DOMAIN d.rx_blocks : BlockAt(z, f, d.rx_blocks[c], c)
            /\ Fresh(f, d)
        BY <2>5, <3>3, <3>5, <2>1 DEF OnTrack, Fresh
      <4>. QED
        BY <2>6, <3>3, <3>5, <4>1, <4>2 DEF OnTrack
    <3>7. s.emit_next # id
      BY <1>1, <2>1, <3>1, DistZero DEF dist_from_emit
    <3>8. ASSUME Waits(s) \/ Passed(z, f, s) \/ Runs(z, f, s) PROVE Held(z, f, d)
      BY <3>3, <3>5, <3>7, <3>8 DEF Held, Waits, Passed, Runs, Lone
    <3>9. ASSUME Collected(f, s) PROVE Held(z, f, d)
      <4>1. PICK c \in DOMAIN s.rx_blocks :
              Place(f, c) >= e /\ s.rx_blocks[c].last_seen <= s.later_block_since
        BY <3>9 DEF Collected
      <4>2. CASE c # id
        <5>1. Collected(f, d)
          BY <2>3, <3>3, <3>5, <4>1, <4>2 DEF Collected
        <5>. QED
          BY <5>1 DEF Held
      <4>3. CASE s.emit_next \notin DOMAIN s.ready_blocks
        <5>1. Waits(d)
          BY <3>3, <3>5, <3>7, <4>3 DEF Waits
        <5>. QED
          BY <5>1 DEF Held
      <4>4. CASE id = s.newest /\ Lone(z, f, s)
        <5>1. Runs(z, f, d)
          BY <3>3, <3>5, <4>4 DEF Runs, Lone
        <5>. QED
          BY <5>1 DEF Held
      <4>. QED
        BY <1>5, <4>3, <4>4 DEF blk
    <3>. QED
      BY <3>4, <3>6, <3>8, <3>9 DEF Held
  <2>11. dist_from_emit(w, id) < 0 \/ dist_from_emit(w, id) = 0 \/ dist_from_emit(w, id) > 0
    <3> HIDE DEF p, e
    <3>. QED
      BY <1>2, <2>7
  <2>. QED
    BY <1>3, <1>5, <2>8, <2>9, <2>10, <2>11 DEF blk
<1>. QED
  BY <1>4, <1>5 DEF t

\* A shard of a block of the session, and an id that is not stale.
OfSession(z, f, sh) ==
  /\ IsShard(sh) /\ sh.k = K /\ sh.n = N
  /\ Place(f, sh.id) < Len(z) /\ sh.sdu = z[Place(f, sh.id) + 1].sdu
  /\ sh.src = Place(f, sh.id)
Near(f, s, id) ==
  Place(f, id) <= Place(f, s.newest) /\ Place(f, id) >= Place(f, s.newest) - EvictDist

\* The block of a shard, and the same block with the shard.
Given(s, sh) == IF sh.id \in DOMAIN s.rx_blocks THEN s.rx_blocks[sh.id] ELSE NewBlock(sh)
Grown(s, sh) == [Given(s, sh) EXCEPT !.frags = With(@, sh.idx, sh.src), !.last_seen = 0]

\* The shard fits its block, and the block with the shard is in order.
ShardIn(z, f, s, sh) ==
  LET blk == Given(s, sh)
      b2  == Grown(s, sh)
  IN  /\ blk.k = sh.k /\ blk.n = sh.n /\ blk.sdu = sh.sdu
      /\ BlockOK(b2) /\ BlockAt(z, f, b2, sh.id) /\ b2.last_seen = 0
      /\ b2.sdu = sh.sdu /\ DOMAIN b2.frags = DOMAIN blk.frags \cup {sh.idx}
      /\ sh.id \notin DOMAIN s.rx_blocks => DOMAIN blk.frags = {}

\* The block with the shard in it.
LEMMA GrownBlock ==
  ASSUME NEW z, NEW f \in BlockId, NEW s, OnTrack(z, f, s), NEW sh, OfSession(z, f, sh)
  PROVE  ShardIn(z, f, s, sh)
<1> DEFINE blk == Given(s, sh)
           b2 == Grown(s, sh)
           id == sh.id
           p  == Place(f, id)
           g  == With(blk.frags, sh.idx, sh.src)
<1>1. sh.sdu \in Nat /\ sh.sdu = z[p + 1].sdu /\ sh.src = p /\ sh.k = K /\ sh.n = N
  BY DEF OfSession, IsShard
<1>2. /\ DOMAIN blk = BlockFields /\ blk.sdu \in Nat /\ blk.released \in 0 .. blk.sdu
      /\ blk.k = sh.k /\ blk.n = sh.n /\ blk.sdu = sh.sdu
      /\ \A i \in DOMAIN blk.frags : blk.frags[i] = p
      /\ id \notin DOMAIN s.rx_blocks => DOMAIN blk.frags = {}
  <2>1. CASE id \in DOMAIN s.rx_blocks
    <3>1. BlockOK(s.rx_blocks[id]) /\ BlockAt(z, f, s.rx_blocks[id], id)
      BY <2>1 DEF OnTrack, RxOK, InRange
    <3>. QED
      BY <1>1, <2>1, <3>1 DEF BlockOK, BlockAt, Given
  <2>2. CASE id \notin DOMAIN s.rx_blocks
    <3>1. blk = NewBlock(sh)
      BY <2>2 DEF Given
    <3>. QED
      BY <1>1, <2>2, <3>1 DEF NewBlock, BlockFields, EmptyMap
  <2>. QED
    BY <2>1, <2>2
<1>3. /\ DOMAIN g = DOMAIN blk.frags \cup {sh.idx}
      /\ \A i \in DOMAIN g : g[i] = p
  <2> HIDE DEF blk, p
  <2>. QED
    BY <1>1, <1>2 DEF With
<1>4. b2 = [blk EXCEPT !.frags = g, !.last_seen = 0]
  BY <1>2 DEF BlockFields, Grown
<1> HIDE DEF g, p, b2, blk
<1>5. /\ DOMAIN b2 = BlockFields /\ b2.sdu = blk.sdu /\ b2.released = blk.released
      /\ b2.frags = g /\ b2.last_seen = 0 /\ b2.k = blk.k /\ b2.n = blk.n
  BY <1>2, <1>4 DEF BlockFields
<1>6. BlockOK(b2)
  BY <1>2, <1>3, <1>5, AgeFacts DEF BlockOK
<1>7. BlockAt(z, f, b2, sh.id)
  BY <1>1, <1>2, <1>3, <1>5 DEF BlockAt, p
<1>. QED
  BY <1>2, <1>3, <1>5, <1>6, <1>7 DEF b2, blk, ShardIn

\* A shard that is stored: its block keeps whatever hold runs.
LEMMA StoredTrack ==
  ASSUME NEW z, NEW f \in BlockId, NEW s, OnTrack(z, f, s), Fresh(f, s),
         NEW id \in BlockId, Near(f, s, id), id \notin DOMAIN s.ready_blocks,
         Settled(z, f, s) \/ Awaited(f, s, id),
         NEW b2, BlockOK(b2), BlockAt(z, f, b2, id), b2.last_seen = 0
  PROVE  LET t == [s EXCEPT !.rx_blocks = With(@, id, b2)]
         IN  /\ OnTrack(z, f, t) /\ Fresh(f, t) /\ Held(z, f, t)
             /\ t.rx_blocks = With(s.rx_blocks, id, b2)
             /\ t.newest = s.newest /\ t.emit_next = s.emit_next
             /\ t.ready_blocks = s.ready_blocks
<1> DEFINE t == [s EXCEPT !.rx_blocks = With(@, id, b2)]
<1>1. /\ DOMAIN t = Fields /\ t.emit_base_set = s.emit_base_set
      /\ t.emit_next = s.emit_next /\ t.ready_blocks = s.ready_blocks
      /\ t.newest = s.newest /\ t.later_block_since = s.later_block_since
      /\ t.done = s.done /\ t.rx_blocks = With(s.rx_blocks, id, b2)
  BY DEF OnTrack, RxOK, QueueOK, Fields
<1> HIDE DEF t
<1>2. /\ DOMAIN t.rx_blocks = DOMAIN s.rx_blocks \cup {id} /\ t.rx_blocks[id] = b2
      /\ \A c \in DOMAIN s.rx_blocks : c # id => t.rx_blocks[c] = s.rx_blocks[c]
  BY <1>1 DEF With
<1>3. QueueOK(t)
  BY <1>1, <1>2 DEF OnTrack, RxOK, QueueOK
<1>4. \A c \in DOMAIN t.rx_blocks :
        t.rx_blocks[c] = b2 \/ (c \in DOMAIN s.rx_blocks /\ t.rx_blocks[c] = s.rx_blocks[c])
  BY <1>2
<1>5. InRange(t)
  BY <1>1, <1>4 DEF OnTrack, RxOK, InRange
<1>6. \A c \in DOMAIN t.rx_blocks \cup DOMAIN t.ready_blocks : Place(f, c) <= Place(f, t.newest)
  BY <1>1, <1>2 DEF OnTrack, Near
<1>7. \A c \in DOMAIN t.rx_blocks : BlockAt(z, f, t.rx_blocks[c], c)
  BY <1>2 DEF OnTrack
<1>8. OnTrack(z, f, t)
  BY <1>1, <1>3, <1>5, <1>6, <1>7 DEF OnTrack, RxOK
<1>9. Fresh(f, t)
  BY <1>1, <1>2 DEF Fresh, Near
<1>10. s.later_block_since # Never => 0 <= s.later_block_since
  <2>1. s.later_block_since \in Age \cup {Never} /\ DoneHold \in Nat
    BY RxAssumption DEF OnTrack, RxOK, InRange
  <2>. QED
    BY <2>1 DEF Age, AgeCap
<1>11. ASSUME s.later_block_since # Never, Collected(f, s) PROVE Collected(f, t)
  <2>1. PICK c \in DOMAIN s.rx_blocks :
          Place(f, c) >= Place(f, s.emit_next) /\ s.rx_blocks[c].last_seen <= s.later_block_since
    BY <1>11 DEF Collected
  <2>2. c \in DOMAIN t.rx_blocks /\ t.rx_blocks[c].last_seen <= t.later_block_since
    BY <1>1, <1>2, <1>10, <1>11, <2>1
  <2>. QED
    BY <1>1, <2>1, <2>2 DEF Collected
<1>12. Settled(z, f, s) => Held(z, f, t)
  BY <1>1, <1>11 DEF Settled, Held, Waits, Passed, Runs, Lone
<1>13. ASSUME Awaited(f, s, id) PROVE Held(z, f, t)
  <2> SUFFICES ASSUME t.later_block_since # Never PROVE Collected(f, t)
    BY DEF Held
  <2>1. Place(f, id) >= Place(f, t.emit_next)
    <3>1. Place(f, t.emit_next) <= Place(f, id)
      BY <1>1, <1>13 DEF Awaited
    <3>2. Place(f, id) \in Nat /\ Place(f, t.emit_next) \in Nat
      BY <1>1, TrackPlaces, PlaceValue
    <3>. QED
      BY <3>1, <3>2
  <2>. QED
    BY <1>1, <1>2, <1>10, <2>1 DEF Collected
<1>. QED
  BY <1>1, <1>8, <1>9, <1>12, <1>13 DEF t

\* The stored shard streams, or starts the hold of its block.
LEMMA StreamOrArmTrack ==
  ASSUME NEW z, NEW f \in BlockId, NEW s, OnTrack(z, f, s), Fresh(f, s), Held(z, f, s),
         NEW id \in DOMAIN s.rx_blocks, s.rx_blocks[id].last_seen = 0
  PROVE  LET t == StreamOrArm(s, id)
         IN  /\ OnTrack(z, f, t) /\ Fresh(f, t) /\ Held(z, f, t)
             /\ DOMAIN t.rx_blocks = DOMAIN s.rx_blocks /\ Fewer(s, t)
             /\ t.ready_blocks = s.ready_blocks /\ t.emit_next = s.emit_next
             /\ dist_from_emit(t, id) > 0 => t.later_block_since # Never
<1> DEFINE t == StreamOrArm(s, id)
<1>1. /\ RxOK(s) /\ DOMAIN s = Fields /\ s.emit_next \in BlockId /\ s.newest \in BlockId
      /\ id \in BlockId
  BY DEF OnTrack, RxOK, QueueOK, InRange
<1>2. CASE id = s.emit_next
  <2>1. t = try_stream_head_systematic(s, id)
    BY <1>2 DEF StreamOrArm
  <2>2. Still(s, t) /\ DOMAIN t.rx_blocks = DOMAIN s.rx_blocks /\ t.ready_blocks = s.ready_blocks
    BY <1>1, <2>1, StreamStill DEF RxOK
  <2>3. RxOK(t)
    <3>1. SameQueue(s, t)
      BY <1>1, <2>1, StreamKeeps
    <3>2. InRange(t)
      BY <1>1, <2>1, StreamRange DEF RxOK
    <3> HIDE DEF t
    <3>. QED
      BY <1>1, <3>1, <3>2, SameQueueOK DEF RxOK
  <2> HIDE DEF t
  <2>4. OnTrack(z, f, t) /\ Fresh(f, t)
    BY <2>2, <2>3, TrackFewer DEF OnTrack, Still
  <2>5. Collected(f, s) => Collected(f, t)
    BY <2>2 DEF Collected, Still, Fewer, SameShards
  <2>6. Held(z, f, t)
    BY <2>2, <2>5 DEF Held, Waits, Passed, Runs, Lone, Still, Fewer
  <2>7. dist_from_emit(t, id) = 0
    BY <1>1, <1>2, <2>2, DistZero DEF dist_from_emit, Still
  <2>. QED
    BY <2>2, <2>4, <2>6, <2>7 DEF Still, t
<1>3. CASE id # s.emit_next
  <2>1. t = ArmLater(s, id)
    BY <1>3 DEF StreamOrArm
  <2>2. Place(f, id) <= Place(f, s.newest)
    BY TrackHeld
  <2>3. /\ OnTrack(z, f, t) /\ Fresh(f, t) /\ Fewer(s, t)
        /\ t.emit_next = s.emit_next /\ t.rx_blocks = s.rx_blocks
        /\ t.ready_blocks = s.ready_blocks
        /\ dist_from_emit(s, id) > 0 => t.later_block_since # Never
        /\ \/ t.later_block_since = s.later_block_since
           \/ t.later_block_since = 0 /\ dist_from_emit(s, id) > 0
    BY <1>1, <2>1, <2>2, ArmTrack
  <2> HIDE DEF t
  <2>4. Held(z, f, t)
    <3>1. CASE t.later_block_since = s.later_block_since
      BY <2>3, <3>1 DEF Held, Collected, Waits, Passed, Runs, Lone, Fewer
    <3>2. CASE t.later_block_since = 0 /\ dist_from_emit(s, id) > 0
      <4>1. Place(f, id) >= Place(f, t.emit_next)
        <5>1. Place(f, id) \in Nat /\ Place(f, s.emit_next) \in Nat /\ Place(f, id) < Len(z)
          BY TrackHeld, TrackPlaces
        <5>2. dist_from_emit(s, id) = Place(f, id) - Place(f, s.emit_next)
          BY <1>1, <5>1, TrackDist DEF dist_from_emit
        <5> DEFINE p == Place(f, id)
                   e == Place(f, s.emit_next)
        <5>3. p >= e
          <6>1. p \in Nat /\ e \in Nat /\ p - e > 0
            BY <3>2, <5>1, <5>2
          <6> HIDE DEF p, e
          <6>. QED
            BY <6>1
        <5>. QED
          BY <2>3, <5>3
      <4>. QED
        BY <2>3, <3>2, <4>1 DEF Held, Collected
    <3>. QED
      BY <2>3, <3>1, <3>2
  <2>. QED
    BY <2>3, <2>4 DEF dist_from_emit, t
<1>. QED
  BY <1>2, <1>3

\* A block with one shard decodes if it is of one packet.
LEMMA OneShardDecodes ==
  ASSUME NEW blk, NEW i, DOMAIN blk.frags = {i}, blk.sdu \in Nat \ {0}, Decodable(blk)
  PROVE  blk.sdu = 1
<1>1. Cardinality(DOMAIN blk.frags) = 1
  BY FS_Singleton
<1>2. Cardinality(DOMAIN blk.frags) >= blk.sdu
  BY DEF Decodable
<1>. QED
  BY <1>1, <1>2

\* The shard of a call that decodes nothing badly.
LEMMA TakeTrack ==
  ASSUME NEW z, NEW f \in BlockId, NEW s, OnTrack(z, f, s), Fresh(f, s),
         NEW sh, OfSession(z, f, sh), Near(f, s, sh.id),
         Settled(z, f, s) \/ Awaited(f, s, sh.id)
  PROVE  LET t == TakeShard(s, sh, TRUE)
         IN  OnTrack(z, f, t) /\ Fresh(f, t) /\ Held(z, f, t)
<1> DEFINE id   == sh.id
           blk  == Given(s, sh)
           b2   == Grown(s, sh)
           t    == [s EXCEPT !.rx_blocks = With(@, id, b2)]
           v    == StreamOrArm(t, id)
           w    == TakeShard(s, sh, TRUE)
           old  == \/ dist_from_emit(s, id) < 0 /\ IsDone(s, id)
                   \/ id \in DOMAIN s.ready_blocks
<1>1. id \in BlockId /\ sh.sdu \in Nat \ {0}
  BY DEF OfSession, IsShard
<1>2. w = IF old THEN s
          ELSE IF <<blk.k, blk.n, blk.sdu>> # <<sh.k, sh.n, sh.sdu>>
          THEN abandon_partial_block([s EXCEPT !.rx_blocks = Without(@, {id})], blk, id)
          ELSE IF sh.idx \in DOMAIN blk.frags THEN s
          ELSE try_decode_block(v, id, TRUE)
  BY DEF TakeShard, StoreShard, Given, Grown
<1> HIDE DEF w
<1>3. /\ blk.k = sh.k /\ blk.n = sh.n /\ blk.sdu = sh.sdu
      /\ BlockOK(b2) /\ BlockAt(z, f, b2, id) /\ b2.last_seen = 0 /\ b2.sdu = sh.sdu
      /\ DOMAIN b2.frags = DOMAIN blk.frags \cup {sh.idx}
      /\ id \notin DOMAIN s.rx_blocks => DOMAIN blk.frags = {}
  <2>1. ShardIn(z, f, s, sh)
    BY GrownBlock
  <2>. QED
    BY <2>1 DEF ShardIn
<1> HIDE DEF b2, blk
<1>4. CASE old
  <2>1. Held(z, f, s)
    <3>1. CASE Settled(z, f, s)
      BY <3>1 DEF Settled
    <3>2. CASE Awaited(f, s, id)
      <4>1. dist_from_emit(s, id) < 0
        BY <1>4, <3>2 DEF Awaited
      <4>2. dist_from_emit(s, id) = Place(f, id) - Place(f, s.emit_next)
        BY <1>1, TrackDist DEF dist_from_emit, OfSession
      <4>3. Place(f, id) \in Nat /\ Place(f, s.emit_next) \in Nat
        BY <1>1, PlaceValue, TrackPlaces
      <4>4. ~(Place(f, s.emit_next) <= Place(f, id))
        BY <4>1, <4>2, <4>3
      <4>. QED
        BY <3>2, <4>4 DEF Awaited, Held
    <3>. QED
      BY <3>1, <3>2
  <2>. QED
    BY <1>2, <1>4, <2>1 DEF w
<1>5. CASE ~old /\ sh.idx \in DOMAIN blk.frags
  <2>1. w = s
    BY <1>2, <1>3, <1>5
  <2>2. Held(z, f, s)
    BY <1>3, <1>5 DEF Settled, Awaited
  <2>. QED
    BY <2>1, <2>2 DEF w
<1>6. CASE ~old /\ sh.idx \notin DOMAIN blk.frags
  <2>1. w = try_decode_block(v, id, TRUE)
    BY <1>2, <1>3, <1>6
  <2>2. /\ OnTrack(z, f, t) /\ Fresh(f, t) /\ Held(z, f, t)
        /\ t.rx_blocks = With(s.rx_blocks, id, b2)
        /\ t.newest = s.newest /\ t.emit_next = s.emit_next
        /\ t.ready_blocks = s.ready_blocks
    BY <1>1, <1>3, <1>6, StoredTrack
  <2> HIDE DEF t
  <2>3. id \in DOMAIN t.rx_blocks /\ t.rx_blocks[id] = b2
    BY <2>2 DEF With
  <2>4. /\ OnTrack(z, f, v) /\ Fresh(f, v) /\ Held(z, f, v)
        /\ DOMAIN v.rx_blocks = DOMAIN t.rx_blocks /\ Fewer(t, v)
        /\ v.ready_blocks = t.ready_blocks /\ v.emit_next = t.emit_next
        /\ dist_from_emit(v, id) > 0 => v.later_block_since # Never
    BY <1>3, <2>2, <2>3, StreamOrArmTrack
  <2> HIDE DEF v
  <2>5. \/ v.emit_next \notin DOMAIN v.ready_blocks
        \/ id = v.newest /\ (Decodable(v.rx_blocks[id]) => Lone(z, f, v))
    <3>1. CASE Settled(z, f, s)
      BY <2>2, <2>4, <3>1 DEF Settled
    <3>2. CASE Awaited(f, s, id)
      <4>1. id = v.newest
        BY <2>2, <2>4, <3>2 DEF Awaited, Fewer
      <4>2. ASSUME Decodable(v.rx_blocks[id]) PROVE Lone(z, f, v)
        <5>1. DOMAIN b2.frags = {sh.idx} /\ b2.sdu = sh.sdu
          BY <1>3, <3>2 DEF Awaited
        <5>2. v.rx_blocks[id].frags = b2.frags /\ v.rx_blocks[id].sdu = b2.sdu
          BY <2>3, <2>4 DEF Fewer, SameShards
        <5>3. sh.sdu = 1
          BY <1>1, <4>2, <5>1, <5>2, OneShardDecodes
        <5>. QED
          BY <4>1, <5>3 DEF Lone, OfSession
      <4>. QED
        BY <4>1, <4>2
    <3>. QED
      BY <3>1, <3>2
  <2>6. id \in DOMAIN v.rx_blocks
    BY <2>3, <2>4
  <2>. QED
    BY <2>1, <2>4, <2>5, <2>6, DecodeTrack DEF w
<1>. QED
  BY <1>4, <1>5, <1>6

------------------------------------------------------------------------------

(* The session, step by step.                                               *)

\* One session, numbered from f on; and what arrives is not too late for the eviction.
Session(f) ==
  /\ Place(f, block_id) = Len(sent)
  /\ \A b \in 1 .. Len(sent) : Place(f, sent[b].id) = b - 1
  /\ \A b \in DOMAIN air : Len(sent) - 1 - b <= MaxReorder

\* A receiver that something came to is on track, and its hold is kept.
Kept(z, f, s) ==
  IF s.emit_base_set THEN OnTrack(z, f, s) /\ Fresh(f, s) /\ Held(z, f, s)
  ELSE s.later_block_since = Never

HoldInv ==
  \E f \in BlockId :
    restarts = <<>> /\ Len(sent) < RingMod \div 2 => Session(f) /\ Kept(sent, f, fec)

\* A shard of the session that can still arrive is one of its blocks'.
LEMMA ArrivesOnTrack ==
  ASSUME MaxReorder <= EvictDist, SenderOK, NEW f \in BlockId, Session(f),
         NEW b \in DOMAIN air, NEW i \in IndexesSent(b)
  PROVE  /\ OfSession(sent, f, ShardOf(b, i)) /\ Place(f, ShardOf(b, i).id) = b
         /\ b \in Nat /\ Len(sent) - 1 - b <= EvictDist
<1>1. b + 1 \in 1 .. Len(sent) /\ b \in Nat /\ Len(sent) \in Nat
  BY LenProperties DEF SenderOK
<1>2. Place(f, sent[b + 1].id) = b
  BY <1>1 DEF Session
<1>3. IsShard(ShardOf(b, i))
  BY AirShard
<1>4. /\ ShardOf(b, i).id = sent[b + 1].id /\ ShardOf(b, i).sdu = sent[b + 1].sdu
      /\ ShardOf(b, i).k = K /\ ShardOf(b, i).n = N /\ ShardOf(b, i).src = b
  BY DEF ShardOf
<1>5. OfSession(sent, f, ShardOf(b, i))
  BY <1>1, <1>2, <1>3, <1>4 DEF OfSession
<1>6. Len(sent) - 1 - b <= MaxReorder /\ MaxReorder \in Nat /\ EvictDist \in Nat
  BY LinkAssumption, RxAssumption DEF Session
<1>7. Len(sent) - 1 - b <= EvictDist
  BY <1>1, <1>6
<1>. QED
  BY <1>1, <1>2, <1>4, <1>5, <1>7

\* One session's shards are not mixed, so decoding one does not fail.
LEMMA NeverFails ==
  ASSUME NEW z, NEW f \in BlockId, NEW s, OnTrack(z, f, s), NEW sh, OfSession(z, f, sh)
  PROVE  ~MayFail(s, sh)
<1> SUFFICES ASSUME NEW b \in DOMAIN s.rx_blocks \cap {sh.id},
                    Mixed([s.rx_blocks[b] EXCEPT !.frags = With(@, sh.idx, sh.src)])
             PROVE  FALSE
  BY DEF MayFail
<1> DEFINE p   == Place(f, sh.id)
           blk == s.rx_blocks[b]
           g   == With(blk.frags, sh.idx, sh.src)
<1>1. b = sh.id /\ BlockOK(blk) /\ BlockAt(z, f, blk, sh.id) /\ sh.src = p
  BY DEF OnTrack, RxOK, InRange, OfSession
<1>2. (\A i \in DOMAIN blk.frags : blk.frags[i] = p) /\ DOMAIN blk = BlockFields
  BY <1>1 DEF BlockAt, BlockOK
<1>3. \A i \in DOMAIN g : g[i] = p
  <2> HIDE DEF blk, p
  <2>. QED
    BY <1>1, <1>2 DEF With
<1>4. Mixed([blk EXCEPT !.frags = g])
  OBVIOUS
<1> HIDE DEF blk, g, p
<1>5. [blk EXCEPT !.frags = g].frags = g
  BY <1>2 DEF BlockFields
<1>. QED
  BY <1>3, <1>4, <1>5 DEF Mixed

\* push_air keeps the hold.
LEMMA PushKept ==
  ASSUME MaxReorder <= EvictDist, LinkInv, InRange(fec), NEW f \in BlockId, Session(f),
         Len(sent) < RingMod \div 2, Kept(sent, f, fec),
         NEW b \in DOMAIN air, NEW i \in IndexesSent(b), push_air(ShardOf(b, i))
  PROVE  Kept(sent, f, fec')
<1> DEFINE sh == ShardOf(b, i)
<1>1. PICK s \in BeforeTake(fec, sh), ok \in BOOLEAN :
        /\ ~ok => MayFail(s, sh)
        /\ fec' \in ExpireThenEmit(TakeShard(s, sh, ok))
  BY DEF push_air
<1>2. OfSession(sent, f, sh) /\ Place(f, sh.id) = b /\ b \in Nat /\ Len(sent) - 1 - b <= EvictDist
  BY ArrivesOnTrack DEF LinkInv
<1> HIDE DEF sh
<1>3. sh.id \in BlockId /\ Place(f, sh.id) < Len(sent) /\ Len(sent) \in Nat
  BY <1>2, LenProperties DEF OfSession, IsShard, LinkInv, SenderOK
<1>4. /\ fec.emit_base_set => OnTrack(sent, f, fec) /\ Settled(sent, f, fec)
      /\ ~fec.emit_base_set => fec.later_block_since = Never
  BY DEF Kept, Settled, LinkInv, Rested
<1>5. Rested(fec)
  BY DEF LinkInv
<1>6. PICK z : z = sent
  OBVIOUS
<1>8. /\ OnTrack(z, f, s) /\ Fresh(f, s) /\ Place(f, sh.id) <= Place(f, s.newest)
      /\ Settled(z, f, s) \/ Awaited(f, s, sh.id)
  BY <1>1, <1>3, <1>4, <1>5, <1>6, BeforeTakeTrack
<1>9. Near(f, s, sh.id)
  <2> DEFINE n == Place(f, s.newest)
             l == Len(sent)
  <2>1. n \in Nat /\ n < l /\ l \in Nat /\ l - 1 - b <= EvictDist /\ EvictDist \in Nat
    BY <1>2, <1>3, <1>6, <1>8, TrackPlaces, RxAssumption DEF OnTrack
  <2>2. b >= n - EvictDist
    <3> HIDE DEF n, l
    <3>. QED
      BY <1>2, <2>1
  <2>. QED
    BY <1>2, <1>8, <2>2 DEF Near
<1>10. ok = TRUE
  BY <1>1, <1>2, <1>6, <1>8, NeverFails
<1> DEFINE t == TakeShard(s, sh, TRUE)
<1>11. fec' \in ExpireThenEmit(t)
  BY <1>1, <1>10
<1>12. OnTrack(z, f, t) /\ Fresh(f, t) /\ Held(z, f, t)
  BY <1>2, <1>6, <1>8, <1>9, TakeTrack
<1> HIDE DEF t
<1>13. OnTrack(z, f, fec') /\ Fresh(f, fec') /\ Held(z, f, fec')
  BY <1>11, <1>12, EndTrack
<1>. QED
  BY <1>6, <1>13 DEF Kept, OnTrack

\* poll_rx keeps the hold.
LEMMA PollKept ==
  ASSUME LinkInv, InRange(fec), NEW f \in BlockId, NEW z, Kept(z, f, fec), poll_rx
  PROVE  Kept(z, f, fec')
<1> DEFINE c == ClearResults(fec)
<1>1. fec' \in ExpireThenEmit(c)
  BY DEF poll_rx
<1>2. RxOK(fec) /\ RxOK(c) /\ SameTrack(fec, c)
  <2>1. RxOK(fec)
    BY DEF LinkInv, Rested, RxOK
  <2>. QED
    BY <2>1, ClearResultsRange DEF ClearResults, SameTrack, RxOK, QueueOK, Fields
<1> HIDE DEF c
<1>3. CASE fec.emit_base_set
  <2>1. OnTrack(z, f, c) /\ Fresh(f, c) /\ Held(z, f, c)
    BY <1>2, <1>3, SameTrackOK DEF Kept
  <2>2. OnTrack(z, f, fec') /\ Fresh(f, fec') /\ Held(z, f, fec')
    BY <1>1, <2>1, EndTrack
  <2>. QED
    BY <2>2 DEF Kept, OnTrack
<1>4. CASE ~fec.emit_base_set
  <2> DEFINE d == expire_done(c)
             S == {b \in DOMAIN d.rx_blocks : d.rx_blocks[b].last_seen > RxHold}
  <2>1. PICK u \in AbandonAll(d, S) : fec' = run_emit_engine(u)
    BY <1>1 DEF ExpireThenEmit, expire_rx
  <2>2. /\ DOMAIN d = Fields /\ ~d.emit_base_set /\ d.later_block_since = Never
    BY <1>2, <1>4 DEF expire_done, Kept, SameTrack, RxOK, QueueOK, Fields
  <2>3. u \in AbandonAll(d, S)
    OBVIOUS
  <2> HIDE DEF d, S
  <2>4. /\ u.emit_base_set = d.emit_base_set
        /\ u.later_block_since = Never
    BY <2>2, <2>3, AbandonAllFewer DEF Fewer, Still
  <2>5. fec' = u
    BY <2>1, <2>2, <2>4 DEF run_emit_engine
  <2>. QED
    BY <2>2, <2>4, <2>5 DEF Kept
<1>. QED
  BY <1>3, <1>4

\* An age that was no more than another still is.
LEMMA OlderKeeps ==
  ASSUME NEW a \in Age, NEW b \in Age, a <= b
  PROVE  Older(a) <= Older(b)
<1>1. DoneHold \in Nat
  BY RxAssumption
<1>. QED
  BY <1>1 DEF Older, Age, AgeCap, Never

\* As time passes, what kept the hold ages with it.
LEMMA TickKept ==
  ASSUME LinkInv, InRange(fec), NEW f \in BlockId, NEW z, Kept(z, f, fec), Tick
  PROVE  Kept(z, f, fec')
<1> DEFINE c == ClearResults(fec)
           q == [j \in 1 .. Len(c.done) |-> [c.done[j] EXCEPT !.age = Older(@)]]
           r == [b \in DOMAIN c.rx_blocks |-> [c.rx_blocks[b] EXCEPT !.last_seen = Older(@)]]
<1>1. RxOK(fec) /\ RxOK(c) /\ SameTrack(fec, c)
  <2>1. RxOK(fec)
    BY DEF LinkInv, Rested, RxOK
  <2>. QED
    BY <2>1, ClearResultsRange DEF ClearResults, SameTrack, RxOK, QueueOK, Fields
<1>2. PICK t : t = fec'
  OBVIOUS
<1>3. RxOK(t)
  BY <1>2, TickOK, TickRange DEF LinkInv, Rested, RxOK
<1> HIDE DEF c
<1>4. fec' = [c EXCEPT
                !.last_payload_emit = Older(@),
                !.last_shard_rx     = Older(@),
                !.later_block_since = Older(@),
                !.done              = q,
                !.rx_blocks         = r]
  BY DEF Tick, c
<1> HIDE DEF q, r
<1>5. /\ t.newest = fec.newest /\ t.emit_base_set = fec.emit_base_set
      /\ t.emit_next = fec.emit_next /\ t.ready_blocks = fec.ready_blocks
      /\ t.later_block_since = Older(fec.later_block_since) /\ t.rx_blocks = r
  BY <1>1, <1>2, <1>4 DEF RxOK, QueueOK, Fields, SameTrack
<1>6. /\ DOMAIN t.rx_blocks = DOMAIN fec.rx_blocks
      /\ \A b \in DOMAIN fec.rx_blocks :
           t.rx_blocks[b] = [fec.rx_blocks[b] EXCEPT !.last_seen = Older(@)]
  BY <1>1, <1>5 DEF r, SameTrack
<1>7. \A b \in DOMAIN fec.rx_blocks :
        /\ t.rx_blocks[b].k = fec.rx_blocks[b].k /\ t.rx_blocks[b].n = fec.rx_blocks[b].n
        /\ t.rx_blocks[b].sdu = fec.rx_blocks[b].sdu
        /\ t.rx_blocks[b].frags = fec.rx_blocks[b].frags
        /\ fec.rx_blocks[b].last_seen \in Age
        /\ t.rx_blocks[b].last_seen = Older(fec.rx_blocks[b].last_seen)
  <2> TAKE b \in DOMAIN fec.rx_blocks
  <2> DEFINE blk == fec.rx_blocks[b]
             new == t.rx_blocks[b]
  <2>1. new = [blk EXCEPT !.last_seen = Older(@)] /\ BlockOK(blk)
    BY <1>1, <1>6 DEF RxOK, InRange
  <2> HIDE DEF blk, new
  <2>2. /\ new.k = blk.k /\ new.n = blk.n /\ new.sdu = blk.sdu /\ new.frags = blk.frags
        /\ blk.last_seen \in Age /\ new.last_seen = Older(blk.last_seen)
    BY <2>1 DEF BlockOK, BlockFields
  <2>. QED
    BY <2>2 DEF blk, new
<1>8. /\ fec.later_block_since = Never => t.later_block_since = Never
      /\ fec.later_block_since # Never => fec.later_block_since \in Age
  BY <1>1, <1>5, AgeFacts DEF RxOK, InRange
<1>9. CASE fec.emit_base_set
  <2>1. OnTrack(z, f, fec) /\ Fresh(f, fec) /\ Held(z, f, fec)
    BY <1>9 DEF Kept
  <2>2. \A b \in DOMAIN t.rx_blocks : BlockAt(z, f, t.rx_blocks[b], b)
    <3> TAKE b \in DOMAIN t.rx_blocks
    <3>1. BlockAt(z, f, fec.rx_blocks[b], b)
      BY <1>6, <2>1 DEF OnTrack
    <3>. QED
      BY <1>6, <1>7, <3>1 DEF BlockAt
  <2>3. OnTrack(z, f, t)
    BY <1>3, <1>5, <1>6, <1>8, <2>1, <2>2 DEF OnTrack
  <2>4. Fresh(f, t)
    BY <1>5, <1>6, <2>1 DEF Fresh
  <2>5. ASSUME fec.later_block_since # Never, Collected(f, fec) PROVE Collected(f, t)
    <3>1. PICK b \in DOMAIN fec.rx_blocks :
            /\ Place(f, b) >= Place(f, fec.emit_next)
            /\ fec.rx_blocks[b].last_seen <= fec.later_block_since
      BY <2>5 DEF Collected
    <3>2. t.rx_blocks[b].last_seen <= t.later_block_since
      BY <1>5, <1>7, <1>8, <2>5, <3>1, OlderKeeps
    <3>. QED
      BY <1>5, <1>6, <3>1, <3>2 DEF Collected
  <2>6. Held(z, f, t)
    BY <1>5, <1>8, <2>1, <2>5 DEF Held, Waits, Passed, Runs, Lone
  <2>. QED
    BY <1>2, <2>3, <2>4, <2>6 DEF Kept, OnTrack
<1>10. CASE ~fec.emit_base_set
  BY <1>2, <1>5, <1>8, <1>10 DEF Kept
<1>. QED
  BY <1>9, <1>10

\* Another block sent does not touch those before it.
LEMMA SentMore ==
  ASSUME NEW z, NEW y, NEW f \in BlockId, NEW s, Kept(z, f, s),
         Len(y) \in Nat, Len(y) < RingMod \div 2, Len(z) \in Nat, Len(z) <= Len(y),
         \A b \in 1 .. Len(z) : y[b] = z[b]
  PROVE  Kept(y, f, s)
<1>1. CASE s.emit_base_set
  <2>1. OnTrack(z, f, s) /\ Fresh(f, s) /\ Held(z, f, s)
    BY <1>1 DEF Kept
  <2>2. ASSUME NEW c \in BlockId, Place(f, c) < Len(z) PROVE y[Place(f, c) + 1] = z[Place(f, c) + 1]
    <3>1. Place(f, c) \in Nat
      BY PlaceValue
    <3>2. Place(f, c) + 1 \in 1 .. Len(z)
      BY <2>2, <3>1
    <3>. QED
      BY <3>2
  <2>3. \A c \in DOMAIN s.rx_blocks : BlockAt(y, f, s.rx_blocks[c], c)
    <3> TAKE c \in DOMAIN s.rx_blocks
    <3>1. c \in BlockId /\ Place(f, c) < Len(z)
      BY <2>1, TrackHeld
    <3>2. BlockAt(z, f, s.rx_blocks[c], c) /\ y[Place(f, c) + 1] = z[Place(f, c) + 1]
      BY <2>1, <2>2, <3>1 DEF OnTrack
    <3>. QED
      BY <3>2 DEF BlockAt
  <2>4. s.newest \in BlockId /\ Place(f, s.newest) < Len(z) /\ Place(f, s.newest) \in Nat
    BY <2>1, TrackPlaces DEF OnTrack
  <2>5. Place(f, s.newest) < Len(y)
    BY <2>4
  <2>6. OnTrack(y, f, s)
    BY <2>1, <2>3, <2>5 DEF OnTrack
  <2>7. Lone(z, f, s) => Lone(y, f, s)
    BY <2>2, <2>4 DEF Lone
  <2>8. Held(y, f, s)
    BY <2>1, <2>7 DEF Held, Passed, Runs
  <2>. QED
    BY <1>1, <2>1, <2>6, <2>8 DEF Kept
<1>2. CASE ~s.emit_base_set
  BY <1>2 DEF Kept
<1>. QED
  BY <1>1, <1>2

\* flush() goes on with the session.
LEMMA SendSession ==
  ASSUME LinkInv, NEW f \in BlockId, Session(f), Kept(sent, f, fec), SendBlock,
         Len(sent') < RingMod \div 2
  PROVE  Session(f)' /\ Kept(sent', f, fec') /\ Len(sent) < RingMod \div 2
<1>2. PICK c \in SduCounts : sent' = Append(sent, [id |-> block_id, sdu |-> c])
  BY DEF SendBlock
<1>3. sent \in Seq([id : BlockId, sdu : SduCounts]) /\ block_id \in BlockId /\ Len(sent) \in Nat
  BY LenProperties DEF LinkInv, SenderOK
<1>4. /\ Len(sent') = Len(sent) + 1
      /\ \A b \in 1 .. Len(sent) : sent'[b] = sent[b]
      /\ sent'[Len(sent) + 1] = [id |-> block_id, sdu |-> c]
  BY <1>2, <1>3
<1> DEFINE H == RingMod \div 2
           l == Len(sent)
<1>5. H \in Nat /\ 2 * H = RingMod /\ l \in Nat /\ Len(sent') = l + 1 /\ Len(sent') < H
  BY <1>3, <1>4, HalfRing
<1> HIDE DEF H
<1>6. l < H /\ l + 1 < RingMod
  <2> HIDE DEF l
  <2>. QED
    BY <1>5
<1>7. Session(f) /\ Kept(sent, f, fec)
  OBVIOUS
<1>8. Place(f, block_id') = l + 1
  <2>1. Place(f, block_id) = l
    BY <1>7 DEF Session
  <2>2. Place(f, block_id) + 1 < RingMod /\ 1 \in Nat
    BY <1>6, <2>1
  <2>3. Place(f, wire_block_id(block_id + 1)) = l + 1
    BY <1>3, <2>1, <2>2, PlaceNext
  <2>4. block_id' = wire_block_id(block_id + 1)
    BY DEF SendBlock
  <2>. QED
    BY <2>3, <2>4
<1>9. \A b \in 1 .. Len(sent') : Place(f, sent'[b].id) = b - 1
  <2> TAKE b \in 1 .. Len(sent')
  <2>1. CASE b \in 1 .. l
    BY <1>4, <1>7, <2>1 DEF Session
  <2>2. CASE b = l + 1
    <3>1. sent'[b].id = block_id
      BY <1>4, <2>2
    <3>2. Place(f, block_id) = l /\ b - 1 = l
      BY <1>5, <1>7, <2>2 DEF Session
    <3>. QED
      BY <3>1, <3>2
  <2>3. b \in 1 .. l \/ b = l + 1
    <3> HIDE DEF l
    <3>. QED
      BY <1>5
  <2>. QED
    BY <2>1, <2>2, <2>3
<1>10. \A b \in DOMAIN air' : Len(sent') - 1 - b <= MaxReorder
  <2> TAKE b \in DOMAIN air'
  <2>1. b \in {c_1 \in DOMAIN air : l - c_1 <= MaxReorder} \cup {l}
    BY DEF SendBlock, With
  <2>2. MaxReorder \in Nat /\ DOMAIN air \subseteq 0 .. l - 1
    BY LinkAssumption DEF LinkInv, SenderOK
  <2>3. b \in Nat /\ l - b <= MaxReorder
    <3> HIDE DEF l
    <3>. QED
      BY <1>5, <2>1, <2>2
  <2>. QED
    <3> HIDE DEF l
    <3>. QED
      BY <1>5, <2>2, <2>3
<1>11. Session(f)'
  BY <1>5, <1>8, <1>9, <1>10 DEF Session
<1>12. Kept(sent', f, fec')
  <2>1. fec' = fec
    BY DEF SendBlock
  <2>2. PICK y : y = sent'
    OBVIOUS
  <2>3. Len(y) \in Nat /\ Len(sent) <= Len(y) /\ Len(y) < RingMod \div 2
    BY <1>5, <2>2 DEF H
  <2>4. \A b \in 1 .. Len(sent) : y[b] = sent[b]
    BY <1>4, <2>2
  <2>5. Kept(y, f, fec)
    BY <1>3, <1>7, <2>3, <2>4, SentMore
  <2>. QED
    BY <2>1, <2>2, <2>5
<1>. QED
  BY <1>6, <1>11, <1>12 DEF H

\* flush() keeps the hold.
LEMMA SendKept ==
  ASSUME LinkInv, HoldInv, SendBlock
  PROVE  HoldInv'
<1>1. PICK f \in BlockId :
        restarts = <<>> /\ Len(sent) < RingMod \div 2 => Session(f) /\ Kept(sent, f, fec)
  BY DEF HoldInv
<1>2. restarts' = restarts /\ (Len(sent') < RingMod \div 2 => Len(sent) < RingMod \div 2)
  <2>1. PICK c \in SduCounts : sent' = Append(sent, [id |-> block_id, sdu |-> c])
    BY DEF SendBlock
  <2>2. sent \in Seq([id : BlockId, sdu : SduCounts]) /\ Len(sent) \in Nat
    BY LenProperties DEF LinkInv, SenderOK
  <2>3. Len(sent') = Len(sent) + 1
    BY <2>1, <2>2
  <2> DEFINE H == RingMod \div 2
  <2>4. H \in Nat
    BY HalfRing
  <2> HIDE DEF H
  <2>5. Len(sent') < H => Len(sent) < H
    BY <2>2, <2>3, <2>4
  <2>. QED
    BY <2>5 DEF SendBlock, H
<1>3. restarts' = <<>> /\ Len(sent') < RingMod \div 2 => Session(f)' /\ Kept(sent', f, fec')
  BY <1>1, <1>2, SendSession
<1>. QED
  BY <1>3 DEF HoldInv

\* A new sender: the session starts with its first id.
LEMMA HoldStarts ==
  ASSUME LinkInit
  PROVE  HoldInv
<1>1. block_id \in BlockId /\ sent = <<>> /\ air = EmptyMap /\ fec = Cleared
  BY LinkAssumption DEF LinkInit, RxInit
<1>2. Place(block_id, block_id) = 0
  <2>1. block_id \in 0 .. RingMod - 1 /\ RingMod \in Nat
    BY <1>1, RingAssumption DEF BlockId
  <2>2. Place(block_id, block_id) =
          IF block_id >= block_id THEN block_id - block_id ELSE block_id - block_id + RingMod
    BY <1>1, PlaceValue
  <2>. QED
    BY <2>1, <2>2
<1>3. Session(block_id)
  BY <1>1, <1>2 DEF Session, EmptyMap
<1>4. Kept(sent, block_id, fec)
  BY <1>1 DEF Kept, Cleared
<1>. QED
  BY <1>1, <1>3, <1>4 DEF HoldInv

\* Every step keeps the hold.
LEMMA HoldStep ==
  ASSUME MaxReorder <= EvictDist, LinkInv, InRange(fec), HoldInv, [LinkNext]_vars
  PROVE  HoldInv'
<1>1. PICK f \in BlockId :
        restarts = <<>> /\ Len(sent) < RingMod \div 2 => Session(f) /\ Kept(sent, f, fec)
  BY DEF HoldInv
<1>2. CASE UNCHANGED vars
  BY <1>2 DEF HoldInv, Session, vars, link
<1>3. ASSUME Restart PROVE HoldInv'
  <2>1. restarts' = Append(restarts, Len(sent))
    BY <1>3 DEF Restart
  <2>2. restarts' # <<>>
    BY <2>1
  <2>. QED
    BY <1>1, <2>2 DEF HoldInv
<1>4. ASSUME UNCHANGED link, restarts = <<>> /\ Len(sent) < RingMod \div 2 => Kept(sent, f, fec')
      PROVE  HoldInv'
  BY <1>1, <1>4 DEF HoldInv, Session, link
<1>5. ASSUME NEW b \in DOMAIN air, NEW i \in IndexesSent(b), Arrive(b, i)
      PROVE  HoldInv'
  BY <1>1, <1>4, <1>5, PushKept DEF Arrive
<1>6. ASSUME Poll PROVE HoldInv'
  BY <1>1, <1>4, <1>6, PollKept DEF Poll
<1>7. ASSUME TimePasses PROVE HoldInv'
  <2>1. restarts = <<>> /\ Len(sent) < RingMod \div 2 => Kept(sent, f, fec')
    BY <1>1, <1>7, TickKept DEF TimePasses
  <2>2. restarts = <<>> /\ Len(sent) < RingMod \div 2 => Session(f)'
    BY <1>1, <1>7 DEF TimePasses, Session
  <2>3. UNCHANGED <<restarts, sent>>
    BY <1>7 DEF TimePasses
  <2>. QED
    BY <2>1, <2>2, <2>3 DEF HoldInv
<1>. QED
  BY <1>2, <1>3, <1>5, <1>6, <1>7, SendKept DEF LinkNext

\* What keeps the hold is what HoldNeedsBlock asks for.
LEMMA HoldShown ==
  ASSUME LinkInv, HoldInv
  PROVE  HoldNeedsBlock
<1> SUFFICES ASSUME fec.later_block_since # Never, restarts = <<>>, Len(sent) < RingMod \div 2
             PROVE  \/ \E b \in DOMAIN fec.rx_blocks \cup DOMAIN fec.ready_blocks :
                         dist_from_emit(fec, b) >= 0
                    \/ /\ fec.emit_next = wire_block_id(fec.newest + 1)
                       /\ [id |-> fec.newest, sdu |-> 1] \in ToSet(sent)
  BY DEF HoldNeedsBlock
<1>1. PICK f \in BlockId : Session(f) /\ Kept(sent, f, fec)
  BY DEF HoldInv
<1>2. OnTrack(sent, f, fec) /\ Held(sent, f, fec)
  BY <1>1 DEF Kept
<1>3. ASSUME NEW c \in DOMAIN fec.rx_blocks \cup DOMAIN fec.ready_blocks,
             Place(f, c) >= Place(f, fec.emit_next)
      PROVE  dist_from_emit(fec, c) >= 0
  <2>1. c \in BlockId /\ Place(f, c) \in Nat /\ Place(f, c) < Len(sent)
        /\ Place(f, fec.emit_next) \in Nat
    BY <1>2, TrackHeld, TrackPlaces
  <2>2. dist_from_emit(fec, c) = Place(f, c) - Place(f, fec.emit_next)
    BY <1>2, <2>1, TrackDist DEF dist_from_emit
  <2>. QED
    BY <1>3, <2>1, <2>2
<1>4. CASE Collected(f, fec)
  BY <1>3, <1>4 DEF Collected
<1>5. ASSUME NEW c \in DOMAIN fec.ready_blocks
      PROVE  dist_from_emit(fec, c) >= 0
  <2>1. Place(f, fec.emit_next) <= Place(f, c) /\ Place(f, c) \in Nat
        /\ Place(f, fec.emit_next) \in Nat
    BY <1>2, TrackHeld, TrackPlaces
  <2>. QED
    BY <1>3, <2>1
<1>6. CASE Waits(fec) \/ Runs(sent, f, fec)
  BY <1>5, <1>6 DEF Waits, Runs
<1>7. CASE Passed(sent, f, fec)
  <2> DEFINE n == Place(f, fec.newest)
  <2>1. /\ fec.newest \in BlockId /\ fec.emit_next \in BlockId /\ n \in Nat /\ n < Len(sent)
        /\ n + 2 <= RingMod \div 2 /\ RingMod \div 2 \in Nat /\ 2 * (RingMod \div 2) = RingMod
    BY <1>2, TrackPlaces DEF OnTrack
  <2>2. n + 1 < RingMod /\ 1 \in Nat
    <3> DEFINE H == RingMod \div 2
    <3>1. n \in Nat /\ n + 2 <= H /\ H \in Nat /\ 2 * H = RingMod
      BY <2>1
    <3> HIDE DEF H, n
    <3>. QED
      BY <3>1
  <2>3. /\ wire_block_id(fec.newest + 1) \in BlockId
        /\ Place(f, wire_block_id(fec.newest + 1)) = n + 1
    BY <2>1, <2>2, PlaceNext
  <2>4. fec.emit_next = wire_block_id(fec.newest + 1)
    BY <1>7, <2>1, <2>3, PlaceSame DEF Passed
  <2>5. n + 1 \in 1 .. Len(sent) /\ Len(sent) \in Nat
    <3>1. Len(sent) \in Nat
      BY <1>2 DEF OnTrack
    <3> HIDE DEF n
    <3>. QED
      BY <2>1, <3>1
  <2>6. sent[n + 1] \in [id : BlockId, sdu : SduCounts]
    BY <2>5, ElementOfSeq DEF LinkInv, SenderOK
  <2>7. Place(f, sent[n + 1].id) = n
    <3> HIDE DEF n
    <3>. QED
      BY <1>1, <2>1, <2>5 DEF Session
  <2>8. sent[n + 1].id = fec.newest
    BY <2>1, <2>6, <2>7, PlaceSame
  <2>9. sent[n + 1].sdu = 1
    BY <1>7 DEF Passed, Lone
  <2>10. sent[n + 1] = [id |-> fec.newest, sdu |-> 1]
    <3> DEFINE x == sent[n + 1]
    <3>1. x \in [id : BlockId, sdu : SduCounts] /\ x.id = fec.newest /\ x.sdu = 1
      BY <2>6, <2>8, <2>9
    <3> HIDE DEF x
    <3>2. x = [id |-> fec.newest, sdu |-> 1]
      BY <3>1
    <3>. QED
      BY <3>2 DEF x
  <2>11. [id |-> fec.newest, sdu |-> 1] \in ToSet(sent)
    <3>1. n + 1 \in DOMAIN sent
      BY <2>5 DEF LinkInv, SenderOK
    <3>. QED
      BY <2>10, <3>1 DEF ToSet
  <2>. QED
    BY <2>4, <2>11
<1>. QED
  BY <1>2, <1>4, <1>6, <1>7 DEF Held

\* HoldNeedsBlock on every link that lets no shard be overtaken by more blocks than
\* k_ring_evict_dist, whatever is lost, repeated or delayed: ring_evict_stale,
\* abandon_partial_block, maybe_give_up_head and the two places that arm
\* later_block_waiting leave no hold running without a block at or after the head, but
\* for the newest block of one packet that was just returned.
THEOREM HoldKept == ASSUME MaxReorder <= EvictDist PROVE LinkSpec => []HoldNeedsBlock
<1> DEFINE Inv == LinkInv /\ InRange(fec) /\ HoldInv
<1>1. LinkInit => Inv
  BY LinkStarts, ClearedRange, HoldStarts DEF LinkInit, RxInit
<1>2. Inv /\ [LinkNext]_vars => Inv'
  BY LinkStep, RangeStep, HoldStep
<1>3. Inv => HoldNeedsBlock
  BY HoldShown
<1>. QED
  BY <1>1, <1>2, <1>3, PTL DEF LinkSpec

------------------------------------------------------------------------------

(* Lists of different packets (see NeverTwice).                             *)

\* Two lists of different elements that share none.
LEMMA JoinNew ==
  ASSUME NEW P, NEW a \in Seq(P), NEW b \in Seq(P), IsInjective(a), IsInjective(b),
         ToSet(a) \cap ToSet(b) = {}
  PROVE  /\ a \o b \in Seq(P) /\ IsInjective(a \o b)
         /\ ToSet(a \o b) = ToSet(a) \cup ToSet(b)
<1> DEFINE m == Len(a)
           n == Len(b)
           c == a \o b
<1>1. /\ m \in Nat /\ n \in Nat /\ DOMAIN a = 1 .. m /\ DOMAIN b = 1 .. n
      /\ c \in Seq(P) /\ DOMAIN c = 1 .. m + n
      /\ \A i \in 1 .. m + n : c[i] = IF i <= m THEN a[i] ELSE b[i - m]
  BY ConcatProperties, LenProperties
<1> HIDE DEF m, n, c
<1>2. \A i \in 1 .. m : i \in DOMAIN c /\ c[i] = a[i]
  BY <1>1
<1>3. \A i \in 1 .. n : m + i \in DOMAIN c /\ c[m + i] = b[i]
  <2> TAKE i \in 1 .. n
  <2>1. m + i \in 1 .. m + n /\ ~(m + i <= m) /\ (m + i) - m = i
    BY <1>1
  <2>. QED
    BY <1>1, <2>1
<1>4. \A i \in DOMAIN c : \/ i \in 1 .. m /\ c[i] = a[i]
                          \/ i > m /\ i - m \in 1 .. n /\ c[i] = b[i - m]
  BY <1>1
<1>5. ToSet(c) = ToSet(a) \cup ToSet(b)
  <2>1. ToSet(c) \subseteq ToSet(a) \cup ToSet(b)
    BY <1>1, <1>4 DEF ToSet
  <2>2. ToSet(a) \subseteq ToSet(c)
    BY <1>1, <1>2 DEF ToSet
  <2>3. ToSet(b) \subseteq ToSet(c)
    BY <1>1, <1>3 DEF ToSet
  <2>. QED
    BY <2>1, <2>2, <2>3
<1>6. IsInjective(c)
  <2> SUFFICES ASSUME NEW i \in DOMAIN c, NEW j \in DOMAIN c, c[i] = c[j] PROVE i = j
    BY DEF IsInjective
  <2>1. CASE i \in 1 .. m /\ j \in 1 .. m
    BY <1>1, <1>2, <2>1 DEF IsInjective
  <2>2. CASE i > m /\ j > m
    <3>1. i - m \in DOMAIN b /\ j - m \in DOMAIN b /\ b[i - m] = b[j - m]
      BY <1>1, <1>4, <2>2
    <3>2. i - m = j - m
      BY <3>1 DEF IsInjective
    <3>. QED
      BY <1>1, <3>2
  <2>3. ASSUME NEW x \in DOMAIN c, NEW y \in DOMAIN c, c[x] = c[y], x \in 1 .. m, y > m
        PROVE  FALSE
    <3>1. c[x] = a[x] /\ x \in DOMAIN a
      BY <1>1, <1>2, <2>3
    <3>2. c[y] = b[y - m] /\ y - m \in DOMAIN b
      BY <1>1, <1>4, <2>3
    <3>3. c[x] \in ToSet(a) /\ c[y] \in ToSet(b)
      BY <3>1, <3>2 DEF ToSet
    <3>. QED
      BY <2>3, <3>3
  <2>. QED
    BY <1>1, <1>4, <2>1, <2>2, <2>3
<1>. QED
  BY <1>1, <1>5, <1>6 DEF c

\* One more.
LEMMA AppendNew ==
  ASSUME NEW P, NEW a \in Seq(P), NEW x \in P, IsInjective(a), x \notin ToSet(a)
  PROVE  /\ Append(a, x) \in Seq(P) /\ IsInjective(Append(a, x))
         /\ ToSet(Append(a, x)) = ToSet(a) \cup {x}
<1>1. <<x>> \in Seq(P) /\ Len(<<x>>) = 1 /\ <<x>>[1] = x
  OBVIOUS
<1> DEFINE b == <<x>>
<1>2. b \in Seq(P) /\ DOMAIN b = 1 .. 1 /\ b[1] = x
  BY <1>1, LenProperties
<1>3. Append(a, x) = a \o b
  BY AppendIsConcat
<1> HIDE DEF b
<1>4. DOMAIN b = {1}
  BY <1>2
<1>5. ToSet(b) = {x} /\ IsInjective(b)
  BY <1>2, <1>4 DEF ToSet, IsInjective
<1>. QED
  BY <1>2, <1>3, <1>5, JoinNew

\* The lists of a list, one after the other.
IsFlat(q, n, g) ==
  g = [i \in 1 .. n |-> IF i = 1 THEN q[i] ELSE g[i - 1] \o q[i]]

\* It can be built.
LEMMA FlatExists ==
  ASSUME NEW q, NEW n \in Nat
  PROVE  \E g : IsFlat(q, n, g)
<1> DEFINE T == {l \in Nat : ~(\E g : IsFlat(q, l, g))}
<1> SUFFICES ASSUME T # {} PROVE FALSE
  OBVIOUS
<1>1. PICK l \in T : \A k \in T : l <= k
  <2>1. T \in SUBSET Nat
    OBVIOUS
  <2> HIDE DEF T
  <2>. QED
    BY <2>1, NatMin
<1>2. l \in Nat /\ ~(\E g : IsFlat(q, l, g))
  OBVIOUS
<1>3. l # 0
  <2> SUFFICES ASSUME l = 0 PROVE FALSE
    OBVIOUS
  <2> DEFINE g == [i \in 1 .. 0 |-> q]
  <2>1. g = [i \in 1 .. 0 |-> IF i = 1 THEN q[i] ELSE g[i - 1] \o q[i]]
    OBVIOUS
  <2> HIDE DEF g
  <2>. QED
    BY <1>2, <2>1 DEF IsFlat
<1>4. l - 1 \in Nat /\ l - 1 \notin T
  <2> HIDE DEF T
  <2>. QED
    BY <1>1, <1>2, <1>3
<1>5. PICK g : IsFlat(q, l - 1, g)
  BY <1>4
<1> DEFINE h == [i \in 1 .. l |-> IF i = l THEN IF l = 1 THEN q[l] ELSE g[l - 1] \o q[l]
                                  ELSE g[i]]
<1>6. \A i \in 1 .. l : h[i] = IF i = 1 THEN q[i] ELSE h[i - 1] \o q[i]
  <2> TAKE i \in 1 .. l
  <2>1. CASE i = l
    <3>1. CASE l = 1
      BY <2>1, <3>1
    <3>2. CASE l # 1
      <4>1. l - 1 \in 1 .. l /\ l - 1 # l
        BY <1>2, <1>3, <3>2
      <4>2. h[l - 1] = g[l - 1]
        BY <4>1
      <4>. QED
        BY <2>1, <3>2, <4>2
    <3>. QED
      BY <3>1, <3>2
  <2>2. CASE i # l
    <3>1. i \in 1 .. l - 1 /\ h[i] = g[i]
      BY <1>2, <2>2
    <3>2. g[i] = IF i = 1 THEN q[i] ELSE g[i - 1] \o q[i]
      BY <1>5, <3>1, Zenon DEF IsFlat
    <3>3. i # 1 => h[i - 1] = g[i - 1]
      BY <1>2, <3>1
    <3>. QED
      BY <3>1, <3>2, <3>3
  <2>. QED
    BY <2>1, <2>2
<1>7. h = [i \in 1 .. l |-> h[i]]
  OBVIOUS
<1> HIDE DEF h
<1>8. h = [i \in 1 .. l |-> IF i = 1 THEN q[i] ELSE h[i - 1] \o q[i]]
  BY <1>6, <1>7
<1>. QED
  BY <1>2, <1>8 DEF IsFlat

\* The lists of q have different elements, and no two share any.
AllNew(P, q) ==
  /\ q \in Seq(Seq(P))
  /\ \A i \in 1 .. Len(q) : IsInjective(q[i])
  /\ \A i, j \in 1 .. Len(q) : i # j => ToSet(q[i]) \cap ToSet(q[j]) = {}

\* Joined, they are a list of all of them.
LEMMA FlattenNew ==
  ASSUME NEW P, NEW q, AllNew(P, q)
  PROVE  /\ FlattenSeq(q) \in Seq(P) /\ IsInjective(FlattenSeq(q))
         /\ ToSet(FlattenSeq(q)) = UNION {ToSet(q[j]) : j \in 1 .. Len(q)}
<1> DEFINE n == Len(q)
           g == CHOOSE h : IsFlat(q, n, h)
           F == FlattenSeq(q)
           G(i) == /\ g[i] \in Seq(P) /\ IsInjective(g[i])
                   /\ \A x \in ToSet(g[i]) : \E j \in 1 .. i : x \in ToSet(q[j])
                   /\ \A j \in 1 .. i : ToSet(q[j]) \subseteq ToSet(g[i])
           T == {i \in 1 .. n : ~G(i)}
<1>1. n \in Nat /\ \A i \in 1 .. n : q[i] \in Seq(P)
  BY LenProperties, ElementOfSeq DEF AllNew
<1>2. IsFlat(q, n, g)
  <2> HIDE DEF n
  <2>. QED
    BY <1>1, FlatExists
<1>3. F = IF n = 0 THEN q ELSE g[n]
  BY DEF FlattenSeq, IsFlat
<1> HIDE DEF g, F
<1>4. \A i \in 1 .. n : g[i] = IF i = 1 THEN q[i] ELSE g[i - 1] \o q[i]
  <2> HIDE DEF n
  <2>. QED
    BY <1>2, Zenon DEF IsFlat
<1>5. T = {}
  <2> SUFFICES ASSUME T # {} PROVE FALSE
    OBVIOUS
  <2>1. PICK i \in T : \A k \in T : i <= k
    <3>1. T \in SUBSET Nat
      OBVIOUS
    <3> HIDE DEF T
    <3>. QED
      BY <3>1, NatMin
  <2>2. i \in 1 .. n /\ ~G(i)
    OBVIOUS
  <2>3. IsInjective(q[i]) /\ q[i] \in Seq(P)
    BY <1>1, <2>2 DEF AllNew
  <2> HIDE DEF n
  <2>4. CASE i = 1
    <3>1. g[i] = q[i]
      BY <1>4, <2>2, <2>4
    <3>2. \A j \in 1 .. i : j = i
      BY <2>4
    <3>3. i \in 1 .. i
      BY <2>4
    <3>. QED
      BY <2>2, <2>3, <3>1, <3>2, <3>3
  <2>5. CASE i # 1
    <3>1. i - 1 \in 1 .. n /\ i - 1 \notin T /\ i \in Nat
      <4> HIDE DEF T
      <4>. QED
        BY <1>1, <2>1, <2>2, <2>5
    <3>2. G(i - 1)
      BY <3>1
    <3>3. g[i] = g[i - 1] \o q[i]
      BY <1>4, <2>2, <2>5
    <3>4. \A j \in 1 .. i - 1 : j \in 1 .. n /\ j # i
      BY <1>1, <2>2
    <3>5. \A j \in 1 .. i - 1 : ToSet(q[j]) \cap ToSet(q[i]) = {}
      BY <2>2, <3>4 DEF AllNew, n
    <3>6. ToSet(g[i - 1]) \cap ToSet(q[i]) = {}
      BY <3>2, <3>5
    <3>7. /\ g[i] \in Seq(P) /\ IsInjective(g[i])
          /\ ToSet(g[i]) = ToSet(g[i - 1]) \cup ToSet(q[i])
      BY <2>3, <3>2, <3>3, <3>6, JoinNew
    <3>8. \A j \in 1 .. i : j \in 1 .. i - 1 \/ j = i
      BY <2>2
    <3>9. i \in 1 .. i /\ \A j \in 1 .. i - 1 : j \in 1 .. i
      BY <1>1, <2>2
    <3>. QED
      BY <2>2, <3>2, <3>7, <3>8, <3>9
  <2>. QED
    BY <2>4, <2>5
<1> DEFINE U == UNION {ToSet(q[j]) : j \in 1 .. n}
<1>6. ASSUME n = 0 PROVE F \in Seq(P) /\ IsInjective(F) /\ ToSet(F) = U
  <2>1. F = <<>> /\ 1 .. n = {}
    <3>1. q = <<>>
      BY <1>6, EmptySeq DEF AllNew
    <3>. QED
      BY <1>3, <1>6, <3>1
  <2>2. <<>> \in Seq(P) /\ DOMAIN <<>> = {}
    BY EmptySeq
  <2>3. ToSet(<<>>) = {} /\ IsInjective(<<>>)
    BY <2>2 DEF ToSet, IsInjective
  <2>4. U = {}
    BY <2>1
  <2> HIDE DEF n, U
  <2>. QED
    BY <2>1, <2>2, <2>3, <2>4
<1>7. ASSUME n # 0 PROVE F \in Seq(P) /\ IsInjective(F) /\ ToSet(F) = U
  <2>1. n \in 1 .. n /\ F = g[n]
    BY <1>1, <1>3, <1>7
  <2>2. G(n)
    BY <1>5, <2>1
  <2> HIDE DEF n
  <2>3. ToSet(F) = U
    BY <2>1, <2>2
  <2> HIDE DEF U
  <2>. QED
    BY <2>1, <2>2, <2>3
<1>. QED
  BY <1>6, <1>7 DEF F, n

\* Packets of one block, from r on, one after the other.
IsRun(q, b, r, m)  == q = [j \in 1 .. m |-> <<b, r + j - 1>>]
PktRun(b, r, m)    == {<<b, i>> : i \in r .. r + m - 1}

\* Such a list has different elements.
LEMMA RunNew ==
  ASSUME NEW b \in Nat, NEW r \in Nat, NEW m \in Nat, NEW q, IsRun(q, b, r, m)
  PROVE  /\ q \in Seq({b} \X Nat) /\ IsInjective(q) /\ Len(q) = m
         /\ ToSet(q) \subseteq PktRun(b, r, m) /\ (m = 0 => ToSet(q) = {})
<1>1. \A j \in 1 .. m : r + j - 1 \in Nat /\ r + j - 1 \in r .. r + m - 1
  OBVIOUS
<1>2. q \in [1 .. m -> {b} \X Nat] /\ \A j \in 1 .. m : q[j] = <<b, r + j - 1>>
  <2>1. \A j \in 1 .. m : <<b, r + j - 1>> \in {b} \X Nat
    BY <1>1
  <2>. QED
    BY <2>1 DEF IsRun
<1>3. q \in Seq({b} \X Nat) /\ Len(q) = m /\ DOMAIN q = 1 .. m
  BY <1>2, ASeq
<1>4. IsInjective(q)
  <2> SUFFICES ASSUME NEW i \in 1 .. m, NEW j \in 1 .. m, q[i] = q[j] PROVE i = j
    BY <1>3 DEF IsInjective
  <2>1. q[i] = <<b, r + i - 1>> /\ q[j] = <<b, r + j - 1>>
    BY <1>2
  <2>2. <<b, r + i - 1>> = <<b, r + j - 1>>
    BY <2>1
  <2>3. r + i - 1 = r + j - 1
    BY <2>2
  <2>. QED
    BY <2>3
<1>5. ToSet(q) \subseteq PktRun(b, r, m)
  BY <1>1, <1>2, <1>3 DEF ToSet, PktRun
<1>6. m = 0 => ToSet(q) = {}
  BY <1>3 DEF ToSet
<1>. QED
  BY <1>3, <1>4, <1>5, <1>6

------------------------------------------------------------------------------

(* The done list along one session: marks are not lost while they matter.   *)

\* The mark of id c is no older than x.
HasMark(d, c, x) == \E j \in 1 .. Len(d) : d[j].id = c /\ d[j].age <= x

\* An id is marked once, and all marked ones are of the session.
Listed(f, d) ==
  /\ d \in Marks
  /\ \A i, j \in 1 .. Len(d) : d[i].id = d[j].id => i = j
  /\ \A j \in 1 .. Len(d) : Place(f, d[j].id) < RingMod \div 2

\* id is marked.
IsMarkOf(d, id) == \E j \in 1 .. Len(d) : d[j].id = id

\* No mark of d on an id that fits has been lost, or grown older, in e.
MarksStay(d, e) == \A c : \A x \in Nat : HasMark(d, c, x) => HasMark(e, c, x)

\* The fields of the marks.
LEMMA ListedMarks ==
  ASSUME NEW f \in BlockId, NEW d, Listed(f, d)
  PROVE  /\ d \in Seq(Mark) /\ Len(d) \in Nat /\ Len(d) <= DoneMax /\ DOMAIN d = 1 .. Len(d)
         /\ \A j \in 1 .. Len(d) : /\ d[j] \in Mark /\ d[j].id \in BlockId /\ d[j].age \in Nat
                                   /\ Place(f, d[j].id) \in 0 .. RingMod \div 2 - 1
<1>1. d \in Seq(Mark) /\ Len(d) <= DoneMax
  BY DEF Listed, Marks
<1>2. Len(d) \in Nat /\ DOMAIN d = 1 .. Len(d) /\ \A j \in 1 .. Len(d) : d[j] \in Mark
  BY <1>1, LenProperties, ElementOfSeq
<1>3. ASSUME NEW j \in 1 .. Len(d)
      PROVE  /\ d[j].id \in BlockId /\ d[j].age \in Nat
             /\ Place(f, d[j].id) \in 0 .. RingMod \div 2 - 1
  <2>1. d[j].id \in BlockId /\ d[j].age \in Age
    BY <1>2 DEF Mark
  <2>2. d[j].age \in Nat
    BY <2>1 DEF Age
  <2> DEFINE H == RingMod \div 2
             p == Place(f, d[j].id)
  <2>3. p \in 0 .. RingMod - 1 /\ p < H /\ H \in Nat
    BY <2>1, PlaceValue, HalfRing DEF Listed
  <2>4. p \in 0 .. H - 1
    <3> HIDE DEF p, H
    <3>. QED
      BY <2>3, RingAssumption
  <2>. QED
    BY <2>1, <2>2, <2>4
<1>. QED
  BY <1>1, <1>2, <1>3

\* How many numbers there are up to one.
LEMMA CountTo ==
  /\ \A n \in Nat : IsFiniteSet(1 .. n + 1) /\ Cardinality(1 .. n + 1) = n + 1
  /\ \A n \in Nat : IsFiniteSet(0 .. n - 1) /\ Cardinality(0 .. n - 1) = n
<1>1. ASSUME NEW n \in Nat, NEW b \in Nat, b = n + 1
      PROVE  IsFiniteSet(1 .. b) /\ Cardinality(1 .. b) = b
  <2>1. IsFiniteSet(1 .. b) /\ Cardinality(1 .. b) = IF 1 > b THEN 0 ELSE b - 1 + 1
    BY FS_Interval
  <2>2. ~(1 > b) /\ b - 1 + 1 = b
    BY <1>1
  <2>. QED
    BY <2>1, <2>2
<1>2. ASSUME NEW n \in Nat, NEW b \in Int, b = n - 1
      PROVE  IsFiniteSet(0 .. b) /\ Cardinality(0 .. b) = n
  <2>1. IsFiniteSet(0 .. b) /\ Cardinality(0 .. b) = IF 0 > b THEN 0 ELSE b - 0 + 1
    BY FS_Interval
  <2>2. (0 > b => n = 0) /\ b - 0 + 1 = n
    BY <1>2
  <2>. QED
    BY <2>1, <2>2
<1>. QED
  BY <1>1, <1>2

\* The next number is past the ones before it.
LEMMA UpToNext ==
  ASSUME NEW n \in Nat
  PROVE  \A k \in 1 .. n + 1 : (k \in 1 .. n /\ k <= n) \/ (k = n + 1 /\ ~(k <= n))
OBVIOUS

\* A list of half the ring's ids has room for one more that is not in it.
LEMMA ListedFits ==
  ASSUME RingMod \div 2 <= DoneMax, NEW f \in BlockId, NEW d, Listed(f, d),
         NEW id \in BlockId, Place(f, id) < RingMod \div 2, ~IsMarkOf(d, id)
  PROVE  Len(d) + 1 <= DoneMax
<1> DEFINE H == RingMod \div 2
           n == Len(d)
           g == [j \in 1 .. n + 1 |-> IF j <= n THEN Place(f, d[j].id) ELSE Place(f, id)]
<1>1. H \in Nat /\ n \in Nat /\ DoneMax \in Nat /\ H <= DoneMax
  BY HalfRing, ListedMarks, DoneMaxNat
<1>2. Place(f, id) \in 0 .. H - 1
  <2> DEFINE p == Place(f, id)
  <2>1. p \in 0 .. RingMod - 1 /\ p < H
    BY PlaceValue
  <2> HIDE DEF p, H
  <2>. QED
    BY <1>1, <2>1, RingAssumption DEF p
<1>3. \A j \in 1 .. n : Place(f, d[j].id) \in 0 .. H - 1 /\ d[j].id \in BlockId
  BY ListedMarks
<1> SUFFICES ASSUME n + 1 > H PROVE FALSE
  <2>1. n + 1 <= H => n + 1 <= DoneMax
    <3> HIDE DEF H, n
    <3>. QED
      BY <1>1
  <2>2. n + 1 > H \/ n + 1 <= H
    <3> HIDE DEF H, n
    <3>. QED
      BY <1>1
  <2>. QED
    BY <2>1, <2>2
<1>4. g \in [1 .. n + 1 -> 0 .. H - 1]
  <2> HIDE DEF H, n
  <2>1. \A j \in 1 .. n + 1 : j <= n => j \in 1 .. n
    BY <1>1
  <2>. QED
    BY <1>2, <1>3, <2>1
<1>5. /\ IsFiniteSet(1 .. n + 1) /\ Cardinality(1 .. n + 1) = n + 1
      /\ IsFiniteSet(0 .. H - 1) /\ Cardinality(0 .. H - 1) = H
  <2> HIDE DEF H, n
  <2>. QED
    BY <1>1, CountTo
<1>6. Cardinality(0 .. H - 1) < Cardinality(1 .. n + 1)
  BY <1>1, <1>5
<1>7. PICK i \in 1 .. n + 1, j \in 1 .. n + 1 : i # j /\ g[i] = g[j]
  <2> HIDE DEF g, H, n
  <2>. QED
    BY <1>4, <1>5, <1>6, FS_PigeonHole
<1>8. \A k \in 1 .. n : Place(f, d[k].id) # Place(f, id)
  <2> SUFFICES ASSUME NEW k \in 1 .. n, Place(f, d[k].id) = Place(f, id) PROVE FALSE
    OBVIOUS
  <2>1. d[k].id = id
    BY <1>3, PlaceSame
  <2>. QED
    BY <2>1 DEF IsMarkOf
<1>9. \A k, l \in 1 .. n : Place(f, d[k].id) = Place(f, d[l].id) => k = l
  <2> SUFFICES ASSUME NEW k \in 1 .. n, NEW l \in 1 .. n, Place(f, d[k].id) = Place(f, d[l].id)
               PROVE  k = l
    OBVIOUS
  <2>1. d[k].id = d[l].id
    BY <1>3, PlaceSame
  <2>. QED
    BY <2>1 DEF Listed
<1>10. \A k \in 1 .. n + 1 : (k \in 1 .. n /\ k <= n) \/ (k = n + 1 /\ ~(k <= n))
  <2> HIDE DEF n
  <2>. QED
    BY <1>1, UpToNext
<1>11. \A k \in 1 .. n + 1 : g[k] = IF k <= n THEN Place(f, d[k].id) ELSE Place(f, id)
  OBVIOUS
<1> HIDE DEF g, n
<1>. QED
  BY <1>7, <1>8, <1>9, <1>10, <1>11

\* mark_done on a list of the session: the id's mark is new, and none is lost.
LEMMA MarkOnce ==
  ASSUME RingMod \div 2 <= DoneMax, NEW f \in BlockId, NEW d, Listed(f, d),
         NEW id \in BlockId, Place(f, id) < RingMod \div 2
  PROVE  LET e == mark_done(d, id)
         IN  Listed(f, e) /\ HasMark(e, id, 0) /\ MarksStay(d, e)
<1> DEFINE n     == Len(d)
           again == [j \in 1 .. Len(d) |->
                      IF d[j].id = id THEN [d[j] EXCEPT !.age = 0] ELSE d[j]]
           new   == [id |-> id, age |-> 0]
           queue == IF \E j \in 1 .. Len(d) : d[j].id = id THEN again ELSE Append(d, new)
           e     == mark_done(d, id)
<1>1. e = IF Len(queue) > DoneMax THEN Tail(queue) ELSE queue
  BY DEF mark_done
<1>2. /\ d \in Seq(Mark) /\ n \in Nat /\ n <= DoneMax /\ DoneMax \in Nat
      /\ \A j \in 1 .. n : d[j] \in Mark /\ d[j].age \in Nat
  BY ListedMarks, DoneMaxNat
<1>3. e \in Marks
  BY MarkDoneOK DEF Listed
<1>4. CASE \E j \in 1 .. Len(d) : d[j].id = id
  <2>1. queue = again
    BY <1>4
  <2>2. \A j \in 1 .. n : [d[j] EXCEPT !.age = 0] \in Mark
    BY <1>2, AgeFacts DEF Mark
  <2>3. again \in [1 .. n -> Mark]
    BY <1>2, <2>2
  <2>4. \A j \in 1 .. n : again[j] = IF d[j].id = id THEN [d[j] EXCEPT !.age = 0] ELSE d[j]
    OBVIOUS
  <2> HIDE DEF again, queue, n, e
  <2>5. Len(again) = n
    BY <1>2, <2>3, ASeq
  <2>6. e = again
    BY <1>1, <1>2, <2>1, <2>5
  <2>7. \A j \in 1 .. n : again[j].id = d[j].id /\ again[j].age \in Nat /\ again[j].age <= d[j].age
                            /\ (d[j].id = id => again[j].age <= 0)
    <3> TAKE j \in 1 .. n
    <3>1. d[j] \in [id : BlockId, age : Age] /\ d[j].age \in Nat
      BY <1>2 DEF Mark
    <3>2. [d[j] EXCEPT !.age = 0].id = d[j].id /\ [d[j] EXCEPT !.age = 0].age = 0
      BY <3>1
    <3> DEFINE x == [d[j] EXCEPT !.age = 0]
    <3>3. again[j] = IF d[j].id = id THEN x ELSE d[j]
      BY <2>4
    <3>4. x.id = d[j].id /\ x.age = 0
      BY <3>2
    <3> HIDE DEF x
    <3>. QED
      BY <3>1, <3>3, <3>4
  <2>8. Listed(f, e)
    BY <1>3, <2>5, <2>6, <2>7 DEF Listed, n
  <2>9. HasMark(e, id, 0)
    BY <1>4, <2>5, <2>6, <2>7 DEF HasMark, n
  <2>10. MarksStay(d, e)
    <3> SUFFICES ASSUME NEW c, NEW x \in Nat, HasMark(d, c, x) PROVE HasMark(e, c, x)
      BY DEF MarksStay
    <3>1. PICK j \in 1 .. n : d[j].id = c /\ d[j].age <= x
      BY DEF HasMark, n
    <3>2. again[j].id = c /\ again[j].age <= x
      BY <1>2, <2>7, <3>1
    <3>. QED
      BY <2>5, <2>6, <3>2 DEF HasMark
  <2>. QED
    BY <2>8, <2>9, <2>10 DEF e
<1>5. CASE ~(\E j \in 1 .. Len(d) : d[j].id = id)
  <2>1. queue = Append(d, new)
    BY <1>5
  <2>2. new \in Mark
    BY AgeFacts DEF Mark
  <2> HIDE DEF queue, n, e
  <2>3. /\ Len(Append(d, new)) = n + 1 /\ Append(d, new)[n + 1] = new
        /\ \A j \in 1 .. n : Append(d, new)[j] = d[j]
    BY <1>2, <2>2, AppendProperties DEF n
  <2>4. n + 1 <= DoneMax
    BY <1>5, ListedFits DEF n, IsMarkOf
  <2>5. e = Append(d, new)
    BY <1>1, <1>2, <2>1, <2>3, <2>4
  <2>6. /\ Len(e) = n + 1 /\ e[n + 1].id = id /\ e[n + 1].age = 0 /\ n + 1 \in 1 .. n + 1
        /\ \A j \in 1 .. n : e[j] = d[j] /\ j \in 1 .. n + 1
        /\ \A j \in 1 .. n + 1 : j \in 1 .. n \/ j = n + 1
    BY <1>2, <2>3, <2>5
  <2>7. Listed(f, e)
    <3>1. \A i, j \in 1 .. n + 1 : e[i].id = e[j].id => i = j
      <4>1. \A j \in 1 .. n : e[j].id # id
        BY <1>5, <2>6 DEF n
      <4>2. \A i, j \in 1 .. n : e[i].id = e[j].id => i = j
        BY <2>6 DEF Listed, n
      <4>. QED
        BY <2>6, <4>1, <4>2
    <3>2. \A j \in 1 .. n + 1 : Place(f, e[j].id) < RingMod \div 2
      BY <2>6 DEF Listed, n
    <3>. QED
      BY <1>3, <2>6, <3>1, <3>2 DEF Listed
  <2>8. HasMark(e, id, 0)
    BY <2>6 DEF HasMark
  <2>9. MarksStay(d, e)
    BY <2>6 DEF HasMark, MarksStay, n
  <2>. QED
    BY <2>7, <2>8, <2>9 DEF e
<1>. QED
  BY <1>4, <1>5

\* Marks stay, step by step.
LEMMA StayTrans ==
  ASSUME NEW a, NEW b, NEW c, MarksStay(a, b), MarksStay(b, c)
  PROVE  MarksStay(a, c)
BY DEF MarksStay

\* Passing the head marks the ids passed.
LEMMA PassHeadOnce ==
  ASSUME RingMod \div 2 <= DoneMax, NEW f \in BlockId, NEW s, DOMAIN s = Fields,
         s.emit_next \in BlockId, Listed(f, s.done), NEW m \in Nat,
         \A j \in 0 .. m - 1 : Place(f, wire_block_id(s.emit_next + j)) < RingMod \div 2
  PROVE  LET d == PassHead(s, m).done
         IN  /\ Listed(f, d) /\ MarksStay(s.done, d)
             /\ \A j \in 0 .. m - 1 : HasMark(d, wire_block_id(s.emit_next + j), 0)
<1> DEFINE d == s.done
           e == s.emit_next
           q == CHOOSE h : IsMarked(d, e, m, h)
           G(j) == /\ Listed(f, q[j]) /\ MarksStay(d, q[j])
                   /\ \A i \in 0 .. j - 1 : HasMark(q[j], wire_block_id(e + i), 0)
           T == {j \in 0 .. m : ~G(j)}
<1>1. IsMarked(d, e, m, q)
  BY MarkedExists
<1>2. PassHead(s, m).done = q[m]
  BY DEF PassHead, IsMarked, Fields
<1> HIDE DEF q, d
<1>3. /\ q[0] = d
      /\ \A j \in 1 .. m : q[j] = mark_done(q[j - 1], wire_block_id(e + j - 1))
  <2>1. 0 \in 0 .. m /\ \A j \in 1 .. m : j \in 0 .. m /\ j # 0
    OBVIOUS
  <2>. QED
    BY <1>1, <2>1, Zenon DEF IsMarked
<1>4. T = {}
  <2> SUFFICES ASSUME T # {} PROVE FALSE
    OBVIOUS
  <2>1. PICK j \in T : \A k \in T : j <= k
    <3>1. T \in SUBSET Nat
      OBVIOUS
    <3> HIDE DEF T
    <3>. QED
      BY <3>1, NatMin
  <2>2. j \in 0 .. m /\ ~G(j)
    OBVIOUS
  <2>3. j # 0
    <3>1. G(0)
      BY <1>3 DEF MarksStay, d
    <3>. QED
      BY <2>2, <3>1
  <2>4. j \in 1 .. m /\ j - 1 \in 0 .. m /\ j - 1 \notin T /\ j - 1 \in 0 .. m - 1
    <3> HIDE DEF T
    <3>. QED
      BY <2>1, <2>2, <2>3
  <2>5. G(j - 1)
    BY <2>4
  <2>6. e + j - 1 = e + (j - 1) /\ e + j - 1 \in Nat
    BY <2>4, RingAssumption DEF BlockId
  <2>7. wire_block_id(e + j - 1) \in BlockId /\ Place(f, wire_block_id(e + j - 1)) < RingMod \div 2
    BY <2>4, <2>6, WireId
  <2>8. q[j] = mark_done(q[j - 1], wire_block_id(e + j - 1))
    BY <1>3, <2>4
  <2> HIDE DEF e
  <2>9. Listed(f, q[j]) /\ HasMark(q[j], wire_block_id(e + j - 1), 0) /\ MarksStay(q[j - 1], q[j])
    BY <2>5, <2>7, <2>8, MarkOnce
  <2>10. MarksStay(d, q[j])
    BY <2>5, <2>9, StayTrans
  <2>11. \A i \in 0 .. j - 1 : HasMark(q[j], wire_block_id(e + i), 0)
    <3> TAKE i \in 0 .. j - 1
    <3>1. CASE i = j - 1
      BY <2>6, <2>9, <3>1
    <3>2. CASE i # j - 1
      <4>1. i \in 0 .. (j - 1) - 1
        BY <2>4, <3>2
      <4>2. HasMark(q[j - 1], wire_block_id(e + i), 0)
        BY <2>5, <4>1
      <4>. QED
        BY <2>9, <4>2 DEF MarksStay
    <3>. QED
      BY <3>1, <3>2
  <2>. QED
    BY <2>2, <2>9, <2>10, <2>11
<1>5. G(m)
  <2>1. m \in 0 .. m
    OBVIOUS
  <2>. QED
    BY <1>4, <2>1
<1>. QED
  BY <1>2, <1>5 DEF d

\* Erasing ids from done_order loses no other mark.
LEMMA ForgetOnce ==
  ASSUME NEW f \in BlockId, NEW d, Listed(f, d), NEW ids
  PROVE  LET e == forget(d, ids)
         IN  /\ Listed(f, e)
             /\ \A c : \A x \in Nat : c \notin ids /\ HasMark(d, c, x) => HasMark(e, c, x)
<1> DEFINE n == Len(d)
           q == CHOOSE h : IsKept(d, ids, n, h)
           G(j) == /\ q[j] \in Seq(Mark)
                   /\ \A i \in 1 .. Len(q[j]) : \E l \in 1 .. j : q[j][i] = d[l]
                   /\ \A i, k \in 1 .. Len(q[j]) : q[j][i].id = q[j][k].id => i = k
                   /\ \A l \in 1 .. j : d[l].id \notin ids =>
                        \E i \in 1 .. Len(q[j]) : q[j][i] = d[l]
           T == {j \in 0 .. n : ~G(j)}
<1>1. /\ d \in Seq(Mark) /\ n \in Nat /\ \A j \in 1 .. n : d[j] \in Mark
      /\ \A i, j \in 1 .. n : d[i].id = d[j].id => i = j
  BY ListedMarks DEF Listed
<1>2. IsKept(d, ids, n, q)
  <2> HIDE DEF n
  <2>. QED
    BY <1>1, KeptExists
<1>3. forget(d, ids) = q[n]
  BY DEF forget, IsKept
<1> HIDE DEF q, n
<1>4. /\ q[0] = <<>>
      /\ \A j \in 1 .. n : q[j] = IF d[j].id \in ids THEN q[j - 1] ELSE Append(q[j - 1], d[j])
  <2>1. 0 \in 0 .. n /\ \A j \in 1 .. n : j \in 0 .. n /\ j # 0
    BY <1>1
  <2>. QED
    BY <1>2, <2>1, Zenon DEF IsKept
<1>5. T = {}
  <2> SUFFICES ASSUME T # {} PROVE FALSE
    OBVIOUS
  <2>1. PICK j \in T : \A k \in T : j <= k
    <3>1. T \in SUBSET Nat
      OBVIOUS
    <3> HIDE DEF T
    <3>. QED
      BY <3>1, NatMin
  <2>2. j \in 0 .. n /\ ~G(j)
    OBVIOUS
  <2>3. j # 0
    <3>1. <<>> \in Seq(Mark) /\ Len(<<>>) = 0 /\ 1 .. 0 = {}
      BY EmptySeq
    <3>2. G(0)
      BY <1>4, <3>1
    <3>. QED
      BY <2>2, <3>2
  <2>4. j \in 1 .. n /\ j - 1 \in 0 .. n /\ j - 1 \notin T
    <3> HIDE DEF T
    <3>. QED
      BY <1>1, <2>1, <2>2, <2>3
  <2>5. G(j - 1)
    BY <2>4
  <2>6. \A l \in 1 .. j : l \in 1 .. j - 1 \/ l = j
    BY <1>1, <2>4
  <2>7. \A l \in 1 .. j - 1 : l \in 1 .. j /\ l \in 1 .. n /\ l # j
    BY <1>1, <2>4
  <2> DEFINE p == q[j - 1]
             m == Len(p)
  <2>8. p \in Seq(Mark) /\ m \in Nat
    BY <2>5, LenProperties
  <2>9. CASE d[j].id \in ids
    <3>1. q[j] = p
      BY <1>4, <2>4, <2>9
    <3>2. G(j)
      BY <2>5, <2>6, <2>7, <2>9, <3>1
    <3>. QED
      BY <2>2, <3>2
  <2>10. CASE d[j].id \notin ids
    <3>1. q[j] = Append(p, d[j]) /\ d[j] \in Mark
      BY <1>1, <1>4, <2>4, <2>10
    <3> HIDE DEF p
    <3>2. /\ q[j] \in Seq(Mark) /\ Len(q[j]) = m + 1 /\ q[j][m + 1] = d[j]
          /\ \A i \in 1 .. m : q[j][i] = p[i]
      BY <2>8, <3>1, AppendProperties
    <3>3. /\ \A i \in 1 .. m : \E l \in 1 .. j - 1 : p[i] = d[l]
          /\ \A i, k \in 1 .. m : p[i].id = p[k].id => i = k
          /\ \A l \in 1 .. j - 1 : d[l].id \notin ids => \E i \in 1 .. m : p[i] = d[l]
      BY <2>5 DEF p
    <3>4. (\A i \in 1 .. m + 1 : i \in 1 .. m \/ i = m + 1) /\ (\A i \in 1 .. m : i \in 1 .. m + 1)
          /\ m + 1 \in 1 .. m + 1 /\ j \in 1 .. j
      <4> HIDE DEF m
      <4>. QED
        BY <2>4, <2>8
    <3> HIDE DEF m
    <3>5. \A i \in 1 .. m : p[i].id # d[j].id
      BY <1>1, <2>4, <2>7, <3>3
    <3>6. \A i \in 1 .. Len(q[j]) : \E l \in 1 .. j : q[j][i] = d[l]
      BY <2>7, <3>2, <3>3, <3>4
    <3>7. \A i, k \in 1 .. Len(q[j]) : q[j][i].id = q[j][k].id => i = k
      BY <3>2, <3>3, <3>4, <3>5
    <3>8. \A l \in 1 .. j : d[l].id \notin ids => \E i \in 1 .. Len(q[j]) : q[j][i] = d[l]
      <4> SUFFICES ASSUME NEW l \in 1 .. j, d[l].id \notin ids
                   PROVE  \E i \in 1 .. m + 1 : q[j][i] = d[l]
        BY <3>2
      <4>1. CASE l = j
        BY <3>2, <3>4, <4>1
      <4>2. CASE l \in 1 .. j - 1
        BY <3>2, <3>3, <3>4, <4>2
      <4>. QED
        BY <2>6, <4>1, <4>2
    <3>. QED
      BY <2>2, <3>2, <3>6, <3>7, <3>8
  <2>. QED
    BY <2>9, <2>10
<1>6. G(n)
  <2>1. n \in 0 .. n
    BY <1>1
  <2>. QED
    BY <1>5, <2>1
<1> DEFINE e == q[n]
<1>7. e \in Marks
  BY <1>3, ForgetOK DEF Listed
<1>8. Listed(f, e)
  <2>1. \A j \in 1 .. Len(e) : Place(f, e[j].id) < RingMod \div 2
    BY <1>6 DEF Listed, n
  <2>. QED
    BY <1>6, <1>7, <2>1 DEF Listed
<1>9. ASSUME NEW c, NEW x \in Nat, c \notin ids, HasMark(d, c, x) PROVE HasMark(e, c, x)
  <2>1. PICK l \in 1 .. n : d[l].id = c /\ d[l].age <= x
    BY <1>9 DEF HasMark, n
  <2>2. PICK i \in 1 .. Len(e) : e[i] = d[l]
    BY <1>6, <1>9, <2>1
  <2>. QED
    BY <2>1, <2>2 DEF HasMark
<1>. QED
  BY <1>3, <1>8, <1>9

\* A mark that is young enough does not expire.
LEMMA ExpireDoneOnce ==
  ASSUME NEW f \in BlockId, NEW s, DOMAIN s = Fields, Listed(f, s.done)
  PROVE  LET t == expire_done(s)
         IN  /\ DOMAIN t = Fields /\ t = [s EXCEPT !.done = t.done] /\ Listed(f, t.done)
             /\ \A c : \A x \in 0 .. DoneHold : HasMark(s.done, c, x) => HasMark(t.done, c, x)
<1> DEFINE d        == s.done
           n        == Len(s.done)
           stays(j) == s.done[j].age <= DoneHold
           first    == CHOOSE j \in 1 .. Len(s.done) + 1 :
                         /\ \A i \in 1 .. j - 1 : ~stays(i)
                         /\ j > Len(s.done) \/ stays(j)
           t        == [s EXCEPT !.done = SubSeq(@, first, Len(@))]
<1>1. /\ d \in Seq(Mark) /\ n \in Nat /\ n <= DoneMax /\ DoneMax \in Nat
      /\ \A j \in 1 .. n : d[j].age \in Nat
  BY ListedMarks, DoneMaxNat
<1>2. first \in 1 .. n + 1 /\ \A i \in 1 .. first - 1 : ~stays(i)
  <2> DEFINE T == {j \in 1 .. n + 1 : j > n \/ stays(j)}
  <2>1. n + 1 \in T /\ T \in SUBSET Nat
    BY <1>1
  <2>2. PICK j \in T : \A i \in T : j <= i
    <3> HIDE DEF T
    <3>. QED
      BY <2>1, NatMin
  <2>3. j \in 1 .. n + 1 /\ (j > n \/ stays(j))
    OBVIOUS
  <2>4. \A i \in 1 .. j - 1 : ~stays(i)
    <3> SUFFICES ASSUME NEW i \in 1 .. j - 1, stays(i) PROVE FALSE
      OBVIOUS
    <3> HIDE DEF stays, n
    <3>1. i \in T
      BY <1>1, <2>3
    <3> HIDE DEF T
    <3>. QED
      BY <1>1, <2>2, <2>3, <3>1
  <2>5. \E i \in 1 .. n + 1 : /\ \A l \in 1 .. i - 1 : ~stays(l)
                              /\ i > n \/ stays(i)
    BY <2>3, <2>4
  <2> HIDE DEF stays
  <2>. QED
    BY <2>5
<1>3. expire_done(s) = t
  BY DEF expire_done
<1> HIDE DEF first
<1> DEFINE q == SubSeq(d, first, n)
<1>4. t = [s EXCEPT !.done = q] /\ t.done = q /\ DOMAIN t = Fields
  BY DEF Fields
<1>5. t = [s EXCEPT !.done = t.done]
  BY <1>4
<1> HIDE DEF t, q
<1>6. q \in Marks
  <2>1. Listed(f, d) => q \in Marks
    <3> HIDE DEF n, d
    <3>1. n = Len(d)
      BY DEF n, d
    <3>2. \A i \in first .. n : i \in 1 .. Len(d)
      BY <1>1, <1>2, <3>1
    <3>3. q \in Seq(Mark) /\ Len(q) = IF first <= n THEN n - first + 1 ELSE 0
      BY <1>1, <1>2, <3>2, SubSeqProperties DEF q
    <3>4. Len(q) <= DoneMax
      BY <1>1, <1>2, <3>3
    <3>. QED
      BY <3>3, <3>4 DEF Marks
  <2>. QED
    BY <2>1
<1>7. /\ Len(q) = IF first <= n THEN n - first + 1 ELSE 0
      /\ \A i \in 1 .. n - first + 1 : q[i] = d[first + i - 1]
  <2> HIDE DEF n, d
  <2>1. n = Len(d)
    BY DEF n, d
  <2>2. \A i \in first .. n : d[i] \in Mark
    <3>1. \A i \in first .. n : i \in 1 .. Len(d)
      BY <1>1, <1>2, <2>1
    <3>. QED
      BY <1>1, <3>1, ElementOfSeq
  <2>. QED
    BY <1>1, <1>2, <2>2, SubSeqProperties DEF q
<1>8. \A i \in 1 .. Len(q) : i \in 1 .. n - first + 1 /\ first + i - 1 \in 1 .. n
  <2> HIDE DEF n
  <2>. QED
    BY <1>1, <1>2, <1>7
<1>9. \A i, j \in 1 .. Len(q) : first + i - 1 = first + j - 1 => i = j
  <2> HIDE DEF n
  <2>. QED
    BY <1>1, <1>2
<1>10. Listed(f, q)
  <2>1. \A i, j \in 1 .. Len(q) : q[i].id = q[j].id => i = j
    <3> SUFFICES ASSUME NEW i \in 1 .. Len(q), NEW j \in 1 .. Len(q), q[i].id = q[j].id
                 PROVE  i = j
      OBVIOUS
    <3>1. q[i] = d[first + i - 1] /\ q[j] = d[first + j - 1]
      BY <1>7, <1>8
    <3>2. first + i - 1 = first + j - 1
      BY <1>8, <3>1 DEF Listed
    <3>. QED
      BY <1>9, <3>2
  <2>2. \A j \in 1 .. Len(q) : Place(f, q[j].id) < RingMod \div 2
    BY <1>7, <1>8 DEF Listed
  <2>. QED
    BY <1>6, <2>1, <2>2 DEF Listed
<1>11. ASSUME NEW c, NEW x \in 0 .. DoneHold, HasMark(d, c, x) PROVE HasMark(q, c, x)
  <2>1. PICK j \in 1 .. n : d[j].id = c /\ d[j].age <= x
    BY <1>11 DEF HasMark
  <2>2. stays(j)
    <3>1. DoneHold \in Nat
      BY RxAssumption
    <3>. QED
      BY <1>1, <2>1, <3>1
  <2> HIDE DEF stays, n
  <2>3. ~(j \in 1 .. first - 1)
    BY <1>2, <2>2
  <2>4. j - first + 1 \in 1 .. Len(q) /\ first + (j - first + 1) - 1 = j
    BY <1>1, <1>2, <1>7, <2>1, <2>3
  <2>5. q[j - first + 1] = d[j]
    BY <1>7, <1>8, <2>4
  <2>. QED
    BY <2>1, <2>4, <2>5 DEF HasMark
<1>. QED
  BY <1>3, <1>4, <1>5, <1>10, <1>11

------------------------------------------------------------------------------

(* Nothing is returned twice: f is the id of the session's first block, z   *)
(* what has been sent, a the ages on the air, D what has been returned.     *)

\* The packets of the blocks z.
Pkt(z) == (0 .. Len(z) - 1) \X Nat

\* What has been returned, D before this call.
Returned(D, s) == D \cup ToSet(s.out)

\* No packet of c from r on has been returned; some packet of c has.
Unreturned(f, D, s, c, r) == \A p \in Nat : p >= r => <<Place(f, c), p>> \notin Returned(D, s)
Partly(f, D, s, c)        == \E p \in Nat : <<Place(f, c), p>> \in Returned(D, s)

\* The age x, of something that has happened, is no more than y.
Recent(x, y) == x \in Nat /\ x <= y

\* The receiver holds c.
Here(s, c) == c \in DOMAIN s.rx_blocks \cup DOMAIN s.ready_blocks

\* The head has passed c, and done_order says so.
Past(f, a, s, c) == /\ Place(f, c) < Place(f, s.emit_next)
                    /\ HasMark(s.done, c, a[Place(f, c)])

\* r is c, decoded.
ReadyAt(f, r, c) ==
  /\ r.sdu \in Nat /\ r.released \in 0 .. r.sdu
  /\ \A i \in 0 .. r.sdu - 1 : r.payloads[i] = Place(f, c)

\* Nothing still to be returned of c has been returned.  If shards of c can still
\* arrive, what the receiver remembers of c is younger than c is.
OneAt(f, a, D, s, c) ==
  LET b == Place(f, c)
  IN  /\ c \in DOMAIN s.rx_blocks => Unreturned(f, D, s, c, s.rx_blocks[c].released)
      /\ c \in DOMAIN s.ready_blocks =>
           Unreturned(f, D, s, c, s.ready_blocks[c].released) /\ ReadyAt(f, s.ready_blocks[c], c)
      /\ b \in DOMAIN a =>
           /\ c \in DOMAIN s.rx_blocks => s.rx_blocks[c].last_seen <= a[b]
           /\ Here(s, c) \/ Partly(f, D, s, c) => Recent(s.last_shard_rx, a[b])
           /\ Partly(f, D, s, c) => /\ Recent(s.last_payload_emit, a[b])
                                    /\ Here(s, c) \/ Past(f, a, s, c)

\* What this call returns is different packets, none returned before.
FreshOut(z, D, s) == /\ s.out \in Seq(Pkt(z)) /\ IsInjective(s.out)
                     /\ ToSet(s.out) \cap D = {}

\* Nothing has been returned twice, nor will it be.
Once(z, f, a, D, s) ==
  /\ FreshOut(z, D, s) /\ Listed(f, s.done)
  /\ \A c \in BlockId : OneAt(f, a, D, s, c)
  /\ ~s.emit_base_set => s.done = <<>>

\* The blocks of which shards can still arrive.
Airborne(z, a) == \A b \in DOMAIN a : /\ b \in Nat /\ b < Len(z) /\ Len(z) - 1 - b <= EvictDist
                                      /\ a[b] \in 0 .. MaxDelay

\* From s to t the packets Q are returned.
Gave(D, s, t, Q) ==
  /\ Returned(D, t) = Returned(D, s) \cup Q
  /\ \/ t.last_payload_emit = 0
     \/ t.last_payload_emit = s.last_payload_emit /\ Q = {}

\* From s to t the head does not go back, and no mark that matters is lost.
After(f, a, s, t) ==
  /\ t.last_shard_rx \in {0, s.last_shard_rx}
  /\ s.emit_next \in BlockId /\ t.emit_next \in BlockId
  /\ Place(f, s.emit_next) <= Place(f, t.emit_next)
  /\ \A c \in BlockId : Place(f, c) \in DOMAIN a /\ HasMark(s.done, c, a[Place(f, c)])
                          => HasMark(t.done, c, a[Place(f, c)])

\* None of the packets Q is of c.
NoneOf(f, Q, c) == \A p \in Nat : <<Place(f, c), p>> \notin Q

\* c is not touched; c has gone.
Keeps(f, Q, s, t, c) ==
  /\ c \in DOMAIN t.rx_blocks => /\ c \in DOMAIN s.rx_blocks
                                 /\ t.rx_blocks[c].released = s.rx_blocks[c].released
                                 /\ t.rx_blocks[c].last_seen = s.rx_blocks[c].last_seen
  /\ c \in DOMAIN t.ready_blocks => /\ c \in DOMAIN s.ready_blocks
                                    /\ t.ready_blocks[c] = s.ready_blocks[c]
  /\ Here(s, c) => Here(t, c)
  /\ NoneOf(f, Q, c)
Left(f, a, s, t, c) ==
  ~Here(t, c) /\ (Place(f, c) \in DOMAIN a => Here(s, c) /\ Past(f, a, t, c))

\* What is returned stays fresh.
LEMMA EmitOnce ==
  ASSUME NEW z, NEW D, NEW s, DOMAIN s = Fields, FreshOut(z, D, s),
         NEW q \in Seq(Pkt(z)), IsInjective(q), ToSet(q) \cap Returned(D, s) = {}
  PROVE  LET t == emit_payloads(s, q)
         IN  /\ FreshOut(z, D, t) /\ Gave(D, s, t, ToSet(q)) /\ DOMAIN t = Fields
             /\ t.rx_blocks = s.rx_blocks /\ t.ready_blocks = s.ready_blocks
             /\ t.done = s.done /\ t.emit_next = s.emit_next /\ t.newest = s.newest
             /\ t.last_shard_rx = s.last_shard_rx /\ t.emit_base_set = s.emit_base_set
             /\ t.later_block_since = s.later_block_since
<1> DEFINE t == emit_payloads(s, q)
<1>1. CASE q = <<>>
  <2>1. t = s /\ ToSet(q) = {}
    BY <1>1, EmptySeq DEF emit_payloads, ToSet
  <2>. QED
    BY <2>1 DEF Gave
<1>2. CASE q # <<>>
  <2>1. t = [s EXCEPT !.out = @ \o q, !.last_payload_emit = 0]
    BY <1>2 DEF emit_payloads
  <2>2. t.out = s.out \o q /\ t.last_payload_emit = 0 /\ DOMAIN t = Fields
    BY <2>1 DEF Fields
  <2>3. /\ t.rx_blocks = s.rx_blocks /\ t.ready_blocks = s.ready_blocks
        /\ t.done = s.done /\ t.emit_next = s.emit_next /\ t.newest = s.newest
        /\ t.last_shard_rx = s.last_shard_rx /\ t.emit_base_set = s.emit_base_set
        /\ t.later_block_since = s.later_block_since
    BY <2>1
  <2> HIDE DEF t
  <2>4. /\ s.out \o q \in Seq(Pkt(z)) /\ IsInjective(s.out \o q)
        /\ ToSet(s.out \o q) = ToSet(s.out) \cup ToSet(q)
    <3>1. s.out \in Seq(Pkt(z)) /\ IsInjective(s.out) /\ ToSet(s.out) \cap ToSet(q) = {}
      BY DEF FreshOut, Returned
    <3>. QED
      BY <3>1, JoinNew
  <2>5. FreshOut(z, D, t)
    <3>1. ToSet(t.out) \cap D = {}
      BY <2>2, <2>4 DEF FreshOut, Returned
    <3>. QED
      BY <2>2, <2>4, <3>1 DEF FreshOut
  <2>6. Gave(D, s, t, ToSet(q))
    BY <2>2, <2>4 DEF Gave, Returned
  <2>. QED
    BY <2>2, <2>3, <2>5, <2>6 DEF t
<1>. QED
  BY <1>1, <1>2

\* An older mark will do.
LEMMA MarkOlder ==
  ASSUME NEW f \in BlockId, NEW d, Listed(f, d), NEW c, NEW x \in Nat, NEW y \in Nat, x <= y,
         HasMark(d, c, x)
  PROVE  HasMark(d, c, y)
<1>1. PICK j \in 1 .. Len(d) : d[j].id = c /\ d[j].age <= x
  BY DEF HasMark
<1>2. d[j].age \in Nat
  BY ListedMarks
<1>3. d[j].age <= y
  BY <1>1, <1>2
<1>. QED
  BY <1>1, <1>3 DEF HasMark

\* A block that is not touched stays as it should be.
LEMMA KeepsOne ==
  ASSUME NEW z, NEW f \in BlockId, NEW a, Airborne(z, a), NEW D, NEW s, NEW t, NEW Q,
         Gave(D, s, t, Q), After(f, a, s, t),
         NEW c \in BlockId, OneAt(f, a, D, s, c), Keeps(f, Q, s, t, c)
  PROVE  OneAt(f, a, D, t, c)
<1> DEFINE b == Place(f, c)
<1>1. \A p \in Nat : <<b, p>> \in Returned(D, t) <=> <<b, p>> \in Returned(D, s)
  BY DEF Gave, Keeps, NoneOf
<1>2. c \in DOMAIN t.rx_blocks => Unreturned(f, D, t, c, t.rx_blocks[c].released)
  BY <1>1 DEF Keeps, OneAt, Unreturned
<1>3. c \in DOMAIN t.ready_blocks =>
        Unreturned(f, D, t, c, t.ready_blocks[c].released) /\ ReadyAt(f, t.ready_blocks[c], c)
  BY <1>1 DEF Keeps, OneAt, Unreturned
<1>4. Partly(f, D, t, c) <=> Partly(f, D, s, c)
  BY <1>1 DEF Partly
<1>5. Here(s, c) <=> Here(t, c)
  BY DEF Keeps, Here
<1>6. ASSUME b \in DOMAIN a
      PROVE  /\ c \in DOMAIN t.rx_blocks => t.rx_blocks[c].last_seen <= a[b]
             /\ Here(t, c) \/ Partly(f, D, t, c) => Recent(t.last_shard_rx, a[b])
             /\ Partly(f, D, t, c) => /\ Recent(t.last_payload_emit, a[b])
                                      /\ Here(t, c) \/ Past(f, a, t, c)
  <2>1. a[b] \in Nat /\ Recent(0, a[b])
    <3>1. a[b] \in 0 .. MaxDelay
      BY <1>6 DEF Airborne
    <3>. QED
      BY <3>1 DEF Recent
  <2>2. c \in DOMAIN t.rx_blocks => t.rx_blocks[c].last_seen <= a[b]
    BY <1>6 DEF Keeps, OneAt
  <2>3. Here(t, c) \/ Partly(f, D, t, c) => Recent(t.last_shard_rx, a[b])
    BY <1>4, <1>5, <1>6, <2>1 DEF OneAt, After
  <2>4. Partly(f, D, t, c) => Recent(t.last_payload_emit, a[b])
    BY <1>4, <1>6, <2>1 DEF OneAt, Gave
  <2>5. ASSUME Past(f, a, s, c) PROVE Past(f, a, t, c)
    <3>1. HasMark(t.done, c, a[b])
      BY <1>6, <2>5 DEF Past, After
    <3>2. b \in Nat
      BY PlaceValue, RingAssumption
    <3> DEFINE x == Place(f, s.emit_next)
               y == Place(f, t.emit_next)
    <3>3. b < y
      <4>1. b < x /\ x <= y
        BY <2>5 DEF Past, After
      <4>2. x \in Nat /\ y \in Nat
        BY PlaceValue DEF After
      <4> HIDE DEF x, y, b
      <4>. QED
        BY <3>2, <4>1, <4>2
    <3>. QED
      BY <3>1, <3>3 DEF Past
  <2>6. Partly(f, D, t, c) => Here(t, c) \/ Past(f, a, t, c)
    BY <1>4, <1>5, <1>6, <2>5 DEF OneAt
  <2>. QED
    BY <2>2, <2>3, <2>4, <2>6
<1>. QED
  BY <1>2, <1>3, <1>6 DEF OneAt

\* So does one that has gone.
LEMMA LeftOne ==
  ASSUME NEW z, NEW f \in BlockId, NEW a, Airborne(z, a), NEW D, NEW s, NEW t, NEW Q,
         Gave(D, s, t, Q), After(f, a, s, t),
         NEW c \in BlockId, OneAt(f, a, D, s, c), Left(f, a, s, t, c)
  PROVE  OneAt(f, a, D, t, c)
<1> DEFINE b == Place(f, c)
<1>1. ~Here(t, c) /\ c \notin DOMAIN t.rx_blocks /\ c \notin DOMAIN t.ready_blocks
  BY DEF Left, Here
<1>2. ASSUME b \in DOMAIN a
      PROVE  /\ Partly(f, D, t, c) => Recent(t.last_shard_rx, a[b])
             /\ Partly(f, D, t, c) => Recent(t.last_payload_emit, a[b])
             /\ Past(f, a, t, c)
  <2>1. a[b] \in Nat /\ Recent(0, a[b])
    <3>1. a[b] \in 0 .. MaxDelay
      BY <1>2 DEF Airborne
    <3>. QED
      BY <3>1 DEF Recent
  <2>2. Here(s, c) /\ Past(f, a, t, c)
    BY <1>2 DEF Left
  <2>3. Recent(t.last_shard_rx, a[b])
    BY <1>2, <2>1, <2>2 DEF OneAt, After
  <2>4. Partly(f, D, t, c) => Recent(t.last_payload_emit, a[b])
    <3>1. CASE t.last_payload_emit = 0
      BY <2>1, <3>1
    <3>2. CASE t.last_payload_emit = s.last_payload_emit /\ Q = {}
      <4>1. Returned(D, t) = Returned(D, s)
        BY <3>2 DEF Gave
      <4>2. Partly(f, D, t, c) => Partly(f, D, s, c)
        BY <4>1 DEF Partly
      <4>. QED
        BY <1>2, <3>2, <4>2 DEF OneAt
    <3>. QED
      BY <3>1, <3>2 DEF Gave
  <2>. QED
    BY <2>2, <2>3, <2>4
<1>. QED
  BY <1>1, <1>2 DEF OneAt

\* A step that touches each block in one of these ways.
LEMMA OnceMove ==
  ASSUME NEW z, NEW f \in BlockId, NEW a, Airborne(z, a), NEW D, NEW s, NEW t, NEW Q,
         Once(z, f, a, D, s), FreshOut(z, D, t), Listed(f, t.done),
         Gave(D, s, t, Q), After(f, a, s, t), t.emit_base_set,
         \A c \in BlockId : Keeps(f, Q, s, t, c) \/ Left(f, a, s, t, c) \/ OneAt(f, a, D, t, c)
  PROVE  Once(z, f, a, D, t)
<1>1. ASSUME NEW c \in BlockId PROVE OneAt(f, a, D, t, c)
  <2>1. OneAt(f, a, D, s, c)
    BY DEF Once
  <2>2. CASE Keeps(f, Q, s, t, c)
    BY <2>1, <2>2, KeepsOne
  <2>3. CASE Left(f, a, s, t, c)
    BY <2>1, <2>3, LeftOne
  <2>. QED
    BY <2>2, <2>3
<1>. QED
  BY <1>1 DEF Once

------------------------------------------------------------------------------

(* What a block still has to give: streamed, decoded or given up.           *)

\* Packets of a block from the first one not yet returned are fresh.
LEMMA RunFresh ==
  ASSUME NEW z, NEW f, NEW D, NEW s, NEW c, NEW r \in Nat, NEW m \in Nat,
         Place(f, c) \in Nat, Len(z) \in Nat, Place(f, c) < Len(z), Unreturned(f, D, s, c, r),
         NEW q, IsRun(q, Place(f, c), r, m)
  PROVE  /\ q \in Seq(Pkt(z)) /\ IsInjective(q) /\ ToSet(q) \cap Returned(D, s) = {}
         /\ ToSet(q) \subseteq PktRun(Place(f, c), r, m) /\ (m = 0 => ToSet(q) = {})
<1> DEFINE b == Place(f, c)
<1>1. /\ q \in Seq({b} \X Nat) /\ IsInjective(q) /\ Len(q) = m
      /\ ToSet(q) \subseteq PktRun(b, r, m) /\ (m = 0 => ToSet(q) = {})
  BY RunNew
<1>2. {b} \X Nat \subseteq Pkt(z)
  <2>1. {b} \subseteq 0 .. Len(z) - 1
    OBVIOUS
  <2> DEFINE A == 0 .. Len(z) - 1
  <2>2. {b} \subseteq A /\ Pkt(z) = A \X Nat
    BY <2>1 DEF Pkt
  <2> HIDE DEF A, b
  <2>. QED
    BY <2>2
<1> HIDE DEF b
<1>3. q \in Seq(Pkt(z))
  <2>1. DOMAIN q = 1 .. m /\ \A j \in 1 .. m : q[j] \in {b} \X Nat
    BY <1>1, LenProperties, ElementOfSeq
  <2>2. \A j \in 1 .. m : q[j] \in Pkt(z)
    BY <1>2, <2>1
  <2>3. q = [j \in 1 .. m |-> q[j]]
    BY <2>1 DEF IsRun
  <2>4. q \in [1 .. m -> Pkt(z)]
    BY <2>2, <2>3, Zenon
  <2>. QED
    BY <2>4, ASeq
<1>4. ToSet(q) \cap Returned(D, s) = {}
  <2>1. \A i \in r .. r + m - 1 : i \in Nat /\ i >= r
    OBVIOUS
  <2>2. PktRun(b, r, m) \cap Returned(D, s) = {}
    BY <2>1 DEF Unreturned, PktRun, b
  <2>. QED
    BY <1>1, <2>2
<1>. QED
  BY <1>1, <1>3, <1>4 DEF b

\* Streaming a block.
LEMMA StreamOnce ==
  ASSUME NEW z, NEW f \in BlockId, NEW a, Airborne(z, a), NEW D, NEW s,
         OnTrack(z, f, s), Once(z, f, a, D, s), NEW id \in DOMAIN s.rx_blocks
  PROVE  LET t == try_stream_head_systematic(s, id)
         IN  /\ Once(z, f, a, D, t) /\ t.done = s.done
             /\ t.last_shard_rx = s.last_shard_rx
<1> DEFINE blk  == s.rx_blocks[id]
           R(r) == /\ \A i \in blk.released .. r - 1 : i \in DOMAIN blk.frags
                   /\ r = blk.sdu \/ r \notin DOMAIN blk.frags
           stop == CHOOSE r \in blk.released .. blk.sdu : R(r)
           pkts == [j \in 1 .. stop - blk.released |->
                      <<blk.frags[blk.released + j - 1], blk.released + j - 1>>]
           e    == emit_payloads(s, pkts)
           t    == try_stream_head_systematic(s, id)
           b    == Place(f, id)
<1>1. /\ DOMAIN blk = BlockFields /\ blk.sdu \in Nat /\ blk.released \in 0 .. blk.sdu
      /\ DOMAIN s = Fields /\ id \in BlockId /\ s.emit_next \in BlockId /\ s.emit_base_set
      /\ id \notin DOMAIN s.ready_blocks
  BY DEF InRange, BlockOK, OnTrack, RxOK, QueueOK
<1>2. t = [e EXCEPT !.rx_blocks[id].released = stop]
  BY DEF try_stream_head_systematic
<1>3. stop \in blk.released .. blk.sdu /\ R(stop)
  <2>1. \E r \in blk.released .. blk.sdu : R(r)
    BY <1>1, StopExists
  <2> HIDE DEF R, blk
  <2>. QED
    BY <2>1
<1>4. \A i \in DOMAIN blk.frags : blk.frags[i] = b
  BY DEF OnTrack, BlockAt
<1>5. Unreturned(f, D, s, id, blk.released) /\ OneAt(f, a, D, s, id)
  BY <1>1 DEF Once, OneAt
<1> DEFINE m == stop - blk.released
           r == blk.released
<1>6. /\ m \in Nat /\ r \in Nat /\ r + m = stop
      /\ \A j \in 1 .. m : r + j - 1 \in r .. stop - 1
  <2> HIDE DEF stop, blk
  <2>. QED
    BY <1>1, <1>3
<1>7. b \in Nat /\ Len(z) \in Nat /\ b < Len(z)
  BY TrackHeld DEF OnTrack
<1>8. IsRun(pkts, b, r, m)
  <2>1. pkts = [j \in 1 .. m |-> <<blk.frags[r + j - 1], r + j - 1>>]
    BY DEF m, r
  <2>2. \A j \in 1 .. m : r + j - 1 \in DOMAIN blk.frags
    BY <1>3, <1>6
  <2> HIDE DEF pkts, b, m, r, stop
  <2>3. \A j \in 1 .. m : blk.frags[r + j - 1] = b
    BY <1>4, <2>2
  <2> HIDE DEF blk
  <2>. QED
    BY <2>1, <2>3 DEF IsRun
<1> HIDE DEF stop, pkts, m, r, blk, t, b
<1>9. /\ pkts \in Seq(Pkt(z)) /\ IsInjective(pkts) /\ ToSet(pkts) \cap Returned(D, s) = {}
      /\ ToSet(pkts) \subseteq PktRun(b, r, m)
  <2>1. Unreturned(f, D, s, id, r)
    BY <1>5 DEF r
  <2>2. /\ pkts \in Seq(Pkt(z)) /\ IsInjective(pkts) /\ ToSet(pkts) \cap Returned(D, s) = {}
        /\ ToSet(pkts) \subseteq PktRun(Place(f, id), r, m)
    BY <1>6, <1>7, <1>8, <2>1, RunFresh DEF b
  <2>. QED
    BY <2>2 DEF b
<1> DEFINE Q == ToSet(pkts)
<1>10. /\ FreshOut(z, D, e) /\ Gave(D, s, e, Q) /\ DOMAIN e = Fields
       /\ e.rx_blocks = s.rx_blocks /\ e.ready_blocks = s.ready_blocks
       /\ e.done = s.done /\ e.emit_next = s.emit_next /\ e.newest = s.newest
       /\ e.last_shard_rx = s.last_shard_rx /\ e.emit_base_set = s.emit_base_set
       /\ e.later_block_since = s.later_block_since
  <2>1. FreshOut(z, D, s) /\ DOMAIN s = Fields
    BY <1>1 DEF Once
  <2>2. pkts \in Seq(Pkt(z)) /\ IsInjective(pkts) /\ ToSet(pkts) \cap Returned(D, s) = {}
    BY <1>9
  <2>. QED
    BY <2>1, <2>2, EmitOnce
<1> HIDE DEF e, Q
<1>11. /\ t.emit_base_set = s.emit_base_set /\ t.emit_next = s.emit_next
       /\ t.ready_blocks = s.ready_blocks /\ t.done = s.done
       /\ t.last_shard_rx = s.last_shard_rx
       /\ t.out = e.out /\ t.last_payload_emit = e.last_payload_emit
       /\ t.rx_blocks = [s.rx_blocks EXCEPT ![id] = [@ EXCEPT !.released = stop]]
  BY <1>2, <1>10 DEF Fields
<1>12. /\ DOMAIN t.rx_blocks = DOMAIN s.rx_blocks
       /\ \A c \in DOMAIN s.rx_blocks : c # id => t.rx_blocks[c] = s.rx_blocks[c]
       /\ t.rx_blocks[id] = [blk EXCEPT !.released = stop]
  BY <1>11 DEF blk
<1>13. t.rx_blocks[id].released = stop /\ t.rx_blocks[id].last_seen = blk.last_seen
  BY <1>1, <1>12 DEF BlockFields
<1>14. FreshOut(z, D, t) /\ Gave(D, s, t, Q) /\ Listed(f, t.done)
  BY <1>10, <1>11 DEF FreshOut, Gave, Returned, Once
<1>15. After(f, a, s, t)
  <2>1. Place(f, s.emit_next) \in Nat
    BY <1>1, PlaceValue
  <2>2. Place(f, s.emit_next) <= Place(f, t.emit_next)
    BY <1>11, <2>1
  <2>. QED
    BY <1>1, <1>11, <2>2 DEF After
<1>16. ASSUME NEW c \in BlockId, c # id PROVE Keeps(f, Q, s, t, c)
  <2>1. Place(f, c) # b
    BY <1>1, <1>16, PlaceSame DEF b
  <2>2. NoneOf(f, Q, c)
    BY <1>9, <2>1 DEF Q, PktRun, NoneOf
  <2>. QED
    BY <1>11, <1>12, <1>16, <2>2 DEF Keeps, Here
<1>17. OneAt(f, a, D, t, id)
  <2>1. Unreturned(f, D, t, id, stop)
    <3> SUFFICES ASSUME NEW p \in Nat, p >= stop, <<b, p>> \in Returned(D, t) PROVE FALSE
      BY DEF Unreturned, b
    <3>1. p >= r
      BY <1>6
    <3>2. <<b, p>> \notin Returned(D, s)
      BY <1>5, <3>1 DEF Unreturned, r, b
    <3>3. <<b, p>> \in Q
      BY <1>14, <3>2 DEF Gave
    <3>4. PICK i \in r .. r + m - 1 : <<b, p>> = <<b, i>>
      BY <1>9, <3>3 DEF Q, PktRun
    <3>5. p = i
      BY <3>4
    <3>. QED
      BY <1>6, <3>5
  <2>2. Here(s, id) /\ Here(t, id)
    BY <1>12 DEF Here
  <2>3. ASSUME b \in DOMAIN a
        PROVE  /\ t.rx_blocks[id].last_seen <= a[b] /\ Recent(t.last_shard_rx, a[b])
               /\ Partly(f, D, t, id) => Recent(t.last_payload_emit, a[b])
    <3>1. Recent(0, a[b])
      <4>1. a[b] \in 0 .. MaxDelay
        BY <2>3 DEF Airborne
      <4>. QED
        BY <4>1 DEF Recent
    <3>2. t.rx_blocks[id].last_seen <= a[b] /\ Recent(t.last_shard_rx, a[b])
      BY <1>5, <1>11, <1>13, <2>2, <2>3 DEF OneAt, blk, b
    <3>3. Partly(f, D, t, id) => Recent(t.last_payload_emit, a[b])
      <4>1. CASE t.last_payload_emit = 0
        BY <3>1, <4>1
      <4>2. CASE t.last_payload_emit = s.last_payload_emit /\ Q = {}
        <5>1. Partly(f, D, t, id) => Partly(f, D, s, id)
          BY <1>14, <4>2 DEF Gave, Partly
        <5>. QED
          BY <1>5, <2>3, <4>2, <5>1 DEF OneAt, b
      <4>. QED
        BY <1>14, <4>1, <4>2 DEF Gave
    <3>. QED
      BY <3>2, <3>3
  <2>4. id \notin DOMAIN t.ready_blocks
    BY <1>1, <1>11
  <2>. QED
    BY <1>13, <2>1, <2>2, <2>3, <2>4 DEF OneAt, b
<1>18. \A c \in BlockId : Keeps(f, Q, s, t, c) \/ Left(f, a, s, t, c) \/ OneAt(f, a, D, t, c)
  BY <1>16, <1>17
<1>19. t.emit_base_set
  BY <1>1, <1>11
<1>20. Once(z, f, a, D, t)
  BY <1>14, <1>15, <1>18, <1>19, OnceMove
<1>. QED
  BY <1>11, <1>20 DEF t

\* What a decoded block still has to give.
LEMMA DecodedRun ==
  ASSUME NEW f, NEW c, NEW rdy, ReadyAt(f, rdy, c)
  PROVE  /\ rdy.released \in Nat /\ rdy.sdu - rdy.released \in Nat
         /\ IsRun(Decoded(rdy), Place(f, c), rdy.released, rdy.sdu - rdy.released)
<1> DEFINE r == rdy.released
           m == rdy.sdu - rdy.released
           b == Place(f, c)
<1>1. r \in Nat /\ m \in Nat /\ \A j \in 1 .. m : r + j - 1 \in 0 .. rdy.sdu - 1
  BY DEF ReadyAt
<1>2. Decoded(rdy) = [j \in 1 .. m |-> <<rdy.payloads[r + j - 1], r + j - 1>>]
  BY DEF Decoded
<1>3. \A i \in 0 .. rdy.sdu - 1 : rdy.payloads[i] = b
  BY DEF ReadyAt
<1> HIDE DEF r, m, b
<1>4. \A j \in 1 .. m : rdy.payloads[r + j - 1] = b
  BY <1>1, <1>3
<1>5. IsRun(Decoded(rdy), b, r, m)
  BY <1>2, <1>4 DEF IsRun
<1>. QED
  BY <1>1, <1>5 DEF r, m, b

\* The packets q[j] of the blocks ids[j], all of them to be returned.
Owed(z, f, D, s, n, ids, q) ==
  /\ n \in Nat /\ q = [j \in 1 .. n |-> q[j]]
  /\ \A j \in 1 .. n : ids[j] \in BlockId
  /\ \A i, j \in 1 .. n : ids[i] = ids[j] => i = j
  /\ \A j \in 1 .. n : /\ q[j] \in Seq(Pkt(z)) /\ IsInjective(q[j])
                       /\ ToSet(q[j]) \subseteq {Place(f, ids[j])} \X Nat
                       /\ ToSet(q[j]) \cap Returned(D, s) = {}

\* Q has packets of those blocks only.
OnlyOf(f, n, ids, Q) ==
  \A c \in BlockId : (\A j \in 1 .. n : ids[j] # c) => NoneOf(f, Q, c)

\* Joined, they are different packets, and each is of one of those blocks.
LEMMA OwedJoined ==
  ASSUME NEW z, NEW f \in BlockId, NEW D, NEW s, NEW n, NEW ids, NEW q,
         Owed(z, f, D, s, n, ids, q)
  PROVE  LET F == FlattenSeq(q)
         IN  /\ F \in Seq(Pkt(z)) /\ IsInjective(F)
             /\ ToSet(F) = UNION {ToSet(q[j]) : j \in 1 .. n}
             /\ \A x \in ToSet(F) : \E j \in 1 .. n : x \in ToSet(q[j]) /\ Place(f, ids[j]) = x[1]
<1> DEFINE F == FlattenSeq(q)
<1>1. q \in Seq(Seq(Pkt(z))) /\ Len(q) = n
  <2>1. \A j \in 1 .. n : q[j] \in Seq(Pkt(z))
    BY DEF Owed
  <2>2. q = [j \in 1 .. n |-> q[j]] /\ n \in Nat
    BY Zenon DEF Owed
  <2>3. q \in [1 .. n -> Seq(Pkt(z))]
    BY <2>1, <2>2, Zenon
  <2>. QED
    BY <2>2, <2>3, ASeq
<1>2. \A i, j \in 1 .. n : i # j => ToSet(q[i]) \cap ToSet(q[j]) = {}
  <2> SUFFICES ASSUME NEW i \in 1 .. n, NEW j \in 1 .. n, i # j,
                      NEW x \in ToSet(q[i]), x \in ToSet(q[j])
               PROVE  FALSE
    OBVIOUS
  <2>1. x \in {Place(f, ids[i])} \X Nat /\ x \in {Place(f, ids[j])} \X Nat
    BY DEF Owed
  <2>2. Place(f, ids[i]) = Place(f, ids[j])
    BY <2>1
  <2>3. ids[i] \in BlockId /\ ids[j] \in BlockId /\ ids[i] # ids[j]
    BY DEF Owed
  <2>. QED
    BY <2>2, <2>3, PlaceSame
<1>3. AllNew(Pkt(z), q)
  BY <1>1, <1>2 DEF AllNew, Owed
<1>4. F \in Seq(Pkt(z)) /\ IsInjective(F) /\ ToSet(F) = UNION {ToSet(q[j]) : j \in 1 .. n}
  BY <1>1, <1>3, FlattenNew
<1> HIDE DEF F
<1>5. ASSUME NEW x \in ToSet(F)
      PROVE  \E j \in 1 .. n : x \in ToSet(q[j]) /\ Place(f, ids[j]) = x[1]
  <2>1. PICK j \in 1 .. n : x \in ToSet(q[j])
    BY <1>4
  <2>2. x \in {Place(f, ids[j])} \X Nat
    BY <2>1 DEF Owed
  <2>. QED
    BY <2>1, <2>2
<1>. QED
  BY <1>4, <1>5 DEF F

\* And they are fresh.
LEMMA OwedFresh ==
  ASSUME NEW z, NEW f \in BlockId, NEW D, NEW s, NEW n, NEW ids, NEW q,
         Owed(z, f, D, s, n, ids, q)
  PROVE  LET F == FlattenSeq(q)
         IN  /\ F \in Seq(Pkt(z)) /\ IsInjective(F) /\ ToSet(F) \cap Returned(D, s) = {}
             /\ OnlyOf(f, n, ids, ToSet(F))
<1> DEFINE F == FlattenSeq(q)
<1>1. /\ F \in Seq(Pkt(z)) /\ IsInjective(F)
      /\ ToSet(F) = UNION {ToSet(q[j]) : j \in 1 .. n}
      /\ \A x \in ToSet(F) : \E j \in 1 .. n : x \in ToSet(q[j]) /\ Place(f, ids[j]) = x[1]
  BY OwedJoined
<1> HIDE DEF F
<1>2. ToSet(F) \cap Returned(D, s) = {}
  <2>1. \A j \in 1 .. n : ToSet(q[j]) \cap Returned(D, s) = {}
    BY DEF Owed
  <2>. QED
    BY <1>1, <2>1
<1>3. ASSUME NEW c \in BlockId, \A j \in 1 .. n : ids[j] # c, NEW p \in Nat,
             <<Place(f, c), p>> \in ToSet(F)
      PROVE  FALSE
  <2>1. PICK j \in 1 .. n : Place(f, ids[j]) = Place(f, c)
    BY <1>1, <1>3
  <2>2. ids[j] \in BlockId
    BY DEF Owed
  <2>. QED
    BY <1>3, <2>1, <2>2, PlaceSame
<1>. QED
  BY <1>1, <1>2, <1>3 DEF F, NoneOf, OnlyOf

\* What is left alone when the head passes.
LEMMA PassHeadRest ==
  ASSUME NEW s, NEW m, DOMAIN s = Fields
  PROVE  LET t == PassHead(s, m)
         IN  /\ t.out = s.out /\ t.last_payload_emit = s.last_payload_emit
             /\ t.last_shard_rx = s.last_shard_rx /\ t.lost = s.lost
BY DEF PassHead, Fields

\* The places of the ids the head passes.
LEMMA HeadPlaces ==
  ASSUME NEW z, NEW f \in BlockId, NEW s, OnTrack(z, f, s), NEW m \in 0 .. RingMod,
         \A j \in 0 .. m - 1 :
           wire_block_id(s.emit_next + j) \in DOMAIN s.rx_blocks \cup DOMAIN s.ready_blocks
  PROVE  /\ \A j \in 0 .. m : /\ wire_block_id(s.emit_next + j) \in BlockId
                              /\ Place(f, wire_block_id(s.emit_next + j)) =
                                   Place(f, s.emit_next) + j
         /\ m # 0 => Place(f, s.emit_next) + m <= Place(f, s.newest) + 1
         /\ \A j \in 0 .. m - 1 : Place(f, wire_block_id(s.emit_next + j)) < RingMod \div 2
<1>1. m \in Nat /\ RingMod \in Nat /\ s.emit_next \in BlockId /\ s.emit_next \in Nat
  BY TrackPlaces, RingAssumption DEF BlockId
<1>2. ASSUME NEW j \in 0 .. m
      PROVE  /\ wire_block_id(s.emit_next + j) \in BlockId
             /\ Place(f, wire_block_id(s.emit_next + j)) = Place(f, s.emit_next) + j
  <2>1. j \in 0 .. RingMod /\ (\A i \in 0 .. j - 1 : i \in 0 .. m - 1) /\ s.emit_next + j \in Nat
    BY <1>1
  <2>2. \A i \in 0 .. j - 1 :
          wire_block_id(s.emit_next + i) \in DOMAIN s.rx_blocks \cup DOMAIN s.ready_blocks
    BY <2>1
  <2>. QED
    BY <2>1, <2>2, HeadPast, WireId
<1>3. m # 0 => Place(f, s.emit_next) + m <= Place(f, s.newest) + 1
  BY HeadPast
<1>4. \A j \in 0 .. m - 1 : Place(f, wire_block_id(s.emit_next + j)) < RingMod \div 2
  <2> DEFINE H == RingMod \div 2
  <2> TAKE j \in 0 .. m - 1
  <2> DEFINE p == Place(f, wire_block_id(s.emit_next + j))
  <2>1. p \in Nat /\ p <= Place(f, s.newest)
    BY TrackHeld
  <2>2. Place(f, s.newest) \in Nat /\ Place(f, s.newest) + 2 <= H /\ H \in Nat
    BY TrackPlaces
  <2> HIDE DEF H, p
  <2>3. p < H
    BY <2>1, <2>2
  <2>. QED
    BY <2>3 DEF H, p
<1>. QED
  BY <1>2, <1>3, <1>4

\* The m ids from e on, and what those decoded blocks still have to give.
IdsFrom(e, m)        == [j \in 1 .. m |-> wire_block_id(e + j - 1)]
IdSet(ids, m)        == {ids[j] : j \in 1 .. m}
Passing(e, m)        == {wire_block_id(e + j) : j \in 0 .. m - 1}
ReadyPkts(s, ids, m) == [j \in 1 .. m |-> Decoded(s.ready_blocks[ids[j]])]

\* The decoded blocks that the head is about to pass are owed.
LEMMA ReadyOwed ==
  ASSUME NEW z, NEW f \in BlockId, NEW a, NEW D, NEW s,
         OnTrack(z, f, s), Once(z, f, a, D, s), NEW m \in 0 .. RingMod,
         \A j \in 0 .. m - 1 : wire_block_id(s.emit_next + j) \in DOMAIN s.ready_blocks
  PROVE  LET ids == IdsFrom(s.emit_next, m)
         IN  /\ Owed(z, f, D, s, m, ids, ReadyPkts(s, ids, m))
             /\ IdSet(ids, m) = Passing(s.emit_next, m)
<1> DEFINE ids == IdsFrom(s.emit_next, m)
           q == ReadyPkts(s, ids, m)
           e == s.emit_next
<1>1. m \in Nat /\ e \in Nat /\ e \in BlockId
  BY TrackPlaces, RingAssumption DEF BlockId
<1>2. \A j \in 1 .. m : ids[j] = wire_block_id(e + (j - 1)) /\ j - 1 \in 0 .. m - 1
  <2> TAKE j \in 1 .. m
  <2>1. e + j - 1 = e + (j - 1) /\ j - 1 \in 0 .. m - 1
    <3> HIDE DEF e
    <3>. QED
      BY <1>1
  <2>2. ids[j] = wire_block_id(e + j - 1)
    BY DEF IdsFrom
  <2>. QED
    BY <2>1, <2>2
<1> HIDE DEF ids
<1>3. {ids[j] : j \in 1 .. m} = {wire_block_id(e + j) : j \in 0 .. m - 1}
  <2>1. \A j \in 0 .. m - 1 : j + 1 \in 1 .. m /\ wire_block_id(e + j) = ids[j + 1]
    <3> TAKE j \in 0 .. m - 1
    <3>1. j + 1 \in 1 .. m /\ (j + 1) - 1 = j
      BY <1>1
    <3>. QED
      BY <1>2, <3>1
  <2>. QED
    BY <1>2, <2>1
<1>4. \A j \in 1 .. m : ids[j] \in DOMAIN s.ready_blocks /\ ids[j] \in BlockId
  <2>1. \A j \in 1 .. m : ids[j] \in DOMAIN s.ready_blocks
    BY <1>2
  <2>. QED
    BY <2>1, TrackHeld
<1>5. \A i, j \in 1 .. m : ids[i] = ids[j] => i = j
  <2> SUFFICES ASSUME NEW i \in 1 .. m, NEW j \in 1 .. m, ids[i] = ids[j] PROVE i = j
    OBVIOUS
  <2>1. i - 1 \in 0 .. m /\ j - 1 \in 0 .. m
    BY <1>1
  <2>2. \A l \in 0 .. m : Place(f, wire_block_id(e + l)) = Place(f, e) + l
    BY HeadPlaces
  <2>3. Place(f, e) + (i - 1) = Place(f, e) + (j - 1)
    <3>1. Place(f, wire_block_id(e + (i - 1))) = Place(f, wire_block_id(e + (j - 1)))
      BY <1>2
    <3>. QED
      BY <2>1, <2>2, <3>1
  <2>4. Place(f, e) \in Nat
    BY TrackPlaces
  <2> HIDE DEF e
  <2>. QED
    BY <2>3, <2>4
<1>6. ASSUME NEW j \in 1 .. m
      PROVE  /\ q[j] \in Seq(Pkt(z)) /\ IsInjective(q[j])
             /\ ToSet(q[j]) \subseteq {Place(f, ids[j])} \X Nat
             /\ ToSet(q[j]) \cap Returned(D, s) = {}
  <2> DEFINE c == ids[j]
             rdy == s.ready_blocks[c]
  <2>1. q[j] = Decoded(rdy)
    BY DEF ReadyPkts
  <2>2. c \in DOMAIN s.ready_blocks /\ c \in BlockId
    BY <1>4
  <2> HIDE DEF c
  <2>3. ReadyAt(f, rdy, c) /\ Unreturned(f, D, s, c, rdy.released)
    BY <2>2 DEF Once, OneAt
  <2>4. Place(f, c) \in Nat /\ Place(f, c) < Len(z) /\ Len(z) \in Nat
    BY <2>2, TrackHeld DEF OnTrack
  <2> HIDE DEF rdy, q
  <2>5. /\ rdy.released \in Nat /\ rdy.sdu - rdy.released \in Nat
        /\ IsRun(q[j], Place(f, c), rdy.released, rdy.sdu - rdy.released)
    BY <2>1, <2>3, DecodedRun
  <2>6. /\ q[j] \in Seq(Pkt(z)) /\ IsInjective(q[j]) /\ ToSet(q[j]) \cap Returned(D, s) = {}
        /\ ToSet(q[j]) \subseteq PktRun(Place(f, c), rdy.released, rdy.sdu - rdy.released)
    BY <2>3, <2>4, <2>5, RunFresh
  <2>7. PktRun(Place(f, c), rdy.released, rdy.sdu - rdy.released) \subseteq {Place(f, c)} \X Nat
    BY <2>5 DEF PktRun
  <2>. QED
    BY <2>6, <2>7 DEF c
<1>7. q = [j \in 1 .. m |-> q[j]]
  BY DEF ReadyPkts
<1> HIDE DEF q
<1>8. Owed(z, f, D, s, m, ids, q)
  BY <1>1, <1>4, <1>5, <1>6, <1>7 DEF Owed
<1>. QED
  BY <1>3, <1>8 DEF q, ids, IdSet, Passing

\* The decoded blocks that follow the head have been passed and returned.
Emptied(s) ==
  LET m   == RunLength(DOMAIN s.ready_blocks, s.emit_next)
      ids == IdsFrom(s.emit_next, m)
  IN  [PassHead(emit_payloads(s, FlattenSeq(ReadyPkts(s, ids, m))), m) EXCEPT
         !.ready_blocks = Without(@, IdSet(ids, m))]

\* Then the head is streamed.
LEMMA DrainIs ==
  ASSUME NEW s
  PROVE  DrainHead(s) = IF Emptied(s).emit_next \in DOMAIN Emptied(s).rx_blocks
                        THEN try_stream_head_systematic(Emptied(s), Emptied(s).emit_next)
                        ELSE Emptied(s)
BY DEF DrainHead, Emptied, IdsFrom, ReadyPkts, IdSet

\* Passing them returns nothing twice.
LEMMA EmptiedOnce ==
  ASSUME RingMod \div 2 <= DoneMax, NEW z, NEW f \in BlockId, NEW a, Airborne(z, a), NEW D,
         NEW s, OnTrack(z, f, s), Once(z, f, a, D, s)
  PROVE  OnTrack(z, f, Emptied(s)) /\ Once(z, f, a, D, Emptied(s))
<1> DEFINE m    == RunLength(DOMAIN s.ready_blocks, s.emit_next)
           ids  == IdsFrom(s.emit_next, m)
           q    == ReadyPkts(s, ids, m)
           pkts == FlattenSeq(q)
           e    == emit_payloads(s, pkts)
           u    == PassHead(e, m)
           gone == IdSet(ids, m)
           t    == [u EXCEPT !.ready_blocks = Without(@, gone)]
           Q    == ToSet(pkts)
           p0   == Place(f, s.emit_next)
<1>1. /\ m \in 0 .. RingMod /\ DOMAIN s = Fields /\ s.emit_next \in BlockId /\ InRange(s)
      /\ \A j \in 0 .. m - 1 : wire_block_id(s.emit_next + j) \in DOMAIN s.ready_blocks
      /\ s.emit_base_set /\ QueueOK(s)
  BY RunLengthOK DEF RxOK, QueueOK, OnTrack
<1>2. Emptied(s) = t
  BY DEF Emptied
<1> HIDE DEF m
<1>3. gone = {wire_block_id(s.emit_next + j) : j \in 0 .. m - 1}
  <2>1. gone = Passing(s.emit_next, m)
    BY <1>1, ReadyOwed
  <2>. QED
    BY <2>1 DEF Passing
<1>4. /\ pkts \in Seq(Pkt(z)) /\ IsInjective(pkts) /\ Q \cap Returned(D, s) = {}
      /\ OnlyOf(f, m, ids, Q)
  <2>1. Owed(z, f, D, s, m, ids, q)
    BY <1>1, ReadyOwed
  <2> HIDE DEF q, ids
  <2>. QED
    BY <2>1, OwedFresh
<1>5. \A c \in BlockId : c \notin gone => NoneOf(f, Q, c)
  BY <1>4 DEF OnlyOf, IdSet
<1> HIDE DEF pkts, Q, gone, ids, q
<1>6. /\ \A j \in 0 .. m : /\ wire_block_id(s.emit_next + j) \in BlockId
                           /\ Place(f, wire_block_id(s.emit_next + j)) = p0 + j
      /\ m # 0 => p0 + m <= Place(f, s.newest) + 1
      /\ \A j \in 0 .. m - 1 : Place(f, wire_block_id(s.emit_next + j)) < RingMod \div 2
  BY <1>1, HeadPlaces
<1>7. /\ FreshOut(z, D, e) /\ Gave(D, s, e, Q) /\ DOMAIN e = Fields
      /\ e.rx_blocks = s.rx_blocks /\ e.ready_blocks = s.ready_blocks
      /\ e.done = s.done /\ e.emit_next = s.emit_next /\ e.newest = s.newest
      /\ e.last_shard_rx = s.last_shard_rx /\ e.emit_base_set = s.emit_base_set
      /\ e.later_block_since = s.later_block_since
  <2>1. FreshOut(z, D, s) /\ DOMAIN s = Fields
    BY <1>1 DEF Once
  <2>2. pkts \in Seq(Pkt(z)) /\ IsInjective(pkts) /\ ToSet(pkts) \cap Returned(D, s) = {}
    BY <1>4 DEF Q
  <2>. QED
    BY <2>1, <2>2, EmitOnce DEF Q
<1>8. InRange(e) /\ m \in Nat /\ e.emit_next \in BlockId
  <2>1. m \in Nat /\ SameRange(s, e)
    BY <1>1, EmitRange
  <2>. QED
    BY <1>1, <1>7, <2>1, SameRangeOK
<1> HIDE DEF e
<1>9. /\ DOMAIN u = Fields /\ Onward(e, u, m) /\ InRange(u)
      /\ u.rx_blocks = s.rx_blocks /\ u.ready_blocks = s.ready_blocks
      /\ u.out = e.out /\ u.last_payload_emit = e.last_payload_emit
      /\ u.last_shard_rx = s.last_shard_rx
  BY <1>7, <1>8, PassHeadOnward, PassHeadRange, PassHeadRest
<1>10. /\ Listed(f, u.done) /\ MarksStay(s.done, u.done)
       /\ \A j \in 0 .. m - 1 : HasMark(u.done, wire_block_id(s.emit_next + j), 0)
  <2>1. Listed(f, e.done)
    BY <1>7 DEF Once
  <2>2. \A j \in 0 .. m - 1 : Place(f, wire_block_id(e.emit_next + j)) < RingMod \div 2
    BY <1>6, <1>7
  <2>3. /\ Listed(f, u.done) /\ MarksStay(e.done, u.done)
        /\ \A j \in 0 .. m - 1 : HasMark(u.done, wire_block_id(e.emit_next + j), 0)
    BY <1>7, <1>8, <2>1, <2>2, PassHeadOnce
  <2>. QED
    BY <1>7, <2>3
<1> HIDE DEF u
<1>11. /\ DOMAIN t = Fields /\ t.newest = s.newest /\ t.later_block_since = s.later_block_since
       /\ t.emit_base_set = s.emit_base_set /\ t.emit_next = wire_block_id(s.emit_next + m)
       /\ t.rx_blocks = s.rx_blocks /\ t.ready_blocks = Without(s.ready_blocks, gone)
       /\ t.done = u.done /\ t.out = e.out /\ t.last_payload_emit = e.last_payload_emit
       /\ t.last_shard_rx = s.last_shard_rx
  BY <1>7, <1>9 DEF Fields, Onward, Fewer
<1> HIDE DEF t
<1>12. /\ DOMAIN t.ready_blocks = DOMAIN s.ready_blocks \ gone
       /\ \A c \in DOMAIN t.ready_blocks : t.ready_blocks[c] = s.ready_blocks[c]
  BY <1>11 DEF Without
<1>13. OnTrack(z, f, t)
  <2>1. SameRange(u, t)
    BY <1>7, <1>9, <1>11 DEF SameRange, Onward, Fewer
  <2>2. InRange(t)
    BY <1>9, <2>1, SameRangeOK
  <2>3. \A j \in 0 .. m - 1 : wire_block_id(s.emit_next + j) \notin DOMAIN t.ready_blocks
    BY <1>3, <1>12
  <2>4. QueueOK(t)
    BY <1>1, <1>11, <1>12, <2>3, HeadMoved
  <2>5. Fewer(s, t)
    BY <1>11, <1>12, FewerSame
  <2>6. Place(f, t.emit_next) = p0 + m
    BY <1>6, <1>8, <1>11
  <2>7. /\ Place(f, t.emit_next) <= Place(f, s.newest) + 2
        /\ t.later_block_since # Never => Place(f, t.emit_next) <= Place(f, s.newest) + 1
    <3>1. /\ p0 <= Place(f, s.newest) + 2 /\ p0 \in Nat /\ Place(f, s.newest) \in Nat
          /\ s.later_block_since # Never => p0 <= Place(f, s.newest) + 1
      BY TrackPlaces DEF OnTrack
    <3> HIDE DEF p0
    <3>. QED
      BY <1>6, <1>8, <1>11, <2>6, <3>1
  <2>. QED
    BY <2>2, <2>4, <2>5, <2>7, TrackFewer DEF RxOK
<1>14. FreshOut(z, D, t) /\ Gave(D, s, t, Q) /\ Listed(f, t.done)
  BY <1>7, <1>10, <1>11 DEF FreshOut, Gave, Returned
<1>15. After(f, a, s, t)
  <2>1. Place(f, t.emit_next) = p0 + m /\ p0 \in Nat
    BY <1>6, <1>8, <1>11, TrackPlaces
  <2>2. p0 <= Place(f, t.emit_next)
    <3> HIDE DEF p0
    <3>. QED
      BY <1>8, <2>1
  <2>3. t.emit_next \in BlockId
    BY <1>6, <1>8, <1>11
  <2>4. \A c \in BlockId : Place(f, c) \in DOMAIN a => a[Place(f, c)] \in Nat
    BY DEF Airborne
  <2>5. \A c \in BlockId : Place(f, c) \in DOMAIN a /\ HasMark(s.done, c, a[Place(f, c)])
                             => HasMark(t.done, c, a[Place(f, c)])
    BY <1>10, <1>11, <2>4 DEF MarksStay
  <2>. QED
    BY <1>1, <1>11, <2>2, <2>3, <2>5 DEF After
<1>16. ASSUME NEW c \in BlockId, c \notin gone PROVE Keeps(f, Q, s, t, c)
  BY <1>5, <1>11, <1>12, <1>16 DEF Keeps, Here
<1>17. ASSUME NEW c \in BlockId, c \in gone PROVE Left(f, a, s, t, c)
  <2>1. PICK j \in 0 .. m - 1 : c = wire_block_id(s.emit_next + j)
    BY <1>3, <1>17
  <2>2. c \in DOMAIN s.ready_blocks /\ c \notin DOMAIN s.rx_blocks
    BY <1>1, <2>1 DEF QueueOK
  <2>3. ~Here(t, c) /\ Here(s, c)
    BY <1>11, <1>12, <1>17, <2>2 DEF Here
  <2>4. ASSUME Place(f, c) \in DOMAIN a PROVE Past(f, a, t, c)
    <3>1. a[Place(f, c)] \in Nat /\ 0 <= a[Place(f, c)]
      BY <2>4 DEF Airborne
    <3>2. HasMark(t.done, c, 0)
      BY <1>10, <1>11, <2>1
    <3>3. HasMark(t.done, c, a[Place(f, c)])
      BY <1>14, <3>1, <3>2, MarkOlder
    <3>4. Place(f, c) = p0 + j /\ Place(f, t.emit_next) = p0 + m /\ p0 \in Nat
      <4>1. j \in 0 .. m
        BY <1>8
      <4>. QED
        BY <1>6, <1>8, <1>11, <2>1, <4>1, TrackPlaces
    <3>5. Place(f, c) < Place(f, t.emit_next)
      <4> HIDE DEF p0
      <4>. QED
        BY <1>8, <3>4
    <3>. QED
      BY <3>3, <3>5 DEF Past
  <2>. QED
    BY <2>3, <2>4 DEF Left
<1>18. Once(z, f, a, D, t)
  <2>1. \A c \in BlockId : Keeps(f, Q, s, t, c) \/ Left(f, a, s, t, c) \/ OneAt(f, a, D, t, c)
    BY <1>16, <1>17
  <2>2. t.emit_base_set
    BY <1>1, <1>11
  <2>. QED
    BY <1>14, <1>15, <2>1, <2>2, OnceMove
<1>. QED
  BY <1>2, <1>13, <1>18

\* Draining the queue returns nothing twice.
LEMMA DrainOnce ==
  ASSUME RingMod \div 2 <= DoneMax, NEW z, NEW f \in BlockId, NEW a, Airborne(z, a), NEW D,
         NEW s, OnTrack(z, f, s), Once(z, f, a, D, s)
  PROVE  Once(z, f, a, D, DrainHead(s))
<1> DEFINE t == Emptied(s)
<1>1. OnTrack(z, f, t) /\ Once(z, f, a, D, t)
  BY EmptiedOnce
<1>2. DrainHead(s) = IF t.emit_next \in DOMAIN t.rx_blocks
                     THEN try_stream_head_systematic(t, t.emit_next) ELSE t
  BY DrainIs
<1> HIDE DEF t
<1>3. CASE t.emit_next \in DOMAIN t.rx_blocks
  <2>1. Once(z, f, a, D, try_stream_head_systematic(t, t.emit_next))
    BY <1>1, <1>3, StreamOnce
  <2>. QED
    BY <1>2, <1>3, <2>1
<1>4. CASE t.emit_next \notin DOMAIN t.rx_blocks
  BY <1>1, <1>2, <1>4
<1>. QED
  BY <1>3, <1>4

\* The systematic packets of a block below each index.
IsUpto(blk, from, n, g) ==
  g = [i \in 0 .. n |->
         IF i = 0 THEN <<>>
         ELSE IF i - 1 >= from /\ i - 1 \in DOMAIN blk.frags
         THEN Append(g[i - 1], <<blk.frags[i - 1], i - 1>>) ELSE g[i - 1]]

\* They can be listed.
LEMMA UptoExists ==
  ASSUME NEW blk, NEW from, NEW n \in Nat
  PROVE  \E g : IsUpto(blk, from, n, g)
<1> DEFINE T == {l \in Nat : ~(\E g : IsUpto(blk, from, l, g))}
<1> SUFFICES ASSUME T # {} PROVE FALSE
  OBVIOUS
<1>1. PICK l \in T : \A k \in T : l <= k
  <2>1. T \in SUBSET Nat
    OBVIOUS
  <2> HIDE DEF T
  <2>. QED
    BY <2>1, NatMin
<1>2. l \in Nat /\ ~(\E g : IsUpto(blk, from, l, g))
  OBVIOUS
<1>3. l # 0
  <2> SUFFICES ASSUME l = 0 PROVE FALSE
    OBVIOUS
  <2> DEFINE g == [i \in 0 .. 0 |-> <<>>]
  <2>1. \A i \in 0 .. 0 : i = 0 /\ g[i] = <<>>
    OBVIOUS
  <2>2. g = [i \in 0 .. 0 |-> g[i]]
    OBVIOUS
  <2> HIDE DEF g
  <2>3. IsUpto(blk, from, 0, g)
    BY <2>1, <2>2 DEF IsUpto
  <2>. QED
    BY <1>2, <2>3
<1>4. l - 1 \in Nat /\ l - 1 \notin T
  <2> HIDE DEF T
  <2>. QED
    BY <1>1, <1>2, <1>3
<1>5. PICK g : IsUpto(blk, from, l - 1, g)
  BY <1>4
<1> DEFINE more(i, q) == IF i - 1 >= from /\ i - 1 \in DOMAIN blk.frags
                         THEN Append(q, <<blk.frags[i - 1], i - 1>>) ELSE q
           h == [i \in 0 .. l |-> IF i = l THEN more(l, g[l - 1]) ELSE g[i]]
<1>6. \A i \in 0 .. l : h[i] = IF i = 0 THEN <<>> ELSE more(i, h[i - 1])
  <2> TAKE i \in 0 .. l
  <2>1. CASE i = l
    <3>1. l - 1 \in 0 .. l /\ l - 1 # l
      BY <1>2, <1>3
    <3>2. h[l - 1] = g[l - 1]
      BY <3>1
    <3>. QED
      BY <1>3, <2>1, <3>2
  <2>2. CASE i # l
    <3>1. i \in 0 .. l - 1 /\ h[i] = g[i]
      BY <1>2, <2>2
    <3>2. g[i] = IF i = 0 THEN <<>> ELSE more(i, g[i - 1])
      BY <1>5, <3>1, Zenon DEF IsUpto
    <3>3. i # 0 => h[i - 1] = g[i - 1]
      BY <1>2, <3>1
    <3>. QED
      BY <3>1, <3>2, <3>3
  <2>. QED
    BY <2>1, <2>2
<1>7. h = [i \in 0 .. l |-> h[i]]
  OBVIOUS
<1> HIDE DEF h
<1>8. h = [i \in 0 .. l |-> IF i = 0 THEN <<>> ELSE more(i, h[i - 1])]
  <2> HIDE DEF more
  <2>. QED
    BY <1>6, <1>7
<1>9. IsUpto(blk, from, l, h)
  BY <1>8 DEF IsUpto
<1>. QED
  BY <1>2, <1>9

\* Packets of block b from index r on.
PktFrom(b, r) == {<<b, i>> : i \in {j \in Nat : j >= r}}

\* The systematic packets of a block are different ones.
LEMMA SystematicNew ==
  ASSUME NEW b \in Nat, NEW r \in Nat, NEW blk, blk.sdu \in Nat,
         \A i \in DOMAIN blk.frags : blk.frags[i] = b
  PROVE  LET q == Systematic(blk, r)
         IN  q \in Seq(PktFrom(b, r)) /\ IsInjective(q)
<1> DEFINE n == blk.sdu
           g == CHOOSE h : IsUpto(blk, r, n, h)
           P == PktFrom(b, r)
           G(i) == /\ g[i] \in Seq(P) /\ IsInjective(g[i])
                   /\ \A x \in ToSet(g[i]) : x[2] < i
           T == {i \in 0 .. n : ~G(i)}
<1>1. IsUpto(blk, r, n, g)
  BY UptoExists
<1>2. Systematic(blk, r) = g[n]
  BY DEF Systematic, IsUpto
<1>0. n \in Nat
  OBVIOUS
<1> HIDE DEF g, n
<1>3. /\ g[0] = <<>>
      /\ \A i \in 1 .. n : g[i] = IF i - 1 >= r /\ i - 1 \in DOMAIN blk.frags
                                  THEN Append(g[i - 1], <<blk.frags[i - 1], i - 1>>)
                                  ELSE g[i - 1]
  <2>1. 0 \in 0 .. n /\ \A i \in 1 .. n : i \in 0 .. n /\ i # 0
    BY <1>0
  <2>. QED
    BY <1>1, <2>1, Zenon DEF IsUpto
<1>4. T = {}
  <2> SUFFICES ASSUME T # {} PROVE FALSE
    OBVIOUS
  <2>1. PICK i \in T : \A k \in T : i <= k
    <3>1. T \in SUBSET Nat
      OBVIOUS
    <3> HIDE DEF T
    <3>. QED
      BY <3>1, NatMin
  <2>2. i \in 0 .. n /\ ~G(i)
    OBVIOUS
  <2>3. i # 0
    <3>1. <<>> \in Seq(P) /\ DOMAIN <<>> = {}
      BY EmptySeq
    <3>2. ToSet(<<>>) = {} /\ IsInjective(<<>>)
      BY <3>1 DEF ToSet, IsInjective
    <3> HIDE DEF P
    <3>3. G(0)
      BY <1>3, <3>1, <3>2
    <3>. QED
      BY <2>2, <3>3
  <2>4. i \in 1 .. n /\ i - 1 \in 0 .. n /\ i - 1 \notin T /\ i - 1 \in Nat
    <3> HIDE DEF T
    <3>. QED
      BY <1>0, <2>1, <2>2, <2>3
  <2>5. G(i - 1)
    BY <2>4
  <2>6. \A x \in ToSet(g[i - 1]) : x[2] \in Nat
    <3>1. \A x \in P : x[2] \in Nat
      BY DEF PktFrom
    <3> HIDE DEF P
    <3>2. \A j \in DOMAIN g[i - 1] : g[i - 1][j] \in P
      BY <2>5, LenProperties, ElementOfSeq
    <3>. QED
      BY <3>1, <3>2 DEF ToSet
  <2>7. CASE ~(i - 1 >= r /\ i - 1 \in DOMAIN blk.frags)
    <3>1. g[i] = g[i - 1]
      BY <1>3, <2>4, <2>7
    <3>2. \A x \in ToSet(g[i]) : x[2] < i
      BY <2>4, <2>5, <2>6, <3>1
    <3>. QED
      BY <2>2, <2>5, <3>1, <3>2
  <2>8. CASE i - 1 >= r /\ i - 1 \in DOMAIN blk.frags
    <3> DEFINE x == <<b, i - 1>>
    <3>1. g[i] = Append(g[i - 1], x)
      BY <1>3, <2>4, <2>8
    <3>2. x \in P /\ x[2] = i - 1
      BY <2>4, <2>8 DEF PktFrom
    <3>3. x \notin ToSet(g[i - 1])
      BY <2>4, <2>5, <2>6, <3>2
    <3> HIDE DEF P, x
    <3>4. /\ g[i] \in Seq(P) /\ IsInjective(g[i])
          /\ ToSet(g[i]) = ToSet(g[i - 1]) \cup {x}
      BY <2>5, <3>1, <3>2, <3>3, AppendNew
    <3>5. \A y \in ToSet(g[i]) : y[2] < i
      BY <2>4, <2>5, <2>6, <3>2, <3>4
    <3>. QED
      BY <2>2, <3>4, <3>5
  <2>. QED
    BY <2>7, <2>8
<1>5. G(n)
  <2>1. n \in 0 .. n
    BY <1>0
  <2>. QED
    BY <1>4, <2>1
<1>. QED
  BY <1>2, <1>5

\* They are fresh if none of the block's packets from r on has been returned.
LEMMA SystematicFresh ==
  ASSUME NEW z, NEW f, NEW D, NEW s, NEW c, NEW r \in Nat,
         Place(f, c) \in Nat, Len(z) \in Nat, Place(f, c) < Len(z), Unreturned(f, D, s, c, r),
         NEW blk, blk.sdu \in Nat, \A i \in DOMAIN blk.frags : blk.frags[i] = Place(f, c)
  PROVE  LET q == Systematic(blk, r)
         IN  /\ q \in Seq(Pkt(z)) /\ IsInjective(q) /\ ToSet(q) \cap Returned(D, s) = {}
             /\ ToSet(q) \subseteq {Place(f, c)} \X Nat
<1> DEFINE b == Place(f, c)
           q == Systematic(blk, r)
           P == PktFrom(b, r)
<1>1. q \in Seq(P) /\ IsInjective(q)
  BY SystematicNew
<1>2. P \subseteq {b} \X Nat
  BY DEF PktFrom
<1>3. {b} \X Nat \subseteq Pkt(z)
  <2>1. {b} \subseteq 0 .. Len(z) - 1
    OBVIOUS
  <2> DEFINE A == 0 .. Len(z) - 1
  <2>2. {b} \subseteq A /\ Pkt(z) = A \X Nat
    BY <2>1 DEF Pkt
  <2> HIDE DEF A, b
  <2>. QED
    BY <2>2
<1>4. P \cap Returned(D, s) = {}
  BY DEF PktFrom, Unreturned
<1> HIDE DEF P, q, b
<1>5. \A x \in ToSet(q) : x \in P
  BY <1>1, LenProperties, ElementOfSeq DEF ToSet
<1>6. q \in Seq(Pkt(z))
  <2>1. Len(q) \in Nat /\ DOMAIN q = 1 .. Len(q) /\ \A j \in 1 .. Len(q) : q[j] \in Pkt(z)
    BY <1>1, <1>2, <1>3, LenProperties, ElementOfSeq
  <2>2. q = [j \in 1 .. Len(q) |-> q[j]]
    BY <1>1, LenProperties
  <2>3. q \in [1 .. Len(q) -> Pkt(z)]
    BY <2>1, <2>2, Zenon
  <2>. QED
    BY <2>1, <2>3, ASeq
<1>. QED
  BY <1>1, <1>2, <1>4, <1>5, <1>6 DEF q, b

\* What a block being collected still has to give.
LEMMA CollectedFresh ==
  ASSUME NEW z, NEW f \in BlockId, NEW a, NEW D, NEW s,
         OnTrack(z, f, s), Once(z, f, a, D, s), NEW c \in DOMAIN s.rx_blocks
  PROVE  LET q == Systematic(s.rx_blocks[c], s.rx_blocks[c].released)
         IN  /\ q \in Seq(Pkt(z)) /\ IsInjective(q) /\ ToSet(q) \cap Returned(D, s) = {}
             /\ ToSet(q) \subseteq {Place(f, c)} \X Nat
<1> DEFINE blk == s.rx_blocks[c]
           r   == blk.released
<1>1. Unreturned(f, D, s, c, r)
  BY TrackHeld DEF Once, OneAt
<1>2. Place(f, c) \in Nat /\ Len(z) \in Nat /\ Place(f, c) < Len(z)
  BY TrackHeld DEF OnTrack
<1>3. blk.sdu \in Nat /\ r \in Nat
  BY DEF OnTrack, RxOK, InRange, BlockOK
<1>4. \A i \in DOMAIN blk.frags : blk.frags[i] = Place(f, c)
  BY DEF OnTrack, BlockAt
<1> HIDE DEF r, blk
<1>5. LET q == Systematic(blk, r)
      IN  /\ q \in Seq(Pkt(z)) /\ IsInjective(q) /\ ToSet(q) \cap Returned(D, s) = {}
          /\ ToSet(q) \subseteq {Place(f, c)} \X Nat
  BY <1>1, <1>2, <1>3, <1>4, SystematicFresh
<1>. QED
  BY <1>5 DEF r, blk

\* x is s without the block at its head, of which the packets q have been returned.
LetGo(s, q, x) ==
  LET e == emit_payloads([s EXCEPT !.rx_blocks = Without(@, {s.emit_next})], q)
  IN  /\ DOMAIN x = Fields /\ x.out = e.out /\ x.last_payload_emit = e.last_payload_emit
      /\ x.rx_blocks = e.rx_blocks /\ x.ready_blocks = e.ready_blocks /\ x.done = e.done
      /\ x.emit_next = e.emit_next /\ x.last_shard_rx = e.last_shard_rx
      /\ x.emit_base_set = e.emit_base_set

\* The head passes its block, and some of its packets are returned.
LEMMA HeadGoneOnce ==
  ASSUME RingMod \div 2 <= DoneMax, NEW z, NEW f \in BlockId, NEW a, Airborne(z, a), NEW D,
         NEW s, OnTrack(z, f, s), Once(z, f, a, D, s), s.emit_next \in DOMAIN s.rx_blocks,
         NEW q, q \in Seq(Pkt(z)), IsInjective(q), ToSet(q) \cap Returned(D, s) = {},
         ToSet(q) \subseteq {Place(f, s.emit_next)} \X Nat,
         NEW x, LetGo(s, q, x)
  PROVE  Once(z, f, a, D, [PassHead(x, 1) EXCEPT !.later_block_since = Never])
<1> DEFINE h  == s.emit_next
           u  == [s EXCEPT !.rx_blocks = Without(@, {h})]
           e  == emit_payloads(u, q)
           p  == PassHead(x, 1)
           t  == [p EXCEPT !.later_block_since = Never]
           Q  == ToSet(q)
<1>1. /\ DOMAIN s = Fields /\ h \in BlockId /\ s.emit_base_set /\ h \notin DOMAIN s.ready_blocks
      /\ h \in DOMAIN s.rx_blocks
  BY DEF OnTrack, RxOK, QueueOK
<1>2. /\ DOMAIN u = Fields /\ u.out = s.out /\ u.emit_next = h
      /\ u.last_payload_emit = s.last_payload_emit /\ u.last_shard_rx = s.last_shard_rx
      /\ u.done = s.done /\ u.rx_blocks = Without(s.rx_blocks, {h})
      /\ u.ready_blocks = s.ready_blocks /\ u.emit_base_set = s.emit_base_set
  BY <1>1 DEF Fields
<1>3. /\ DOMAIN x = Fields /\ x.out = e.out /\ x.last_payload_emit = e.last_payload_emit
      /\ x.rx_blocks = e.rx_blocks /\ x.ready_blocks = e.ready_blocks /\ x.done = e.done
      /\ x.emit_next = e.emit_next /\ x.last_shard_rx = e.last_shard_rx
      /\ x.emit_base_set = e.emit_base_set
  BY DEF LetGo
<1> HIDE DEF u
<1>4. /\ q \in Seq(Pkt(z)) /\ IsInjective(q) /\ Q \cap Returned(D, s) = {}
      /\ Q \subseteq {Place(f, h)} \X Nat
  OBVIOUS
<1>5. /\ FreshOut(z, D, e) /\ Gave(D, u, e, Q) /\ DOMAIN e = Fields
      /\ e.rx_blocks = u.rx_blocks /\ e.ready_blocks = u.ready_blocks
      /\ e.done = u.done /\ e.emit_next = u.emit_next
      /\ e.last_shard_rx = u.last_shard_rx /\ e.emit_base_set = u.emit_base_set
  <2>1. FreshOut(z, D, u) /\ Returned(D, u) = Returned(D, s)
    BY <1>2 DEF Once, FreshOut, Returned
  <2>2. ToSet(q) \cap Returned(D, u) = {}
    BY <1>4, <2>1
  <2>. QED
    BY <1>2, <1>4, <2>1, <2>2, EmitOnce
<1> HIDE DEF e
<1>6. /\ DOMAIN x = Fields /\ x.out = e.out /\ x.last_payload_emit = e.last_payload_emit
      /\ x.rx_blocks = u.rx_blocks /\ x.ready_blocks = s.ready_blocks /\ x.done = s.done
      /\ x.emit_next = h /\ x.last_shard_rx = s.last_shard_rx /\ x.emit_base_set
  BY <1>1, <1>2, <1>3, <1>5
<1>7. /\ DOMAIN p = Fields /\ p.out = x.out /\ p.last_payload_emit = x.last_payload_emit
      /\ p.rx_blocks = u.rx_blocks /\ p.ready_blocks = s.ready_blocks
      /\ p.emit_next = wire_block_id(h + 1) /\ p.last_shard_rx = s.last_shard_rx
      /\ p.emit_base_set
  BY <1>6, PassHeadKeeps, PassHeadRest
<1>8. /\ wire_block_id(h + 0) = h /\ Place(f, h) < RingMod \div 2
      /\ wire_block_id(h + 1) \in BlockId /\ Place(f, wire_block_id(h + 1)) = Place(f, h) + 1
  <2>1. wire_block_id(h + 0) = h
    BY <1>1, WireHere
  <2> DEFINE m == 1
  <2>2. m \in 0 .. RingMod /\ \A j \in 0 .. m - 1 : j = 0
    BY RingAssumption
  <2>3. 1 \in 0 .. m /\ 0 \in 0 .. m - 1
    OBVIOUS
  <2> HIDE DEF m
  <2>4. \A j \in 0 .. m - 1 :
          wire_block_id(s.emit_next + j) \in DOMAIN s.rx_blocks \cup DOMAIN s.ready_blocks
    BY <1>1, <2>1, <2>2
  <2>5. /\ \A j \in 0 .. m : /\ wire_block_id(h + j) \in BlockId
                             /\ Place(f, wire_block_id(h + j)) = Place(f, h) + j
        /\ \A j \in 0 .. m - 1 : Place(f, wire_block_id(h + j)) < RingMod \div 2
    BY <2>2, <2>4, HeadPlaces
  <2>. QED
    BY <2>1, <2>3, <2>5
<1>9. Listed(f, p.done) /\ MarksStay(s.done, p.done) /\ HasMark(p.done, h, 0)
  <2>1. Listed(f, x.done)
    BY <1>6 DEF Once
  <2>2. \A j \in 0 .. 1 - 1 : Place(f, wire_block_id(x.emit_next + j)) < RingMod \div 2
    BY <1>6, <1>8
  <2>3. /\ Listed(f, p.done) /\ MarksStay(x.done, p.done)
        /\ \A j \in 0 .. 1 - 1 : HasMark(p.done, wire_block_id(x.emit_next + j), 0)
    BY <1>1, <1>6, <2>1, <2>2, PassHeadOnce
  <2>. QED
    BY <1>6, <1>8, <2>3
<1> HIDE DEF p
<1>10. /\ t.emit_base_set /\ t.emit_next = wire_block_id(h + 1) /\ t.done = p.done
       /\ t.rx_blocks = Without(s.rx_blocks, {h}) /\ t.ready_blocks = s.ready_blocks
       /\ t.out = e.out /\ t.last_payload_emit = e.last_payload_emit
       /\ t.last_shard_rx = s.last_shard_rx
  BY <1>2, <1>6, <1>7 DEF Fields
<1> HIDE DEF t
<1>11. /\ DOMAIN t.rx_blocks = DOMAIN s.rx_blocks \ {h}
       /\ \A c \in DOMAIN t.rx_blocks : t.rx_blocks[c] = s.rx_blocks[c]
  BY <1>10 DEF Without
<1>12. FreshOut(z, D, t) /\ Gave(D, s, t, Q) /\ Listed(f, t.done)
  BY <1>2, <1>5, <1>9, <1>10 DEF FreshOut, Gave, Returned
<1>13. After(f, a, s, t)
  <2>1. Place(f, h) \in Nat
    BY <1>1, PlaceValue
  <2>2. Place(f, h) <= Place(f, t.emit_next) /\ t.emit_next \in BlockId
    BY <1>8, <1>10, <2>1
  <2>3. \A c \in BlockId : Place(f, c) \in DOMAIN a => a[Place(f, c)] \in Nat
    BY DEF Airborne
  <2>4. \A c \in BlockId : Place(f, c) \in DOMAIN a /\ HasMark(s.done, c, a[Place(f, c)])
                             => HasMark(t.done, c, a[Place(f, c)])
    BY <1>9, <1>10, <2>3 DEF MarksStay
  <2>. QED
    BY <1>1, <1>10, <2>2, <2>4 DEF After
<1>14. ASSUME NEW c \in BlockId, c # h PROVE Keeps(f, Q, s, t, c)
  <2>1. Place(f, c) # Place(f, h)
    BY <1>1, <1>14, PlaceSame
  <2>2. NoneOf(f, Q, c)
    BY <1>4, <2>1 DEF NoneOf
  <2>. QED
    BY <1>10, <1>11, <1>14, <2>2 DEF Keeps, Here
<1>15. Left(f, a, s, t, h)
  <2>1. ~Here(t, h) /\ Here(s, h)
    BY <1>1, <1>10, <1>11 DEF Here
  <2>2. ASSUME Place(f, h) \in DOMAIN a PROVE Past(f, a, t, h)
    <3>1. a[Place(f, h)] \in Nat /\ 0 <= a[Place(f, h)]
      BY <2>2 DEF Airborne
    <3>2. HasMark(t.done, h, a[Place(f, h)])
      BY <1>9, <1>10, <1>12, <3>1, MarkOlder
    <3>3. Place(f, h) < Place(f, t.emit_next)
      <4>1. Place(f, h) \in Nat
        BY <1>1, PlaceValue
      <4>. QED
        BY <1>8, <1>10, <4>1
    <3>. QED
      BY <3>2, <3>3 DEF Past
  <2>. QED
    BY <2>1, <2>2 DEF Left
<1>16. \A c \in BlockId : Keeps(f, Q, s, t, c) \/ Left(f, a, s, t, c) \/ OneAt(f, a, D, t, c)
  BY <1>14, <1>15
<1>17. t.emit_base_set
  BY <1>10
<1>18. Once(z, f, a, D, t)
  BY <1>12, <1>13, <1>16, <1>17, OnceMove
<1>. QED
  BY <1>18 DEF t, p

\* Giving up the block at the head.
LEMMA AbandonHeadOnce ==
  ASSUME RingMod \div 2 <= DoneMax, NEW z, NEW f \in BlockId, NEW a, Airborne(z, a), NEW D,
         NEW s, OnTrack(z, f, s), Once(z, f, a, D, s), s.emit_next \in DOMAIN s.rx_blocks
  PROVE  Once(z, f, a, D, abandon_partial_block([s EXCEPT !.rx_blocks = Without(@, {s.emit_next})],
                                                s.rx_blocks[s.emit_next], s.emit_next))
<1> DEFINE h == s.emit_next
           u == [s EXCEPT !.rx_blocks = Without(@, {h})]
           q == Systematic(s.rx_blocks[h], s.rx_blocks[h].released)
           e == emit_payloads(u, q)
           x == [e EXCEPT !.lost = @ \cup Missing(s.rx_blocks[h])]
           t == [PassHead(x, 1) EXCEPT !.later_block_since = Never]
<1>1. DOMAIN u = Fields /\ u.emit_next = h
  BY DEF OnTrack, RxOK, QueueOK, Fields
<1>2. abandon_partial_block(u, s.rx_blocks[h], h) = t
  BY <1>1 DEF abandon_partial_block
<1>3. /\ q \in Seq(Pkt(z)) /\ IsInjective(q) /\ ToSet(q) \cap Returned(D, s) = {}
      /\ ToSet(q) \subseteq {Place(f, h)} \X Nat
  BY CollectedFresh
<1> HIDE DEF q
<1>4. DOMAIN e = Fields
  BY <1>1, EmitStill
<1> HIDE DEF e
<1>5. /\ DOMAIN x = Fields /\ x.out = e.out /\ x.last_payload_emit = e.last_payload_emit
      /\ x.rx_blocks = e.rx_blocks /\ x.ready_blocks = e.ready_blocks /\ x.done = e.done
      /\ x.emit_next = e.emit_next /\ x.last_shard_rx = e.last_shard_rx
      /\ x.emit_base_set = e.emit_base_set
  BY <1>4 DEF Fields
<1> HIDE DEF x
<1>6. LetGo(s, q, x)
  BY <1>5 DEF LetGo, e, u
<1>7. Once(z, f, a, D, t)
  BY <1>3, <1>6, HeadGoneOnce
<1>. QED
  BY <1>2, <1>7

------------------------------------------------------------------------------

(* The emit engine, and the end of every call.                              *)

\* t differs from s in what does not matter here, but for the head and the marks.
SameBut(s, t) ==
  /\ t.rx_blocks = s.rx_blocks /\ t.ready_blocks = s.ready_blocks
  /\ t.out = s.out /\ t.last_payload_emit = s.last_payload_emit

\* No block is touched.
LEMMA SameOnce ==
  ASSUME NEW z, NEW f \in BlockId, NEW a, Airborne(z, a), NEW D, NEW s, NEW t,
         Once(z, f, a, D, s), SameBut(s, t), After(f, a, s, t), Listed(f, t.done), t.emit_base_set
  PROVE  Once(z, f, a, D, t)
<1>1. FreshOut(z, D, t) /\ Gave(D, s, t, {})
  BY DEF SameBut, Once, FreshOut, Gave, Returned
<1>2. \A c \in BlockId : Keeps(f, {}, s, t, c)
  BY DEF SameBut, Keeps, Here, NoneOf
<1>. QED
  BY <1>1, <1>2, OnceMove

\* Giving up the head returns nothing twice.
LEMMA GiveUpOnce ==
  ASSUME RingMod \div 2 <= DoneMax, NEW z, NEW f \in BlockId, NEW a, Airborne(z, a), NEW D,
         NEW s, OnTrack(z, f, s), Once(z, f, a, D, s)
  PROVE  Once(z, f, a, D, maybe_give_up_head(s))
<1> DEFINE t == maybe_give_up_head(s)
           e == s.emit_next
           p == Place(f, e)
           u == [s EXCEPT !.rx_blocks = Without(@, {e})]
           g == IF ReadyAheadOf(s) # {} THEN NearestReady(s) ELSE wire_block_id(e + 1)
           v == [s EXCEPT !.emit_next = g, !.later_block_since = Never]
<1>1. DOMAIN s = Fields /\ QueueOK(s) /\ s.emit_base_set /\ e \in BlockId
  BY DEF OnTrack, RxOK, QueueOK
<1>2. t = IF e \in DOMAIN s.rx_blocks
          THEN IF \/ Cardinality(DOMAIN s.rx_blocks[e].frags) >= s.rx_blocks[e].n
                  \/ HoldOver(s)
               THEN abandon_partial_block(u, s.rx_blocks[e], e) ELSE s
          ELSE IF e \notin DOMAIN s.ready_blocks /\ HoldOver(s) THEN v ELSE s
  BY DEF maybe_give_up_head
<1> HIDE DEF t
<1>3. ASSUME e \in DOMAIN s.rx_blocks, t = abandon_partial_block(u, s.rx_blocks[e], e)
      PROVE  Once(z, f, a, D, t)
  BY <1>3, AbandonHeadOnce
<1>4. ASSUME t = v PROVE Once(z, f, a, D, t)
  <2>1. p \in Nat
    BY TrackPlaces
  <2>2. g \in BlockId /\ p <= Place(f, g)
    <3>1. CASE ReadyAheadOf(s) # {}
      <4>1. g \in DOMAIN s.ready_blocks
        BY <1>1, <3>1, NearestReadyOK DEF ReadyAheadOf
      <4>. QED
        BY <4>1, TrackHeld
    <3>2. CASE ReadyAheadOf(s) = {}
      <4>1. p + 1 < RingMod
        <5> DEFINE H == RingMod \div 2
                   n == Place(f, s.newest)
        <5>1. p <= H /\ n + 2 <= H /\ H \in Nat /\ 2 * H = RingMod /\ n \in Nat
          BY TrackPlaces
        <5> HIDE DEF H, p, n
        <5>. QED
          BY <2>1, <5>1
      <4>2. g \in BlockId /\ Place(f, g) = p + 1
        BY <1>1, <3>2, <4>1, PlaceNext
      <4>. QED
        BY <2>1, <4>2
    <3>. QED
      BY <3>1, <3>2
  <2> HIDE DEF g
  <2>3. /\ t.emit_next = g /\ t.emit_base_set /\ t.last_shard_rx = s.last_shard_rx
        /\ t.done = s.done /\ SameBut(s, t)
    BY <1>1, <1>4 DEF Fields, SameBut
  <2>4. After(f, a, s, t) /\ Listed(f, t.done)
    BY <1>1, <2>2, <2>3 DEF After, Once
  <2>. QED
    BY <2>3, <2>4, SameOnce
<1> HIDE DEF u, v
<1>. QED
  BY <1>2, <1>3, <1>4 DEF t

\* The emit engine returns nothing twice.
LEMMA EngineOnce ==
  ASSUME RingMod \div 2 <= DoneMax, NEW z, NEW f \in BlockId, NEW a, Airborne(z, a), NEW D,
         NEW s, OnTrack(z, f, s), Once(z, f, a, D, s)
  PROVE  Once(z, f, a, D, run_emit_engine(s))
<1> DEFINE d == DrainHead(s)
           g == maybe_give_up_head(d)
           t == DrainHead(g)
<1>1. run_emit_engine(s) = t
  BY DEF run_emit_engine, OnTrack
<1>2. OnTrack(z, f, d) /\ d.emit_next \notin DOMAIN d.ready_blocks /\ Once(z, f, a, D, d)
  BY DrainTrack, DrainOnce
<1> HIDE DEF d
<1>3. OnTrack(z, f, g) /\ Once(z, f, a, D, g)
  BY <1>2, GiveUpTrack, GiveUpOnce
<1> HIDE DEF g
<1>4. Once(z, f, a, D, t)
  BY <1>3, DrainOnce
<1>. QED
  BY <1>1, <1>4

\* What the blocks of S still have to give, in any order.
LEMMA AbandonOwed ==
  ASSUME NEW z, NEW f \in BlockId, NEW a, NEW D, NEW s, OnTrack(z, f, s), Once(z, f, a, D, s),
         NEW S, S \subseteq DOMAIN s.rx_blocks, NEW o \in SetToSeqs(S)
  PROVE  Owed(z, f, D, s, Len(o), o,
              [j \in 1 .. Len(o) |->
                 LET blk == s.rx_blocks[o[j]] IN Systematic(blk, blk.released)])
<1> DEFINE n == Cardinality(S)
           q == [j \in 1 .. Len(o) |->
                   LET blk == s.rx_blocks[o[j]] IN Systematic(blk, blk.released)]
<1>1. n \in Nat
  <2>1. S \subseteq 0 .. RingMod - 1 /\ RingMod \in Nat
    BY RingAssumption DEF OnTrack, RxOK, QueueOK, BlockId
  <2>2. IsFiniteSet(0 .. RingMod - 1)
    BY <2>1, FS_Interval
  <2>. QED
    BY <2>1, <2>2, FS_Subset, FS_CardinalityType
<1>2. o \in [1 .. n -> S] /\ \A i, j \in 1 .. n : i # j => o[i] # o[j]
  BY DEF SetToSeqs
<1> HIDE DEF n
<1>3. Len(o) = n
  BY <1>1, <1>2, ASeq
<1>4. ASSUME NEW j \in 1 .. n
      PROVE  /\ o[j] \in BlockId /\ q[j] \in Seq(Pkt(z)) /\ IsInjective(q[j])
             /\ ToSet(q[j]) \subseteq {Place(f, o[j])} \X Nat
             /\ ToSet(q[j]) \cap Returned(D, s) = {}
  <2>1. o[j] \in S
    BY <1>2
  <2> DEFINE c == o[j]
  <2>2. q[j] = Systematic(s.rx_blocks[c], s.rx_blocks[c].released)
    BY <1>3
  <2>3. c \in DOMAIN s.rx_blocks /\ c \in BlockId
    BY <2>1 DEF OnTrack, RxOK, QueueOK
  <2> HIDE DEF c, q
  <2>4. /\ q[j] \in Seq(Pkt(z)) /\ IsInjective(q[j])
        /\ ToSet(q[j]) \subseteq {Place(f, c)} \X Nat
        /\ ToSet(q[j]) \cap Returned(D, s) = {}
    <3> DEFINE w == Systematic(s.rx_blocks[c], s.rx_blocks[c].released)
    <3>1. /\ w \in Seq(Pkt(z)) /\ IsInjective(w) /\ ToSet(w) \cap Returned(D, s) = {}
          /\ ToSet(w) \subseteq {Place(f, c)} \X Nat
      BY <2>3, CollectedFresh
    <3> HIDE DEF w
    <3>2. q[j] = w
      BY <2>2 DEF w
    <3>. QED
      BY <3>1, <3>2
  <2>. QED
    BY <2>3, <2>4 DEF c
<1>5. q = [j \in 1 .. n |-> q[j]]
  BY <1>3
<1> HIDE DEF q
<1>6. Owed(z, f, D, s, Len(o), o, q)
  BY <1>1, <1>2, <1>3, <1>4, <1>5 DEF Owed
<1>. QED
  BY <1>6 DEF q

\* The blocks of S have gone, what order o of them still had has been returned.
GivenUp(s, S, o) ==
  [emit_payloads(s, FlattenSeq([j \in 1 .. Len(o) |->
                      LET blk == s.rx_blocks[o[j]] IN Systematic(blk, blk.released)]))
     EXCEPT !.rx_blocks = Without(@, S),
            !.lost = @ \cup UNION {Missing(s.rx_blocks[b]) : b \in S}]

\* And the head has passed those of them that it met.
LEMMA AbandonWalk ==
  ASSUME NEW s, NEW S, NEW t \in AbandonAll(s, S)
  PROVE  \E o \in SetToSeqs(S), m \in 0 .. RingMod :
           /\ HeadRun(o, s.emit_next, m)
           /\ t = IF m = 0 THEN GivenUp(s, S, o)
                  ELSE [PassHead(GivenUp(s, S, o), m) EXCEPT !.later_block_since = Never]
BY DEF AbandonAll, GivenUp

\* Giving up several blocks of which nothing can arrive any more.
LEMMA AbandonAllOnce ==
  ASSUME RingMod \div 2 <= DoneMax, NEW z, NEW f \in BlockId, NEW a, Airborne(z, a), NEW D,
         NEW s, OnTrack(z, f, s), Once(z, f, a, D, s),
         NEW S, S \subseteq DOMAIN s.rx_blocks, \A c \in S : Place(f, c) \notin DOMAIN a,
         NEW t \in AbandonAll(s, S)
  PROVE  Once(z, f, a, D, t) /\ t.last_shard_rx = s.last_shard_rx
<1>1. PICK o \in SetToSeqs(S), m \in 0 .. RingMod :
        /\ HeadRun(o, s.emit_next, m)
        /\ t = IF m = 0 THEN GivenUp(s, S, o)
               ELSE [PassHead(GivenUp(s, S, o), m) EXCEPT !.later_block_since = Never]
  BY AbandonWalk
<1> DEFINE F == FlattenSeq([j \in 1 .. Len(o) |->
                  LET blk == s.rx_blocks[o[j]] IN Systematic(blk, blk.released)])
           e == emit_payloads(s, F)
           x == GivenUp(s, S, o)
           p == PassHead(x, m)
           h == [p EXCEPT !.later_block_since = Never]
           Q == ToSet(F)
<1>2. /\ DOMAIN s = Fields /\ s.emit_next \in BlockId /\ s.emit_base_set /\ m \in Nat
      /\ DOMAIN s.rx_blocks \cap DOMAIN s.ready_blocks = {} /\ S \subseteq BlockId
  BY RingAssumption DEF OnTrack, RxOK, QueueOK, InRange
<1>3. \A j \in 0 .. m - 1 : wire_block_id(s.emit_next + j) \in S
  <2>1. ToSet(o) \subseteq S
    BY DEF SetToSeqs, ToSet
  <2>2. \A j \in 0 .. m - 1 : wire_block_id(s.emit_next + j) \in ToSet(o)
    BY <1>1 DEF HeadRun
  <2>. QED
    BY <2>1, <2>2
<1>4. t = IF m = 0 THEN x ELSE h
  BY <1>1
<1>5. x = [e EXCEPT !.rx_blocks = Without(@, S),
                    !.lost = @ \cup UNION {Missing(s.rx_blocks[b]) : b \in S}]
  BY DEF GivenUp
<1>6. /\ F \in Seq(Pkt(z)) /\ IsInjective(F) /\ Q \cap Returned(D, s) = {}
      /\ OnlyOf(f, Len(o), o, Q)
  BY AbandonOwed, OwedFresh
<1>7. \A c \in BlockId : c \notin S => NoneOf(f, Q, c)
  <2>1. \A j \in 1 .. Len(o) : o[j] \in S
    <3>1. DOMAIN o = 1 .. Cardinality(S) /\ \A j \in DOMAIN o : o[j] \in S
      BY DEF SetToSeqs
    <3>2. DOMAIN o = 1 .. Len(o)
      <4>1. Len(o) \in Nat /\ o = [j \in 1 .. Cardinality(S) |-> o[j]]
        BY AbandonOwed, <3>1 DEF Owed, SetToSeqs
      <4>2. Cardinality(S) \in Nat
        <5>1. S \subseteq 0 .. RingMod - 1 /\ RingMod \in Nat
          BY <1>2, RingAssumption DEF BlockId
        <5>2. IsFiniteSet(0 .. RingMod - 1)
          BY <5>1, FS_Interval
        <5>. QED
          BY <5>1, <5>2, FS_Subset, FS_CardinalityType
      <4>3. o \in [1 .. Cardinality(S) -> S]
        BY DEF SetToSeqs
      <4>4. Len(o) = Cardinality(S)
        BY <4>2, <4>3, ASeq
      <4>. QED
        BY <3>1, <4>4
    <3>. QED
      BY <3>1, <3>2
  <2>. QED
    BY <1>6, <2>1 DEF OnlyOf
<1> HIDE DEF x, F
<1>8. /\ FreshOut(z, D, e) /\ Gave(D, s, e, Q) /\ DOMAIN e = Fields
      /\ e.rx_blocks = s.rx_blocks /\ e.ready_blocks = s.ready_blocks
      /\ e.done = s.done /\ e.emit_next = s.emit_next
      /\ e.last_shard_rx = s.last_shard_rx /\ e.emit_base_set = s.emit_base_set
  <2>1. FreshOut(z, D, s) /\ DOMAIN s = Fields
    BY <1>2 DEF Once
  <2>2. F \in Seq(Pkt(z)) /\ IsInjective(F) /\ ToSet(F) \cap Returned(D, s) = {}
    BY <1>6
  <2> HIDE DEF p, h
  <2>. QED
    BY <2>1, <2>2, EmitOnce
<1> HIDE DEF e
<1>9. /\ DOMAIN x = Fields /\ x.out = e.out /\ x.last_payload_emit = e.last_payload_emit
      /\ x.rx_blocks = Without(s.rx_blocks, S) /\ x.ready_blocks = s.ready_blocks
      /\ x.done = s.done /\ x.emit_next = s.emit_next
      /\ x.last_shard_rx = s.last_shard_rx /\ x.emit_base_set
  BY <1>2, <1>5, <1>8 DEF Fields
<1>10. /\ DOMAIN p = Fields /\ p.out = x.out /\ p.last_payload_emit = x.last_payload_emit
       /\ p.rx_blocks = x.rx_blocks /\ p.ready_blocks = x.ready_blocks
       /\ p.emit_next = wire_block_id(s.emit_next + m) /\ p.last_shard_rx = x.last_shard_rx
       /\ p.emit_base_set
  BY <1>9, PassHeadKeeps, PassHeadRest
<1>11. \A j \in 0 .. m - 1 :
         wire_block_id(s.emit_next + j) \in DOMAIN s.rx_blocks \cup DOMAIN s.ready_blocks
  BY <1>3
<1>12. /\ wire_block_id(s.emit_next + m) \in BlockId
       /\ Place(f, wire_block_id(s.emit_next + m)) = Place(f, s.emit_next) + m
       /\ \A j \in 0 .. m - 1 : Place(f, wire_block_id(s.emit_next + j)) < RingMod \div 2
  <2>1. m \in 0 .. m
    BY <1>2
  <2>. QED
    BY <1>11, <2>1, HeadPlaces
<1>13. Listed(f, p.done) /\ MarksStay(s.done, p.done)
  <2>1. Listed(f, x.done)
    BY <1>9 DEF Once
  <2>2. \A j \in 0 .. m - 1 : Place(f, wire_block_id(x.emit_next + j)) < RingMod \div 2
    BY <1>9, <1>12
  <2>3. Listed(f, p.done) /\ MarksStay(x.done, p.done)
    BY <1>2, <1>9, <2>1, <2>2, PassHeadOnce
  <2>. QED
    BY <1>9, <2>3
<1> HIDE DEF p
<1>14. /\ h.out = x.out /\ h.last_payload_emit = x.last_payload_emit
       /\ h.rx_blocks = x.rx_blocks /\ h.ready_blocks = x.ready_blocks
       /\ h.emit_next = p.emit_next /\ h.last_shard_rx = x.last_shard_rx
       /\ h.emit_base_set /\ h.done = p.done
  BY <1>10 DEF Fields
<1> HIDE DEF h
<1>15. /\ t.out = e.out /\ t.last_payload_emit = e.last_payload_emit
       /\ t.rx_blocks = Without(s.rx_blocks, S) /\ t.ready_blocks = s.ready_blocks
       /\ t.last_shard_rx = s.last_shard_rx /\ t.emit_base_set
  BY <1>4, <1>9, <1>14
<1>16. /\ t.emit_next \in BlockId /\ Place(f, s.emit_next) <= Place(f, t.emit_next)
       /\ Listed(f, t.done) /\ MarksStay(s.done, t.done)
  <2>1. Place(f, s.emit_next) \in Nat
    BY <1>2, PlaceValue
  <2>2. CASE m = 0
    BY <1>2, <1>4, <1>9, <2>1, <2>2 DEF MarksStay, Once
  <2>3. CASE m # 0
    BY <1>2, <1>4, <1>10, <1>12, <1>13, <1>14, <2>1, <2>3
  <2>. QED
    BY <2>2, <2>3
<1>17. /\ DOMAIN t.rx_blocks = DOMAIN s.rx_blocks \ S
       /\ \A c \in DOMAIN t.rx_blocks : t.rx_blocks[c] = s.rx_blocks[c]
  BY <1>15 DEF Without
<1>18. FreshOut(z, D, t) /\ Gave(D, s, t, Q)
  BY <1>8, <1>15 DEF FreshOut, Gave, Returned
<1>19. After(f, a, s, t)
  <2>1. \A c \in BlockId : Place(f, c) \in DOMAIN a => a[Place(f, c)] \in Nat
    BY DEF Airborne
  <2>2. \A c \in BlockId : Place(f, c) \in DOMAIN a /\ HasMark(s.done, c, a[Place(f, c)])
                             => HasMark(t.done, c, a[Place(f, c)])
    BY <1>16, <2>1 DEF MarksStay
  <2>. QED
    BY <1>2, <1>15, <1>16, <2>2 DEF After
<1>20. ASSUME NEW c \in BlockId, c \notin S PROVE Keeps(f, Q, s, t, c)
  BY <1>7, <1>15, <1>17, <1>20 DEF Keeps, Here
<1>21. ASSUME NEW c \in BlockId, c \in S PROVE Left(f, a, s, t, c)
  <2>1. ~Here(t, c)
    BY <1>2, <1>15, <1>17, <1>21 DEF Here
  <2>. QED
    BY <1>21, <2>1 DEF Left
<1>22. \A c \in BlockId : Keeps(f, Q, s, t, c) \/ Left(f, a, s, t, c) \/ OneAt(f, a, D, t, c)
  BY <1>20, <1>21
<1>23. Once(z, f, a, D, t)
  BY <1>15, <1>16, <1>18, <1>19, <1>22, OnceMove
<1>. QED
  BY <1>15, <1>23

\* The blocks a call gives up at its end.
Expired(s) == {b \in DOMAIN s.rx_blocks : s.rx_blocks[b].last_seen > RxHold}

\* The marks that expire do not matter, and no shard of a block that expires can arrive.
LEMMA ExpiryOnce ==
  ASSUME MaxDelay < RxHold, NEW z, NEW f \in BlockId, NEW a, Airborne(z, a), NEW D,
         NEW s, OnTrack(z, f, s), Once(z, f, a, D, s)
  PROVE  LET d == expire_done(s)
         IN  /\ OnTrack(z, f, d) /\ Once(z, f, a, D, d) /\ SameTrack(s, d)
             /\ d.out = s.out /\ d.lost = s.lost
             /\ Expired(d) \subseteq DOMAIN d.rx_blocks
             /\ \A c \in Expired(d) : Place(f, c) \notin DOMAIN a
<1> DEFINE d == expire_done(s)
           S == Expired(d)
<1>2. RxOK(s) /\ DOMAIN s = Fields /\ s.emit_base_set /\ s.emit_next \in BlockId
  BY DEF OnTrack, RxOK, QueueOK, InRange
<1>3. RxOK(d) /\ SameTrack(s, d)
  <2>1. /\ SameQueue(s, d) /\ SameTrack(s, d)
    BY <1>2 DEF expire_done, SameQueue, SameTrack, Fields
  <2>2. QueueOK(d) /\ InRange(d)
    BY <1>2, <2>1, SameQueueOK, ExpireDoneRange DEF RxOK
  <2>. QED
    BY <2>1, <2>2 DEF RxOK
<1>4. /\ d = [s EXCEPT !.done = d.done] /\ Listed(f, d.done)
      /\ \A c : \A x \in 0 .. DoneHold : HasMark(s.done, c, x) => HasMark(d.done, c, x)
  BY <1>2, ExpireDoneOnce DEF Once
<1> HIDE DEF d
<1>5. SameBut(s, d) /\ d.last_shard_rx = s.last_shard_rx /\ d.out = s.out /\ d.lost = s.lost
  BY <1>2, <1>4 DEF SameBut, Fields
<1>6. OnTrack(z, f, d)
  BY <1>3, SameTrackOK
<1>7. MaxDelay \in Nat /\ RxHold \in Nat /\ DoneHold \in Nat /\ RxHold <= DoneHold
  BY LinkAssumption, RxAssumption
<1>8. After(f, a, s, d)
  <2>1. \A c \in BlockId : Place(f, c) \in DOMAIN a => a[Place(f, c)] \in 0 .. DoneHold
    BY <1>7 DEF Airborne
  <2>2. \A c \in BlockId : Place(f, c) \in DOMAIN a /\ HasMark(s.done, c, a[Place(f, c)])
                             => HasMark(d.done, c, a[Place(f, c)])
    BY <1>4, <2>1
  <2>3. Place(f, s.emit_next) \in Nat /\ d.emit_next = s.emit_next
    BY <1>2, <1>3, PlaceValue DEF SameTrack
  <2>. QED
    BY <1>2, <1>5, <2>2, <2>3 DEF After
<1>9. Once(z, f, a, D, d)
  BY <1>2, <1>3, <1>4, <1>5, <1>8, SameOnce DEF SameTrack
<1>10. \A c \in S : Place(f, c) \notin DOMAIN a
  <2> SUFFICES ASSUME NEW c \in S, Place(f, c) \in DOMAIN a PROVE FALSE
    OBVIOUS
  <2>1. c \in DOMAIN d.rx_blocks /\ d.rx_blocks[c].last_seen > RxHold
    BY DEF Expired
  <2>2. c \in BlockId
    BY <1>3, <2>1 DEF RxOK, QueueOK
  <2>3. d.rx_blocks[c].last_seen <= a[Place(f, c)] /\ a[Place(f, c)] \in 0 .. MaxDelay
    BY <1>9, <2>1, <2>2 DEF Once, OneAt, Airborne
  <2>4. d.rx_blocks[c].last_seen \in Nat
    <3>1. d.rx_blocks[c].last_seen \in Age
      BY <1>3, <2>1 DEF RxOK, InRange, BlockOK
    <3>. QED
      BY <3>1 DEF Age
  <2>. QED
    BY <1>7, <2>1, <2>3, <2>4
<1>11. S \subseteq DOMAIN d.rx_blocks
  BY DEF Expired
<1>. QED
  BY <1>3, <1>5, <1>6, <1>9, <1>10, <1>11 DEF d

\* The end of every call.
LEMMA EndOnce ==
  ASSUME RingMod \div 2 <= DoneMax, MaxDelay < RxHold, NEW z, NEW f \in BlockId, NEW a,
         Airborne(z, a), NEW D, NEW s, OnTrack(z, f, s), Once(z, f, a, D, s),
         NEW t \in ExpireThenEmit(s)
  PROVE  Once(z, f, a, D, t)
<1> DEFINE d == expire_done(s)
           S == Expired(d)
<1>1. PICK u \in AbandonAll(d, S) : t = run_emit_engine(u)
  BY DEF ExpireThenEmit, expire_rx, Expired
<1>2. /\ OnTrack(z, f, d) /\ Once(z, f, a, D, d)
      /\ S \subseteq DOMAIN d.rx_blocks /\ \A c \in S : Place(f, c) \notin DOMAIN a
  BY ExpiryOnce
<1> HIDE DEF d, S
<1>3. OnTrack(z, f, u) /\ Once(z, f, a, D, u)
  BY <1>2, AbandonAllTrack, AbandonAllOnce
<1>. QED
  BY <1>1, <1>3, EngineOnce

------------------------------------------------------------------------------

(* What push_air does before it looks at the shard's block.                 *)

\* t holds no more than s, and has returned the same.
Sub(s, t) ==
  /\ t.out = s.out /\ t.last_shard_rx \in {0, s.last_shard_rx} /\ t.emit_base_set
  /\ \A c \in DOMAIN t.rx_blocks : c \in DOMAIN s.rx_blocks /\ t.rx_blocks[c] = s.rx_blocks[c]
  /\ \A c \in DOMAIN t.ready_blocks :
       c \in DOMAIN s.ready_blocks /\ t.ready_blocks[c] = s.ready_blocks[c]

\* Nothing has been returned of the blocks of which shards can still arrive.
NoneOut(f, a, D, s) == \A c \in BlockId : Place(f, c) \in DOMAIN a => ~Partly(f, D, s, c)

\* Then the receiver can forget what it likes.
LEMMA LessOnce ==
  ASSUME NEW z, NEW f \in BlockId, NEW a, Airborne(z, a), NEW D, NEW s, NEW t,
         Once(z, f, a, D, s), Sub(s, t), NoneOut(f, a, D, s), Listed(f, t.done)
  PROVE  Once(z, f, a, D, t)
<1>1. Returned(D, t) = Returned(D, s) /\ FreshOut(z, D, t)
  BY DEF Sub, Returned, Once, FreshOut
<1>2. ASSUME NEW c \in BlockId PROVE OneAt(f, a, D, t, c)
  <2> DEFINE b == Place(f, c)
  <2>1. OneAt(f, a, D, s, c)
    BY DEF Once
  <2>2. c \in DOMAIN t.rx_blocks => Unreturned(f, D, t, c, t.rx_blocks[c].released)
    BY <1>1, <2>1 DEF OneAt, Unreturned, Sub
  <2>3. c \in DOMAIN t.ready_blocks =>
          Unreturned(f, D, t, c, t.ready_blocks[c].released) /\ ReadyAt(f, t.ready_blocks[c], c)
    BY <1>1, <2>1 DEF OneAt, Unreturned, Sub
  <2>4. ASSUME b \in DOMAIN a
        PROVE  /\ c \in DOMAIN t.rx_blocks => t.rx_blocks[c].last_seen <= a[b]
               /\ Here(t, c) => Recent(t.last_shard_rx, a[b])
               /\ ~Partly(f, D, t, c)
    <3>1. Recent(0, a[b])
      <4>1. a[b] \in 0 .. MaxDelay
        BY <2>4 DEF Airborne
      <4>. QED
        BY <4>1 DEF Recent
    <3>2. ~Partly(f, D, t, c)
      BY <1>1, <2>4 DEF NoneOut, Partly
    <3>3. Here(t, c) => Here(s, c)
      BY DEF Here, Sub
    <3>. QED
      BY <2>1, <2>4, <3>1, <3>2, <3>3 DEF OneAt, Sub
  <2>. QED
    BY <2>2, <2>3, <2>4 DEF OneAt
<1>. QED
  BY <1>1, <1>2 DEF Once, Sub

\* No mark at all.
LEMMA NoneListed == \A f \in BlockId : Listed(f, <<>>)
<1>1. <<>> \in Marks
  BY DoneMaxNat DEF Marks
<1>. QED
  BY <1>1 DEF Listed

\* The first shard sets the base.
LEMMA BaseOnce ==
  ASSUME NEW z, NEW f \in BlockId, NEW a, Airborne(z, a), NEW D, NEW s, RxOK(s),
         Once(z, f, a, D, s), NEW id \in BlockId
  PROVE  Once(z, f, a, D, note_emit_base(s, id))
<1> DEFINE t == note_emit_base(s, id)
<1>1. CASE s.emit_base_set
  BY <1>1 DEF note_emit_base
<1>2. CASE ~s.emit_base_set
  <2>1. /\ t.out = s.out /\ t.last_shard_rx = s.last_shard_rx /\ t.emit_base_set
        /\ t.rx_blocks = s.rx_blocks /\ t.ready_blocks = s.ready_blocks /\ t.done = s.done
    BY <1>2 DEF note_emit_base, RxOK, QueueOK, Fields
  <2> HIDE DEF t
  <2>2. s.done = <<>> /\ DOMAIN s.rx_blocks = {} /\ DOMAIN s.ready_blocks = {}
    BY <1>2 DEF Once, RxOK, QueueOK
  <2>3. NoneOut(f, a, D, s)
    <3> SUFFICES ASSUME NEW c \in BlockId, Place(f, c) \in DOMAIN a, Partly(f, D, s, c)
                 PROVE  FALSE
      BY DEF NoneOut
    <3>1. Past(f, a, s, c)
      <4>1. ~Here(s, c)
        BY <2>2 DEF Here
      <4>. QED
        BY <4>1 DEF Once, OneAt
    <3>2. \E j \in 1 .. Len(s.done) : TRUE
      BY <3>1 DEF Past, HasMark
    <3>. QED
      BY <2>2, <3>2
  <2>4. Sub(s, t) /\ Listed(f, t.done)
    BY <2>1 DEF Sub, Once
  <2>. QED
    BY <2>3, <2>4, LessOnce DEF t
<1>. QED
  BY <1>1, <1>2

\* A rebase forgets what no shard can belong to any more.
LEMMA RebaseOnce ==
  ASSUME MaxDelay < RxHold, NEW z, NEW f \in BlockId, NEW a, Airborne(z, a), NEW D, NEW s,
         OnTrack(z, f, s), Once(z, f, a, D, s), NEW id \in BlockId
  PROVE  LET t == maybe_rebase_after_silence(s, id)
         IN  Once(z, f, a, D, t) /\ t.last_shard_rx = 0
<1> DEFINE t == maybe_rebase_after_silence(s, id)
           u == [s EXCEPT !.last_shard_rx = 0]
           v == [u EXCEPT !.rx_blocks = EmptyMap, !.ready_blocks = EmptyMap,
                     !.done = <<>>, !.emit_next = id, !.newest = id,
                     !.later_block_since = Never]
<1>1. t = u \/ (t = v /\ s.last_shard_rx >= RxHold)
  BY DEF maybe_rebase_after_silence
<1>2. DOMAIN s = Fields /\ s.emit_base_set /\ s.emit_next \in BlockId
  BY DEF OnTrack, RxOK, QueueOK, InRange
<1>3. /\ DOMAIN u = Fields /\ u.rx_blocks = s.rx_blocks /\ u.ready_blocks = s.ready_blocks
      /\ u.out = s.out /\ u.last_payload_emit = s.last_payload_emit /\ u.last_shard_rx = 0
      /\ u.done = s.done /\ u.emit_next = s.emit_next /\ u.emit_base_set
  BY <1>2 DEF Fields
<1> HIDE DEF t, u
<1>4. CASE t = u
  <2>1. SameBut(s, t) /\ Listed(f, t.done)
    BY <1>3, <1>4 DEF SameBut, Once
  <2>2. After(f, a, s, t)
    <3>1. Place(f, s.emit_next) \in Nat
      BY <1>2, PlaceValue
    <3>. QED
      BY <1>2, <1>3, <1>4, <3>1 DEF After
  <2>. QED
    BY <1>3, <1>4, <2>1, <2>2, SameOnce DEF t
<1>5. CASE t = v /\ s.last_shard_rx >= RxHold
  <2>1. /\ t.rx_blocks = EmptyMap /\ t.ready_blocks = EmptyMap /\ t.out = s.out
        /\ t.last_shard_rx = 0 /\ t.done = <<>> /\ t.emit_base_set
    BY <1>3, <1>5 DEF Fields
  <2>2. Sub(s, t) /\ Listed(f, t.done)
    BY <2>1, NoneListed DEF Sub, EmptyMap
  <2>3. NoneOut(f, a, D, s)
    <3> SUFFICES ASSUME NEW c \in BlockId, Place(f, c) \in DOMAIN a, Partly(f, D, s, c)
                 PROVE  FALSE
      BY DEF NoneOut
    <3>1. Recent(s.last_shard_rx, a[Place(f, c)]) /\ a[Place(f, c)] \in 0 .. MaxDelay
      BY DEF Once, OneAt, Airborne
    <3>2. MaxDelay \in Nat /\ RxHold \in Nat
      BY LinkAssumption, RxAssumption
    <3>. QED
      BY <1>5, <3>1, <3>2 DEF Recent
  <2>. QED
    BY <2>1, <2>2, <2>3, LessOnce DEF t
<1>. QED
  BY <1>1, <1>4, <1>5

\* The newest id does not matter.
LEMMA TouchOnce ==
  ASSUME NEW z, NEW f \in BlockId, NEW a, Airborne(z, a), NEW D, NEW s,
         OnTrack(z, f, s), Once(z, f, a, D, s), NEW id \in BlockId
  PROVE  LET t == touch_newest(s, id)
         IN  Once(z, f, a, D, t) /\ t.last_shard_rx = s.last_shard_rx
<1> DEFINE t == touch_newest(s, id)
<1>1. DOMAIN s = Fields /\ s.emit_base_set /\ s.emit_next \in BlockId
  BY DEF OnTrack, RxOK, QueueOK, InRange
<1>2. /\ t.rx_blocks = s.rx_blocks /\ t.ready_blocks = s.ready_blocks
      /\ t.out = s.out /\ t.last_payload_emit = s.last_payload_emit
      /\ t.last_shard_rx = s.last_shard_rx
      /\ t.done = s.done /\ t.emit_next = s.emit_next /\ t.emit_base_set
  BY <1>1 DEF touch_newest, Fields
<1> HIDE DEF t
<1>3. SameBut(s, t) /\ Listed(f, t.done)
  BY <1>2 DEF SameBut, Once
<1>4. After(f, a, s, t)
  <2>1. Place(f, s.emit_next) \in Nat
    BY <1>1, PlaceValue
  <2>. QED
    BY <1>1, <1>2, <2>1 DEF After
<1>. QED
  BY <1>2, <1>3, <1>4, SameOnce DEF t

\* A resync forgets only when nothing has been returned for long.
LEMMA ResyncOnce ==
  ASSUME MaxDelay < RxHold, NEW z, NEW f \in BlockId, NEW a, Airborne(z, a), NEW D, NEW s,
         OnTrack(z, f, s), Once(z, f, a, D, s), NEW id \in BlockId
  PROVE  LET t == maybe_resync_on_late_shard(s, id)
         IN  Once(z, f, a, D, t) /\ t.last_shard_rx = s.last_shard_rx
<1> DEFINE t == maybe_resync_on_late_shard(s, id)
           B(S) == {b \in S : ring_dist(b, id) < 0}
           u == clear_state_behind(s, id)
           v == [u EXCEPT !.emit_next = id, !.later_block_since = Never]
<1>1. t = s \/ (t = v /\ s.last_payload_emit >= RxHold)
  BY DEF maybe_resync_on_late_shard
<1>2. CASE t = s
  BY <1>2
<1>3. CASE t = v /\ s.last_payload_emit >= RxHold
  <2>1. DOMAIN s = Fields /\ s.emit_base_set
    BY DEF OnTrack, RxOK, QueueOK
  <2> HIDE DEF t
  <2>2. u = [s EXCEPT !.rx_blocks = Without(@, B(DOMAIN @)),
                !.ready_blocks = Without(@, B(DOMAIN @)),
                !.done = forget(@, B(BlockId))]
    BY DEF clear_state_behind
  <2> HIDE DEF u
  <2>3. /\ DOMAIN u = Fields /\ u.emit_base_set /\ u.out = s.out
        /\ u.last_shard_rx = s.last_shard_rx /\ u.done = forget(s.done, B(BlockId))
        /\ u.rx_blocks = Without(s.rx_blocks, B(DOMAIN s.rx_blocks))
        /\ u.ready_blocks = Without(s.ready_blocks, B(DOMAIN s.ready_blocks))
    <3> HIDE DEF B
    <3>. QED
      BY <2>1, <2>2 DEF Fields
  <2>4. /\ t.emit_base_set /\ t.out = s.out
        /\ t.last_shard_rx = s.last_shard_rx /\ t.done = forget(s.done, B(BlockId))
        /\ t.rx_blocks = Without(s.rx_blocks, B(DOMAIN s.rx_blocks))
        /\ t.ready_blocks = Without(s.ready_blocks, B(DOMAIN s.ready_blocks))
    <3> HIDE DEF B
    <3>. QED
      BY <1>3, <2>3 DEF Fields
  <2> HIDE DEF B, v
  <2>5. Sub(s, t)
    BY <2>4 DEF Without, Sub
  <2>6. Listed(f, t.done)
    <3>1. Listed(f, s.done)
      BY DEF Once
    <3>. QED
      BY <2>4, <3>1, ForgetOnce
  <2>7. NoneOut(f, a, D, s)
    <3> SUFFICES ASSUME NEW c \in BlockId, Place(f, c) \in DOMAIN a, Partly(f, D, s, c)
                 PROVE  FALSE
      BY DEF NoneOut
    <3>1. Recent(s.last_payload_emit, a[Place(f, c)]) /\ a[Place(f, c)] \in 0 .. MaxDelay
      BY DEF Once, OneAt, Airborne
    <3>2. MaxDelay \in Nat /\ RxHold \in Nat
      BY LinkAssumption, RxAssumption
    <3>. QED
      BY <1>3, <3>1, <3>2 DEF Recent
  <2>. QED
    BY <2>4, <2>5, <2>6, <2>7, LessOnce DEF t
<1>. QED
  BY <1>1, <1>2, <1>3

\* What is stale is not on the air.
LEMMA StaleGone ==
  ASSUME NEW z, NEW f \in BlockId, NEW a, Airborne(z, a), NEW s, OnTrack(z, f, s),
         NEW c \in BlockId, ring_dist(c, s.newest) < -EvictDist
  PROVE  Place(f, c) \notin DOMAIN a
<1> SUFFICES ASSUME Place(f, c) \in DOMAIN a PROVE FALSE
  OBVIOUS
<1> DEFINE p == Place(f, c)
           n == Place(f, s.newest)
           l == Len(z)
<1>1. p \in Nat /\ p < l /\ l - 1 - p <= EvictDist
  BY DEF Airborne
<1>2. n \in Nat /\ l \in Nat /\ n < l /\ EvictDist \in Nat
  BY TrackPlaces, RxAssumption DEF OnTrack
<1>3. ring_dist(c, s.newest) = p - n
  BY <1>1, TrackDist
<1> HIDE DEF p, n, l
<1>. QED
  BY <1>1, <1>2, <1>3

\* The eviction forgets what is stale.
LEMMA EvictOnce ==
  ASSUME RingMod \div 2 <= DoneMax, NEW z, NEW f \in BlockId, NEW a, Airborne(z, a), NEW D,
         NEW s, OnTrack(z, f, s), Once(z, f, a, D, s), NEW t \in ring_evict_stale(s)
  PROVE  Once(z, f, a, D, t) /\ t.last_shard_rx = s.last_shard_rx
<1> DEFINE Stale(S) == {i \in S : ring_dist(i, s.newest) < -EvictDist}
           old  == Stale(DOMAIN s.rx_blocks)
           ids  == Stale(BlockId)
<1>1. PICK v \in AbandonAll(s, old) : t = [v EXCEPT !.done = forget(@, ids)]
  BY DEF ring_evict_stale
<1>2. old \subseteq DOMAIN s.rx_blocks /\ DOMAIN s.rx_blocks \subseteq BlockId
  BY DEF OnTrack, RxOK, QueueOK
<1>3. /\ \A c \in old : Place(f, c) \notin DOMAIN a
      /\ \A c \in ids : Place(f, c) \notin DOMAIN a
  BY <1>2, StaleGone
<1> HIDE DEF old, ids
<1>4. Once(z, f, a, D, v) /\ v.last_shard_rx = s.last_shard_rx
  BY <1>2, <1>3, AbandonAllOnce
<1>5. OnTrack(z, f, v) /\ DOMAIN v = Fields /\ v.emit_base_set /\ v.emit_next \in BlockId
  BY <1>2, AbandonAllTrack DEF OnTrack, RxOK, QueueOK, InRange
<1>6. /\ t.rx_blocks = v.rx_blocks /\ t.ready_blocks = v.ready_blocks
      /\ t.out = v.out /\ t.last_payload_emit = v.last_payload_emit
      /\ t.last_shard_rx = v.last_shard_rx
      /\ t.done = forget(v.done, ids) /\ t.emit_next = v.emit_next /\ t.emit_base_set
  BY <1>1, <1>5 DEF Fields
<1>7. /\ Listed(f, t.done)
      /\ \A c : \A x \in Nat : c \notin ids /\ HasMark(v.done, c, x) => HasMark(t.done, c, x)
  <2>1. Listed(f, v.done)
    BY <1>4 DEF Once
  <2>. QED
    BY <1>6, <2>1, ForgetOnce
<1>8. SameBut(v, t)
  BY <1>6 DEF SameBut
<1>9. After(f, a, v, t)
  <2>1. Place(f, v.emit_next) \in Nat
    BY <1>5, PlaceValue
  <2>2. \A c \in BlockId : Place(f, c) \in DOMAIN a => a[Place(f, c)] \in Nat /\ c \notin ids
    BY <1>3 DEF Airborne
  <2>3. \A c \in BlockId : Place(f, c) \in DOMAIN a /\ HasMark(v.done, c, a[Place(f, c)])
                             => HasMark(t.done, c, a[Place(f, c)])
    BY <1>7, <2>2
  <2>. QED
    BY <1>5, <1>6, <2>1, <2>3 DEF After
<1>. QED
  BY <1>4, <1>6, <1>7, <1>8, <1>9, SameOnce

\* What push_air does before the eviction.
Prepared(s, id) ==
  maybe_resync_on_late_shard(
    touch_newest(maybe_rebase_after_silence(note_emit_base(ClearResults(s), id), id), id), id)

\* It returns nothing twice.
LEMMA PreparedOnce ==
  ASSUME MaxDelay < RxHold,
         NEW z, NEW f \in BlockId, NEW a, Airborne(z, a), NEW D,
         NEW sh, sh.id \in BlockId,
         Len(z) \in Nat, Len(z) < RingMod \div 2, Place(f, sh.id) < Len(z),
         NEW s, Rested(s), InRange(s),
         s.emit_base_set => OnTrack(z, f, s) /\ Settled(z, f, s),
         ~s.emit_base_set => s.later_block_since = Never,
         Once(z, f, a, D, ClearResults(s))
  PROVE  LET d == Prepared(s, sh.id)
         IN  OnTrack(z, f, d) /\ Once(z, f, a, D, d) /\ d.last_shard_rx = 0
<1> DEFINE r == ClearResults(s)
           q == note_emit_base(r, sh.id)
           b == maybe_rebase_after_silence(q, sh.id)
           c == touch_newest(b, sh.id)
           d == maybe_resync_on_late_shard(c, sh.id)
<1>0. RxOK(s)
  BY DEF Rested, RxOK
<1>1. RxOK(r) /\ SameTrack(s, r)
  <2>1. SameTrack(s, r)
    BY <1>0 DEF ClearResults, SameTrack, RxOK, QueueOK, Fields
  <2>. QED
    BY <1>0, <2>1, ClearResultsRange
<1>2. Prepared(s, sh.id) = d
  BY DEF Prepared
<1> HIDE DEF r
<1>3. /\ r.emit_base_set => OnTrack(z, f, r) /\ Settled(z, f, r)
      /\ ~r.emit_base_set => r.later_block_since = Never
  <2>1. ASSUME s.emit_base_set PROVE OnTrack(z, f, r) /\ Settled(z, f, r)
    BY <1>1, <2>1, SameTrackOK DEF Settled, SameTrack
  <2>. QED
    BY <1>1, <2>1 DEF SameTrack
<1>4. OnTrack(z, f, q) /\ Settled(z, f, q) /\ Once(z, f, a, D, q)
  <2>1. Once(z, f, a, D, r)
    BY DEF r
  <2>. QED
    BY <1>1, <1>3, <2>1, BaseTrack, BaseOnce
<1> HIDE DEF q
<1>5. OnTrack(z, f, b) /\ Settled(z, f, b) /\ Once(z, f, a, D, b) /\ b.last_shard_rx = 0
  <2>1. OnTrack(z, f, b) /\ Settled(z, f, b)
    BY <1>4, RebaseTrack
  <2>2. Once(z, f, a, D, b) /\ b.last_shard_rx = 0
    BY <1>4, RebaseOnce
  <2>. QED
    BY <2>1, <2>2
<1> HIDE DEF b
<1>6. /\ OnTrack(z, f, c) /\ Place(f, sh.id) <= Place(f, c.newest)
      /\ Settled(z, f, c) \/ Awaited(f, c, sh.id)
      /\ Once(z, f, a, D, c) /\ c.last_shard_rx = 0
  <2>1. /\ OnTrack(z, f, c) /\ Place(f, sh.id) <= Place(f, c.newest)
        /\ Settled(z, f, c) \/ Awaited(f, c, sh.id)
    BY <1>5, TouchTrack
  <2>2. Once(z, f, a, D, c) /\ c.last_shard_rx = b.last_shard_rx
    <3>1. OnTrack(z, f, b) /\ Once(z, f, a, D, b)
      BY <1>5
    <3>. QED
      BY <3>1, TouchOnce
  <2>. QED
    BY <1>5, <2>1, <2>2
<1> HIDE DEF c
<1>7. OnTrack(z, f, d) /\ Once(z, f, a, D, d) /\ d.last_shard_rx = 0
  <2>1. OnTrack(z, f, d)
    BY <1>6, ResyncTrack
  <2>2. Once(z, f, a, D, d) /\ d.last_shard_rx = c.last_shard_rx
    <3>1. OnTrack(z, f, c) /\ Once(z, f, a, D, c)
      BY <1>6
    <3>. QED
      BY <3>1, ResyncOnce
  <2>. QED
    BY <1>6, <2>1, <2>2
<1>. QED
  BY <1>2, <1>7

\* All that push_air does before it looks at the shard's block.
LEMMA BeforeTakeOnce ==
  ASSUME RingMod \div 2 <= DoneMax, MaxDelay < RxHold,
         NEW z, NEW f \in BlockId, NEW a, Airborne(z, a), NEW D,
         NEW sh, sh.id \in BlockId,
         Len(z) \in Nat, Len(z) < RingMod \div 2, Place(f, sh.id) < Len(z),
         NEW s, Rested(s), InRange(s),
         s.emit_base_set => OnTrack(z, f, s) /\ Settled(z, f, s),
         ~s.emit_base_set => s.later_block_since = Never,
         Once(z, f, a, D, ClearResults(s)),
         NEW t \in BeforeTake(s, sh)
  PROVE  Once(z, f, a, D, t) /\ t.last_shard_rx = 0
<1> DEFINE d == Prepared(s, sh.id)
<1>1. t \in ring_evict_stale(d)
  BY DEF BeforeTake, Prepared
<1>2. OnTrack(z, f, d) /\ Once(z, f, a, D, d) /\ d.last_shard_rx = 0
  BY PreparedOnce
<1> HIDE DEF d
<1>3. Once(z, f, a, D, t) /\ t.last_shard_rx = d.last_shard_rx
  <2>1. OnTrack(z, f, d) /\ Once(z, f, a, D, d)
    BY <1>2
  <2>. QED
    BY <1>1, <2>1, EvictOnce
<1>. QED
  BY <1>2, <1>3

------------------------------------------------------------------------------

(* The shard is stored, its block streamed or decoded.                      *)

\* The block at the head decoded and passed.
LEMMA HeadGoneTrack ==
  ASSUME NEW z, NEW f \in BlockId, NEW s, OnTrack(z, f, s),
         NEW id \in DOMAIN s.rx_blocks, id = s.emit_next, NEW pkts
  PROVE  LET w == [s EXCEPT !.rx_blocks = Without(@, {id})]
             g == [PassHead(emit_payloads(w, pkts), 1) EXCEPT !.later_block_since = Never]
         IN  /\ OnTrack(z, f, g) /\ (Fresh(f, s) => Fresh(f, g))
             /\ g.later_block_since = Never
<1> DEFINE w == [s EXCEPT !.rx_blocks = Without(@, {id})]
           q == emit_payloads(w, pkts)
           h == PassHead(q, 1)
           g == [h EXCEPT !.later_block_since = Never]
           n == Place(f, s.newest)
           e == Place(f, s.emit_next)
<1>1. /\ RxOK(s) /\ DOMAIN s = Fields /\ s.emit_base_set /\ id \in BlockId
      /\ id \notin DOMAIN s.ready_blocks /\ s.emit_next \in BlockId
  BY DEF OnTrack, RxOK, QueueOK
<1>2. n \in Nat /\ e \in Nat /\ e <= n
  BY TrackPlaces, TrackHeld
<1>3. /\ DOMAIN w = Fields /\ w.newest = s.newest /\ w.emit_base_set = s.emit_base_set
      /\ w.emit_next = s.emit_next /\ w.later_block_since = s.later_block_since
      /\ w.ready_blocks = s.ready_blocks /\ w.rx_blocks = Without(s.rx_blocks, {id})
  BY <1>1 DEF Fields
<1>4. RxOK(w)
  BY <1>1, EraseOK, EraseRange DEF RxOK
<1> HIDE DEF w
<1>5. /\ DOMAIN w.rx_blocks = DOMAIN s.rx_blocks \ {id}
      /\ \A c \in DOMAIN w.rx_blocks : w.rx_blocks[c] = s.rx_blocks[c]
  BY <1>3 DEF Without
<1>6. Fewer(s, w)
  BY <1>3, <1>5, FewerSame
<1>7. /\ DOMAIN q = Fields /\ Still(w, q) /\ InRange(q)
      /\ q.rx_blocks = w.rx_blocks /\ q.ready_blocks = w.ready_blocks
  BY <1>3, <1>4, EmitStill, EmitRange, SameRangeOK DEF RxOK
<1> HIDE DEF q
<1>8. /\ DOMAIN h = Fields /\ Onward(q, h, 1) /\ InRange(h)
      /\ h.rx_blocks = q.rx_blocks /\ h.ready_blocks = q.ready_blocks
  <2>1. 1 \in Nat /\ q.emit_next \in BlockId
    BY <1>1, <1>3, <1>7 DEF Still
  <2>. QED
    BY <1>7, <2>1, PassHeadOnward, PassHeadRange
<1> HIDE DEF h
<1>9. /\ DOMAIN g = Fields /\ g.newest = s.newest /\ g.emit_base_set = s.emit_base_set
      /\ g.emit_next = wire_block_id(s.emit_next + 1) /\ g.later_block_since = Never
      /\ g.rx_blocks = w.rx_blocks /\ g.ready_blocks = w.ready_blocks /\ g.done = h.done
  BY <1>3, <1>7, <1>8 DEF Onward, Still, Fewer, Fields
<1> HIDE DEF g
<1>10. Fewer(s, g)
  <2>1. Fewer(w, g)
    BY <1>3, <1>9, FewerSame
  <2>. QED
    BY <1>6, <2>1, FewerTrans
<1>11. RxOK(g)
  <2>1. QueueOK(g)
    <3>1. \A j \in 0 .. 1 - 1 : wire_block_id(w.emit_next + j) \notin DOMAIN g.ready_blocks
      BY <1>1, <1>3, <1>9, WireHere
    <3>2. 1 \in 0 .. RingMod
      BY RingAssumption
    <3>. QED
      BY <1>3, <1>4, <1>9, <3>1, <3>2, HeadMoved DEF RxOK
  <2>2. InRange(g)
    <3>1. g.newest = h.newest /\ g.done = h.done /\ g.rx_blocks = h.rx_blocks
      BY <1>3, <1>7, <1>8, <1>9 DEF Onward, Still, Fewer
    <3>. QED
      BY <1>8, <1>9, <3>1 DEF InRange
  <2>. QED
    BY <2>1, <2>2 DEF RxOK
<1>12. Place(f, g.emit_next) <= n + 2
  <2>1. e + 1 < RingMod
    <3> DEFINE H == RingMod \div 2
    <3>1. n + 2 <= H /\ H \in Nat /\ 2 * H = RingMod
      BY TrackPlaces
    <3> HIDE DEF H, n, e
    <3>. QED
      BY <1>2, <3>1
  <2>2. Place(f, g.emit_next) = e + 1
    BY <1>1, <1>9, <2>1, PlaceNext
  <2> HIDE DEF n, e
  <2>. QED
    BY <1>2, <2>1, <2>2
<1>13. OnTrack(z, f, g) /\ (Fresh(f, s) => Fresh(f, g))
  BY <1>9, <1>10, <1>11, <1>12, TrackFewer
<1>. QED
  BY <1>9, <1>13 DEF g, h, q, w

\* A block that decodes gives its own packets.
LEMMA DecodesAt ==
  ASSUME NEW z, NEW f \in BlockId, NEW s, OnTrack(z, f, s), NEW id \in DOMAIN s.rx_blocks
  PROVE  LET blk == s.rx_blocks[id]
         IN  ReadyAt(f, [sdu |-> blk.sdu, released |-> blk.released,
                         payloads |-> DecodedPayloads(blk)], id)
<1> DEFINE blk == s.rx_blocks[id]
           b   == Place(f, id)
           r   == [sdu |-> blk.sdu, released |-> blk.released, payloads |-> DecodedPayloads(blk)]
<1>1. blk.sdu \in Nat /\ blk.released \in 0 .. blk.sdu /\ DOMAIN blk.frags # {}
  BY DEF OnTrack, RxOK, InRange, BlockOK
<1>2. \A i \in DOMAIN blk.frags : blk.frags[i] = b
  BY DEF OnTrack, BlockAt
<1>3. r.sdu = blk.sdu /\ r.released = blk.released /\ r.payloads = DecodedPayloads(blk)
  OBVIOUS
<1> HIDE DEF blk, b, r
<1>4. ~Mixed(blk) /\ blk.frags[CHOOSE j \in DOMAIN blk.frags : TRUE] = b
  BY <1>1, <1>2 DEF Mixed
<1>5. \A i \in 0 .. blk.sdu - 1 : DecodedPayloads(blk)[i] = b
  BY <1>2, <1>4 DEF DecodedPayloads
<1>6. ReadyAt(f, r, id)
  BY <1>1, <1>3, <1>5 DEF ReadyAt, b
<1>. QED
  BY <1>6 DEF r, blk

\* And they are fresh.
LEMMA DecodedFresh ==
  ASSUME NEW z, NEW f \in BlockId, NEW D, NEW s, NEW c, NEW rdy, ReadyAt(f, rdy, c),
         Unreturned(f, D, s, c, rdy.released),
         Place(f, c) \in Nat, Len(z) \in Nat, Place(f, c) < Len(z)
  PROVE  LET q == Decoded(rdy)
         IN  /\ q \in Seq(Pkt(z)) /\ IsInjective(q) /\ ToSet(q) \cap Returned(D, s) = {}
             /\ ToSet(q) \subseteq {Place(f, c)} \X Nat
<1> DEFINE q == Decoded(rdy)
           r == rdy.released
           m == rdy.sdu - rdy.released
           b == Place(f, c)
<1>1. r \in Nat /\ m \in Nat /\ IsRun(q, b, r, m)
  BY DecodedRun
<1> HIDE DEF q, m
<1>2. /\ q \in Seq(Pkt(z)) /\ IsInjective(q) /\ ToSet(q) \cap Returned(D, s) = {}
      /\ ToSet(q) \subseteq PktRun(b, r, m)
  BY <1>1, RunFresh
<1>3. PktRun(b, r, m) \subseteq {b} \X Nat
  <2>1. \A i \in r .. r + m - 1 : i \in Nat
    BY <1>1
  <2>. QED
    BY <2>1 DEF PktRun
<1>. QED
  BY <1>2, <1>3 DEF q

\* A block behind the head is returned, marked and gone.
LEMMA LateOnce ==
  ASSUME RingMod \div 2 <= DoneMax, NEW z, NEW f \in BlockId, NEW a, Airborne(z, a), NEW D,
         NEW s, OnTrack(z, f, s), Once(z, f, a, D, s), NEW id \in DOMAIN s.rx_blocks,
         Place(f, id) < Place(f, s.emit_next),
         NEW q, q \in Seq(Pkt(z)), IsInjective(q), ToSet(q) \cap Returned(D, s) = {},
         ToSet(q) \subseteq {Place(f, id)} \X Nat
  PROVE  LET e == emit_payloads([s EXCEPT !.rx_blocks = Without(@, {id})], q)
         IN  Once(z, f, a, D, [e EXCEPT !.done = mark_done(@, id)])
<1> DEFINE u  == [s EXCEPT !.rx_blocks = Without(@, {id})]
           e  == emit_payloads(u, q)
           t  == [e EXCEPT !.done = mark_done(@, id)]
           Q  == ToSet(q)
<1>1. /\ DOMAIN s = Fields /\ id \in BlockId /\ s.emit_base_set /\ id \notin DOMAIN s.ready_blocks
      /\ s.emit_next \in BlockId
  BY DEF OnTrack, RxOK, QueueOK
<1>2. /\ DOMAIN u = Fields /\ u.out = s.out /\ u.emit_next = s.emit_next
      /\ u.last_payload_emit = s.last_payload_emit /\ u.last_shard_rx = s.last_shard_rx
      /\ u.done = s.done /\ u.rx_blocks = Without(s.rx_blocks, {id})
      /\ u.ready_blocks = s.ready_blocks /\ u.emit_base_set = s.emit_base_set
  BY <1>1 DEF Fields
<1> HIDE DEF u
<1>4. /\ q \in Seq(Pkt(z)) /\ IsInjective(q) /\ Q \cap Returned(D, s) = {}
      /\ Q \subseteq {Place(f, id)} \X Nat
  OBVIOUS
<1>5. /\ FreshOut(z, D, e) /\ Gave(D, u, e, Q) /\ DOMAIN e = Fields
      /\ e.rx_blocks = u.rx_blocks /\ e.ready_blocks = u.ready_blocks
      /\ e.done = u.done /\ e.emit_next = u.emit_next
      /\ e.last_shard_rx = u.last_shard_rx /\ e.emit_base_set = u.emit_base_set
  <2>1. FreshOut(z, D, u) /\ Returned(D, u) = Returned(D, s)
    BY <1>2 DEF Once, FreshOut, Returned
  <2>2. ToSet(q) \cap Returned(D, u) = {}
    BY <1>4, <2>1
  <2>. QED
    BY <1>2, <1>4, <2>1, <2>2, EmitOnce
<1> HIDE DEF e
<1>6. Place(f, id) < RingMod \div 2
  <2>1. Place(f, id) \in Nat /\ Place(f, id) <= Place(f, s.newest)
    BY TrackHeld
  <2>2. /\ Place(f, s.newest) \in Nat /\ Place(f, s.newest) + 2 <= RingMod \div 2
        /\ RingMod \div 2 \in Nat
    BY TrackPlaces
  <2> DEFINE n == Place(f, s.newest)
             H == RingMod \div 2
             p == Place(f, id)
  <2> HIDE DEF n, H, p
  <2>3. p \in Nat /\ p <= n /\ n \in Nat /\ n + 2 <= H /\ H \in Nat => p < H
    OBVIOUS
  <2>. QED
    BY <2>1, <2>2, <2>3 DEF n, H, p
<1> DEFINE m == mark_done(s.done, id)
<1>9. Listed(f, m) /\ MarksStay(s.done, m) /\ HasMark(m, id, 0)
  <2>1. Listed(f, s.done)
    BY DEF Once
  <2>. QED
    BY <1>1, <1>6, <2>1, MarkOnce
<1> HIDE DEF m
<1>10. /\ t.emit_base_set /\ t.emit_next = s.emit_next /\ t.done = m
       /\ t.rx_blocks = Without(s.rx_blocks, {id}) /\ t.ready_blocks = s.ready_blocks
       /\ t.out = e.out /\ t.last_payload_emit = e.last_payload_emit
       /\ t.last_shard_rx = s.last_shard_rx
  BY <1>1, <1>2, <1>5 DEF Fields, m
<1> HIDE DEF t
<1>11. /\ DOMAIN t.rx_blocks = DOMAIN s.rx_blocks \ {id}
       /\ \A c \in DOMAIN t.rx_blocks : t.rx_blocks[c] = s.rx_blocks[c]
  BY <1>10 DEF Without
<1>12. FreshOut(z, D, t) /\ Gave(D, s, t, Q) /\ Listed(f, t.done)
  BY <1>2, <1>5, <1>9, <1>10 DEF FreshOut, Gave, Returned
<1>13. After(f, a, s, t)
  <2>1. Place(f, s.emit_next) \in Nat
    BY TrackPlaces
  <2>2. Place(f, s.emit_next) <= Place(f, t.emit_next) /\ t.emit_next \in BlockId
    BY <1>1, <1>10, <2>1
  <2>3. \A c \in BlockId : Place(f, c) \in DOMAIN a => a[Place(f, c)] \in Nat
    BY DEF Airborne
  <2>4. \A c \in BlockId : Place(f, c) \in DOMAIN a /\ HasMark(s.done, c, a[Place(f, c)])
                             => HasMark(t.done, c, a[Place(f, c)])
    BY <1>9, <1>10, <2>3 DEF MarksStay
  <2>. QED
    BY <1>1, <1>10, <2>2, <2>4 DEF After
<1>14. ASSUME NEW c \in BlockId, c # id PROVE Keeps(f, Q, s, t, c)
  <2>1. Place(f, c) # Place(f, id)
    BY <1>1, <1>14, PlaceSame
  <2>2. NoneOf(f, Q, c)
    BY <1>4, <2>1 DEF NoneOf
  <2>. QED
    BY <1>10, <1>11, <1>14, <2>2 DEF Keeps, Here
<1>15. Left(f, a, s, t, id)
  <2>1. ~Here(t, id) /\ Here(s, id)
    BY <1>1, <1>10, <1>11 DEF Here
  <2>2. ASSUME Place(f, id) \in DOMAIN a PROVE Past(f, a, t, id)
    <3>1. a[Place(f, id)] \in Nat /\ 0 <= a[Place(f, id)]
      BY <2>2 DEF Airborne
    <3>2. HasMark(t.done, id, a[Place(f, id)])
      BY <1>9, <1>10, <1>12, <3>1, MarkOlder
    <3>. QED
      BY <1>10, <3>2 DEF Past
  <2>. QED
    BY <2>1, <2>2 DEF Left
<1>16. \A c \in BlockId : Keeps(f, Q, s, t, c) \/ Left(f, a, s, t, c) \/ OneAt(f, a, D, t, c)
  BY <1>14, <1>15
<1>17. t.emit_base_set
  BY <1>10
<1>18. Once(z, f, a, D, t)
  BY <1>12, <1>13, <1>16, <1>17, OnceMove
<1>. QED
  BY <1>18 DEF t, e, u

\* A block ahead of the head waits.
LEMMA AheadOnce ==
  ASSUME NEW z, NEW f \in BlockId, NEW a, Airborne(z, a), NEW D,
         NEW s, OnTrack(z, f, s), Once(z, f, a, D, s), NEW id \in DOMAIN s.rx_blocks,
         NEW rdy, ReadyAt(f, rdy, id), rdy.released = s.rx_blocks[id].released
  PROVE  LET w == [s EXCEPT !.rx_blocks = Without(@, {id})]
         IN  Once(z, f, a, D, ArmLater([w EXCEPT !.ready_blocks = With(@, id, rdy)], id))
<1> DEFINE w == [s EXCEPT !.rx_blocks = Without(@, {id})]
           r == [w EXCEPT !.ready_blocks = With(@, id, rdy)]
           t == ArmLater(r, id)
<1>1. /\ DOMAIN s = Fields /\ id \in BlockId /\ s.emit_base_set /\ id \notin DOMAIN s.ready_blocks
      /\ s.emit_next \in BlockId
  BY DEF OnTrack, RxOK, QueueOK
<1>2. /\ DOMAIN r = Fields /\ r.out = s.out /\ r.emit_next = s.emit_next
      /\ r.last_payload_emit = s.last_payload_emit /\ r.last_shard_rx = s.last_shard_rx
      /\ r.done = s.done /\ r.rx_blocks = Without(s.rx_blocks, {id})
      /\ r.ready_blocks = With(s.ready_blocks, id, rdy) /\ r.emit_base_set = s.emit_base_set
  BY <1>1 DEF Fields
<1> HIDE DEF r
<1>3. /\ t.out = s.out /\ t.emit_next = s.emit_next
      /\ t.last_payload_emit = s.last_payload_emit /\ t.last_shard_rx = s.last_shard_rx
      /\ t.done = s.done /\ t.rx_blocks = Without(s.rx_blocks, {id})
      /\ t.ready_blocks = With(s.ready_blocks, id, rdy) /\ t.emit_base_set
  BY <1>1, <1>2 DEF ArmLater, Fields
<1> HIDE DEF t
<1>4. /\ DOMAIN t.rx_blocks = DOMAIN s.rx_blocks \ {id}
      /\ \A c \in DOMAIN t.rx_blocks : t.rx_blocks[c] = s.rx_blocks[c]
      /\ DOMAIN t.ready_blocks = DOMAIN s.ready_blocks \cup {id} /\ t.ready_blocks[id] = rdy
      /\ \A c \in DOMAIN s.ready_blocks : t.ready_blocks[c] = s.ready_blocks[c]
  BY <1>1, <1>3 DEF With, Without
<1>5. FreshOut(z, D, t) /\ Gave(D, s, t, {}) /\ Listed(f, t.done) /\ t.emit_base_set
  BY <1>3 DEF Once, FreshOut, Gave, Returned
<1>6. After(f, a, s, t)
  <2>1. Place(f, s.emit_next) \in Nat
    BY TrackPlaces
  <2>2. Place(f, s.emit_next) <= Place(f, t.emit_next) /\ t.emit_next \in BlockId
    BY <1>1, <1>3, <2>1
  <2>. QED
    BY <1>1, <1>3, <2>2 DEF After
<1>7. ASSUME NEW c \in BlockId, c # id PROVE Keeps(f, {}, s, t, c)
  BY <1>4, <1>7 DEF Keeps, Here, NoneOf
<1>8. OneAt(f, a, D, t, id)
  <2>1. OneAt(f, a, D, s, id) /\ Here(s, id) /\ Here(t, id)
    BY <1>1, <1>4 DEF Once, Here
  <2>2. Returned(D, t) = Returned(D, s)
    BY <1>3 DEF Returned
  <2>3. Unreturned(f, D, t, id, rdy.released)
    BY <2>1, <2>2 DEF OneAt, Unreturned
  <2>4. Partly(f, D, t, id) => Partly(f, D, s, id)
    BY <2>2 DEF Partly
  <2>. QED
    BY <1>3, <1>4, <2>1, <2>3, <2>4 DEF OneAt
<1>9. \A c \in BlockId : Keeps(f, {}, s, t, c) \/ Left(f, a, s, t, c) \/ OneAt(f, a, D, t, c)
  BY <1>7, <1>8
<1>10. Once(z, f, a, D, t)
  BY <1>5, <1>6, <1>9, OnceMove
<1>. QED
  BY <1>10 DEF t, r

\* A block that has its shards is returned, or waits.
LEMMA DecodeOnce ==
  ASSUME RingMod \div 2 <= DoneMax, NEW z, NEW f \in BlockId, NEW a, Airborne(z, a), NEW D,
         NEW s, OnTrack(z, f, s), Once(z, f, a, D, s), NEW id \in DOMAIN s.rx_blocks
  PROVE  Once(z, f, a, D, try_decode_block(s, id, TRUE))
<1> DEFINE blk == s.rx_blocks[id]
           w   == [s EXCEPT !.rx_blocks = Without(@, {id})]
           rdy == [sdu |-> blk.sdu, released |-> blk.released, payloads |-> DecodedPayloads(blk)]
           q   == Decoded(rdy)
           d   == on_block_decoded(w, id, rdy)
           t   == try_decode_block(s, id, TRUE)
<1>1. /\ DOMAIN s = Fields /\ id \in BlockId /\ s.emit_next \in BlockId
  BY DEF OnTrack, RxOK, QueueOK
<1>2. /\ Place(f, id) \in Nat /\ Place(f, id) < Len(z) /\ Len(z) \in Nat
      /\ ring_dist(id, s.emit_next) = Place(f, id) - Place(f, s.emit_next)
      /\ Place(f, s.emit_next) \in Nat
  BY TrackPlaces, TrackHeld, TrackDist DEF OnTrack
<1>3. t = IF ~Decodable(blk) THEN run_emit_engine(s) ELSE d
  BY DEF try_decode_block
<1>4. CASE ~Decodable(blk)
  <2>1. Once(z, f, a, D, run_emit_engine(s))
    BY EngineOnce
  <2>. QED
    BY <1>3, <1>4, <2>1
<1>5. ReadyAt(f, rdy, id)
  BY DecodesAt
<1>6. rdy.released = s.rx_blocks[id].released /\ w.emit_next = s.emit_next
  BY <1>1 DEF Fields
<1>7. dist_from_emit(w, id) = Place(f, id) - Place(f, s.emit_next)
  BY <1>2, <1>6 DEF dist_from_emit
<1> HIDE DEF rdy, blk
<1>8. /\ q \in Seq(Pkt(z)) /\ IsInjective(q) /\ ToSet(q) \cap Returned(D, s) = {}
      /\ ToSet(q) \subseteq {Place(f, id)} \X Nat
  <2>1. OneAt(f, a, D, s, id)
    BY <1>1 DEF Once
  <2>2. Unreturned(f, D, s, id, rdy.released)
    BY <1>6, <2>1 DEF OneAt
  <2>. QED
    BY <1>2, <1>5, <2>2, DecodedFresh
<1> HIDE DEF q, w
<1>9. ASSUME dist_from_emit(w, id) < 0 PROVE Once(z, f, a, D, d)
  <2>1. Place(f, id) < Place(f, s.emit_next)
    <3> DEFINE x == Place(f, id)
               y == Place(f, s.emit_next)
    <3>1. x \in Nat /\ y \in Nat /\ x - y < 0
      BY <1>2, <1>7, <1>9
    <3> HIDE DEF x, y
    <3>2. x < y
      BY <3>1
    <3>. QED
      BY <3>2 DEF x, y
  <2>2. d = [emit_payloads(w, q) EXCEPT !.done = mark_done(@, id)]
    BY <1>9 DEF on_block_decoded, q
  <2> HIDE DEF d
  <2>3. Once(z, f, a, D, [emit_payloads(w, q) EXCEPT !.done = mark_done(@, id)])
    BY <1>8, <2>1, LateOnce DEF w
  <2>. QED
    BY <2>2, <2>3
<1>10. ASSUME dist_from_emit(w, id) = 0 PROVE Once(z, f, a, D, d)
  <2> DEFINE x == emit_payloads(w, q)
             g == [PassHead(x, 1) EXCEPT !.later_block_since = Never]
  <2>1. d = run_emit_engine(g)
    BY <1>10 DEF on_block_decoded, q
  <2> HIDE DEF d
  <2>2. id = s.emit_next
    BY <1>1, <1>6, <1>10, DistZero DEF dist_from_emit
  <2>3. OnTrack(z, f, g)
    BY <2>2, HeadGoneTrack DEF w
  <2>4. DOMAIN x = Fields
    <3>1. DOMAIN w = Fields
      BY <1>1 DEF w, Fields
    <3>. QED
      BY <3>1, EmitStill
  <2>5. LetGo(s, q, x)
    BY <2>2, <2>4 DEF LetGo, w
  <2> HIDE DEF x
  <2>6. Once(z, f, a, D, g)
    <3>1. s.emit_next \in DOMAIN s.rx_blocks /\ ToSet(q) \subseteq {Place(f, s.emit_next)} \X Nat
      BY <1>8, <2>2
    <3>. QED
      BY <1>8, <2>5, <3>1, HeadGoneOnce
  <2> HIDE DEF g
  <2>. QED
    BY <2>1, <2>3, <2>6, EngineOnce
<1>11. ASSUME dist_from_emit(w, id) > 0 PROVE Once(z, f, a, D, d)
  <2>1. d = ArmLater([w EXCEPT !.ready_blocks = With(@, id, rdy)], id)
    <3>1. ~(dist_from_emit(w, id) < 0) /\ ~(dist_from_emit(w, id) = 0)
      <4> DEFINE x == dist_from_emit(w, id)
      <4>1. x \in Int
        BY <1>2, <1>7
      <4>2. x > 0
        BY <1>11
      <4> HIDE DEF x
      <4>3. ~(x < 0) /\ ~(x = 0)
        BY <4>1, <4>2
      <4>. QED
        BY <4>3 DEF x
    <3>. QED
      BY <3>1 DEF on_block_decoded
  <2> HIDE DEF d
  <2>2. Once(z, f, a, D, ArmLater([w EXCEPT !.ready_blocks = With(@, id, rdy)], id))
    BY <1>5, <1>6, AheadOnce DEF w
  <2>. QED
    BY <2>1, <2>2
<1>12. dist_from_emit(w, id) < 0 \/ dist_from_emit(w, id) = 0 \/ dist_from_emit(w, id) > 0
  <2> DEFINE x == dist_from_emit(w, id)
  <2>1. x \in Int
    BY <1>2, <1>7
  <2> HIDE DEF x
  <2>2. x < 0 \/ x = 0 \/ x > 0
    BY <2>1
  <2>. QED
    BY <2>2 DEF x
<1>13. Once(z, f, a, D, d)
  BY <1>9, <1>10, <1>11, <1>12
<1>. QED
  BY <1>3, <1>4, <1>13

\* A shard of a block that has not been passed is stored.
LEMMA StoredOnce ==
  ASSUME NEW z, NEW f \in BlockId, NEW a, Airborne(z, a), NEW D,
         NEW s, OnTrack(z, f, s), Once(z, f, a, D, s), s.last_shard_rx = 0,
         NEW sh, OfSession(z, f, sh), Place(f, sh.id) \in DOMAIN a,
         ~(dist_from_emit(s, sh.id) < 0 /\ IsDone(s, sh.id)), sh.id \notin DOMAIN s.ready_blocks
  PROVE  Once(z, f, a, D, [s EXCEPT !.rx_blocks = With(@, sh.id, Grown(s, sh))])
<1> DEFINE id == sh.id
           b  == Place(f, id)
           b2 == Grown(s, sh)
           t  == [s EXCEPT !.rx_blocks = With(@, id, b2)]
<1>1. /\ DOMAIN s = Fields /\ id \in BlockId /\ s.emit_base_set /\ s.emit_next \in BlockId
      /\ b < Len(z)
  BY DEF OnTrack, RxOK, QueueOK, OfSession, IsShard
<1>2. /\ t.out = s.out /\ t.emit_next = s.emit_next
      /\ t.last_payload_emit = s.last_payload_emit /\ t.last_shard_rx = s.last_shard_rx
      /\ t.done = s.done /\ t.rx_blocks = With(s.rx_blocks, id, b2)
      /\ t.ready_blocks = s.ready_blocks /\ t.emit_base_set
  BY <1>1 DEF Fields
<1> HIDE DEF t
<1>3. b2.last_seen = 0 /\ (b2.released = IF id \in DOMAIN s.rx_blocks
                                         THEN s.rx_blocks[id].released ELSE 0)
  <2>1. DOMAIN Given(s, sh) = BlockFields
    BY <1>1 DEF OnTrack, RxOK, InRange, BlockOK, Given, NewBlock, BlockFields
  <2>2. Given(s, sh).released = IF id \in DOMAIN s.rx_blocks
                                THEN s.rx_blocks[id].released ELSE 0
    BY DEF Given, NewBlock
  <2>. QED
    BY <2>1, <2>2 DEF Grown, BlockFields
<1> HIDE DEF b2
<1>4. /\ DOMAIN t.rx_blocks = DOMAIN s.rx_blocks \cup {id} /\ t.rx_blocks[id] = b2
      /\ \A c \in DOMAIN s.rx_blocks : c # id => t.rx_blocks[c] = s.rx_blocks[c]
  BY <1>2 DEF With
<1>5. FreshOut(z, D, t) /\ Gave(D, s, t, {}) /\ Listed(f, t.done) /\ t.emit_base_set
  BY <1>2 DEF Once, FreshOut, Gave, Returned
<1>6. After(f, a, s, t)
  <2>1. Place(f, s.emit_next) \in Nat
    BY TrackPlaces
  <2>2. Place(f, s.emit_next) <= Place(f, t.emit_next) /\ t.emit_next \in BlockId
    BY <1>1, <1>2, <2>1
  <2>. QED
    BY <1>1, <1>2, <2>2 DEF After
<1>7. ASSUME NEW c \in BlockId, c # id PROVE Keeps(f, {}, s, t, c)
  BY <1>2, <1>4, <1>7 DEF Keeps, Here, NoneOf
<1>8. OneAt(f, a, D, s, id)
  BY <1>1 DEF Once
<1>9. ASSUME id \notin DOMAIN s.rx_blocks, Partly(f, D, s, id) PROVE FALSE
  <2>1. ~Here(s, id)
    BY <1>9 DEF Here
  <2>2. Past(f, a, s, id)
    BY <1>8, <1>9, <2>1 DEF OneAt
  <2>3. b < Place(f, s.emit_next) /\ IsDone(s, id)
    BY <2>2 DEF Past, HasMark, IsDone
  <2>4. b \in Nat /\ dist_from_emit(s, id) = b - Place(f, s.emit_next)
    BY <1>1, TrackDist DEF dist_from_emit
  <2>5. dist_from_emit(s, id) < 0
    <3> DEFINE x == Place(f, s.emit_next)
               d == dist_from_emit(s, id)
    <3>1. x \in Nat /\ b \in Nat /\ b < x /\ d = b - x
      BY <2>3, <2>4, TrackPlaces
    <3> HIDE DEF x, b, d
    <3>2. d < 0
      BY <3>1
    <3>. QED
      BY <3>2 DEF d
  <2>. QED
    BY <2>3, <2>5
<1>10. Unreturned(f, D, s, id, b2.released)
  <2>1. CASE id \in DOMAIN s.rx_blocks
    BY <1>3, <1>8, <2>1 DEF OneAt
  <2>2. CASE id \notin DOMAIN s.rx_blocks
    <3>1. ~Partly(f, D, s, id)
      BY <1>9, <2>2
    <3>. QED
      BY <3>1 DEF Partly, Unreturned
  <2>. QED
    BY <2>1, <2>2
<1>11. OneAt(f, a, D, t, id)
  <2>1. Returned(D, t) = Returned(D, s) /\ Here(t, id)
    BY <1>2, <1>4 DEF Returned, Here
  <2>2. Unreturned(f, D, t, id, b2.released) /\ (Partly(f, D, t, id) => Partly(f, D, s, id))
    BY <1>10, <2>1 DEF Unreturned, Partly
  <2>3. b \in DOMAIN a /\ 0 <= a[b] /\ Recent(0, a[b])
    BY DEF Airborne, Recent
  <2>4. id \notin DOMAIN t.ready_blocks
    BY <1>2
  <2>. QED
    BY <1>2, <1>3, <1>4, <1>8, <2>1, <2>2, <2>3, <2>4 DEF OneAt
<1>12. \A c \in BlockId : Keeps(f, {}, s, t, c) \/ Left(f, a, s, t, c) \/ OneAt(f, a, D, t, c)
  BY <1>7, <1>11
<1>13. Once(z, f, a, D, t)
  BY <1>5, <1>6, <1>12, OnceMove
<1>. QED
  BY <1>13 DEF t, b2

\* It streams, or starts the hold.
LEMMA StreamOrArmOnce ==
  ASSUME NEW z, NEW f \in BlockId, NEW a, Airborne(z, a), NEW D,
         NEW s, OnTrack(z, f, s), Once(z, f, a, D, s), NEW id \in DOMAIN s.rx_blocks
  PROVE  Once(z, f, a, D, StreamOrArm(s, id))
<1> DEFINE t == ArmLater(s, id)
<1>1. DOMAIN s = Fields /\ s.emit_base_set /\ s.emit_next \in BlockId
  BY DEF OnTrack, RxOK, QueueOK
<1>2. Once(z, f, a, D, t)
  <2>1. /\ SameBut(s, t) /\ t.emit_next = s.emit_next /\ t.done = s.done
        /\ t.last_shard_rx = s.last_shard_rx /\ t.emit_base_set
    BY <1>1 DEF ArmLater, SameBut, Fields
  <2> HIDE DEF t
  <2>2. After(f, a, s, t)
    <3>1. Place(f, s.emit_next) \in Nat
      BY TrackPlaces
    <3>2. Place(f, s.emit_next) <= Place(f, t.emit_next) /\ t.emit_next \in BlockId
      BY <1>1, <2>1, <3>1
    <3>. QED
      BY <1>1, <2>1, <3>2 DEF After
  <2>3. Listed(f, t.done)
    BY <2>1 DEF Once
  <2>. QED
    BY <2>1, <2>2, <2>3, SameOnce
<1>3. Once(z, f, a, D, try_stream_head_systematic(s, id))
  BY StreamOnce
<1>. QED
  BY <1>2, <1>3 DEF StreamOrArm

\* Whatever the shard is good for, nothing is returned twice.
LEMMA TakeOnce ==
  ASSUME RingMod \div 2 <= DoneMax, NEW z, NEW f \in BlockId, NEW a, Airborne(z, a), NEW D,
         NEW s, OnTrack(z, f, s), Once(z, f, a, D, s), s.last_shard_rx = 0, Fresh(f, s),
         NEW sh, OfSession(z, f, sh), Place(f, sh.id) \in DOMAIN a, Near(f, s, sh.id),
         Settled(z, f, s) \/ Awaited(f, s, sh.id)
  PROVE  Once(z, f, a, D, TakeShard(s, sh, TRUE))
<1> DEFINE id   == sh.id
           blk  == Given(s, sh)
           b2   == Grown(s, sh)
           t    == [s EXCEPT !.rx_blocks = With(@, id, b2)]
           v    == StreamOrArm(t, id)
           w    == TakeShard(s, sh, TRUE)
           old  == \/ dist_from_emit(s, id) < 0 /\ IsDone(s, id)
                   \/ id \in DOMAIN s.ready_blocks
<1>1. id \in BlockId
  BY DEF OfSession, IsShard
<1>2. w = IF old THEN s
          ELSE IF <<blk.k, blk.n, blk.sdu>> # <<sh.k, sh.n, sh.sdu>>
          THEN abandon_partial_block([s EXCEPT !.rx_blocks = Without(@, {id})], blk, id)
          ELSE IF sh.idx \in DOMAIN blk.frags THEN s
          ELSE try_decode_block(v, id, TRUE)
  BY DEF TakeShard, StoreShard, Given, Grown
<1> HIDE DEF w
<1>3. /\ blk.k = sh.k /\ blk.n = sh.n /\ blk.sdu = sh.sdu
      /\ BlockOK(b2) /\ BlockAt(z, f, b2, id) /\ b2.last_seen = 0
  <2>1. ShardIn(z, f, s, sh)
    BY GrownBlock
  <2>. QED
    BY <2>1 DEF ShardIn
<1> HIDE DEF b2, blk
<1>4. w = s \/ (~old /\ w = try_decode_block(v, id, TRUE))
  BY <1>2, <1>3
<1>5. ASSUME ~old PROVE Once(z, f, a, D, try_decode_block(v, id, TRUE))
  <2>1. /\ OnTrack(z, f, t) /\ Fresh(f, t) /\ Held(z, f, t)
        /\ t.rx_blocks = With(s.rx_blocks, id, b2)
    BY <1>1, <1>3, <1>5, StoredTrack
  <2>2. Once(z, f, a, D, t)
    BY <1>5, StoredOnce DEF b2
  <2> HIDE DEF t
  <2>3. id \in DOMAIN t.rx_blocks /\ t.rx_blocks[id].last_seen = 0
    BY <1>3, <2>1 DEF With
  <2>4. OnTrack(z, f, v) /\ DOMAIN v.rx_blocks = DOMAIN t.rx_blocks
    BY <2>1, <2>3, StreamOrArmTrack
  <2>5. Once(z, f, a, D, v)
    <3>1. OnTrack(z, f, t)
      BY <2>1
    <3>. QED
      BY <2>2, <2>3, <3>1, StreamOrArmOnce
  <2> HIDE DEF v
  <2>6. id \in DOMAIN v.rx_blocks /\ OnTrack(z, f, v)
    BY <2>3, <2>4
  <2>. QED
    BY <2>5, <2>6, DecodeOnce
<1>6. Once(z, f, a, D, w)
  BY <1>4, <1>5
<1>. QED
  BY <1>6 DEF w

------------------------------------------------------------------------------

(* The calls.                                                               *)

\* Where nothing is held or listed, nothing of the blocks that can still arrive is out.
LEMMA IdleNone ==
  ASSUME NEW z, NEW f \in BlockId, NEW a, NEW D, NEW s, Once(z, f, a, D, s),
         DOMAIN s.rx_blocks = {}, DOMAIN s.ready_blocks = {}, s.done = <<>>
  PROVE  NoneOut(f, a, D, s)
<1> SUFFICES ASSUME NEW c \in BlockId, Place(f, c) \in DOMAIN a, Partly(f, D, s, c)
             PROVE  FALSE
  BY DEF NoneOut
<1>1. Past(f, a, s, c)
  <2>1. ~Here(s, c)
    BY DEF Here
  <2>. QED
    BY <2>1 DEF Once, OneAt
<1>2. \E j \in 1 .. Len(s.done) : TRUE
  BY <1>1 DEF Past, HasMark
<1>. QED
  BY <1>2

\* It stays so while nothing comes.
LEMMA IdleOnce ==
  ASSUME NEW z, NEW f \in BlockId, NEW a, NEW D, NEW s, NEW t, Once(z, f, a, D, s),
         DOMAIN s.rx_blocks = {}, DOMAIN s.ready_blocks = {}, s.done = <<>>,
         DOMAIN t.rx_blocks = {}, DOMAIN t.ready_blocks = {}, t.done = <<>>, t.out = s.out
  PROVE  Once(z, f, a, D, t)
<1>1. NoneOut(f, a, D, s)
  BY IdleNone
<1>2. Returned(D, t) = Returned(D, s)
  BY DEF Returned
<1>3. ASSUME NEW c \in BlockId PROVE OneAt(f, a, D, t, c)
  <2>1. Partly(f, D, t, c) => Partly(f, D, s, c)
    BY <1>2 DEF Partly
  <2>2. Place(f, c) \in DOMAIN a => ~Partly(f, D, t, c) /\ ~Here(t, c)
    BY <1>1, <2>1 DEF NoneOut, Here
  <2>. QED
    BY <2>2 DEF OneAt
<1>4. FreshOut(z, D, t) /\ Listed(f, t.done)
  BY DEF Once, FreshOut
<1>. QED
  BY <1>3, <1>4 DEF Once

\* push_air takes the shard sh of block b in state s, and ends in t.
Taking(z, f, b, x, sh, s, t) ==
  /\ OfSession(z, f, sh) /\ sh.id \in BlockId /\ Place(f, sh.id) = b /\ Place(f, sh.id) < Len(z)
  /\ s \in BeforeTake(x, sh) /\ OnTrack(z, f, s) /\ Fresh(f, s) /\ Near(f, s, sh.id)
  /\ Settled(z, f, s) \/ Awaited(f, s, sh.id)
  /\ OnTrack(z, f, TakeShard(s, sh, TRUE)) /\ t \in ExpireThenEmit(TakeShard(s, sh, TRUE))

LEMMA PushTakes ==
  ASSUME MaxReorder <= EvictDist, LinkInv, InRange(fec), NEW f \in BlockId, Session(f),
         Len(sent) < RingMod \div 2, Kept(sent, f, fec), NEW z, z = sent,
         NEW b \in DOMAIN air, NEW i \in IndexesSent(b), push_air(ShardOf(b, i)),
         NEW t, t = fec'
  PROVE  /\ \E sh, s : Taking(z, f, b, fec, sh, s, t)
         /\ Len(z) \in Nat /\ Rested(fec)
         /\ fec.emit_base_set => OnTrack(z, f, fec) /\ Settled(z, f, fec)
         /\ ~fec.emit_base_set => fec.later_block_since = Never
<1> DEFINE sh == ShardOf(b, i)
<1>1. PICK s \in BeforeTake(fec, sh), ok \in BOOLEAN :
        /\ ~ok => MayFail(s, sh)
        /\ t \in ExpireThenEmit(TakeShard(s, sh, ok))
  BY DEF push_air
<1>2. OfSession(sent, f, sh) /\ Place(f, sh.id) = b /\ b \in Nat /\ Len(sent) - 1 - b <= EvictDist
  BY ArrivesOnTrack DEF LinkInv
<1> HIDE DEF sh
<1>3. sh.id \in BlockId /\ Place(f, sh.id) < Len(sent) /\ Len(sent) \in Nat
  BY <1>2, LenProperties DEF OfSession, IsShard, LinkInv, SenderOK
<1>4. /\ fec.emit_base_set => OnTrack(z, f, fec) /\ Settled(z, f, fec)
      /\ ~fec.emit_base_set => fec.later_block_since = Never
  BY DEF Kept, Settled, LinkInv, Rested
<1>5. Rested(fec)
  BY DEF LinkInv
<1>6. PICK x : x = fec
  OBVIOUS
<1>7. /\ sh.id \in BlockId /\ Len(z) \in Nat /\ Len(z) < RingMod \div 2 /\ Place(f, sh.id) < Len(z)
      /\ Rested(x) /\ InRange(x) /\ s \in BeforeTake(x, sh)
      /\ x.emit_base_set => OnTrack(z, f, x) /\ Settled(z, f, x)
      /\ ~x.emit_base_set => x.later_block_since = Never
  BY <1>1, <1>3, <1>4, <1>5, <1>6
<1>8. /\ OnTrack(z, f, s) /\ Fresh(f, s) /\ Place(f, sh.id) <= Place(f, s.newest)
      /\ Settled(z, f, s) \/ Awaited(f, s, sh.id)
  BY <1>7, BeforeTakeTrack
<1>9. Near(f, s, sh.id)
  <2> DEFINE n == Place(f, s.newest)
             l == Len(sent)
  <2>1. n \in Nat /\ n < l /\ l \in Nat /\ l - 1 - b <= EvictDist /\ EvictDist \in Nat
    BY <1>2, <1>3, <1>8, TrackPlaces, RxAssumption DEF OnTrack
  <2>2. b >= n - EvictDist
    <3> HIDE DEF n, l
    <3>. QED
      BY <1>2, <2>1
  <2>. QED
    BY <1>2, <1>8, <2>2 DEF Near
<1>10. OfSession(z, f, sh)
  BY <1>2
<1>11. ok = TRUE
  <2>1. OnTrack(z, f, s)
    BY <1>8
  <2>. QED
    BY <1>1, <1>10, <2>1, NeverFails
<1>12. t \in ExpireThenEmit(TakeShard(s, sh, TRUE))
  BY <1>1, <1>11
<1>13. OnTrack(z, f, TakeShard(s, sh, TRUE))
  BY <1>8, <1>9, <1>10, TakeTrack
<1>14. Taking(z, f, b, fec, sh, s, t)
  BY <1>1, <1>2, <1>3, <1>8, <1>9, <1>10, <1>12, <1>13 DEF Taking
<1>. QED
  BY <1>3, <1>4, <1>5, <1>14

\* push_air returns nothing twice.
LEMMA PushOnce ==
  ASSUME RingMod \div 2 <= DoneMax, MaxDelay < RxHold, MaxReorder <= EvictDist,
         LinkInv, InRange(fec), NEW f \in BlockId, Session(f),
         Len(sent) < RingMod \div 2, Kept(sent, f, fec),
         NEW z, z = sent, NEW a, a = air, Airborne(z, a),
         NEW D, Once(z, f, a, D, ClearResults(fec)),
         NEW b \in DOMAIN air, NEW i \in IndexesSent(b), push_air(ShardOf(b, i)),
         NEW t, t = fec'
  PROVE  Once(z, f, a, D, t)
<1>1. PICK x : x = fec
  OBVIOUS
<1>2. /\ \E sh, s : Taking(z, f, b, x, sh, s, t)
      /\ Len(z) \in Nat /\ Rested(x)
      /\ x.emit_base_set => OnTrack(z, f, x) /\ Settled(z, f, x)
      /\ ~x.emit_base_set => x.later_block_since = Never
  BY <1>1, PushTakes
<1>3. PICK sh, s : Taking(z, f, b, x, sh, s, t)
  BY <1>2
<1> DEFINE w == TakeShard(s, sh, TRUE)
<1>4. Once(z, f, a, D, s) /\ s.last_shard_rx = 0
  <2>1. InRange(x) /\ Once(z, f, a, D, ClearResults(x)) /\ Len(z) < RingMod \div 2
    BY <1>1
  <2>2. sh.id \in BlockId /\ Place(f, sh.id) < Len(z) /\ s \in BeforeTake(x, sh)
    BY <1>3 DEF Taking
  <2>. QED
    BY <1>2, <2>1, <2>2, BeforeTakeOnce
<1>5. Once(z, f, a, D, w)
  <2>1. /\ OfSession(z, f, sh) /\ Place(f, sh.id) \in DOMAIN a /\ Near(f, s, sh.id)
        /\ OnTrack(z, f, s) /\ Fresh(f, s) /\ (Settled(z, f, s) \/ Awaited(f, s, sh.id))
    BY <1>3 DEF Taking
  <2>. QED
    BY <1>4, <2>1, TakeOnce
<1>6. OnTrack(z, f, w) /\ t \in ExpireThenEmit(w)
  BY <1>3 DEF Taking
<1> HIDE DEF w
<1>. QED
  BY <1>5, <1>6, EndOnce

\* The end of a call of a receiver that nothing has come to: it has nothing to do.
LEMMA IdleEnd ==
  ASSUME NEW c, RxOK(c), ~c.emit_base_set, c.done = <<>>, NEW t \in ExpireThenEmit(c)
  PROVE  /\ DOMAIN c.rx_blocks = {} /\ DOMAIN c.ready_blocks = {}
         /\ DOMAIN t.rx_blocks = {} /\ DOMAIN t.ready_blocks = {} /\ t.done = <<>>
         /\ t.out = c.out /\ t.lost = c.lost /\ t.later_block_since = c.later_block_since
         /\ t.emit_next = c.emit_next
<1> DEFINE d == expire_done(c)
           S == {b \in DOMAIN d.rx_blocks : d.rx_blocks[b].last_seen > RxHold}
<1>1. PICK u \in AbandonAll(d, S) : t = run_emit_engine(u)
  BY DEF ExpireThenEmit, expire_rx
<1>2. DOMAIN c = Fields /\ DOMAIN c.rx_blocks = {} /\ DOMAIN c.ready_blocks = {}
  BY DEF RxOK, QueueOK
<1>3. /\ DOMAIN d = Fields /\ SameQueue(c, d) /\ d.out = c.out /\ ~d.emit_base_set
      /\ d.lost = c.lost /\ d.later_block_since = c.later_block_since
      /\ d.rx_blocks = c.rx_blocks /\ d.ready_blocks = c.ready_blocks
  BY <1>2 DEF expire_done, SameQueue, Fields
<1>4. d.done = <<>>
  <2> DEFINE first == CHOOSE j \in 1 .. Len(c.done) + 1 :
                        /\ \A i \in 1 .. j - 1 : ~(c.done[i].age <= DoneHold)
                        /\ j > Len(c.done) \/ c.done[j].age <= DoneHold
  <2>1. d.done = SubSeq(c.done, first, Len(c.done))
    BY <1>2 DEF expire_done, Fields
  <2>2. Len(c.done) = 0
    OBVIOUS
  <2>3. first = 1
    <3>1. /\ \A i \in 1 .. 1 - 1 : ~(c.done[i].age <= DoneHold)
          /\ 1 > Len(c.done) \/ c.done[1].age <= DoneHold
      BY <2>2
    <3>2. 1 .. Len(c.done) + 1 = {1}
      BY <2>2
    <3>. QED
      BY <3>1, <3>2
  <2> HIDE DEF first
  <2>. QED
    BY <2>1, <2>2, <2>3
<1>5. u \in AbandonAll(d, {})
  <2>1. S = {}
    BY <1>2, <1>3
  <2>. QED
    BY <1>1, <2>1
<1> HIDE DEF d, S
<1>6. QueueOK(d)
  BY <1>3, SameQueueOK DEF RxOK
<1>7. Untouched(d, u)
  BY <1>5, <1>6, AbandonNone
<1>8. u.emit_base_set = d.emit_base_set
  BY <1>3, <1>5, AbandonAllFewer DEF Fewer
<1>9. t = u
  BY <1>1, <1>3, <1>8 DEF run_emit_engine
<1>. QED
  BY <1>2, <1>3, <1>4, <1>7, <1>9 DEF Untouched, SameQueue

\* Nor does poll_rx.
LEMMA PollOnce ==
  ASSUME RingMod \div 2 <= DoneMax, MaxDelay < RxHold, LinkInv, InRange(fec), NEW f \in BlockId,
         NEW z, Kept(z, f, fec), NEW a, Airborne(z, a), NEW D, Once(z, f, a, D, ClearResults(fec)),
         poll_rx, NEW t, t = fec'
  PROVE  Once(z, f, a, D, t)
<1> DEFINE c == ClearResults(fec)
<1>1. t \in ExpireThenEmit(c)
  BY DEF poll_rx
<1>2. RxOK(fec) /\ RxOK(c) /\ SameTrack(fec, c) /\ c.done = fec.done
  <2>1. RxOK(fec)
    BY DEF LinkInv, Rested, RxOK
  <2>. QED
    BY <2>1, ClearResultsRange DEF ClearResults, SameTrack, RxOK, QueueOK, Fields
<1>3. Once(z, f, a, D, c)
  OBVIOUS
<1> HIDE DEF c
<1>4. CASE fec.emit_base_set
  <2>1. OnTrack(z, f, c)
    BY <1>2, <1>4, SameTrackOK DEF Kept
  <2>. QED
    BY <1>1, <1>3, <2>1, EndOnce
<1>5. CASE ~fec.emit_base_set
  <2>1. ~c.emit_base_set /\ c.done = <<>>
    BY <1>2, <1>3, <1>5 DEF Once, SameTrack
  <2>2. /\ DOMAIN c.rx_blocks = {} /\ DOMAIN c.ready_blocks = {}
        /\ DOMAIN t.rx_blocks = {} /\ DOMAIN t.ready_blocks = {} /\ t.done = <<>>
        /\ t.out = c.out
    BY <1>1, <1>2, <2>1, IdleEnd
  <2>. QED
    BY <1>3, <2>1, <2>2, IdleOnce
<1>. QED
  BY <1>4, <1>5

------------------------------------------------------------------------------

(* The session, step by step.                                               *)

\* A list of different packets is as long as the set of them.
LEMMA OutCounted ==
  ASSUME NEW S, NEW q \in Seq(S), IsInjective(q)
  PROVE  Cardinality(ToSet(q)) = Len(q)
<1>1. Len(q) \in Nat /\ DOMAIN q = 1 .. Len(q) /\ q \in [1 .. Len(q) -> S]
  BY LenProperties
<1> DEFINE n == Len(q)
           T == ToSet(q)
<1>0. n \in Nat
  BY <1>1
<1>2. IsFiniteSet(1 .. n) /\ Cardinality(1 .. n) = n
  <2>1. IsFiniteSet(1 .. n) /\ Cardinality(1 .. n) = IF 1 > n THEN 0 ELSE n - 1 + 1
    BY <1>1, FS_Interval
  <2> HIDE DEF n
  <2>. QED
    BY <1>0, <2>1
<1>3. q \in [1 .. n -> T] /\ \A x \in T : \E j \in 1 .. n : q[j] = x
  BY <1>1 DEF ToSet
<1>4. q \in Injection(1 .. n, T) /\ q \in Surjection(1 .. n, T)
  BY <1>1, <1>3 DEF Injection, Surjection, IsInjective
<1> HIDE DEF n, T
<1>5. Cardinality(T) = Cardinality(1 .. n)
  BY <1>2, <1>4, FS_Surjection
<1>. QED
  BY <1>2, <1>5 DEF n, T

\* What a call has returned counts as returned before the next.
LEMMA CallDoneOnce ==
  ASSUME NEW z, NEW f \in BlockId, NEW a, NEW D, D \subseteq Pkt(z), NEW s, DOMAIN s = Fields,
         Once(z, f, a, D, s)
  PROVE  /\ D \cup ToSet(s.out) \subseteq Pkt(z)
         /\ Once(z, f, a, D \cup ToSet(s.out), ClearResults(s))
<1> DEFINE E == D \cup ToSet(s.out)
           t == ClearResults(s)
<1>1. /\ t.out = <<>> /\ t.done = s.done /\ t.rx_blocks = s.rx_blocks
      /\ t.ready_blocks = s.ready_blocks /\ t.emit_next = s.emit_next
      /\ t.last_shard_rx = s.last_shard_rx /\ t.last_payload_emit = s.last_payload_emit
      /\ t.emit_base_set = s.emit_base_set
  BY DEF ClearResults, Fields
<1> HIDE DEF t
<1>2. <<>> \in Seq(Pkt(z)) /\ IsInjective(<<>>) /\ ToSet(<<>>) = {}
  BY EmptySeq DEF IsInjective, ToSet
<1>3. ToSet(s.out) \subseteq Pkt(z)
  <2>1. s.out \in Seq(Pkt(z))
    BY DEF Once, FreshOut
  <2>2. DOMAIN s.out = 1 .. Len(s.out) /\ \A j \in 1 .. Len(s.out) : s.out[j] \in Pkt(z)
    BY <2>1, LenProperties, ElementOfSeq
  <2>. QED
    BY <2>2 DEF ToSet
<1>4. FreshOut(z, E, t)
  BY <1>1, <1>2 DEF FreshOut
<1>5. Returned(E, t) = Returned(D, s)
  BY <1>1, <1>2 DEF Returned
<1> HIDE DEF E
<1>6. ASSUME NEW c \in BlockId PROVE OneAt(f, a, E, t, c)
  <2>1. OneAt(f, a, D, s, c)
    BY DEF Once
  <2>2. /\ Partly(f, E, t, c) <=> Partly(f, D, s, c)
        /\ Here(t, c) <=> Here(s, c)
        /\ Past(f, a, t, c) <=> Past(f, a, s, c)
    BY <1>1, <1>5 DEF Partly, Here, Past
  <2>3. c \in DOMAIN t.rx_blocks => Unreturned(f, E, t, c, t.rx_blocks[c].released)
    BY <1>1, <1>5, <2>1 DEF OneAt, Unreturned
  <2>4. c \in DOMAIN t.ready_blocks => Unreturned(f, E, t, c, t.ready_blocks[c].released)
    BY <1>1, <1>5, <2>1 DEF OneAt, Unreturned
  <2>. QED
    BY <1>1, <2>1, <2>2, <2>3, <2>4 DEF OneAt
<1>7. Once(z, f, a, E, t)
  BY <1>1, <1>4, <1>6 DEF Once
<1>. QED
  BY <1>3, <1>7 DEF E, t

\* From a to e, another block has been sent, the first one after those of z.
NewAir(z, a, e) ==
  /\ DOMAIN e \subseteq DOMAIN a \cup {Len(z)}
  /\ \A b \in DOMAIN e : b # Len(z) => e[b] = a[b]

\* Of a block that has just been sent nothing has come.
LEMMA SendOnce ==
  ASSUME NEW z, NEW y, NEW f \in BlockId, NEW a, NEW e, NEW D, D \subseteq Pkt(z), NEW s,
         Once(z, f, a, D, s), s.out = <<>>, NewAir(z, a, e),
         Len(z) \in Nat, Len(y) \in Nat, Len(z) <= Len(y),
         \A c \in DOMAIN s.rx_blocks \cup DOMAIN s.ready_blocks : Place(f, c) < Len(z)
  PROVE  D \subseteq Pkt(y) /\ Once(y, f, e, D, s)
<1>1. Pkt(z) \subseteq Pkt(y)
  <2>1. 0 .. Len(z) - 1 \subseteq 0 .. Len(y) - 1
    OBVIOUS
  <2> DEFINE A == 0 .. Len(z) - 1
             B == 0 .. Len(y) - 1
  <2>2. A \subseteq B /\ Pkt(z) = A \X Nat /\ Pkt(y) = B \X Nat
    BY <2>1 DEF Pkt
  <2> HIDE DEF A, B
  <2>. QED
    BY <2>2
<1>2. /\ <<>> \in Seq(Pkt(y)) /\ IsInjective(<<>>) /\ ToSet(<<>>) = {}
  BY EmptySeq DEF IsInjective, ToSet
<1>3. FreshOut(y, D, s)
  BY <1>2 DEF FreshOut
<1>4. Returned(D, s) = D
  BY <1>2 DEF Returned
<1>5. ASSUME NEW c \in BlockId PROVE OneAt(f, e, D, s, c)
  <2> DEFINE b == Place(f, c)
  <2>1. OneAt(f, a, D, s, c)
    BY DEF Once
  <2>2. CASE b # Len(z)
    <3>1. b \in DOMAIN e => b \in DOMAIN a /\ e[b] = a[b]
      BY <2>2 DEF NewAir
    <3> HIDE DEF b
    <3>2. b \in DOMAIN e => (Past(f, a, s, c) => Past(f, e, s, c))
      BY <3>1 DEF Past, b
    <3>. QED
      BY <2>1, <3>1, <3>2 DEF OneAt, b
  <2>3. CASE b = Len(z)
    <3>1. ~Here(s, c)
      <4>1. c \in DOMAIN s.rx_blocks \cup DOMAIN s.ready_blocks => b < Len(z)
        OBVIOUS
      <4> HIDE DEF b
      <4>. QED
        BY <2>3, <4>1 DEF Here
    <3>2. ~Partly(f, D, s, c)
      <4> SUFFICES ASSUME NEW p \in Nat, <<b, p>> \in D PROVE FALSE
        BY <1>4 DEF Partly
      <4>1. b \in 0 .. Len(z) - 1
        BY DEF Pkt
      <4> HIDE DEF b
      <4>. QED
        BY <2>3, <4>1
    <3>. QED
      BY <3>1, <3>2 DEF OneAt, Here
  <2>. QED
    BY <2>2, <2>3
<1>6. Once(y, f, e, D, s)
  BY <1>3, <1>5 DEF Once
<1>. QED
  BY <1>1, <1>6

\* From s to t a tick has passed; from a to e it has for the shards that can arrive.
Aged(s, t) ==
  /\ t.out = s.out /\ t.emit_next = s.emit_next /\ t.emit_base_set = s.emit_base_set
  /\ t.ready_blocks = s.ready_blocks /\ DOMAIN t.rx_blocks = DOMAIN s.rx_blocks
  /\ t.last_payload_emit = Older(s.last_payload_emit)
  /\ t.last_shard_rx = Older(s.last_shard_rx)
  /\ \A c \in DOMAIN s.rx_blocks : /\ t.rx_blocks[c].released = s.rx_blocks[c].released
                                   /\ t.rx_blocks[c].last_seen = Older(s.rx_blocks[c].last_seen)
  /\ Len(t.done) = Len(s.done)
  /\ \A j \in 1 .. Len(s.done) : /\ t.done[j].id = s.done[j].id
                                 /\ t.done[j].age = Older(s.done[j].age)
\* The shards of a that can still arrive in e have aged by a tick.
AgedAir(a, e) == DOMAIN e \subseteq DOMAIN a /\ \A b \in DOMAIN e : e[b] = a[b] + 1

\* An age grows by one, if it grows.
LEMMA OlderBy ==
  ASSUME NEW x \in Nat, NEW y \in Nat, x <= y
  PROVE  Older(x) \in Nat /\ Older(x) <= y + 1
BY DEF Older

\* What the receiver remembers grows no faster than what is on the link.
LEMMA TickOnce ==
  ASSUME NEW z, NEW f \in BlockId, NEW a, Airborne(z, a), NEW e, AgedAir(a, e), NEW D,
         NEW s, NEW t, Once(z, f, a, D, s), Aged(s, t), t.done \in Marks,
         \A c \in DOMAIN s.rx_blocks : s.rx_blocks[c].last_seen \in Nat
  PROVE  Once(z, f, e, D, t)
<1>1. FreshOut(z, D, t) /\ Returned(D, t) = Returned(D, s)
  BY DEF Once, FreshOut, Aged, Returned
<1>2. Listed(f, t.done)
  BY DEF Once, Listed, Aged
<1>3. ASSUME NEW c \in BlockId PROVE OneAt(f, e, D, t, c)
  <2> DEFINE b == Place(f, c)
  <2>1. OneAt(f, a, D, s, c)
    BY DEF Once
  <2>2. /\ Partly(f, D, t, c) <=> Partly(f, D, s, c)
        /\ Here(t, c) <=> Here(s, c)
    BY <1>1 DEF Partly, Here, Aged
  <2>3. c \in DOMAIN t.rx_blocks => Unreturned(f, D, t, c, t.rx_blocks[c].released)
    BY <1>1, <2>1 DEF OneAt, Unreturned, Aged
  <2>4. c \in DOMAIN t.ready_blocks =>
          Unreturned(f, D, t, c, t.ready_blocks[c].released) /\ ReadyAt(f, t.ready_blocks[c], c)
    BY <1>1, <2>1 DEF OneAt, Unreturned, Aged
  <2>5. ASSUME b \in DOMAIN e
        PROVE  /\ c \in DOMAIN t.rx_blocks => t.rx_blocks[c].last_seen <= e[b]
               /\ Here(t, c) \/ Partly(f, D, t, c) => Recent(t.last_shard_rx, e[b])
               /\ Partly(f, D, t, c) => /\ Recent(t.last_payload_emit, e[b])
                                        /\ Here(t, c) \/ Past(f, e, t, c)
    <3> DEFINE y == a[b]
    <3>1. b \in DOMAIN a /\ e[b] = y + 1 /\ y \in Nat
      BY <2>5 DEF AgedAir, Airborne
    <3>2. ASSUME NEW x, Recent(x, y) PROVE Recent(Older(x), e[b])
      <4> HIDE DEF y
      <4>. QED
        BY <3>1, <3>2, OlderBy DEF Recent
    <3>3. c \in DOMAIN t.rx_blocks => t.rx_blocks[c].last_seen <= e[b]
      <4> SUFFICES ASSUME c \in DOMAIN t.rx_blocks PROVE t.rx_blocks[c].last_seen <= e[b]
        OBVIOUS
      <4>1. c \in DOMAIN s.rx_blocks /\ t.rx_blocks[c].last_seen = Older(s.rx_blocks[c].last_seen)
        BY DEF Aged
      <4>2. s.rx_blocks[c].last_seen \in Nat /\ s.rx_blocks[c].last_seen <= y
        BY <2>1, <3>1, <4>1 DEF OneAt
      <4> HIDE DEF y
      <4>. QED
        BY <3>1, <4>1, <4>2, OlderBy
    <3>4. Here(t, c) \/ Partly(f, D, t, c) => Recent(t.last_shard_rx, e[b])
      <4>1. Here(t, c) \/ Partly(f, D, t, c) => Recent(s.last_shard_rx, y)
        BY <2>1, <2>2, <3>1 DEF OneAt
      <4>. QED
        BY <3>2, <4>1 DEF Aged
    <3>5. Partly(f, D, t, c) => Recent(t.last_payload_emit, e[b])
      <4>1. Partly(f, D, t, c) => Recent(s.last_payload_emit, y)
        BY <2>1, <2>2, <3>1 DEF OneAt
      <4>. QED
        BY <3>2, <4>1 DEF Aged
    <3>6. Past(f, a, s, c) => Past(f, e, t, c)
      <4> SUFFICES ASSUME Past(f, a, s, c) PROVE Past(f, e, t, c)
        OBVIOUS
      <4>1. PICK j \in 1 .. Len(s.done) : s.done[j].id = c /\ s.done[j].age <= y
        BY DEF Past, HasMark
      <4>2. s.done[j].age \in Nat
        BY ListedMarks DEF Once
      <4>3. /\ j \in 1 .. Len(t.done) /\ t.done[j].id = c
            /\ t.done[j].age = Older(s.done[j].age)
        BY <4>1 DEF Aged
      <4>4. Older(s.done[j].age) <= e[b]
        <5> HIDE DEF y
        <5>. QED
          BY <3>1, <4>1, <4>2, OlderBy
      <4>5. HasMark(t.done, c, e[b])
        BY <4>3, <4>4 DEF HasMark
      <4>. QED
        BY <4>5 DEF Past, Aged
    <3>. QED
      BY <2>1, <2>2, <3>1, <3>3, <3>4, <3>5, <3>6 DEF OneAt
  <2>. QED
    BY <2>3, <2>4, <2>5 DEF OneAt
<1>4. ~t.emit_base_set => t.done = <<>>
  <2> SUFFICES ASSUME ~t.emit_base_set PROVE t.done = <<>>
    OBVIOUS
  <2>1. s.done = <<>>
    BY DEF Once, Aged
  <2>2. Len(t.done) = 0 /\ t.done \in Seq(Mark)
    BY <2>1 DEF Aged, Marks
  <2>. QED
    BY <2>2, EmptySeq
<1>. QED
  BY <1>1, <1>2, <1>3, <1>4 DEF Once

\* The sender is not restarted, and sends less than half the ring.
OneSession == restarts = <<>> /\ Len(sent) < RingMod \div 2

\* What is on the link, and what has been returned, is of the blocks sent; and nothing
\* has been returned twice.
Flown(f) ==
  /\ Airborne(sent, air) /\ delivered \subseteq Pkt(sent)
  /\ Once(sent, f, air, delivered, ClearResults(fec))

OnceInv == \E f \in BlockId : OneSession => Session(f) /\ Kept(sent, f, fec) /\ Flown(f)

\* A link on which nothing has been sent.
LEMMA OnceStarts ==
  ASSUME LinkInit
  PROVE  OnceInv
<1>1. block_id \in BlockId /\ sent = <<>> /\ air = EmptyMap /\ fec = Cleared /\ delivered = {}
  BY LinkAssumption DEF LinkInit, RxInit
<1>2. Place(block_id, block_id) = 0
  <2>1. block_id \in 0 .. RingMod - 1 /\ RingMod \in Nat
    BY <1>1, RingAssumption DEF BlockId
  <2>2. Place(block_id, block_id) =
          IF block_id >= block_id THEN block_id - block_id ELSE block_id - block_id + RingMod
    BY <1>1, PlaceValue
  <2>. QED
    BY <2>1, <2>2
<1>3. Session(block_id)
  BY <1>1, <1>2 DEF Session, EmptyMap
<1>4. Kept(sent, block_id, fec)
  BY <1>1 DEF Kept, Cleared
<1>5. DOMAIN air = {}
  BY <1>1 DEF EmptyMap
<1> DEFINE s == ClearResults(fec)
<1>6. /\ DOMAIN s.rx_blocks = {} /\ DOMAIN s.ready_blocks = {} /\ s.done = <<>> /\ s.out = <<>>
  BY <1>1 DEF ClearResults, Cleared, EmptyMap
<1> HIDE DEF s
<1>7. PICK f : f = block_id
  OBVIOUS
<1>8. FreshOut(sent, delivered, s)
  <2>1. <<>> \in Seq(Pkt(sent)) /\ IsInjective(<<>>) /\ ToSet(<<>>) = {}
    BY EmptySeq DEF IsInjective, ToSet
  <2>. QED
    BY <1>6, <2>1 DEF FreshOut
<1>9. \A c \in BlockId : OneAt(f, air, delivered, s, c)
  BY <1>5, <1>6 DEF OneAt
<1>10. Listed(f, s.done)
  BY <1>1, <1>6, <1>7, NoneListed
<1>11. Once(sent, f, air, delivered, s)
  BY <1>6, <1>8, <1>9, <1>10 DEF Once
<1>12. Flown(f)
  BY <1>1, <1>5, <1>11 DEF Flown, Airborne, s
<1>. QED
  BY <1>1, <1>3, <1>4, <1>7, <1>12 DEF OnceInv

\* The end of a call that returned nothing twice.
LEMMA CallFlown ==
  ASSUME NEW f \in BlockId, Airborne(sent, air), delivered \subseteq Pkt(sent),
         NEW t, t = fec', DOMAIN t = Fields, Once(sent, f, air, delivered, t),
         Account, UNCHANGED link
  PROVE  Flown(f)'
<1>1. PICK z : z = sent
  OBVIOUS
<1>2. PICK a : a = air
  OBVIOUS
<1>3. PICK D : D = delivered
  OBVIOUS
<1>4. /\ D \cup ToSet(t.out) \subseteq Pkt(z)
      /\ Once(z, f, a, D \cup ToSet(t.out), ClearResults(t))
  BY <1>1, <1>2, <1>3, CallDoneOnce
<1>5. delivered' = D \cup ToSet(t.out)
  BY <1>3 DEF Account
<1>6. sent' = z /\ air' = a
  BY <1>1, <1>2 DEF link
<1>. QED
  BY <1>1, <1>2, <1>4, <1>5, <1>6 DEF Flown

\* flush() puts the next block on the air.
LEMMA SendFlown ==
  ASSUME MaxReorder <= EvictDist, LinkInv, NEW f \in BlockId, Kept(sent, f, fec), Flown(f),
         Len(sent) < RingMod \div 2, SendBlock
  PROVE  Flown(f)'
<1> DEFINE s == ClearResults(fec)
<1>1. PICK c \in SduCounts : sent' = Append(sent, [id |-> block_id, sdu |-> c])
  BY DEF SendBlock
<1>2. /\ sent \in Seq([id : BlockId, sdu : SduCounts]) /\ Len(sent) \in Nat
      /\ MaxReorder \in Nat /\ EvictDist \in Nat /\ MaxDelay \in Nat
  BY LenProperties, LinkAssumption, RxAssumption DEF LinkInv, SenderOK
<1>3. Len(sent') = Len(sent) + 1
  BY <1>1, <1>2
<1>4. PICK z : z = sent
  OBVIOUS
<1>5. PICK y : y = sent'
  OBVIOUS
<1>6. PICK a : a = air
  OBVIOUS
<1>7. PICK e : e = air'
  OBVIOUS
<1>8. Len(z) \in Nat /\ Len(y) = Len(z) + 1 /\ Len(z) <= Len(y) /\ Len(y) \in Nat
  BY <1>2, <1>3, <1>4, <1>5
<1> DEFINE kept == {b \in DOMAIN a : Len(z) - b <= MaxReorder}
<1>9. /\ DOMAIN e = kept \cup {Len(z)} /\ e[Len(z)] = 0
      /\ \A b \in kept : b # Len(z) => e[b] = a[b]
  <2>1. e = With([b \in kept |-> a[b]], Len(z), 0)
    BY <1>4, <1>6, <1>7 DEF SendBlock
  <2> HIDE DEF kept
  <2>. QED
    BY <2>1 DEF With
<1>10. Airborne(z, a)
  BY <1>4, <1>6 DEF Flown
<1>11. Airborne(y, e)
  <2> SUFFICES ASSUME NEW b \in DOMAIN e
               PROVE  /\ b \in Nat /\ b < Len(y) /\ Len(y) - 1 - b <= EvictDist
                      /\ e[b] \in 0 .. MaxDelay
    BY DEF Airborne
  <2>1. CASE b = Len(z)
    <3> DEFINE l == Len(z)
    <3>1. l \in Nat /\ Len(y) = l + 1 /\ b = l /\ e[b] = 0
      BY <1>8, <1>9, <2>1
    <3> HIDE DEF l
    <3>. QED
      BY <1>2, <3>1
  <2>2. CASE b # Len(z)
    <3>1. b \in kept /\ e[b] = a[b]
      BY <1>9, <2>2
    <3>2. b \in Nat /\ b < Len(z) /\ a[b] \in 0 .. MaxDelay /\ Len(z) - b <= MaxReorder
      BY <1>10, <3>1 DEF Airborne
    <3> DEFINE l == Len(z)
    <3>3. l \in Nat /\ Len(y) = l + 1 /\ b < l /\ l - b <= MaxReorder
      BY <1>8, <3>2
    <3> HIDE DEF l
    <3>. QED
      BY <1>2, <3>1, <3>2, <3>3
  <2>. QED
    BY <2>1, <2>2
<1>12. NewAir(z, a, e)
  BY <1>9 DEF NewAir
<1>13. PICK D : D = delivered
  OBVIOUS
<1>14. D \subseteq Pkt(z) /\ Once(z, f, a, D, s)
  BY <1>4, <1>6, <1>13 DEF Flown
<1>15. /\ s.out = <<>> /\ s.rx_blocks = fec.rx_blocks /\ s.ready_blocks = fec.ready_blocks
  BY DEF ClearResults, LinkInv, Rested, QueueOK, Fields
<1>16. \A b \in DOMAIN s.rx_blocks \cup DOMAIN s.ready_blocks : Place(f, b) < Len(z)
  <2>1. CASE fec.emit_base_set
    <3>1. OnTrack(z, f, fec)
      BY <1>4, <2>1 DEF Kept
    <3>. QED
      BY <1>15, <3>1, TrackHeld
  <2>2. CASE ~fec.emit_base_set
    BY <1>15, <2>2 DEF LinkInv, Rested, QueueOK
  <2>. QED
    BY <2>1, <2>2
<1> HIDE DEF s
<1>17. D \subseteq Pkt(y) /\ Once(y, f, e, D, s)
  BY <1>8, <1>12, <1>14, <1>15, <1>16, SendOnce
<1>18. fec' = fec /\ delivered' = D
  BY <1>13 DEF SendBlock
<1>. QED
  BY <1>5, <1>7, <1>11, <1>17, <1>18 DEF Flown, s

\* Time passes for both ends.
LEMMA TickFlown ==
  ASSUME LinkInv, InRange(fec), NEW f \in BlockId, Flown(f), TimePasses
  PROVE  Flown(f)'
<1> DEFINE s == ClearResults(fec)
           q == [j \in 1 .. Len(s.done) |-> [s.done[j] EXCEPT !.age = Older(@)]]
           r == [b \in DOMAIN s.rx_blocks |-> [s.rx_blocks[b] EXCEPT !.last_seen = Older(@)]]
<1>1. RxOK(s) /\ s.out = <<>>
  <2>1. RxOK(fec)
    BY DEF LinkInv, Rested, RxOK
  <2>. QED
    BY <2>1, ClearResultsRange DEF ClearResults, RxOK, QueueOK, Fields
<1>2. PICK t : t = fec'
  OBVIOUS
<1>3. RxOK(t)
  BY <1>2, TickOK, TickRange DEF LinkInv, Rested, RxOK, TimePasses
<1>4. PICK z : z = sent
  OBVIOUS
<1>5. PICK a : a = air
  OBVIOUS
<1>6. PICK e : e = air'
  OBVIOUS
<1>7. PICK D : D = delivered
  OBVIOUS
<1>8. Airborne(z, a) /\ D \subseteq Pkt(z) /\ Once(z, f, a, D, s)
  BY <1>4, <1>5, <1>7 DEF Flown
<1> HIDE DEF s
<1>9. fec' = [s EXCEPT
                !.last_payload_emit = Older(@),
                !.last_shard_rx     = Older(@),
                !.later_block_since = Older(@),
                !.done              = q,
                !.rx_blocks         = r]
  BY DEF TimePasses, Tick, s
<1> HIDE DEF q, r
<1>10. /\ t.out = s.out /\ t.emit_next = s.emit_next /\ t.emit_base_set = s.emit_base_set
       /\ t.ready_blocks = s.ready_blocks /\ t.rx_blocks = r /\ t.done = q
       /\ t.last_payload_emit = Older(s.last_payload_emit)
       /\ t.last_shard_rx = Older(s.last_shard_rx)
  BY <1>1, <1>2, <1>9 DEF RxOK, QueueOK, Fields
<1>11. /\ DOMAIN t.rx_blocks = DOMAIN s.rx_blocks
       /\ \A c \in DOMAIN s.rx_blocks :
            /\ t.rx_blocks[c].released = s.rx_blocks[c].released
            /\ t.rx_blocks[c].last_seen = Older(s.rx_blocks[c].last_seen)
            /\ s.rx_blocks[c].last_seen \in Nat
  <2>1. DOMAIN t.rx_blocks = DOMAIN s.rx_blocks
    BY <1>10 DEF r
  <2>2. ASSUME NEW c \in DOMAIN s.rx_blocks
        PROVE  /\ t.rx_blocks[c].released = s.rx_blocks[c].released
               /\ t.rx_blocks[c].last_seen = Older(s.rx_blocks[c].last_seen)
               /\ s.rx_blocks[c].last_seen \in Nat
    <3> DEFINE blk == s.rx_blocks[c]
               new == t.rx_blocks[c]
    <3>1. new = [blk EXCEPT !.last_seen = Older(@)] /\ BlockOK(blk)
      BY <1>1, <1>10 DEF RxOK, InRange, r
    <3> HIDE DEF blk, new
    <3>2. /\ new.released = blk.released /\ new.last_seen = Older(blk.last_seen)
          /\ blk.last_seen \in Age
      BY <3>1 DEF BlockOK, BlockFields
    <3>3. blk.last_seen \in Nat
      BY <3>2 DEF Age
    <3>. QED
      BY <3>2, <3>3 DEF blk, new
  <2>. QED
    BY <2>1, <2>2
<1>12. /\ Len(t.done) = Len(s.done) /\ t.done \in Marks
       /\ \A j \in 1 .. Len(s.done) : /\ t.done[j].id = s.done[j].id
                                      /\ t.done[j].age = Older(s.done[j].age)
  <2>1. t.done \in Marks /\ s.done \in Marks
    BY <1>1, <1>3 DEF RxOK, InRange
  <2>2. /\ s.done \in Seq(Mark) /\ Len(s.done) \in Nat /\ t.done \in Seq(Mark)
        /\ DOMAIN t.done = 1 .. Len(t.done) /\ Len(t.done) \in Nat
    BY <2>1, LenProperties DEF Marks
  <2>3. DOMAIN t.done = 1 .. Len(s.done)
    BY <1>10 DEF q
  <2>4. Len(t.done) = Len(s.done)
    BY <2>2, <2>3
  <2>5. ASSUME NEW j \in 1 .. Len(s.done)
        PROVE  t.done[j].id = s.done[j].id /\ t.done[j].age = Older(s.done[j].age)
    <3> DEFINE m == s.done[j]
               w == t.done[j]
    <3>1. w = [m EXCEPT !.age = Older(@)] /\ m \in Mark
      BY <1>10, <2>2, ElementOfSeq DEF q
    <3> HIDE DEF m, w
    <3>2. w.id = m.id /\ w.age = Older(m.age)
      BY <3>1 DEF Mark
    <3>. QED
      BY <3>2 DEF m, w
  <2>. QED
    BY <2>1, <2>4, <2>5
<1>13. Aged(s, t)
  BY <1>10, <1>11, <1>12 DEF Aged
<1>14. e = [b \in {c \in DOMAIN a : a[c] < MaxDelay} |-> a[b] + 1]
  BY <1>5, <1>6 DEF TimePasses
<1>15. AgedAir(a, e) /\ \A b \in DOMAIN e : a[b] < MaxDelay
  BY <1>14 DEF AgedAir
<1>16. Airborne(z, e)
  <2> SUFFICES ASSUME NEW b \in DOMAIN e
               PROVE  /\ b \in Nat /\ b < Len(z) /\ Len(z) - 1 - b <= EvictDist
                      /\ e[b] \in 0 .. MaxDelay
    BY DEF Airborne
  <2>1. /\ b \in Nat /\ b < Len(z) /\ Len(z) - 1 - b <= EvictDist /\ a[b] \in 0 .. MaxDelay
        /\ a[b] < MaxDelay /\ e[b] = a[b] + 1
    BY <1>8, <1>15 DEF Airborne, AgedAir
  <2>2. MaxDelay \in Nat
    BY LinkAssumption
  <2>. QED
    BY <2>1, <2>2
<1>17. Once(z, f, e, D, t)
  BY <1>8, <1>11, <1>12, <1>13, <1>15, TickOnce
<1>18. Once(z, f, e, D \cup ToSet(t.out), ClearResults(t))
  <2>1. DOMAIN t = Fields
    BY <1>3 DEF RxOK, QueueOK
  <2>. QED
    BY <1>8, <1>17, <2>1, CallDoneOnce
<1>19. D \cup ToSet(t.out) = D
  <2>1. ToSet(<<>>) = {}
    BY DEF ToSet
  <2>. QED
    BY <1>1, <1>10, <2>1
<1>20. sent' = z /\ delivered' = D
  BY <1>4, <1>7 DEF TimePasses
<1>. QED
  BY <1>2, <1>6, <1>8, <1>16, <1>18, <1>19, <1>20 DEF Flown

\* A receiver's call returns nothing twice.
LEMMA CallOnce ==
  ASSUME RingMod \div 2 <= DoneMax, MaxDelay < RxHold, MaxReorder <= EvictDist,
         LinkInv, InRange(fec), NEW f \in BlockId, Session(f), Len(sent) < RingMod \div 2,
         Kept(sent, f, fec), Flown(f),
         Poll \/ \E b \in DOMAIN air : \E i \in IndexesSent(b) : Arrive(b, i)
  PROVE  Once(sent, f, air, delivered, fec') /\ Account /\ UNCHANGED link
<1>1. PICK z : z = sent
  OBVIOUS
<1>2. PICK a : a = air
  OBVIOUS
<1>3. PICK D : D = delivered
  OBVIOUS
<1>4. PICK t : t = fec'
  OBVIOUS
<1>5. Airborne(z, a) /\ Once(z, f, a, D, ClearResults(fec)) /\ Kept(z, f, fec)
  BY <1>1, <1>2, <1>3 DEF Flown
<1>6. ASSUME Poll PROVE Once(z, f, a, D, t) /\ Account /\ UNCHANGED link
  <2>1. poll_rx
    BY <1>6 DEF Poll
  <2>2. Once(z, f, a, D, t)
    BY <1>4, <1>5, <2>1, PollOnce
  <2>. QED
    BY <1>6, <2>2 DEF Poll
<1>7. ASSUME NEW b \in DOMAIN air, NEW i \in IndexesSent(b), Arrive(b, i)
      PROVE  Once(z, f, a, D, t) /\ Account /\ UNCHANGED link
  <2>1. push_air(ShardOf(b, i))
    BY <1>7 DEF Arrive
  <2>2. Once(z, f, a, D, t)
    BY <1>1, <1>2, <1>4, <1>5, <2>1, PushOnce
  <2>. QED
    BY <1>7, <2>2 DEF Arrive
<1>8. Once(z, f, a, D, t) /\ Account /\ UNCHANGED link
  BY <1>6, <1>7
<1>. QED
  BY <1>1, <1>2, <1>3, <1>4, <1>8

\* Every step of the session goes on with it.
LEMMA FlownStep ==
  ASSUME RingMod \div 2 <= DoneMax, MaxDelay < RxHold, MaxReorder <= EvictDist,
         LinkInv, InRange(fec), NEW f \in BlockId,
         OneSession => Session(f) /\ Kept(sent, f, fec) /\ Flown(f),
         [LinkNext]_vars, OneSession'
  PROVE  OneSession /\ Session(f)' /\ Kept(sent', f, fec') /\ Flown(f)'
<1>1. OneSession => Session(f) /\ Kept(sent, f, fec) /\ Flown(f)
  OBVIOUS
<1>2. LinkInv'
  BY LinkStep
<1>3. CASE UNCHANGED vars
  <2>1. UNCHANGED <<fec, block_id, sent, restarts, air, polled, delivered, written_off>>
    BY <1>3 DEF vars, link
  <2>2. OneSession
    BY <2>1 DEF OneSession
  <2>3. Session(f) /\ Kept(sent, f, fec) /\ Flown(f)
    BY <1>1, <2>2
  <2>4. Session(f)'
    BY <2>1, <2>3 DEF Session
  <2>5. Kept(sent', f, fec')
    BY <2>1, <2>3
  <2>6. Flown(f)'
    BY <2>1, <2>3 DEF Flown
  <2>. QED
    BY <2>2, <2>4, <2>5, <2>6
<1>4. ASSUME Restart PROVE FALSE
  <2>1. restarts' = <<>>
    BY DEF OneSession
  <2>2. restarts' = Append(restarts, Len(sent))
    BY <1>4 DEF Restart
  <2>. QED
    BY <2>1, <2>2
<1>5. CASE SendBlock
  <2>1. restarts = <<>> /\ Len(sent') < RingMod \div 2
    BY <1>5 DEF SendBlock, OneSession
  <2>2. Len(sent) < RingMod \div 2
    <3>1. PICK c \in SduCounts : sent' = Append(sent, [id |-> block_id, sdu |-> c])
      BY <1>5 DEF SendBlock
    <3>2. sent \in Seq([id : BlockId, sdu : SduCounts]) /\ Len(sent) \in Nat
      BY LenProperties DEF LinkInv, SenderOK
    <3>3. Len(sent') = Len(sent) + 1
      BY <3>1, <3>2
    <3> DEFINE H == RingMod \div 2
    <3>4. H \in Nat /\ Len(sent') < H
      BY <2>1, HalfRing
    <3> HIDE DEF H
    <3>5. Len(sent) < H
      BY <3>2, <3>3, <3>4
    <3>. QED
      BY <3>5 DEF H
  <2>3. Session(f) /\ Kept(sent, f, fec) /\ Flown(f)
    BY <1>1, <2>1, <2>2 DEF OneSession
  <2>4. Session(f)' /\ Kept(sent', f, fec')
    BY <1>5, <2>1, <2>3, SendSession
  <2>5. Flown(f)'
    BY <1>5, <2>2, <2>3, SendFlown
  <2>. QED
    BY <2>1, <2>2, <2>4, <2>5 DEF OneSession
<1>6. CASE TimePasses
  <2>1. UNCHANGED <<block_id, sent, restarts, delivered>> /\ Tick
    BY <1>6 DEF TimePasses
  <2>2. Session(f) /\ Kept(sent, f, fec) /\ Flown(f)
    BY <1>1, <2>1 DEF OneSession
  <2>3. Session(f)'
    BY <1>6, <2>1, <2>2 DEF Session, TimePasses
  <2>4. Kept(sent, f, fec')
    BY <2>1, <2>2, TickKept
  <2>5. Flown(f)'
    BY <1>6, <2>2, TickFlown
  <2>. QED
    BY <2>1, <2>3, <2>4, <2>5 DEF OneSession
<1>7. CASE Poll \/ \E b \in DOMAIN air : \E i \in IndexesSent(b) : Arrive(b, i)
  <2>1. UNCHANGED link
    BY <1>7 DEF Poll, Arrive
  <2>2. Session(f) /\ Kept(sent, f, fec) /\ Flown(f) /\ Len(sent) < RingMod \div 2
    BY <1>1, <2>1 DEF OneSession, link
  <2>3. Session(f)'
    BY <2>1, <2>2 DEF Session, link
  <2>4. Kept(sent, f, fec')
    <3>1. CASE Poll
      BY <2>2, <3>1, PollKept DEF Poll
    <3>2. CASE \E b \in DOMAIN air : \E i \in IndexesSent(b) : Arrive(b, i)
      BY <2>2, <3>2, PushKept DEF Arrive
    <3>. QED
      BY <1>7, <3>1, <3>2
  <2>5. Flown(f)'
    <3>1. Once(sent, f, air, delivered, fec') /\ Account
      BY <1>7, <2>2, CallOnce
    <3>2. PICK t : t = fec'
      OBVIOUS
    <3>3. DOMAIN t = Fields
      BY <1>2, <3>2 DEF LinkInv, Rested, QueueOK
    <3>. QED
      BY <2>1, <2>2, <3>1, <3>2, <3>3, CallFlown DEF Flown
  <2>. QED
    BY <2>1, <2>3, <2>4, <2>5 DEF OneSession, link
<1>. QED
  BY <1>3, <1>4, <1>5, <1>6, <1>7 DEF LinkNext

\* So it is for some first id.
LEMMA OnceStep ==
  ASSUME RingMod \div 2 <= DoneMax, MaxDelay < RxHold, MaxReorder <= EvictDist,
         LinkInv, InRange(fec), OnceInv, [LinkNext]_vars
  PROVE  OnceInv'
<1>1. PICK f \in BlockId : OneSession => Session(f) /\ Kept(sent, f, fec) /\ Flown(f)
  BY DEF OnceInv
<1>2. OneSession' => Session(f)' /\ Kept(sent', f, fec') /\ Flown(f)'
  BY <1>1, FlownStep
<1>. QED
  BY <1>2 DEF OnceInv

\* What a step returns.
LEMMA OnceShown ==
  ASSUME RingMod \div 2 <= DoneMax, MaxDelay < RxHold, MaxReorder <= EvictDist,
         LinkInv, InRange(fec), OnceInv, OneSession, [LinkNext]_vars
  PROVE  [/\ ToSet(fec'.out) \cap delivered = {}
          /\ Cardinality(ToSet(fec'.out)) = Len(fec'.out)]_fec
<1>1. PICK f \in BlockId : Session(f) /\ Kept(sent, f, fec) /\ Flown(f)
  BY DEF OnceInv
<1>2. Len(sent) < RingMod \div 2
  BY DEF OneSession
<1>3. CASE UNCHANGED vars \/ SendBlock \/ Restart
  BY <1>3 DEF vars, SendBlock, Restart
<1>4. CASE TimePasses
  <2>1. fec'.out = <<>>
    <3> DEFINE s == ClearResults(fec)
    <3>1. DOMAIN s = Fields /\ s.out = <<>>
      BY DEF ClearResults, LinkInv, Rested, QueueOK, Fields
    <3> HIDE DEF s
    <3>. QED
      BY <1>4, <3>1 DEF TimePasses, Tick, s, Fields
  <2>2. ToSet(<<>>) = {} /\ Len(<<>>) = 0
    BY DEF ToSet
  <2>3. Cardinality({}) = 0
    BY FS_EmptySet
  <2>. QED
    BY <2>1, <2>2, <2>3
<1>5. CASE Poll \/ \E b \in DOMAIN air : \E i \in IndexesSent(b) : Arrive(b, i)
  <2>1. Once(sent, f, air, delivered, fec')
    BY <1>1, <1>2, <1>5, CallOnce
  <2>2. PICK q : q = fec'.out
    OBVIOUS
  <2>3. PICK P : P = Pkt(sent)
    OBVIOUS
  <2>4. q \in Seq(P) /\ IsInjective(q) /\ ToSet(q) \cap delivered = {}
    BY <2>1, <2>2, <2>3 DEF Once, FreshOut
  <2>5. Cardinality(ToSet(q)) = Len(q)
    BY <2>4, OutCounted
  <2>. QED
    BY <2>2, <2>4, <2>5
<1>. QED
  BY <1>3, <1>4, <1>5 DEF LinkNext

\* NoDuplicate along one session shorter than half the ring, on every link on which a shard
\* is overtaken by no more blocks than k_ring_evict_dist and arrives within rx_hold, with a
\* done_order (k_done_max) of at least half the ring: the released counter of a block in
\* rx_blocks or ready_blocks, and the done mark of a block that has left them, keep every
\* later shard from returning a packet again, and expire_rx, expire_done,
\* ring_evict_stale, the rebase and the resync forget only what no shard can belong to.
THEOREM NeverTwice ==
  ASSUME MaxReorder <= EvictDist, MaxDelay < RxHold, RingMod \div 2 <= DoneMax
  PROVE  LinkSpec /\ []OneSession => NoDuplicate
<1> DEFINE Inv == LinkInv /\ InRange(fec) /\ OnceInv
<1>1. LinkInit => Inv
  BY LinkStarts, ClearedRange, OnceStarts DEF LinkInit, RxInit
<1>2. Inv /\ [LinkNext]_vars => Inv'
  BY LinkStep, RangeStep, OnceStep
<1>3. Inv /\ OneSession /\ [LinkNext]_vars =>
        [/\ ToSet(fec'.out) \cap delivered = {}
         /\ Cardinality(ToSet(fec'.out)) = Len(fec'.out)]_fec
  BY OnceShown
<1>. QED
  BY <1>1, <1>2, <1>3, PTL DEF LinkSpec, NoDuplicate

------------------------------------------------------------------------------

(* What is counted lost stays lost (see LossStays): W is what was counted.  *)

\* Of the packets counted lost, W before this call, all have been sent, none has been
\* returned, none is of a block that is here or of which shards can still arrive, none is
\* counted again.
Final(z, f, a, D, W, s) ==
  /\ s.lost \cap W = {}
  /\ \A x \in W \cup s.lost :
       /\ x \notin Returned(D, s) /\ x[1] \notin DOMAIN a /\ x[1] \in 0 .. Len(z) - 1
       /\ \A c \in BlockId : Here(s, c) => Place(f, c) # x[1]

\* From s to t packets of blocks that were here have been returned, none has been counted
\* lost, and no block has come.
Spares(f, D, s, t) ==
  /\ t.lost = s.lost
  /\ \A x \in Returned(D, t) :
       x \in Returned(D, s) \/ \E c \in BlockId : Here(s, c) /\ Place(f, c) = x[1]
  /\ \A c \in BlockId : Here(t, c) => Here(s, c)

\* Then what is lost stays lost.
LEMMA SparesFinal ==
  ASSUME NEW z, NEW f, NEW a, NEW D, NEW W, NEW s, NEW t, Final(z, f, a, D, W, s), Spares(f, D, s, t)
  PROVE  Final(z, f, a, D, W, t)
BY DEF Final, Spares

\* Step by step.
LEMMA SparesTrans ==
  ASSUME NEW f, NEW D, NEW s, NEW t, NEW u, Spares(f, D, s, t), Spares(f, D, t, u)
  PROVE  Spares(f, D, s, u)
BY DEF Spares

\* The packets M of blocks that were here, and of which nothing more can come, are counted
\* lost as the blocks go; the rest that was here of some blocks is returned.
Drops(f, a, D, s, t, M) ==
  /\ t.lost = s.lost \cup M
  /\ \A x \in Returned(D, t) :
       x \in Returned(D, s) \/ \E c \in BlockId : Here(s, c) /\ Place(f, c) = x[1]
  /\ \A c \in BlockId : Here(t, c) => Here(s, c)
  /\ \A x \in M :
       /\ x \notin Returned(D, t) /\ x[1] \notin DOMAIN a
       /\ \E c \in BlockId : Here(s, c) /\ ~Here(t, c) /\ Place(f, c) = x[1]

\* That too.
LEMMA DropsFinal ==
  ASSUME NEW z, NEW f \in BlockId, NEW a, NEW D, NEW W, NEW s, OnTrack(z, f, s), NEW t, NEW M,
         Final(z, f, a, D, W, s), Drops(f, a, D, s, t, M)
  PROVE  Final(z, f, a, D, W, t)
<1>1. \A x \in M : x \notin W \cup s.lost
  BY DEF Final, Drops
<1>2. t.lost \cap W = {}
  BY <1>1 DEF Final, Drops
<1>3. ASSUME NEW x \in W \cup s.lost
      PROVE  /\ x \notin Returned(D, t) /\ x[1] \notin DOMAIN a /\ x[1] \in 0 .. Len(z) - 1
             /\ \A c \in BlockId : Here(t, c) => Place(f, c) # x[1]
  BY DEF Final, Drops
<1>4. ASSUME NEW x \in M
      PROVE  /\ x \notin Returned(D, t) /\ x[1] \notin DOMAIN a /\ x[1] \in 0 .. Len(z) - 1
             /\ \A c \in BlockId : Here(t, c) => Place(f, c) # x[1]
  <2>1. PICK d \in BlockId : Here(s, d) /\ ~Here(t, d) /\ Place(f, d) = x[1]
    BY DEF Drops
  <2>2. \A c \in BlockId : Place(f, c) = x[1] => c = d
    BY <2>1, PlaceSame
  <2>3. Place(f, d) \in 0 .. Len(z) - 1
    <3>1. Place(f, d) \in Nat /\ Place(f, d) < Len(z) /\ Len(z) \in Nat
      BY <2>1, TrackHeld DEF Here, OnTrack
    <3>. QED
      BY <3>1
  <2>. QED
    BY <2>1, <2>2, <2>3 DEF Drops
<1>. QED
  BY <1>2, <1>3, <1>4 DEF Final, Drops

\* The systematic packets of a block are those of the shards that are here.
LEMMA SystematicHeld ==
  ASSUME NEW b \in Nat, NEW r \in Nat, NEW blk, blk.sdu \in Nat,
         \A i \in DOMAIN blk.frags : blk.frags[i] = b
  PROVE  \A x \in ToSet(Systematic(blk, r)) : x[2] \in DOMAIN blk.frags
<1> DEFINE n == blk.sdu
           g == CHOOSE h : IsUpto(blk, r, n, h)
           P == {<<b, i>> : i \in DOMAIN blk.frags}
           G(i) == g[i] \in Seq(P)
           T == {i \in 0 .. n : ~G(i)}
<1>1. IsUpto(blk, r, n, g)
  BY UptoExists
<1>2. Systematic(blk, r) = g[n]
  BY DEF Systematic, IsUpto
<1>0. n \in Nat
  OBVIOUS
<1> HIDE DEF g, n
<1>3. /\ g[0] = <<>>
      /\ \A i \in 1 .. n : g[i] = IF i - 1 >= r /\ i - 1 \in DOMAIN blk.frags
                                  THEN Append(g[i - 1], <<blk.frags[i - 1], i - 1>>)
                                  ELSE g[i - 1]
  <2>1. 0 \in 0 .. n /\ \A i \in 1 .. n : i \in 0 .. n /\ i # 0
    BY <1>0
  <2>. QED
    BY <1>1, <2>1, Zenon DEF IsUpto
<1>4. T = {}
  <2> SUFFICES ASSUME T # {} PROVE FALSE
    OBVIOUS
  <2>1. PICK i \in T : \A k \in T : i <= k
    <3>1. T \in SUBSET Nat
      OBVIOUS
    <3> HIDE DEF T
    <3>. QED
      BY <3>1, NatMin
  <2>2. i \in 0 .. n /\ ~G(i)
    OBVIOUS
  <2>3. i # 0
    <3> HIDE DEF P
    <3>1. G(0)
      BY <1>3, EmptySeq
    <3>. QED
      BY <2>2, <3>1
  <2>4. i \in 1 .. n /\ i - 1 \in 0 .. n /\ i - 1 \notin T
    <3> HIDE DEF T
    <3>. QED
      BY <1>0, <2>1, <2>2, <2>3
  <2>5. G(i - 1)
    BY <2>4
  <2>6. CASE ~(i - 1 >= r /\ i - 1 \in DOMAIN blk.frags)
    BY <1>3, <2>2, <2>4, <2>5, <2>6
  <2>7. CASE i - 1 >= r /\ i - 1 \in DOMAIN blk.frags
    <3> DEFINE x == <<blk.frags[i - 1], i - 1>>
    <3>1. g[i] = Append(g[i - 1], x)
      BY <1>3, <2>4, <2>7
    <3>2. x \in P
      BY <2>7
    <3> HIDE DEF P, x
    <3>3. g[i] \in Seq(P)
      BY <2>5, <3>1, <3>2, AppendProperties
    <3>. QED
      BY <2>2, <3>3
  <2>. QED
    BY <2>6, <2>7
<1>5. g[n] \in Seq(P)
  <2>1. n \in 0 .. n
    BY <1>0
  <2>. QED
    BY <1>4, <2>1
<1>6. \A x \in P : x[2] \in DOMAIN blk.frags
  OBVIOUS
<1> HIDE DEF P
<1>7. \A j \in DOMAIN g[n] : g[n][j] \in P
  BY <1>5, LenProperties, ElementOfSeq
<1>. QED
  BY <1>2, <1>6, <1>7 DEF ToSet

\* The packets a block lacks are its own, not returned, and not among those it still has.
LEMMA MissingNone ==
  ASSUME NEW z, NEW f \in BlockId, NEW a, NEW D, NEW s,
         OnTrack(z, f, s), Once(z, f, a, D, s), NEW c \in DOMAIN s.rx_blocks,
         NEW x \in Missing(s.rx_blocks[c])
  PROVE  /\ x[1] = Place(f, c) /\ x \notin Returned(D, s)
         /\ x \notin ToSet(Systematic(s.rx_blocks[c], s.rx_blocks[c].released))
<1> DEFINE blk == s.rx_blocks[c]
           r   == blk.released
           src == blk.frags[CHOOSE i \in DOMAIN blk.frags : TRUE]
           b   == Place(f, c)
<1>1. Unreturned(f, D, s, c, r)
  BY TrackHeld DEF Once, OneAt
<1>2. b \in Nat
  BY TrackHeld
<1>3. blk.sdu \in Nat /\ r \in Nat /\ DOMAIN blk.frags # {}
  BY DEF OnTrack, RxOK, InRange, BlockOK
<1>4. \A i \in DOMAIN blk.frags : blk.frags[i] = b
  BY DEF OnTrack, BlockAt
<1>5. src = b
  BY <1>3, <1>4
<1>6. PICK i \in r .. blk.sdu - 1 : x = <<src, i>> /\ i \notin DOMAIN blk.frags
  BY DEF Missing
<1> HIDE DEF blk, r, src, b
<1>7. x = <<b, i>> /\ x[2] = i /\ i \in Nat /\ i >= r
  BY <1>3, <1>5, <1>6
<1>8. x \notin Returned(D, s)
  BY <1>1, <1>7 DEF Unreturned, b
<1>9. x \notin ToSet(Systematic(blk, r))
  BY <1>2, <1>3, <1>4, <1>6, <1>7, SystematicHeld
<1>. QED
  BY <1>7, <1>8, <1>9 DEF b, blk, r

\* Returning packets of a block that is here.
LEMMA EmitSpares ==
  ASSUME NEW z, NEW f, NEW D, NEW s, DOMAIN s = Fields, s.out \in Seq(Pkt(z)),
         NEW q \in Seq(Pkt(z)),
         \A x \in ToSet(q) : \E c \in BlockId : Here(s, c) /\ Place(f, c) = x[1]
  PROVE  Spares(f, D, s, emit_payloads(s, q))
<1> DEFINE t == emit_payloads(s, q)
<1>1. CASE q = <<>>
  BY <1>1 DEF emit_payloads, Spares
<1>2. CASE q # <<>>
  <2>1. t = [s EXCEPT !.out = @ \o q, !.last_payload_emit = 0]
    BY <1>2 DEF emit_payloads
  <2> HIDE DEF t
  <2>2. t.out = s.out \o q /\ t.lost = s.lost /\ t.rx_blocks = s.rx_blocks
        /\ t.ready_blocks = s.ready_blocks
    BY <2>1 DEF Fields
  <2> DEFINE P == Pkt(z)
  <2>3. ToSet(t.out) = ToSet(s.out) \cup ToSet(q)
    <3>1. s.out \in Seq(P) /\ q \in Seq(P)
      OBVIOUS
    <3> HIDE DEF P
    <3>2. PICK w : w = s.out
      OBVIOUS
    <3>3. /\ DOMAIN (w \o q) = 1 .. Len(w) + Len(q) /\ DOMAIN w = 1 .. Len(w)
          /\ DOMAIN q = 1 .. Len(q) /\ Len(w) \in Nat /\ Len(q) \in Nat
          /\ \A i \in 1 .. Len(w) + Len(q) :
               (w \o q)[i] = IF i <= Len(w) THEN w[i] ELSE q[i - Len(w)]
      BY <3>1, <3>2, LenProperties, ConcatProperties
    <3>4. \A i \in 1 .. Len(w) : i \in 1 .. Len(w) + Len(q) /\ i <= Len(w)
      BY <3>3
    <3>5. \A i \in 1 .. Len(q) : /\ i + Len(w) \in 1 .. Len(w) + Len(q)
                                 /\ ~(i + Len(w) <= Len(w)) /\ i + Len(w) - Len(w) = i
      BY <3>3
    <3>6. \A i \in 1 .. Len(w) + Len(q) : ~(i <= Len(w)) => i - Len(w) \in 1 .. Len(q)
      BY <3>3
    <3>7. \A i \in 1 .. Len(w) + Len(q) : i <= Len(w) => i \in 1 .. Len(w)
      BY <3>3
    <3>8. ToSet(w \o q) \subseteq ToSet(w) \cup ToSet(q)
      <4>1. \A i \in DOMAIN (w \o q) : (w \o q)[i] \in ToSet(w) \cup ToSet(q)
        BY <3>3, <3>6, <3>7 DEF ToSet
      <4>. QED
        BY <4>1 DEF ToSet
    <3>9. ToSet(w) \subseteq ToSet(w \o q)
      <4>1. \A i \in DOMAIN w : w[i] = (w \o q)[i] /\ i \in DOMAIN (w \o q)
        BY <3>3, <3>4
      <4>. QED
        BY <4>1 DEF ToSet
    <3>10. ToSet(q) \subseteq ToSet(w \o q)
      <4>1. \A i \in DOMAIN q : q[i] = (w \o q)[i + Len(w)] /\ i + Len(w) \in DOMAIN (w \o q)
        BY <3>3, <3>5
      <4>. QED
        BY <4>1 DEF ToSet
    <3>. QED
      BY <2>2, <3>2, <3>8, <3>9, <3>10
  <2>4. Spares(f, D, s, t)
    BY <2>2, <2>3 DEF Spares, Returned, Here
  <2>. QED
    BY <2>4 DEF t
<1>. QED
  BY <1>1, <1>2

\* The same, of a block of which the packets have their place.
LEMMA EmitOfSpares ==
  ASSUME NEW z, NEW f, NEW D, NEW s, DOMAIN s = Fields, s.out \in Seq(Pkt(z)),
         NEW q \in Seq(Pkt(z)), NEW c \in BlockId, Here(s, c),
         ToSet(q) \subseteq {Place(f, c)} \X Nat
  PROVE  Spares(f, D, s, emit_payloads(s, q))
<1>1. \A x \in ToSet(q) : Place(f, c) = x[1]
  OBVIOUS
<1>. QED
  BY <1>1, EmitSpares

\* t differs from s in neither the results nor the blocks, but for what has become of those.
Alike(s, t) ==
  /\ t.out = s.out /\ t.lost = s.lost
  /\ DOMAIN t.rx_blocks \subseteq DOMAIN s.rx_blocks
  /\ DOMAIN t.ready_blocks \subseteq DOMAIN s.ready_blocks
LEMMA AlikeSpares ==
  ASSUME NEW f, NEW D, NEW s, NEW t, Alike(s, t)
  PROVE  Spares(f, D, s, t)
BY DEF Alike, Spares, Returned, Here

\* Streaming loses nothing.
LEMMA StreamSpares ==
  ASSUME NEW z, NEW f \in BlockId, NEW a, NEW D, NEW s,
         OnTrack(z, f, s), Once(z, f, a, D, s), NEW id \in DOMAIN s.rx_blocks
  PROVE  Spares(f, D, s, try_stream_head_systematic(s, id))
<1> DEFINE blk  == s.rx_blocks[id]
           R(r) == /\ \A i \in blk.released .. r - 1 : i \in DOMAIN blk.frags
                   /\ r = blk.sdu \/ r \notin DOMAIN blk.frags
           stop == CHOOSE r \in blk.released .. blk.sdu : R(r)
           pkts == [j \in 1 .. stop - blk.released |->
                      <<blk.frags[blk.released + j - 1], blk.released + j - 1>>]
           e    == emit_payloads(s, pkts)
           t    == try_stream_head_systematic(s, id)
           b    == Place(f, id)
<1>1. /\ DOMAIN blk = BlockFields /\ blk.sdu \in Nat /\ blk.released \in 0 .. blk.sdu
      /\ DOMAIN s = Fields /\ id \in BlockId
  BY DEF InRange, BlockOK, OnTrack, RxOK, QueueOK
<1>2. t = [e EXCEPT !.rx_blocks[id].released = stop]
  BY DEF try_stream_head_systematic
<1>3. stop \in blk.released .. blk.sdu /\ R(stop)
  <2>1. \E r \in blk.released .. blk.sdu : R(r)
    BY <1>1, StopExists
  <2> HIDE DEF R, blk
  <2>. QED
    BY <2>1
<1>4. \A i \in DOMAIN blk.frags : blk.frags[i] = b
  BY DEF OnTrack, BlockAt
<1>5. Unreturned(f, D, s, id, blk.released)
  BY <1>1 DEF Once, OneAt
<1> DEFINE m == stop - blk.released
           r == blk.released
<1>6. /\ m \in Nat /\ r \in Nat /\ r + m = stop
      /\ \A j \in 1 .. m : r + j - 1 \in r .. stop - 1
  <2> HIDE DEF stop, blk
  <2>. QED
    BY <1>1, <1>3
<1>7. b \in Nat /\ Len(z) \in Nat /\ b < Len(z)
  BY TrackHeld DEF OnTrack
<1>8. IsRun(pkts, b, r, m)
  <2>1. pkts = [j \in 1 .. m |-> <<blk.frags[r + j - 1], r + j - 1>>]
    BY DEF m, r
  <2>2. \A j \in 1 .. m : r + j - 1 \in DOMAIN blk.frags
    BY <1>3, <1>6
  <2> HIDE DEF pkts, b, m, r, stop
  <2>3. \A j \in 1 .. m : blk.frags[r + j - 1] = b
    BY <1>4, <2>2
  <2> HIDE DEF blk
  <2>. QED
    BY <2>1, <2>3 DEF IsRun
<1> HIDE DEF stop, pkts, m, r, blk, t, b
<1>9. pkts \in Seq(Pkt(z)) /\ ToSet(pkts) \subseteq PktRun(b, r, m)
  <2>1. Unreturned(f, D, s, id, r)
    BY <1>5 DEF r
  <2>2. pkts \in Seq(Pkt(z)) /\ ToSet(pkts) \subseteq PktRun(Place(f, id), r, m)
    BY <1>6, <1>7, <1>8, <2>1, RunFresh DEF b
  <2>. QED
    BY <2>2 DEF b
<1>10. Spares(f, D, s, e)
  <2>1. Here(s, id) /\ s.out \in Seq(Pkt(z))
    BY DEF Here, Once, FreshOut
  <2>2. \A x \in ToSet(pkts) : Place(f, id) = x[1]
    BY <1>9 DEF PktRun, b
  <2>. QED
    BY <1>1, <1>9, <2>1, <2>2, EmitSpares
<1>11. DOMAIN e = Fields /\ e.rx_blocks = s.rx_blocks /\ e.ready_blocks = s.ready_blocks
  BY <1>1, EmitStill
<1> HIDE DEF e
<1>12. Alike(e, t)
  BY <1>2, <1>11 DEF Alike, Fields
<1>13. Spares(f, D, s, t)
  BY <1>10, <1>12, AlikeSpares, SparesTrans
<1>. QED
  BY <1>13 DEF t

\* Draining the queue loses nothing.
LEMMA DrainSpares ==
  ASSUME RingMod \div 2 <= DoneMax, NEW z, NEW f \in BlockId, NEW a, Airborne(z, a), NEW D,
         NEW s, OnTrack(z, f, s), Once(z, f, a, D, s)
  PROVE  Spares(f, D, s, DrainHead(s))
<1> DEFINE m    == RunLength(DOMAIN s.ready_blocks, s.emit_next)
           ids  == IdsFrom(s.emit_next, m)
           q    == ReadyPkts(s, ids, m)
           pkts == FlattenSeq(q)
           e    == emit_payloads(s, pkts)
           u    == PassHead(e, m)
           gone == IdSet(ids, m)
           t    == Emptied(s)
<1>1. /\ m \in 0 .. RingMod /\ DOMAIN s = Fields /\ s.emit_next \in BlockId
      /\ \A j \in 0 .. m - 1 : wire_block_id(s.emit_next + j) \in DOMAIN s.ready_blocks
      /\ DOMAIN s.ready_blocks \subseteq BlockId /\ s.out \in Seq(Pkt(z))
  BY RunLengthOK DEF RxOK, QueueOK, OnTrack, Once, FreshOut
<1>2. t = [u EXCEPT !.ready_blocks = Without(@, gone)]
  BY DEF Emptied
<1>3. OnTrack(z, f, t) /\ Once(z, f, a, D, t)
  BY EmptiedOnce
<1>4. DrainHead(s) = IF t.emit_next \in DOMAIN t.rx_blocks
                     THEN try_stream_head_systematic(t, t.emit_next) ELSE t
  BY DrainIs
<1> HIDE DEF m, t
<1>5. Owed(z, f, D, s, m, ids, q) /\ IdSet(ids, m) = Passing(s.emit_next, m)
  BY <1>1, ReadyOwed
<1>6. \A j \in 1 .. m : ids[j] \in DOMAIN s.ready_blocks
  <2>1. Passing(s.emit_next, m) \subseteq DOMAIN s.ready_blocks
    BY <1>1 DEF Passing
  <2>. QED
    BY <1>5, <2>1 DEF IdSet
<1> HIDE DEF ids, q
<1>7. /\ pkts \in Seq(Pkt(z))
      /\ \A x \in ToSet(pkts) : \E j \in 1 .. m : Place(f, ids[j]) = x[1]
  BY <1>5, OwedJoined
<1> HIDE DEF pkts
<1>8. \A x \in ToSet(pkts) : \E c \in BlockId : Here(s, c) /\ Place(f, c) = x[1]
  BY <1>1, <1>6, <1>7 DEF Here
<1>9. Spares(f, D, s, e)
  BY <1>1, <1>7, <1>8, EmitSpares
<1>10. DOMAIN e = Fields /\ e.rx_blocks = s.rx_blocks /\ e.ready_blocks = s.ready_blocks
  BY <1>1, EmitStill
<1> HIDE DEF e
<1>11. /\ DOMAIN u = Fields /\ u.rx_blocks = e.rx_blocks /\ u.ready_blocks = e.ready_blocks
       /\ u.out = e.out /\ u.lost = e.lost
  BY <1>10, PassHeadOnward, PassHeadRest
<1> HIDE DEF u
<1>12. Alike(e, t)
  BY <1>2, <1>11 DEF Alike, Fields, Without
<1>13. Spares(f, D, s, t)
  BY <1>9, <1>12, AlikeSpares, SparesTrans
<1>14. CASE t.emit_next \in DOMAIN t.rx_blocks
  <2>1. Spares(f, D, t, try_stream_head_systematic(t, t.emit_next))
    BY <1>3, <1>14, StreamSpares
  <2>. QED
    BY <1>4, <1>13, <1>14, <2>1, SparesTrans
<1>15. CASE t.emit_next \notin DOMAIN t.rx_blocks
  BY <1>4, <1>13, <1>15
<1>. QED
  BY <1>14, <1>15

\* Every shard a receiver holds has an index below n.
Whole(s) == \A c \in DOMAIN s.rx_blocks : DOMAIN s.rx_blocks[c].frags \subseteq 0 .. N - 1

\* Fewer blocks, with the same shards.
LEMMA WholeFewer ==
  ASSUME NEW s, NEW t, Whole(s), Fewer(s, t)
  PROVE  Whole(t)
BY DEF Whole, Fewer, SameShards

\* A block with n shards lacks none.
LEMMA FullLacksNone ==
  ASSUME NEW z, NEW f, NEW s, NEW c \in DOMAIN s.rx_blocks, OnTrack(z, f, s), Whole(s),
         z[Place(f, c) + 1].sdu <= N,
         Cardinality(DOMAIN s.rx_blocks[c].frags) >= s.rx_blocks[c].n
  PROVE  Missing(s.rx_blocks[c]) = {}
<1> DEFINE blk == s.rx_blocks[c]
           F   == DOMAIN blk.frags
<1>1. F \subseteq 0 .. N - 1 /\ Cardinality(F) >= N /\ N \in Nat
  BY LinkAssumption DEF Whole, OnTrack, BlockAt
<1>2. IsFiniteSet(0 .. N - 1) /\ Cardinality(0 .. N - 1) = N
  BY <1>1, CountTo
<1>3. blk.sdu <= N /\ blk.sdu \in Nat /\ blk.released \in Nat
  BY DEF OnTrack, BlockAt, RxOK, InRange, BlockOK
<1> HIDE DEF F
<1>4. F = 0 .. N - 1
  <2>1. Cardinality(F) <= Cardinality(0 .. N - 1) /\ Cardinality(F) \in Nat
    BY <1>1, <1>2, FS_Subset, FS_CardinalityType
  <2>2. Cardinality(F) = Cardinality(0 .. N - 1)
    BY <1>1, <1>2, <2>1
  <2>. QED
    BY <1>1, <1>2, <2>2, FS_Subset
<1>5. \A j \in blk.released .. blk.sdu - 1 : j \in F
  BY <1>1, <1>3, <1>4
<1>. QED
  BY <1>5 DEF Missing, F

\* The block at the head is given up.
LEMMA AbandonHeadDrops ==
  ASSUME NEW z, NEW f \in BlockId, NEW a, NEW D, NEW s, OnTrack(z, f, s), Once(z, f, a, D, s),
         s.emit_next \in DOMAIN s.rx_blocks,
         Place(f, s.emit_next) \notin DOMAIN a \/ Missing(s.rx_blocks[s.emit_next]) = {}
  PROVE  Drops(f, a, D, s, abandon_partial_block([s EXCEPT !.rx_blocks = Without(@, {s.emit_next})],
                                                 s.rx_blocks[s.emit_next], s.emit_next),
               Missing(s.rx_blocks[s.emit_next]))
<1> DEFINE h == s.emit_next
           M == Missing(s.rx_blocks[h])
           u == [s EXCEPT !.rx_blocks = Without(@, {h})]
           q == Systematic(s.rx_blocks[h], s.rx_blocks[h].released)
           v == emit_payloads(s, q)
           e == emit_payloads(u, q)
           x == [e EXCEPT !.lost = @ \cup M]
           t == [PassHead(x, 1) EXCEPT !.later_block_since = Never]
<1>1. DOMAIN s = Fields /\ DOMAIN u = Fields /\ u.emit_next = h /\ h \in BlockId
      /\ s.out \in Seq(Pkt(z)) /\ h \notin DOMAIN s.ready_blocks
  BY DEF OnTrack, RxOK, QueueOK, Fields, Once, FreshOut
<1>2. abandon_partial_block(u, s.rx_blocks[h], h) = t
  BY <1>1 DEF abandon_partial_block
<1>3. /\ q \in Seq(Pkt(z)) /\ IsInjective(q) /\ ToSet(q) \cap Returned(D, s) = {}
      /\ ToSet(q) \subseteq {Place(f, h)} \X Nat
  BY CollectedFresh
<1>4. \A y \in M : y[1] = Place(f, h) /\ y \notin Returned(D, s) /\ y \notin ToSet(q)
  BY MissingNone
<1> HIDE DEF q, M
<1>5. Gave(D, s, v, ToSet(q)) /\ DOMAIN v = Fields /\ v.lost = s.lost
  <2>1. FreshOut(z, D, s)
    BY DEF Once
  <2>2. Gave(D, s, v, ToSet(q)) /\ DOMAIN v = Fields
    BY <1>1, <1>3, <2>1, EmitOnce
  <2>3. v.lost = s.lost
    BY <1>1 DEF emit_payloads, Fields
  <2>. QED
    BY <2>2, <2>3
<1>6. /\ e.out = v.out /\ e.lost = v.lost /\ DOMAIN e = Fields
      /\ e.rx_blocks = Without(s.rx_blocks, {h}) /\ e.ready_blocks = s.ready_blocks
  BY <1>1 DEF emit_payloads, Fields
<1> HIDE DEF e, v
<1>7. /\ DOMAIN x = Fields /\ x.lost = s.lost \cup M /\ x.out = v.out
      /\ x.rx_blocks = Without(s.rx_blocks, {h}) /\ x.ready_blocks = s.ready_blocks
  BY <1>5, <1>6 DEF Fields
<1> HIDE DEF x
<1>8. /\ t.lost = s.lost \cup M /\ t.out = v.out
      /\ t.rx_blocks = Without(s.rx_blocks, {h}) /\ t.ready_blocks = s.ready_blocks
  BY <1>7, PassHeadOnward, PassHeadRest DEF Fields
<1> HIDE DEF t
<1>9. Returned(D, t) = Returned(D, s) \cup ToSet(q)
  BY <1>5, <1>8 DEF Gave, Returned
<1>10. Here(s, h) /\ ~Here(t, h) /\ \A c \in BlockId : Here(t, c) => Here(s, c)
  BY <1>1, <1>8 DEF Here, Without
<1>11. Drops(f, a, D, s, t, M)
  <2>1. \A y \in ToSet(q) : Place(f, h) = y[1]
    BY <1>3
  <2>2. \A y \in M : y[1] \notin DOMAIN a
    BY <1>4 DEF M
  <2>. QED
    BY <1>1, <1>4, <1>8, <1>9, <1>10, <2>1, <2>2 DEF Drops
<1>. QED
  BY <1>2, <1>11 DEF M

------------------------------------------------------------------------------

(* The hold is never older than the block it waits for.                     *)

\* A hold that is running is no older than the block at the head, if shards of that can
\* still arrive; and it has just started, or there is no decoded block at the head.
Timely(f, a, s) ==
  s.later_block_since # Never =>
    /\ Place(f, s.emit_next) \in DOMAIN a => s.later_block_since <= a[Place(f, s.emit_next)]
    /\ s.emit_next \in DOMAIN s.ready_blocks => s.later_block_since = 0

\* A hold that ends, starts, or goes on with the same head.
LEMMA TimelyStill ==
  ASSUME NEW z, NEW f, NEW a, Airborne(z, a), NEW s, NEW t, Timely(f, a, s),
         \/ t.later_block_since \in {Never, 0}
         \/ /\ t.later_block_since = s.later_block_since /\ t.emit_next = s.emit_next
            /\ DOMAIN t.ready_blocks \subseteq DOMAIN s.ready_blocks
  PROVE  Timely(f, a, t)
<1>1. \A b \in DOMAIN a : 0 <= a[b]
  BY DEF Airborne
<1>. QED
  BY <1>1 DEF Timely

\* The drain moves the head only past decoded blocks, with a hold that has just started.
LEMMA DrainTimely ==
  ASSUME NEW z, NEW f \in BlockId, NEW a, Airborne(z, a), NEW s, OnTrack(z, f, s), Timely(f, a, s)
  PROVE  Timely(f, a, DrainHead(s))
<1> DEFINE t == DrainHead(s)
<1> SUFFICES Timely(f, a, t)
  OBVIOUS
<1>1. PICK m \in 0 .. RingMod :
         /\ Onward(s, t, m)
         /\ \A j \in 0 .. m - 1 : wire_block_id(s.emit_next + j) \in DOMAIN s.ready_blocks
         /\ DOMAIN t.ready_blocks \subseteq DOMAIN s.ready_blocks
  BY DrainOnward DEF OnTrack
<1>2. s.emit_next \in BlockId /\ s.emit_next \in Nat /\ wire_block_id(s.emit_next + 0) = s.emit_next
  <2>1. s.emit_next \in BlockId
    BY TrackPlaces
  <2>2. s.emit_next \in Nat
    BY <2>1 DEF BlockId
  <2>3. s.emit_next + 0 = s.emit_next
    BY <2>2
  <2>4. wire_block_id(s.emit_next) = s.emit_next
    BY <2>1, RingAssumption DEF wire_block_id, BlockId
  <2>. QED
    BY <2>1, <2>2, <2>3, <2>4
<1> HIDE DEF t
<1>3. CASE m = 0
  <2>1. /\ t.later_block_since = s.later_block_since /\ t.emit_next = s.emit_next
        /\ DOMAIN t.ready_blocks \subseteq DOMAIN s.ready_blocks
    BY <1>1, <1>2, <1>3 DEF Onward
  <2>. QED
    BY <2>1 DEF Timely
<1>4. CASE m # 0
  <2>1. s.emit_next \in DOMAIN s.ready_blocks
    <3>1. 0 \in 0 .. m - 1
      BY <1>4
    <3>. QED
      BY <1>1, <1>2, <3>1
  <2>2. t.later_block_since \in {Never, 0}
    BY <1>1, <2>1 DEF Timely, Onward
  <2>3. \A b \in DOMAIN a : 0 <= a[b]
    BY DEF Airborne
  <2>. QED
    BY <2>2, <2>3 DEF Timely
<1>. QED
  BY <1>3, <1>4

\* Every block sent has two packets or more, and no more than the code takes.
Sizes(z) == \A b \in 0 .. Len(z) - 1 : z[b + 1].sdu \in 2 .. K

\* What is lost stays lost, and no block of which shards can still arrive will be given up.
Counted(z, f, a, D, W, s) == Final(z, f, a, D, W, s) /\ Whole(s) /\ Timely(f, a, s)

\* Draining the queue.
LEMMA DrainCounted ==
  ASSUME RingMod \div 2 <= DoneMax, NEW z, NEW f \in BlockId, NEW a, Airborne(z, a), NEW D,
         NEW W, NEW s, OnTrack(z, f, s), Once(z, f, a, D, s), Counted(z, f, a, D, W, s)
  PROVE  Counted(z, f, a, D, W, DrainHead(s))
<1>1. Fewer(s, DrainHead(s))
  BY DrainOnward DEF Onward, OnTrack
<1>. QED
  BY <1>1, DrainSpares, SparesFinal, WholeFewer, DrainTimely DEF Counted

\* Giving up the head: of a block that has its shards no packet is lost, and a hold that is
\* over is older than what can still arrive.
LEMMA GiveUpCounted ==
  ASSUME MaxDelay <= EmitHold, NEW z, Sizes(z), NEW f \in BlockId, NEW a, Airborne(z, a),
         NEW D, NEW W, NEW s, OnTrack(z, f, s), s.emit_next \notin DOMAIN s.ready_blocks,
         Once(z, f, a, D, s), Counted(z, f, a, D, W, s)
  PROVE  Counted(z, f, a, D, W, maybe_give_up_head(s))
<1> DEFINE t == maybe_give_up_head(s)
           e == s.emit_next
           b == Place(f, e)
           M == Missing(s.rx_blocks[e])
           A == abandon_partial_block([s EXCEPT !.rx_blocks = Without(@, {e})],
                                      s.rx_blocks[e], e)
           Full == Cardinality(DOMAIN s.rx_blocks[e].frags) >= s.rx_blocks[e].n
           G == [s EXCEPT !.emit_next = IF ReadyAheadOf(s) # {} THEN NearestReady(s)
                                        ELSE wire_block_id(e + 1),
                          !.later_block_since = Never]
<1>1. t = IF e \in DOMAIN s.rx_blocks THEN IF Full \/ HoldOver(s) THEN A ELSE s
          ELSE IF e \notin DOMAIN s.ready_blocks /\ HoldOver(s) THEN G ELSE s
  BY DEF maybe_give_up_head
<1>2. OnTrack(z, f, t) /\ (t.later_block_since = Never \/ t = s)
  BY GiveUpTrack
<1>3. Timely(f, a, t)
  BY <1>2, TimelyStill DEF Counted
<1>4. DOMAIN s = Fields
  BY DEF OnTrack, RxOK, QueueOK
<1> HIDE DEF t, A, G, Full
<1>5. CASE t = s
  BY <1>5 DEF t
<1>6. CASE e \in DOMAIN s.rx_blocks /\ t = A /\ (Full \/ HoldOver(s))
  <2>1. Fewer(s, A)
    <3> DEFINE u == [s EXCEPT !.rx_blocks = Without(@, {e})]
    <3>1. DOMAIN u = Fields
      BY <1>4 DEF Fields
    <3>2. Fewer(s, u)
      BY <1>4, FewerSame DEF Fields, Without
    <3>3. Fewer(u, A)
      BY <3>1, AbandonFewer DEF A
    <3> HIDE DEF u
    <3>. QED
      BY <3>2, <3>3, FewerTrans
  <2>2. b \notin DOMAIN a \/ M = {}
    <3>1. CASE Full
      <4>1. z[b + 1].sdu <= N
        <5>1. b \in 0 .. Len(z) - 1 /\ K <= N /\ K \in Nat /\ N \in Nat
          BY <1>6, TrackHeld, LinkAssumption DEF OnTrack
        <5> HIDE DEF b
        <5>2. z[b + 1].sdu \in 2 .. K
          BY <5>1 DEF Sizes
        <5>. QED
          BY <5>1, <5>2
      <4>. QED
        BY <1>6, <3>1, <4>1, FullLacksNone DEF Full, Counted
    <3>2. CASE HoldOver(s)
      <4> SUFFICES ASSUME b \in DOMAIN a PROVE FALSE
        OBVIOUS
      <4>1. s.later_block_since <= a[b] /\ s.later_block_since > EmitHold
        BY <3>2 DEF HoldOver, Counted, Timely
      <4>2. a[b] <= MaxDelay /\ a[b] \in Nat /\ MaxDelay \in Nat /\ EmitHold \in Nat
        BY HoldsAre, LinkAssumption DEF Airborne
      <4>3. s.later_block_since \in Nat
        BY <3>2 DEF HoldOver, OnTrack, RxOK, InRange, Age
      <4> HIDE DEF b
      <4>. QED
        BY <4>1, <4>2, <4>3
    <3>. QED
      BY <1>6, <3>1, <3>2
  <2>3. Drops(f, a, D, s, A, M)
    BY <1>6, <2>2, AbandonHeadDrops DEF A
  <2>4. Final(z, f, a, D, W, A)
    BY <2>3, DropsFinal DEF Counted
  <2>. QED
    BY <1>3, <1>6, <2>1, <2>4, WholeFewer DEF Counted, t
<1>7. CASE t = G
  <2>1. G.out = s.out /\ G.lost = s.lost /\ G.rx_blocks = s.rx_blocks
        /\ G.ready_blocks = s.ready_blocks
    BY <1>4 DEF G, Fields
  <2>2. Spares(f, D, s, G)
    BY <2>1, AlikeSpares DEF Alike
  <2>3. Whole(G)
    BY <2>1 DEF Counted, Whole
  <2>. QED
    BY <1>3, <1>7, <2>2, <2>3, SparesFinal DEF Counted, t
<1>. QED
  BY <1>1, <1>5, <1>6, <1>7

\* The emit engine.
LEMMA EngineCounted ==
  ASSUME RingMod \div 2 <= DoneMax, MaxDelay <= EmitHold, NEW z, Sizes(z), NEW f \in BlockId,
         NEW a, Airborne(z, a), NEW D, NEW W, NEW s, OnTrack(z, f, s),
         Once(z, f, a, D, s), Counted(z, f, a, D, W, s)
  PROVE  Counted(z, f, a, D, W, run_emit_engine(s))
<1> DEFINE d == DrainHead(s)
           g == maybe_give_up_head(d)
           t == DrainHead(g)
<1>1. run_emit_engine(s) = t
  BY DEF run_emit_engine, OnTrack
<1>2. OnTrack(z, f, d) /\ d.emit_next \notin DOMAIN d.ready_blocks /\ Once(z, f, a, D, d)
      /\ Counted(z, f, a, D, W, d)
  BY DrainTrack, DrainOnce, DrainCounted
<1> HIDE DEF d
<1>3. OnTrack(z, f, g) /\ Once(z, f, a, D, g) /\ Counted(z, f, a, D, W, g)
  BY <1>2, GiveUpTrack, GiveUpOnce, GiveUpCounted
<1> HIDE DEF g
<1>4. Counted(z, f, a, D, W, t)
  BY <1>3, DrainCounted
<1>. QED
  BY <1>1, <1>4

\* Several blocks are given up, of which nothing can arrive any more.
LEMMA AbandonAllDrops ==
  ASSUME NEW z, NEW f \in BlockId, NEW a, NEW D, NEW s, OnTrack(z, f, s), Once(z, f, a, D, s),
         NEW S, S \subseteq DOMAIN s.rx_blocks, \A c \in S : Place(f, c) \notin DOMAIN a,
         NEW t \in AbandonAll(s, S)
  PROVE  Drops(f, a, D, s, t, UNION {Missing(s.rx_blocks[c]) : c \in S})
<1>1. PICK o \in SetToSeqs(S), m \in 0 .. RingMod :
        t = IF m = 0 THEN GivenUp(s, S, o)
            ELSE [PassHead(GivenUp(s, S, o), m) EXCEPT !.later_block_since = Never]
  BY AbandonWalk
<1> DEFINE q == [j \in 1 .. Len(o) |->
                   LET blk == s.rx_blocks[o[j]] IN Systematic(blk, blk.released)]
           F == FlattenSeq(q)
           e == emit_payloads(s, F)
           x == GivenUp(s, S, o)
           M == UNION {Missing(s.rx_blocks[c]) : c \in S}
           n == Len(o)
<1>2. /\ DOMAIN s = Fields /\ S \subseteq BlockId
      /\ DOMAIN s.rx_blocks \cap DOMAIN s.ready_blocks = {} /\ s.out \in Seq(Pkt(z))
  BY DEF OnTrack, RxOK, QueueOK, Once, FreshOut
<1>3. Owed(z, f, D, s, n, o, q)
  BY AbandonOwed
<1>4. \A j \in 1 .. n : /\ q[j] = Systematic(s.rx_blocks[o[j]], s.rx_blocks[o[j]].released)
                        /\ o[j] \in S
  <2>1. ToSet(o) \subseteq S /\ o \in [1 .. Cardinality(S) -> S]
    BY DEF SetToSeqs, ToSet
  <2>2. n = Cardinality(S)
    <3>1. S \subseteq 0 .. RingMod - 1 /\ RingMod \in Nat
      BY <1>2, RingAssumption DEF BlockId
    <3>2. IsFiniteSet(0 .. RingMod - 1)
      BY <3>1, FS_Interval
    <3>3. Cardinality(S) \in Nat
      BY <3>1, <3>2, FS_Subset, FS_CardinalityType
    <3>. QED
      BY <2>1, <3>3, ASeq
  <2>. QED
    BY <2>1, <2>2
<1> HIDE DEF q
<1>5. /\ F \in Seq(Pkt(z)) /\ IsInjective(F) /\ ToSet(F) \cap Returned(D, s) = {}
      /\ \A y \in ToSet(F) : \E j \in 1 .. n : y \in ToSet(q[j]) /\ Place(f, o[j]) = y[1]
  BY <1>3, OwedFresh, OwedJoined
<1>6. x = [e EXCEPT !.rx_blocks = Without(@, S), !.lost = @ \cup M]
  BY DEF GivenUp, q
<1> HIDE DEF F
<1>7. \A y \in ToSet(F) : \E c \in BlockId : Here(s, c) /\ Place(f, c) = y[1]
  BY <1>2, <1>4, <1>5 DEF Here
<1>8. /\ Gave(D, s, e, ToSet(F)) /\ DOMAIN e = Fields /\ e.lost = s.lost
      /\ e.rx_blocks = s.rx_blocks /\ e.ready_blocks = s.ready_blocks
  <2>1. FreshOut(z, D, s)
    BY DEF Once
  <2>2. e.lost = s.lost
    BY <1>2 DEF emit_payloads, Fields
  <2>. QED
    BY <1>2, <1>5, <2>1, <2>2, EmitOnce
<1> HIDE DEF e
<1>9. /\ DOMAIN x = Fields /\ x.out = e.out /\ x.lost = s.lost \cup M
      /\ x.rx_blocks = Without(s.rx_blocks, S) /\ x.ready_blocks = s.ready_blocks
  BY <1>6, <1>8 DEF Fields
<1> HIDE DEF x, M
<1>10. /\ t.out = e.out /\ t.lost = s.lost \cup M
       /\ t.rx_blocks = Without(s.rx_blocks, S) /\ t.ready_blocks = s.ready_blocks
  <2> DEFINE p == PassHead(x, m)
  <2>1. /\ DOMAIN p = Fields /\ p.rx_blocks = x.rx_blocks /\ p.ready_blocks = x.ready_blocks
        /\ p.out = x.out /\ p.lost = x.lost
    BY <1>9, PassHeadOnward, PassHeadRest
  <2>2. t = IF m = 0 THEN x ELSE [p EXCEPT !.later_block_since = Never]
    BY <1>1 DEF x
  <2> HIDE DEF p
  <2>. QED
    BY <1>9, <2>1, <2>2 DEF Fields
<1>11. Returned(D, t) = Returned(D, s) \cup ToSet(F)
  BY <1>8, <1>10 DEF Gave, Returned
<1>12. /\ \A c \in S : Here(s, c) /\ ~Here(t, c)
       /\ \A c \in BlockId : Here(t, c) => Here(s, c)
  BY <1>2, <1>10 DEF Here, Without
<1>13. ASSUME NEW y \in M
       PROVE  /\ y \notin Returned(D, t) /\ y[1] \notin DOMAIN a
              /\ \E c \in BlockId : Here(s, c) /\ ~Here(t, c) /\ Place(f, c) = y[1]
  <2>1. PICK c \in S : y \in Missing(s.rx_blocks[c])
    BY DEF M
  <2>2. /\ y[1] = Place(f, c) /\ y \notin Returned(D, s)
        /\ y \notin ToSet(Systematic(s.rx_blocks[c], s.rx_blocks[c].released))
    BY <2>1, MissingNone
  <2>3. y \notin ToSet(F)
    <3> SUFFICES ASSUME y \in ToSet(F) PROVE FALSE
      OBVIOUS
    <3>1. PICK j \in 1 .. n : y \in ToSet(q[j]) /\ Place(f, o[j]) = y[1]
      BY <1>5
    <3>2. o[j] = c
      BY <1>2, <1>4, <2>1, <2>2, <3>1, PlaceSame
    <3>. QED
      BY <1>4, <2>2, <3>1, <3>2
  <2>. QED
    BY <1>2, <1>11, <1>12, <2>1, <2>2, <2>3
<1>14. Drops(f, a, D, s, t, M)
  BY <1>7, <1>10, <1>11, <1>12, <1>13 DEF Drops
<1>. QED
  BY <1>14 DEF M

\* What is lost stays lost.
LEMMA AbandonAllCounted ==
  ASSUME NEW z, NEW f \in BlockId, NEW a, Airborne(z, a), NEW D, NEW W,
         NEW s, OnTrack(z, f, s), Once(z, f, a, D, s), Counted(z, f, a, D, W, s),
         NEW S, S \subseteq DOMAIN s.rx_blocks, \A c \in S : Place(f, c) \notin DOMAIN a,
         NEW t \in AbandonAll(s, S)
  PROVE  Counted(z, f, a, D, W, t)
<1>1. Final(z, f, a, D, W, t)
  <2>1. Drops(f, a, D, s, t, UNION {Missing(s.rx_blocks[c]) : c \in S})
    BY AbandonAllDrops
  <2>. QED
    BY <2>1, DropsFinal DEF Counted
<1>2. Fewer(s, t)
  BY AbandonAllFewer DEF OnTrack, RxOK, QueueOK
<1>3. t.later_block_since = Never \/ Still(s, t)
  BY AbandonAllTrack
<1>4. Timely(f, a, t)
  <2>1. CASE t.later_block_since = Never
    BY <2>1 DEF Timely
  <2>2. CASE Still(s, t)
    BY <1>2, <2>2 DEF Timely, Still, Fewer, Counted
  <2>. QED
    BY <1>3, <2>1, <2>2
<1>. QED
  BY <1>1, <1>2, <1>4, WholeFewer DEF Counted

\* t has no block that s has not, and has returned and counted the same; its hold has ended
\* or goes on for the same head.
Milder(s, t) ==
  /\ DOMAIN t = Fields /\ Alike(s, t)
  /\ \A c \in DOMAIN t.rx_blocks : t.rx_blocks[c] = s.rx_blocks[c]
  /\ \/ t.later_block_since = Never
     \/ t.later_block_since = s.later_block_since /\ t.emit_next = s.emit_next
LEMMA MilderTrans ==
  ASSUME NEW s, NEW t, NEW u, Milder(s, t), Milder(t, u)
  PROVE  Milder(s, u)
BY DEF Milder, Alike
LEMMA MilderCounted ==
  ASSUME NEW z, NEW f, NEW a, NEW D, NEW W, NEW s, NEW t, Counted(z, f, a, D, W, s), Milder(s, t)
  PROVE  Counted(z, f, a, D, W, t)
<1>1. Final(z, f, a, D, W, t)
  BY AlikeSpares, SparesFinal DEF Counted, Milder
<1>2. Whole(t)
  BY DEF Counted, Whole, Milder, Alike
<1>3. Timely(f, a, t)
  BY DEF Counted, Timely, Milder, Alike
<1>. QED
  BY <1>1, <1>2, <1>3 DEF Counted

\* The end of every call.
LEMMA EndCounted ==
  ASSUME RingMod \div 2 <= DoneMax, MaxDelay < RxHold, MaxDelay <= EmitHold, NEW z, Sizes(z),
         NEW f \in BlockId, NEW a, Airborne(z, a), NEW D, NEW W, NEW s, OnTrack(z, f, s),
         Once(z, f, a, D, s), Counted(z, f, a, D, W, s), NEW t \in ExpireThenEmit(s)
  PROVE  Counted(z, f, a, D, W, t)
<1> DEFINE d == expire_done(s)
           S == Expired(d)
<1>1. PICK u \in AbandonAll(d, S) : t = run_emit_engine(u)
  BY DEF ExpireThenEmit, expire_rx, Expired
<1>2. /\ OnTrack(z, f, d) /\ Once(z, f, a, D, d) /\ SameTrack(s, d)
      /\ d.out = s.out /\ d.lost = s.lost
      /\ S \subseteq DOMAIN d.rx_blocks /\ \A c \in S : Place(f, c) \notin DOMAIN a
  BY ExpiryOnce
<1> HIDE DEF d, S
<1>3. Counted(z, f, a, D, W, d)
  <2>1. Milder(s, d)
    BY <1>2 DEF Milder, Alike, SameTrack, OnTrack, RxOK, QueueOK
  <2>. QED
    BY <2>1, MilderCounted
<1>4. OnTrack(z, f, u) /\ Once(z, f, a, D, u) /\ Counted(z, f, a, D, W, u)
  BY <1>2, <1>3, AbandonAllTrack, AbandonAllOnce, AbandonAllCounted
<1>. QED
  BY <1>1, <1>4, EngineCounted

\* What push_air does before the eviction returns and counts nothing.
LEMMA PreparedMilder ==
  ASSUME NEW s, DOMAIN s = Fields, NEW id, ~s.emit_base_set => s.later_block_since = Never
  PROVE  Milder(ClearResults(s), Prepared(s, id))
<1> DEFINE r == ClearResults(s)
           q == note_emit_base(r, id)
           b == maybe_rebase_after_silence(q, id)
           c == touch_newest(b, id)
           d == maybe_resync_on_late_shard(c, id)
<1>1. DOMAIN r = Fields /\ (~r.emit_base_set => r.later_block_since = Never)
  BY DEF ClearResults, Fields
<1>2. Prepared(s, id) = d
  BY DEF Prepared
<1> HIDE DEF r
<1>3. Milder(r, q)
  <2>1. CASE r.emit_base_set
    BY <1>1, <2>1 DEF note_emit_base, Milder, Alike
  <2>2. CASE ~r.emit_base_set
    BY <1>1, <2>2 DEF note_emit_base, Milder, Alike, Fields
  <2>. QED
    BY <2>1, <2>2
<1>4. DOMAIN q = Fields
  BY <1>3 DEF Milder
<1> HIDE DEF q
<1>5. Milder(q, b)
  <2> DEFINE u == [q EXCEPT !.last_shard_rx = 0]
             v == [u EXCEPT !.rx_blocks = EmptyMap, !.ready_blocks = EmptyMap,
                     !.done = <<>>, !.emit_next = id, !.newest = id,
                     !.later_block_since = Never]
  <2>1. b = u \/ b = v
    BY DEF maybe_rebase_after_silence
  <2>2. Milder(q, u)
    BY <1>4 DEF Milder, Alike, Fields
  <2>3. Milder(u, v)
    <3>1. DOMAIN u = Fields
      BY <2>2 DEF Milder
    <3> HIDE DEF u
    <3>2. /\ DOMAIN v = Fields /\ v.rx_blocks = EmptyMap /\ v.ready_blocks = EmptyMap
          /\ v.out = u.out /\ v.lost = u.lost /\ v.later_block_since = Never
      BY <3>1 DEF Fields
    <3> HIDE DEF v
    <3>. QED
      BY <3>2 DEF Milder, Alike, EmptyMap
  <2> HIDE DEF u, v, b
  <2>. QED
    BY <2>1, <2>2, <2>3, MilderTrans
<1>6. DOMAIN b = Fields
  BY <1>5 DEF Milder
<1> HIDE DEF b
<1>7. Milder(b, c)
  BY <1>6 DEF touch_newest, Milder, Alike, Fields
<1>8. DOMAIN c = Fields
  BY <1>7 DEF Milder
<1> HIDE DEF c
<1>9. Milder(c, d)
  <2> DEFINE B(X) == {x \in X : ring_dist(x, id) < 0}
             u == clear_state_behind(c, id)
             v == [u EXCEPT !.emit_next = id, !.later_block_since = Never]
  <2>1. d = c \/ d = v
    BY DEF maybe_resync_on_late_shard
  <2>2. u = [c EXCEPT !.rx_blocks = Without(@, B(DOMAIN @)),
                !.ready_blocks = Without(@, B(DOMAIN @)),
                !.done = forget(@, B(BlockId))]
    BY DEF clear_state_behind
  <2> HIDE DEF u, B, d
  <2>3. /\ DOMAIN u = Fields /\ u.out = c.out /\ u.lost = c.lost
        /\ u.rx_blocks = Without(c.rx_blocks, B(DOMAIN c.rx_blocks))
        /\ u.ready_blocks = Without(c.ready_blocks, B(DOMAIN c.ready_blocks))
    BY <1>8, <2>2 DEF Fields
  <2>4. /\ DOMAIN v = Fields /\ v.out = c.out /\ v.lost = c.lost /\ v.later_block_since = Never
        /\ v.rx_blocks = Without(c.rx_blocks, B(DOMAIN c.rx_blocks))
        /\ v.ready_blocks = Without(c.ready_blocks, B(DOMAIN c.ready_blocks))
    BY <2>3 DEF Fields
  <2> HIDE DEF v
  <2>5. Milder(c, v)
    BY <2>4 DEF Milder, Alike, Without
  <2>6. Milder(c, c)
    BY <1>8 DEF Milder, Alike
  <2>. QED
    BY <2>1, <2>5, <2>6
<1> HIDE DEF d
<1>10. Milder(r, d)
  BY <1>3, <1>5, <1>7, <1>9, MilderTrans
<1>. QED
  BY <1>2, <1>10 DEF r

\* All that push_air does before it looks at the shard's block.
LEMMA BeforeTakeCounted ==
  ASSUME RingMod \div 2 <= DoneMax, MaxDelay < RxHold,
         NEW z, NEW f \in BlockId, NEW a, Airborne(z, a), NEW D, NEW W,
         NEW sh, sh.id \in BlockId,
         Len(z) \in Nat, Len(z) < RingMod \div 2, Place(f, sh.id) < Len(z),
         NEW s, Rested(s), InRange(s),
         s.emit_base_set => OnTrack(z, f, s) /\ Settled(z, f, s),
         ~s.emit_base_set => s.later_block_since = Never,
         Once(z, f, a, D, ClearResults(s)), Counted(z, f, a, D, W, ClearResults(s)),
         NEW t \in BeforeTake(s, sh)
  PROVE  Counted(z, f, a, D, W, t)
<1> DEFINE d == Prepared(s, sh.id)
           Stale(S) == {i \in S : ring_dist(i, d.newest) < -EvictDist}
           old  == Stale(DOMAIN d.rx_blocks)
           ids  == Stale(BlockId)
<1>1. t \in ring_evict_stale(d)
  BY DEF BeforeTake, Prepared
<1>2. OnTrack(z, f, d) /\ Once(z, f, a, D, d)
  BY PreparedOnce
<1>3. Counted(z, f, a, D, W, d)
  <2>1. DOMAIN s = Fields
    BY DEF Rested, QueueOK
  <2>. QED
    BY <2>1, PreparedMilder, MilderCounted
<1> HIDE DEF d
<1>4. PICK v \in AbandonAll(d, old) : t = [v EXCEPT !.done = forget(@, ids)]
  BY <1>1 DEF ring_evict_stale
<1>5. old \subseteq DOMAIN d.rx_blocks /\ DOMAIN d.rx_blocks \subseteq BlockId
  BY <1>2 DEF OnTrack, RxOK, QueueOK
<1>6. \A c \in old : Place(f, c) \notin DOMAIN a
  BY <1>2, <1>5, StaleGone
<1> HIDE DEF old, ids
<1>7. Counted(z, f, a, D, W, v) /\ OnTrack(z, f, v)
  BY <1>2, <1>3, <1>5, <1>6, AbandonAllCounted, AbandonAllTrack
<1>8. DOMAIN v = Fields
  BY <1>7 DEF OnTrack, RxOK, QueueOK
<1>9. Milder(v, t)
  BY <1>4, <1>8 DEF Milder, Alike, Fields
<1>. QED
  BY <1>7, <1>9, MilderCounted

------------------------------------------------------------------------------

(* A shard is taken.                                                        *)

\* A block is taken out and some of its packets are returned.
LEMMA GoneAlike ==
  ASSUME NEW s, DOMAIN s = Fields, NEW id, NEW q
  PROVE  LET e == emit_payloads([s EXCEPT !.rx_blocks = Without(@, {id})], q)
         IN  /\ DOMAIN e = Fields /\ e.lost = s.lost /\ e.out = emit_payloads(s, q).out
             /\ emit_payloads(s, q).lost = s.lost
             /\ e.rx_blocks = Without(s.rx_blocks, {id}) /\ e.ready_blocks = s.ready_blocks
             /\ emit_payloads(s, q).rx_blocks = s.rx_blocks
             /\ emit_payloads(s, q).ready_blocks = s.ready_blocks
             /\ e.emit_next = s.emit_next /\ e.later_block_since = s.later_block_since
BY DEF emit_payloads, Fields

\* So its other packets are not counted.
LEMMA GoneFinal ==
  ASSUME NEW z, NEW f \in BlockId, NEW a, NEW D, NEW W, NEW s, DOMAIN s = Fields,
         s.out \in Seq(Pkt(z)), Counted(z, f, a, D, W, s),
         NEW id \in BlockId, id \in DOMAIN s.rx_blocks,
         NEW q, q \in Seq(Pkt(z)), ToSet(q) \subseteq {Place(f, id)} \X Nat,
         NEW t, t.lost = s.lost, t.out = emit_payloads(s, q).out,
         t.rx_blocks = Without(s.rx_blocks, {id}), t.ready_blocks = s.ready_blocks
  PROVE  Final(z, f, a, D, W, t) /\ Whole(t)
<1> DEFINE e == emit_payloads(s, q)
<1>1. Spares(f, D, s, e)
  BY EmitOfSpares DEF Here
<1>2. e.lost = s.lost /\ e.rx_blocks = s.rx_blocks /\ e.ready_blocks = s.ready_blocks
  BY GoneAlike
<1>3. t.out = e.out
  OBVIOUS
<1> HIDE DEF e
<1>4. Alike(e, t)
  BY <1>2, <1>3 DEF Alike, Without
<1>5. Spares(f, D, s, t)
  BY <1>1, <1>4, AlikeSpares, SparesTrans
<1>6. Final(z, f, a, D, W, t)
  BY <1>5, SparesFinal DEF Counted
<1>7. Whole(t)
  BY DEF Counted, Whole, Without
<1>. QED
  BY <1>6, <1>7

\* A block behind the head is returned, marked and gone.
LEMMA LateCounted ==
  ASSUME NEW z, NEW f \in BlockId, NEW a, Airborne(z, a), NEW D, NEW W,
         NEW s, OnTrack(z, f, s), Once(z, f, a, D, s), Counted(z, f, a, D, W, s),
         NEW id \in DOMAIN s.rx_blocks,
         NEW q, q \in Seq(Pkt(z)), ToSet(q) \subseteq {Place(f, id)} \X Nat
  PROVE  LET e == emit_payloads([s EXCEPT !.rx_blocks = Without(@, {id})], q)
         IN  Counted(z, f, a, D, W, [e EXCEPT !.done = mark_done(@, id)])
<1> DEFINE e == emit_payloads([s EXCEPT !.rx_blocks = Without(@, {id})], q)
           t == [e EXCEPT !.done = mark_done(@, id)]
<1>1. DOMAIN s = Fields /\ id \in BlockId /\ s.out \in Seq(Pkt(z))
  BY DEF OnTrack, RxOK, QueueOK, Once, FreshOut
<1>2. /\ DOMAIN e = Fields /\ e.lost = s.lost /\ e.out = emit_payloads(s, q).out
      /\ e.rx_blocks = Without(s.rx_blocks, {id}) /\ e.ready_blocks = s.ready_blocks
      /\ e.emit_next = s.emit_next /\ e.later_block_since = s.later_block_since
  BY <1>1 DEF emit_payloads, Fields
<1> HIDE DEF e
<1>3. /\ t.lost = s.lost /\ t.out = emit_payloads(s, q).out
      /\ t.rx_blocks = Without(s.rx_blocks, {id}) /\ t.ready_blocks = s.ready_blocks
      /\ t.emit_next = s.emit_next /\ t.later_block_since = s.later_block_since
  BY <1>2 DEF Fields
<1> HIDE DEF t
<1>4. Final(z, f, a, D, W, t) /\ Whole(t)
  <2>1. /\ t.lost = s.lost /\ t.out = emit_payloads(s, q).out
        /\ t.rx_blocks = Without(s.rx_blocks, {id}) /\ t.ready_blocks = s.ready_blocks
    BY <1>3
  <2>. QED
    BY <1>1, <2>1, GoneFinal
<1>5. Timely(f, a, t)
  BY <1>3 DEF Counted, Timely
<1>6. Counted(z, f, a, D, W, t)
  BY <1>4, <1>5 DEF Counted
<1>. QED
  BY <1>6 DEF t, e

\* The block at the head decodes and the head passes it.
LEMMA HeadCounted ==
  ASSUME NEW z, NEW f \in BlockId, NEW a, NEW D, NEW W,
         NEW s, OnTrack(z, f, s), Once(z, f, a, D, s), Counted(z, f, a, D, W, s),
         NEW id \in DOMAIN s.rx_blocks,
         NEW q, q \in Seq(Pkt(z)), ToSet(q) \subseteq {Place(f, id)} \X Nat
  PROVE  LET e == emit_payloads([s EXCEPT !.rx_blocks = Without(@, {id})], q)
         IN  Counted(z, f, a, D, W, [PassHead(e, 1) EXCEPT !.later_block_since = Never])
<1> DEFINE e == emit_payloads([s EXCEPT !.rx_blocks = Without(@, {id})], q)
           p == PassHead(e, 1)
           t == [p EXCEPT !.later_block_since = Never]
<1>1. DOMAIN s = Fields /\ id \in BlockId /\ s.out \in Seq(Pkt(z))
  BY DEF OnTrack, RxOK, QueueOK, Once, FreshOut
<1>2. /\ DOMAIN e = Fields /\ e.lost = s.lost /\ e.out = emit_payloads(s, q).out
      /\ e.rx_blocks = Without(s.rx_blocks, {id}) /\ e.ready_blocks = s.ready_blocks
  BY <1>1 DEF emit_payloads, Fields
<1> HIDE DEF e
<1>3. /\ DOMAIN p = Fields /\ p.lost = e.lost /\ p.out = e.out
      /\ p.rx_blocks = e.rx_blocks /\ p.ready_blocks = e.ready_blocks
  BY <1>2, PassHeadOnward, PassHeadRest
<1> HIDE DEF p
<1>4. /\ t.lost = s.lost /\ t.out = emit_payloads(s, q).out
      /\ t.rx_blocks = Without(s.rx_blocks, {id}) /\ t.ready_blocks = s.ready_blocks
      /\ t.later_block_since = Never
  BY <1>2, <1>3 DEF Fields
<1> HIDE DEF t
<1>5. Final(z, f, a, D, W, t) /\ Whole(t)
  BY <1>1, <1>4, GoneFinal
<1>6. Timely(f, a, t)
  BY <1>4 DEF Timely
<1>7. Counted(z, f, a, D, W, t)
  BY <1>5, <1>6 DEF Counted
<1>. QED
  BY <1>7 DEF t, p, e

\* A block ahead of the head waits.
LEMMA AheadCounted ==
  ASSUME NEW z, NEW f \in BlockId, NEW a, Airborne(z, a), NEW D, NEW W,
         NEW s, OnTrack(z, f, s), Counted(z, f, a, D, W, s),
         NEW id \in DOMAIN s.rx_blocks, id # s.emit_next, NEW rdy
  PROVE  LET w == [s EXCEPT !.rx_blocks = Without(@, {id})]
         IN  Counted(z, f, a, D, W, ArmLater([w EXCEPT !.ready_blocks = With(@, id, rdy)], id))
<1> DEFINE w == [s EXCEPT !.rx_blocks = Without(@, {id})]
           r == [w EXCEPT !.ready_blocks = With(@, id, rdy)]
           t == ArmLater(r, id)
<1>1. DOMAIN s = Fields
  BY DEF OnTrack, RxOK, QueueOK
<1>2. /\ DOMAIN r = Fields /\ r.out = s.out /\ r.lost = s.lost /\ r.emit_next = s.emit_next
      /\ r.rx_blocks = Without(s.rx_blocks, {id}) /\ r.later_block_since = s.later_block_since
      /\ r.ready_blocks = With(s.ready_blocks, id, rdy)
  BY <1>1 DEF Fields
<1> HIDE DEF r
<1>3. /\ t.out = s.out /\ t.lost = s.lost /\ t.emit_next = s.emit_next
      /\ t.rx_blocks = Without(s.rx_blocks, {id})
      /\ t.ready_blocks = With(s.ready_blocks, id, rdy)
      /\ t.later_block_since \in {0, s.later_block_since}
  BY <1>2 DEF ArmLater, Fields
<1> HIDE DEF t
<1>4. /\ \A c \in DOMAIN t.rx_blocks : c \in DOMAIN s.rx_blocks /\ t.rx_blocks[c] = s.rx_blocks[c]
      /\ DOMAIN t.ready_blocks = DOMAIN s.ready_blocks \cup {id}
  BY <1>3 DEF With, Without
<1>5. Final(z, f, a, D, W, t)
  <2>1. Spares(f, D, s, t)
    BY <1>3, <1>4 DEF Spares, Returned, Here
  <2>. QED
    BY <2>1, SparesFinal DEF Counted
<1>6. Whole(t)
  BY <1>4 DEF Counted, Whole
<1>7. Timely(f, a, t)
  <2>1. CASE t.later_block_since = 0
    BY <2>1, TimelyStill DEF Counted
  <2>2. CASE t.later_block_since = s.later_block_since
    BY <1>3, <1>4, <2>2 DEF Counted, Timely
  <2>. QED
    BY <1>3, <2>1, <2>2
<1>8. Counted(z, f, a, D, W, t)
  BY <1>5, <1>6, <1>7 DEF Counted
<1>. QED
  BY <1>8 DEF t, r

\* A block that has its shards is returned, or waits.
LEMMA DecodeCounted ==
  ASSUME RingMod \div 2 <= DoneMax, MaxDelay <= EmitHold, NEW z, Sizes(z), NEW f \in BlockId,
         NEW a, Airborne(z, a), NEW D, NEW W,
         NEW s, OnTrack(z, f, s), Once(z, f, a, D, s), Counted(z, f, a, D, W, s),
         NEW id \in DOMAIN s.rx_blocks
  PROVE  Counted(z, f, a, D, W, try_decode_block(s, id, TRUE))
<1> DEFINE blk == s.rx_blocks[id]
           w   == [s EXCEPT !.rx_blocks = Without(@, {id})]
           rdy == [sdu |-> blk.sdu, released |-> blk.released, payloads |-> DecodedPayloads(blk)]
           q   == Decoded(rdy)
           d   == on_block_decoded(w, id, rdy)
           t   == try_decode_block(s, id, TRUE)
<1>1. /\ DOMAIN s = Fields /\ id \in BlockId /\ s.emit_next \in BlockId
  BY DEF OnTrack, RxOK, QueueOK
<1>2. /\ Place(f, id) \in Nat /\ Place(f, id) < Len(z) /\ Len(z) \in Nat
  BY TrackHeld DEF OnTrack
<1>3. t = IF ~Decodable(blk) THEN run_emit_engine(s) ELSE d
  BY DEF try_decode_block
<1>4. CASE ~Decodable(blk)
  <2>1. Counted(z, f, a, D, W, run_emit_engine(s))
    BY EngineCounted
  <2>. QED
    BY <1>3, <1>4, <2>1
<1>5. ReadyAt(f, rdy, id)
  BY DecodesAt
<1>6. rdy.released = s.rx_blocks[id].released /\ w.emit_next = s.emit_next
  BY <1>1 DEF Fields
<1> HIDE DEF rdy, blk
<1>7. /\ q \in Seq(Pkt(z)) /\ IsInjective(q) /\ ToSet(q) \cap Returned(D, s) = {}
      /\ ToSet(q) \subseteq {Place(f, id)} \X Nat
  <2>1. OneAt(f, a, D, s, id)
    BY <1>1 DEF Once
  <2>2. Unreturned(f, D, s, id, rdy.released)
    BY <1>6, <2>1 DEF OneAt
  <2>. QED
    BY <1>2, <1>5, <2>2, DecodedFresh
<1> HIDE DEF q, w
<1>8. CASE id = s.emit_next
  <2> DEFINE x == emit_payloads(w, q)
             g == [PassHead(x, 1) EXCEPT !.later_block_since = Never]
  <2>1. dist_from_emit(w, id) = 0
    BY <1>1, <1>6, <1>8, DistZero DEF dist_from_emit
  <2>2. d = run_emit_engine(g)
    BY <2>1 DEF on_block_decoded, q
  <2> HIDE DEF d
  <2>3. OnTrack(z, f, g)
    BY <1>8, HeadGoneTrack DEF w
  <2>4. Counted(z, f, a, D, W, g)
    BY <1>7, HeadCounted DEF w
  <2>5. DOMAIN x = Fields /\ LetGo(s, q, x)
    <3>1. DOMAIN x = Fields
      BY <1>1, GoneAlike DEF w
    <3>. QED
      BY <1>8, <3>1 DEF LetGo, w
  <2> HIDE DEF x
  <2>6. Once(z, f, a, D, g)
    <3>1. s.emit_next \in DOMAIN s.rx_blocks /\ ToSet(q) \subseteq {Place(f, s.emit_next)} \X Nat
      BY <1>7, <1>8
    <3>. QED
      BY <1>7, <2>5, <3>1, HeadGoneOnce
  <2> HIDE DEF g
  <2>7. Counted(z, f, a, D, W, d)
    BY <2>2, <2>3, <2>4, <2>6, EngineCounted
  <2>. QED
    BY <1>3, <1>4, <2>7
<1>9. CASE id # s.emit_next
  <2>1. dist_from_emit(w, id) # 0
    BY <1>1, <1>6, <1>9, DistZero DEF dist_from_emit
  <2>2. \/ d = [emit_payloads(w, q) EXCEPT !.done = mark_done(@, id)]
        \/ d = ArmLater([w EXCEPT !.ready_blocks = With(@, id, rdy)], id)
    BY <2>1 DEF on_block_decoded, q
  <2> HIDE DEF d
  <2>3. Counted(z, f, a, D, W, [emit_payloads(w, q) EXCEPT !.done = mark_done(@, id)])
    BY <1>7, LateCounted DEF w
  <2>4. Counted(z, f, a, D, W, ArmLater([w EXCEPT !.ready_blocks = With(@, id, rdy)], id))
    BY <1>9, AheadCounted DEF w
  <2>5. Counted(z, f, a, D, W, d)
    BY <2>2, <2>3, <2>4
  <2>. QED
    BY <1>3, <1>4, <2>5
<1>. QED
  BY <1>8, <1>9

\* A shard that could still arrive is stored: nothing of its block is counted lost.
LEMMA StoredCounted ==
  ASSUME NEW z, NEW f \in BlockId, NEW a, Airborne(z, a), NEW D, NEW W,
         NEW s, OnTrack(z, f, s), Counted(z, f, a, D, W, s),
         NEW sh, OfSession(z, f, sh), Place(f, sh.id) \in DOMAIN a
  PROVE  Counted(z, f, a, D, W, [s EXCEPT !.rx_blocks = With(@, sh.id, Grown(s, sh))])
<1> DEFINE id == sh.id
           b1 == Given(s, sh)
           b2 == Grown(s, sh)
           t  == [s EXCEPT !.rx_blocks = With(@, id, b2)]
<1>1. /\ DOMAIN s = Fields /\ id \in BlockId
      /\ sh.idx \in 0 .. N - 1
  <2>1. sh.idx \in (0 .. sh.sdu - 1) \cup (sh.k .. sh.n - 1)
    BY DEF OfSession, IsShard
  <2>2. sh.n = N /\ sh.k \in 1 .. N /\ sh.sdu \in 1 .. sh.k /\ N \in Nat
    BY DEF OfSession, IsShard
  <2>. QED
    BY <2>1, <2>2 DEF OnTrack, RxOK, QueueOK, OfSession, IsShard
<1>2. /\ t.out = s.out /\ t.lost = s.lost /\ t.emit_next = s.emit_next
      /\ t.rx_blocks = With(s.rx_blocks, id, b2) /\ t.ready_blocks = s.ready_blocks
      /\ t.later_block_since = s.later_block_since
  BY <1>1 DEF Fields
<1>3. DOMAIN b2.frags \subseteq 0 .. N - 1
  <2>1. DOMAIN b1.frags \subseteq 0 .. N - 1
    <3>1. CASE id \in DOMAIN s.rx_blocks
      BY <3>1 DEF Given, Counted, Whole
    <3>2. CASE id \notin DOMAIN s.rx_blocks
      <4>1. b1.frags = EmptyMap
        BY <3>2 DEF Given, NewBlock
      <4>. QED
        BY <4>1 DEF EmptyMap
    <3>. QED
      BY <3>1, <3>2
  <2>2. DOMAIN b1 = BlockFields
    BY DEF OnTrack, RxOK, InRange, BlockOK, Given, NewBlock, BlockFields
  <2> HIDE DEF b1
  <2>3. b2 = [b1 EXCEPT !.frags = With(@, sh.idx, sh.src), !.last_seen = 0]
    BY DEF Grown, b1
  <2> HIDE DEF b2
  <2>4. b2.frags = With(b1.frags, sh.idx, sh.src)
    BY <2>2, <2>3 DEF BlockFields
  <2>. QED
    BY <1>1, <2>1, <2>4 DEF With
<1> HIDE DEF t, b2
<1>4. /\ DOMAIN t.rx_blocks = DOMAIN s.rx_blocks \cup {id} /\ t.rx_blocks[id] = b2
      /\ \A c \in DOMAIN s.rx_blocks : c # id => t.rx_blocks[c] = s.rx_blocks[c]
  BY <1>2 DEF With
<1>5. Final(z, f, a, D, W, t)
  <2>1. Returned(D, t) = Returned(D, s)
    BY <1>2 DEF Returned
  <2>2. \A c \in BlockId : Here(t, c) => Here(s, c) \/ Place(f, c) \in DOMAIN a
    BY <1>2, <1>4 DEF Here
  <2>3. Final(z, f, a, D, W, s)
    BY DEF Counted
  <2>. QED
    BY <1>2, <2>1, <2>2, <2>3 DEF Final
<1>6. Whole(t)
  BY <1>3, <1>4 DEF Counted, Whole
<1>7. Timely(f, a, t)
  BY <1>2 DEF Counted, Timely
<1>8. Counted(z, f, a, D, W, t)
  BY <1>5, <1>6, <1>7 DEF Counted
<1>. QED
  BY <1>8 DEF t, b2

\* It streams, or starts the hold.
LEMMA StreamOrArmCounted ==
  ASSUME NEW z, NEW f \in BlockId, NEW a, Airborne(z, a), NEW D, NEW W,
         NEW s, OnTrack(z, f, s), Once(z, f, a, D, s), Counted(z, f, a, D, W, s),
         NEW id \in DOMAIN s.rx_blocks
  PROVE  Counted(z, f, a, D, W, StreamOrArm(s, id))
<1>1. DOMAIN s = Fields /\ InRange(s)
  BY DEF OnTrack, RxOK, QueueOK
<1>2. CASE id = s.emit_next
  <2> DEFINE t == try_stream_head_systematic(s, id)
  <2>1. Still(s, t) /\ t.ready_blocks = s.ready_blocks
    BY <1>1, StreamStill
  <2>2. Spares(f, D, s, t)
    BY StreamSpares
  <2> HIDE DEF t
  <2>3. Final(z, f, a, D, W, t)
    BY <2>2, SparesFinal DEF Counted
  <2>4. Whole(t)
    BY <2>1, WholeFewer DEF Counted, Still
  <2>5. Timely(f, a, t)
    BY <2>1 DEF Counted, Timely, Still
  <2>6. StreamOrArm(s, id) = t
    BY <1>2 DEF StreamOrArm, t
  <2>. QED
    BY <2>3, <2>4, <2>5, <2>6 DEF Counted
<1>3. CASE id # s.emit_next
  <2> DEFINE t == ArmLater(s, id)
  <2>1. /\ t.out = s.out /\ t.lost = s.lost /\ t.emit_next = s.emit_next
        /\ t.rx_blocks = s.rx_blocks /\ t.ready_blocks = s.ready_blocks
        /\ t.later_block_since \in {0, s.later_block_since}
    BY <1>1 DEF ArmLater, Fields
  <2> HIDE DEF t
  <2>2. Final(z, f, a, D, W, t)
    <3>1. Spares(f, D, s, t)
      BY <2>1 DEF Spares, Returned, Here
    <3>. QED
      BY <3>1, SparesFinal DEF Counted
  <2>3. Whole(t)
    BY <2>1 DEF Counted, Whole
  <2>4. Timely(f, a, t)
    <3>1. CASE t.later_block_since = 0
      BY <3>1, TimelyStill DEF Counted
    <3>2. CASE t.later_block_since = s.later_block_since
      BY <2>1, <3>2 DEF Counted, Timely
    <3>. QED
      BY <2>1, <3>1, <3>2
  <2>5. StreamOrArm(s, id) = t
    BY <1>3 DEF StreamOrArm, t
  <2>. QED
    BY <2>2, <2>3, <2>4, <2>5 DEF Counted
<1>. QED
  BY <1>2, <1>3

\* Whatever the shard is good for, what is lost stays lost.
LEMMA TakeCounted ==
  ASSUME RingMod \div 2 <= DoneMax, MaxDelay <= EmitHold, NEW z, Sizes(z), NEW f \in BlockId,
         NEW a, Airborne(z, a), NEW D, NEW W,
         NEW s, OnTrack(z, f, s), Once(z, f, a, D, s), s.last_shard_rx = 0, Fresh(f, s),
         Counted(z, f, a, D, W, s),
         NEW sh, OfSession(z, f, sh), Place(f, sh.id) \in DOMAIN a, Near(f, s, sh.id),
         Settled(z, f, s) \/ Awaited(f, s, sh.id)
  PROVE  Counted(z, f, a, D, W, TakeShard(s, sh, TRUE))
<1> DEFINE id   == sh.id
           blk  == Given(s, sh)
           b2   == Grown(s, sh)
           t    == [s EXCEPT !.rx_blocks = With(@, id, b2)]
           v    == StreamOrArm(t, id)
           w    == TakeShard(s, sh, TRUE)
           old  == \/ dist_from_emit(s, id) < 0 /\ IsDone(s, id)
                   \/ id \in DOMAIN s.ready_blocks
<1>1. id \in BlockId
  BY DEF OfSession, IsShard
<1>2. w = IF old THEN s
          ELSE IF <<blk.k, blk.n, blk.sdu>> # <<sh.k, sh.n, sh.sdu>>
          THEN abandon_partial_block([s EXCEPT !.rx_blocks = Without(@, {id})], blk, id)
          ELSE IF sh.idx \in DOMAIN blk.frags THEN s
          ELSE try_decode_block(v, id, TRUE)
  BY DEF TakeShard, StoreShard, Given, Grown
<1> HIDE DEF w
<1>3. /\ blk.k = sh.k /\ blk.n = sh.n /\ blk.sdu = sh.sdu
      /\ BlockOK(b2) /\ BlockAt(z, f, b2, id) /\ b2.last_seen = 0
  <2>1. ShardIn(z, f, s, sh)
    BY GrownBlock
  <2>. QED
    BY <2>1 DEF ShardIn
<1> HIDE DEF b2, blk
<1>4. w = s \/ (~old /\ w = try_decode_block(v, id, TRUE))
  BY <1>2, <1>3
<1>5. ASSUME ~old PROVE Counted(z, f, a, D, W, try_decode_block(v, id, TRUE))
  <2>1. /\ OnTrack(z, f, t) /\ Fresh(f, t) /\ Held(z, f, t)
        /\ t.rx_blocks = With(s.rx_blocks, id, b2)
    BY <1>1, <1>3, <1>5, StoredTrack
  <2>2. Once(z, f, a, D, t)
    BY <1>5, StoredOnce DEF b2
  <2>3. Counted(z, f, a, D, W, t)
    BY StoredCounted DEF b2
  <2> HIDE DEF t
  <2>4. id \in DOMAIN t.rx_blocks /\ t.rx_blocks[id].last_seen = 0
    BY <1>3, <2>1 DEF With
  <2>5. OnTrack(z, f, v) /\ DOMAIN v.rx_blocks = DOMAIN t.rx_blocks
    BY <2>1, <2>4, StreamOrArmTrack
  <2>6. Once(z, f, a, D, v) /\ Counted(z, f, a, D, W, v)
    <3>1. OnTrack(z, f, t)
      BY <2>1
    <3>. QED
      BY <2>2, <2>3, <2>4, <3>1, StreamOrArmOnce, StreamOrArmCounted
  <2> HIDE DEF v
  <2>7. id \in DOMAIN v.rx_blocks /\ OnTrack(z, f, v)
    BY <2>4, <2>5
  <2>. QED
    BY <2>6, <2>7, DecodeCounted
<1>6. Counted(z, f, a, D, W, w)
  BY <1>4, <1>5
<1>. QED
  BY <1>6 DEF w

\* push_air.
LEMMA PushCounted ==
  ASSUME RingMod \div 2 <= DoneMax, MaxDelay < RxHold, MaxReorder <= EvictDist,
         MaxDelay <= EmitHold, LinkInv, InRange(fec), NEW f \in BlockId, Session(f),
         Len(sent) < RingMod \div 2, Kept(sent, f, fec),
         NEW z, z = sent, Sizes(z), NEW a, a = air, Airborne(z, a),
         NEW D, Once(z, f, a, D, ClearResults(fec)),
         NEW W, Counted(z, f, a, D, W, ClearResults(fec)),
         NEW b \in DOMAIN air, NEW i \in IndexesSent(b), push_air(ShardOf(b, i)),
         NEW t, t = fec'
  PROVE  Counted(z, f, a, D, W, t)
<1> DEFINE sh == ShardOf(b, i)
<1>1. PICK s \in BeforeTake(fec, sh), ok \in BOOLEAN :
        /\ ~ok => MayFail(s, sh)
        /\ t \in ExpireThenEmit(TakeShard(s, sh, ok))
  BY DEF push_air
<1>2. OfSession(sent, f, sh) /\ Place(f, sh.id) = b /\ b \in Nat /\ Len(sent) - 1 - b <= EvictDist
  BY ArrivesOnTrack DEF LinkInv
<1> HIDE DEF sh
<1>3. sh.id \in BlockId /\ Place(f, sh.id) < Len(sent) /\ Len(sent) \in Nat
  BY <1>2, LenProperties DEF OfSession, IsShard, LinkInv, SenderOK
<1>4. /\ fec.emit_base_set => OnTrack(z, f, fec) /\ Settled(z, f, fec)
      /\ ~fec.emit_base_set => fec.later_block_since = Never
  BY DEF Kept, Settled, LinkInv, Rested
<1>5. Rested(fec)
  BY DEF LinkInv
<1>6. PICK x : x = fec
  OBVIOUS
<1>7. /\ sh.id \in BlockId /\ Len(z) \in Nat /\ Len(z) < RingMod \div 2 /\ Place(f, sh.id) < Len(z)
      /\ Rested(x) /\ InRange(x) /\ s \in BeforeTake(x, sh)
      /\ x.emit_base_set => OnTrack(z, f, x) /\ Settled(z, f, x)
      /\ ~x.emit_base_set => x.later_block_since = Never
  BY <1>1, <1>3, <1>4, <1>5, <1>6
<1>8. /\ OnTrack(z, f, s) /\ Fresh(f, s) /\ Place(f, sh.id) <= Place(f, s.newest)
      /\ Settled(z, f, s) \/ Awaited(f, s, sh.id)
  BY <1>7, BeforeTakeTrack
<1>9. Near(f, s, sh.id)
  <2> DEFINE n == Place(f, s.newest)
             l == Len(sent)
  <2>1. n \in Nat /\ n < l /\ l \in Nat /\ l - 1 - b <= EvictDist /\ EvictDist \in Nat
    BY <1>2, <1>3, <1>8, TrackPlaces, RxAssumption DEF OnTrack
  <2>2. b >= n - EvictDist
    <3> HIDE DEF n, l
    <3>. QED
      BY <1>2, <2>1
  <2>. QED
    BY <1>2, <1>8, <2>2 DEF Near
<1>10. OfSession(z, f, sh) /\ Place(f, sh.id) \in DOMAIN a
  BY <1>2
<1>11. ok = TRUE
  <2>1. OnTrack(z, f, s)
    BY <1>8
  <2>. QED
    BY <1>1, <1>10, <2>1, NeverFails
<1> DEFINE w == TakeShard(s, sh, TRUE)
<1>12. t \in ExpireThenEmit(w)
  BY <1>1, <1>11
<1>13. OnTrack(z, f, w)
  BY <1>8, <1>9, <1>10, TakeTrack
<1>14. Once(z, f, a, D, s) /\ s.last_shard_rx = 0 /\ Counted(z, f, a, D, W, s)
  <2>1. Once(z, f, a, D, ClearResults(x)) /\ Counted(z, f, a, D, W, ClearResults(x))
    BY <1>6
  <2>. QED
    BY <1>7, <2>1, BeforeTakeOnce, BeforeTakeCounted
<1>15. Once(z, f, a, D, w) /\ Counted(z, f, a, D, W, w)
  <2>1. OnTrack(z, f, s) /\ Fresh(f, s) /\ (Settled(z, f, s) \/ Awaited(f, s, sh.id))
    BY <1>8
  <2>. QED
    BY <1>9, <1>10, <1>14, <2>1, TakeOnce, TakeCounted
<1> HIDE DEF w
<1>. QED
  BY <1>12, <1>13, <1>15, EndCounted

------------------------------------------------------------------------------

(* The session, call by call, with what it counts.                          *)

\* poll_rx.
LEMMA PollCounted ==
  ASSUME RingMod \div 2 <= DoneMax, MaxDelay < RxHold, MaxDelay <= EmitHold,
         LinkInv, InRange(fec), NEW f \in BlockId, NEW z, Sizes(z), Kept(z, f, fec),
         NEW a, Airborne(z, a), NEW D, Once(z, f, a, D, ClearResults(fec)),
         NEW W, Counted(z, f, a, D, W, ClearResults(fec)), poll_rx, NEW t, t = fec'
  PROVE  Counted(z, f, a, D, W, t)
<1> DEFINE c == ClearResults(fec)
<1>1. t \in ExpireThenEmit(c)
  BY DEF poll_rx
<1>2. RxOK(fec) /\ RxOK(c) /\ SameTrack(fec, c)
  <2>1. RxOK(fec)
    BY DEF LinkInv, Rested, RxOK
  <2>. QED
    BY <2>1, ClearResultsRange DEF ClearResults, SameTrack, RxOK, QueueOK, Fields
<1>3. Once(z, f, a, D, c) /\ Counted(z, f, a, D, W, c)
  OBVIOUS
<1> HIDE DEF c
<1>4. CASE fec.emit_base_set
  <2>1. OnTrack(z, f, c)
    BY <1>2, <1>4, SameTrackOK DEF Kept
  <2>. QED
    BY <1>1, <1>3, <2>1, EndCounted
<1>5. CASE ~fec.emit_base_set
  <2>1. ~c.emit_base_set /\ c.done = <<>>
    BY <1>2, <1>3, <1>5 DEF Once, SameTrack
  <2>2. c.later_block_since = Never
    BY <1>2, <1>5 DEF Kept, SameTrack
  <2>3. /\ DOMAIN t.rx_blocks = {} /\ DOMAIN t.ready_blocks = {}
        /\ t.out = c.out /\ t.lost = c.lost /\ t.later_block_since = Never
    BY <1>1, <1>2, <2>1, <2>2, IdleEnd
  <2>4. Final(z, f, a, D, W, t)
    <3>1. Spares(f, D, c, t)
      BY <2>3 DEF Spares, Returned, Here
    <3>. QED
      BY <1>3, <3>1, SparesFinal DEF Counted
  <2>5. Whole(t) /\ Timely(f, a, t)
    BY <2>3 DEF Whole, Timely
  <2>. QED
    BY <2>4, <2>5 DEF Counted
<1>. QED
  BY <1>4, <1>5

\* What a call has counted counts as counted before the next.
LEMMA CallDoneCounted ==
  ASSUME NEW z, NEW f, NEW a, NEW D, NEW W, NEW s, DOMAIN s = Fields, Counted(z, f, a, D, W, s)
  PROVE  Counted(z, f, a, D \cup ToSet(s.out), W \cup s.lost, ClearResults(s))
<1> DEFINE E == D \cup ToSet(s.out)
           t == ClearResults(s)
<1>1. /\ t.out = <<>> /\ t.lost = {} /\ t.rx_blocks = s.rx_blocks
      /\ t.ready_blocks = s.ready_blocks /\ t.emit_next = s.emit_next
      /\ t.later_block_since = s.later_block_since
  BY DEF ClearResults, Fields
<1> HIDE DEF t
<1>2. ToSet(<<>>) = {}
  BY DEF ToSet
<1>3. Returned(E, t) = Returned(D, s)
  BY <1>1, <1>2 DEF Returned
<1> HIDE DEF E
<1>4. \A c \in BlockId : Here(t, c) <=> Here(s, c)
  BY <1>1 DEF Here
<1>5. Final(z, f, a, E, W \cup s.lost, t)
  BY <1>1, <1>3, <1>4 DEF Counted, Final
<1>6. Whole(t) /\ Timely(f, a, t)
  BY <1>1 DEF Counted, Whole, Timely
<1>7. Counted(z, f, a, E, W \cup s.lost, t)
  BY <1>5, <1>6 DEF Counted
<1>. QED
  BY <1>7 DEF E, t

\* Between calls, while every block has two packets or more, a hold has a block to wait for.
LEMMA HoldHasBlock ==
  ASSUME NEW z, Sizes(z), NEW f \in BlockId, NEW s, s.later_block_since # Never, Kept(z, f, s)
  PROVE  Place(f, s.emit_next) < Len(z)
<1>1. s.emit_base_set /\ OnTrack(z, f, s) /\ Held(z, f, s)
  BY DEF Kept
<1> DEFINE n == Place(f, s.newest)
           h == Place(f, s.emit_next)
           l == Len(z)
<1>2. n \in Nat /\ n < l /\ l \in Nat /\ h \in Nat
  BY <1>1, TrackPlaces DEF OnTrack
<1>3. ~Lone(z, f, s)
  <2>1. n \in 0 .. l - 1
    <3> HIDE DEF n, l
    <3>. QED
      BY <1>2
  <2>2. z[n + 1].sdu \in 2 .. K
    BY <2>1 DEF Sizes
  <2>3. z[n + 1].sdu # 1
    <3> HIDE DEF n
    <3>. QED
      BY <2>2, LinkAssumption
  <2>. QED
    BY <2>3 DEF Lone
<1>4. Collected(f, s) \/ Waits(s)
  BY <1>1, <1>3 DEF Held, Passed, Runs
<1>5. PICK c \in DOMAIN s.rx_blocks \cup DOMAIN s.ready_blocks : Place(f, c) >= h
  <2>1. CASE Collected(f, s)
    BY <2>1 DEF Collected
  <2>2. CASE Waits(s)
    <3>1. PICK c \in DOMAIN s.ready_blocks : TRUE
      BY <2>2 DEF Waits
    <3>2. h <= Place(f, c) /\ Place(f, c) \in Nat
      BY <1>1, TrackHeld
    <3> HIDE DEF h
    <3>3. Place(f, c) >= h
      BY <1>2, <3>2
    <3>. QED
      BY <3>3 DEF h
  <2>. QED
    BY <1>4, <2>1, <2>2
<1>6. Place(f, c) \in Nat /\ Place(f, c) < l
  BY <1>1, TrackHeld
<1> HIDE DEF h, l, n
<1>7. h < l
  BY <1>2, <1>5, <1>6
<1>. QED
  BY <1>7 DEF h, l

\* Of a block that has just been sent nothing has been counted, and no hold waits for it.
LEMMA SendCounted ==
  ASSUME NEW z, NEW y, NEW f \in BlockId, NEW a, NEW e, NEW D, NEW W, NEW s,
         Counted(z, f, a, D, W, s), NewAir(z, a, e), Len(z) \in Nat, Len(y) = Len(z) + 1,
         s.later_block_since # Never => Place(f, s.emit_next) < Len(z)
  PROVE  Counted(y, f, e, D, W, s)
<1> DEFINE l == Len(z)
<1>1. l \in Nat /\ Len(y) = l + 1
  OBVIOUS
<1>2. \A b \in DOMAIN e : b # l => b \in DOMAIN a /\ e[b] = a[b]
  BY DEF NewAir
<1>3. Final(y, f, e, D, W, s)
  <2>1. /\ s.lost \cap W = {}
        /\ \A x \in W \cup s.lost :
             /\ x \notin Returned(D, s) /\ x[1] \notin DOMAIN a /\ x[1] \in 0 .. l - 1
             /\ \A c \in BlockId : Here(s, c) => Place(f, c) # x[1]
    BY DEF Counted, Final
  <2> HIDE DEF l
  <2>2. ASSUME NEW x \in W \cup s.lost PROVE x[1] \notin DOMAIN e /\ x[1] \in 0 .. Len(y) - 1
    <3>1. x[1] \notin DOMAIN a /\ x[1] \in 0 .. l - 1
      BY <2>1
    <3>2. x[1] # l /\ x[1] \in 0 .. Len(y) - 1
      BY <1>1, <3>1
    <3>. QED
      BY <1>2, <3>1, <3>2
  <2>. QED
    BY <2>1, <2>2 DEF Final
<1>4. Timely(f, e, s)
  <2>1. CASE s.later_block_since = Never
    BY <2>1 DEF Timely
  <2>2. CASE s.later_block_since # Never
    <3>1. Place(f, s.emit_next) < l
      BY <2>2
    <3> HIDE DEF l
    <3>2. Place(f, s.emit_next) # l
      BY <1>1, <3>1
    <3>. QED
      BY <1>2, <3>2 DEF Timely, Counted
  <2>. QED
    BY <2>1, <2>2
<1>. QED
  BY <1>3, <1>4 DEF Counted

\* Time passes for both ends.
LEMMA TickCounted ==
  ASSUME NEW z, NEW f \in BlockId, NEW a, Airborne(z, a), NEW e, AgedAir(a, e),
         NEW D, NEW W, NEW s, NEW t, Counted(z, f, a, D, W, s), s.later_block_since \in Age \cup {Never},
         s.emit_next \notin DOMAIN s.ready_blocks, t.emit_next = s.emit_next,
         t.out = s.out, t.lost = s.lost, t.ready_blocks = s.ready_blocks,
         t.later_block_since = Older(s.later_block_since),
         DOMAIN t.rx_blocks = DOMAIN s.rx_blocks,
         \A c \in DOMAIN s.rx_blocks : t.rx_blocks[c].frags = s.rx_blocks[c].frags
  PROVE  Counted(z, f, e, D, W, t)
<1>1. Final(z, f, e, D, W, t)
  <2>1. Returned(D, t) = Returned(D, s) /\ \A c \in BlockId : Here(t, c) <=> Here(s, c)
    BY DEF Returned, Here
  <2>2. DOMAIN e \subseteq DOMAIN a
    BY DEF AgedAir
  <2>3. Final(z, f, a, D, W, s)
    BY DEF Counted
  <2>. QED
    BY <2>1, <2>2, <2>3 DEF Final
<1>2. Whole(t)
  BY DEF Counted, Whole
<1>3. Timely(f, e, t)
  <2> DEFINE b == Place(f, s.emit_next)
             x == s.later_block_since
  <2>1. SUFFICES ASSUME t.later_block_since # Never, b \in DOMAIN e
                 PROVE  t.later_block_since <= e[b]
    BY DEF Timely
  <2>2. x # Never
    BY <2>1 DEF Older
  <2>3. b \in DOMAIN a /\ e[b] = a[b] + 1 /\ a[b] \in Nat
    BY <2>1 DEF AgedAir, Airborne
  <2>4. x <= a[b] /\ x \in Nat
    BY <2>2, <2>3 DEF Counted, Timely, Age
  <2> HIDE DEF b, x
  <2>5. Older(x) <= e[b]
    BY <2>3, <2>4 DEF Older
  <2>. QED
    BY <2>5 DEF x
<1>. QED
  BY <1>1, <1>2, <1>3 DEF Counted

\* What is counted lost in the session stays lost.
Tallied(f) == Counted(sent, f, air, delivered, written_off, ClearResults(fec))

LastInv ==
  \E f \in BlockId : OneSession => Session(f) /\ Kept(sent, f, fec) /\ Flown(f) /\ Tallied(f)

\* The sender sends no block of one packet.
LEMMA SentSizes ==
  ASSUME 1 \notin SduCounts, LinkInv
  PROVE  Sizes(sent)
<1>1. sent \in Seq([id : BlockId, sdu : SduCounts])
  BY DEF LinkInv, SenderOK
<1>2. ASSUME NEW b \in 0 .. Len(sent) - 1 PROVE sent[b + 1].sdu \in 2 .. K
  <2>1. b + 1 \in 1 .. Len(sent)
    BY <1>1, LenProperties
  <2>2. sent[b + 1] \in [id : BlockId, sdu : SduCounts]
    BY <1>1, <2>1, ElementOfSeq
  <2>3. sent[b + 1].sdu \in SduCounts
    BY <2>2
  <2> DEFINE c == sent[b + 1].sdu
  <2> HIDE DEF c
  <2>4. c \in SduCounts => c \in 2 .. K
    <3>1. c \in SduCounts => c \in 1 .. K /\ c # 1
      BY LinkAssumption
    <3>2. K \in Nat
      BY LinkAssumption
    <3>. QED
      BY <3>1, <3>2
  <2>. QED
    BY <2>3, <2>4 DEF c
<1>. QED
  BY <1>2 DEF Sizes

\* A link on which nothing has been sent.
LEMMA LastStarts ==
  ASSUME LinkInit
  PROVE  LastInv
<1>1. PICK f \in BlockId : OneSession => Session(f) /\ Kept(sent, f, fec) /\ Flown(f)
  BY OnceStarts DEF OnceInv
<1> DEFINE s == ClearResults(fec)
<1>2. /\ DOMAIN s.rx_blocks = {} /\ DOMAIN s.ready_blocks = {} /\ s.lost = {}
      /\ s.later_block_since = Never /\ written_off = {}
  BY DEF LinkInit, RxInit, ClearResults, Cleared, EmptyMap
<1> HIDE DEF s
<1>3. Final(sent, f, air, delivered, written_off, s)
  BY <1>2 DEF Final
<1>4. Whole(s) /\ Timely(f, air, s)
  BY <1>2 DEF Whole, Timely
<1>5. Tallied(f)
  BY <1>3, <1>4 DEF Tallied, Counted, s
<1>. QED
  BY <1>1, <1>5 DEF LastInv

\* A receiver's call counts nothing that has been returned or counted, and returns
\* nothing that has been counted.
LEMMA CallCounted ==
  ASSUME RingMod \div 2 <= DoneMax, MaxDelay < RxHold, MaxReorder <= EvictDist,
         MaxDelay <= EmitHold, 1 \notin SduCounts,
         LinkInv, InRange(fec), NEW f \in BlockId, Session(f), Len(sent) < RingMod \div 2,
         Kept(sent, f, fec), Flown(f), Tallied(f),
         Poll \/ \E b \in DOMAIN air : \E i \in IndexesSent(b) : Arrive(b, i)
  PROVE  Counted(sent, f, air, delivered, written_off, fec')
<1>1. PICK z : z = sent
  OBVIOUS
<1>2. PICK a : a = air
  OBVIOUS
<1>3. PICK D : D = delivered
  OBVIOUS
<1>4. PICK t : t = fec'
  OBVIOUS
<1>5. PICK W : W = written_off
  OBVIOUS
<1>6. /\ Airborne(z, a) /\ Once(z, f, a, D, ClearResults(fec)) /\ Kept(z, f, fec)
      /\ Counted(z, f, a, D, W, ClearResults(fec))
  BY <1>1, <1>2, <1>3, <1>5 DEF Flown, Tallied
<1>7. Sizes(z)
  BY <1>1, SentSizes
<1>8. ASSUME Poll PROVE Counted(z, f, a, D, W, t)
  <2>1. poll_rx
    BY <1>8 DEF Poll
  <2>. QED
    BY <1>4, <1>6, <1>7, <2>1, PollCounted
<1>9. ASSUME NEW b \in DOMAIN air, NEW i \in IndexesSent(b), Arrive(b, i)
      PROVE  Counted(z, f, a, D, W, t)
  <2>1. push_air(ShardOf(b, i))
    BY <1>9 DEF Arrive
  <2>. QED
    BY <1>1, <1>2, <1>4, <1>6, <1>7, <2>1, PushCounted
<1>10. Counted(z, f, a, D, W, t)
  BY <1>8, <1>9
<1>. QED
  BY <1>1, <1>2, <1>3, <1>4, <1>5, <1>10

\* flush() puts the next block on the air.
LEMMA SendTallied ==
  ASSUME 1 \notin SduCounts, LinkInv, NEW f \in BlockId, Kept(sent, f, fec), Tallied(f), SendBlock
  PROVE  Tallied(f)'
<1>1. PICK c \in SduCounts : sent' = Append(sent, [id |-> block_id, sdu |-> c])
  BY DEF SendBlock
<1>2. sent \in Seq([id : BlockId, sdu : SduCounts]) /\ Len(sent) \in Nat
  BY LenProperties DEF LinkInv, SenderOK
<1>3. PICK z : z = sent
  OBVIOUS
<1>4. PICK y : y = sent'
  OBVIOUS
<1>5. PICK a : a = air
  OBVIOUS
<1>6. PICK e : e = air'
  OBVIOUS
<1>7. PICK D : D = delivered
  OBVIOUS
<1>8. PICK W : W = written_off
  OBVIOUS
<1>9. PICK s : s = ClearResults(fec)
  OBVIOUS
<1>10. Len(z) \in Nat /\ Len(y) = Len(z) + 1
  BY <1>1, <1>2, <1>3, <1>4
<1>11. NewAir(z, a, e)
  <2> DEFINE kept == {b \in DOMAIN a : Len(z) - b <= MaxReorder}
  <2>1. e = With([b \in kept |-> a[b]], Len(z), 0)
    BY <1>3, <1>5, <1>6 DEF SendBlock
  <2>2. DOMAIN e = kept \cup {Len(z)} /\ \A b \in kept : b # Len(z) => e[b] = a[b]
    <3> HIDE DEF kept
    <3>. QED
      BY <2>1 DEF With
  <2>. QED
    BY <2>2 DEF NewAir
<1>12. Counted(z, f, a, D, W, s)
  BY <1>3, <1>5, <1>7, <1>8, <1>9 DEF Tallied
<1>13. s.later_block_since # Never => Place(f, s.emit_next) < Len(z)
  <2>1. s.later_block_since = fec.later_block_since /\ s.emit_next = fec.emit_next
    BY <1>9 DEF ClearResults, LinkInv, Rested, QueueOK, Fields
  <2>2. Sizes(sent)
    BY SentSizes
  <2>3. fec.later_block_since # Never => Place(f, fec.emit_next) < Len(sent)
    BY <2>2, HoldHasBlock
  <2>. QED
    BY <1>3, <2>1, <2>3
<1>14. Counted(y, f, e, D, W, s)
  BY <1>10, <1>11, <1>12, <1>13, SendCounted
<1>15. fec' = fec /\ delivered' = D /\ written_off' = W
  BY <1>7, <1>8 DEF SendBlock
<1>. QED
  BY <1>4, <1>6, <1>9, <1>14, <1>15 DEF Tallied

\* Time passes for both ends.
LEMMA TickTallied ==
  ASSUME LinkInv, InRange(fec), NEW f \in BlockId, Flown(f), Tallied(f), TimePasses
  PROVE  Tallied(f)'
<1> DEFINE s == ClearResults(fec)
           q == [j \in 1 .. Len(s.done) |-> [s.done[j] EXCEPT !.age = Older(@)]]
           r == [b \in DOMAIN s.rx_blocks |-> [s.rx_blocks[b] EXCEPT !.last_seen = Older(@)]]
<1>1. RxOK(s) /\ s.emit_next \notin DOMAIN s.ready_blocks /\ s.lost = {} /\ s.out = <<>>
  <2>1. RxOK(fec) /\ Rested(fec)
    BY DEF LinkInv, Rested, RxOK
  <2>. QED
    BY <2>1, ClearResultsRange DEF ClearResults, RxOK, QueueOK, Fields, Rested
<1>2. PICK t : t = fec'
  OBVIOUS
<1>3. PICK z : z = sent
  OBVIOUS
<1>4. PICK a : a = air
  OBVIOUS
<1>5. PICK e : e = air'
  OBVIOUS
<1>6. PICK D : D = delivered
  OBVIOUS
<1>7. PICK W : W = written_off
  OBVIOUS
<1>8. Airborne(z, a) /\ Counted(z, f, a, D, W, s)
  BY <1>3, <1>4, <1>6, <1>7 DEF Flown, Tallied
<1> HIDE DEF s
<1>9. fec' = [s EXCEPT
                !.last_payload_emit = Older(@),
                !.last_shard_rx     = Older(@),
                !.later_block_since = Older(@),
                !.done              = q,
                !.rx_blocks         = r]
  BY DEF TimePasses, Tick, s
<1> HIDE DEF q, r
<1>10. /\ t.out = s.out /\ t.lost = s.lost /\ t.emit_next = s.emit_next
       /\ t.ready_blocks = s.ready_blocks /\ t.rx_blocks = r
       /\ t.later_block_since = Older(s.later_block_since) /\ DOMAIN t = Fields
  BY <1>1, <1>2, <1>9 DEF RxOK, QueueOK, Fields
<1>11. /\ DOMAIN t.rx_blocks = DOMAIN s.rx_blocks
       /\ \A c \in DOMAIN s.rx_blocks : t.rx_blocks[c].frags = s.rx_blocks[c].frags
  <2>1. DOMAIN t.rx_blocks = DOMAIN s.rx_blocks
    BY <1>10 DEF r
  <2>2. ASSUME NEW c \in DOMAIN s.rx_blocks
        PROVE  t.rx_blocks[c].frags = s.rx_blocks[c].frags
    <3> DEFINE blk == s.rx_blocks[c]
               new == t.rx_blocks[c]
    <3>1. new = [blk EXCEPT !.last_seen = Older(@)] /\ BlockOK(blk)
      BY <1>1, <1>10 DEF RxOK, InRange, r
    <3> HIDE DEF blk, new
    <3>2. new.frags = blk.frags
      BY <3>1 DEF BlockOK, BlockFields
    <3>. QED
      BY <3>2 DEF blk, new
  <2>. QED
    BY <2>1, <2>2
<1>12. AgedAir(a, e)
  BY <1>4, <1>5 DEF TimePasses, AgedAir
<1>13. s.later_block_since \in Age \cup {Never}
  BY <1>1 DEF RxOK, InRange
<1>14. Counted(z, f, e, D, W, t)
  BY <1>1, <1>8, <1>10, <1>11, <1>12, <1>13, TickCounted
<1>15. Counted(z, f, e, D, W, ClearResults(t))
  <2>1. ToSet(<<>>) = {}
    BY DEF ToSet
  <2>2. D \cup ToSet(t.out) = D /\ W \cup t.lost = W
    BY <1>1, <1>10, <2>1
  <2>. QED
    BY <1>10, <1>14, <2>2, CallDoneCounted
<1>16. sent' = z /\ delivered' = D /\ written_off' = W
  BY <1>3, <1>6, <1>7 DEF TimePasses
<1>. QED
  BY <1>2, <1>5, <1>15, <1>16 DEF Tallied

\* Every step of the session goes on with it.
LEMMA LastStep ==
  ASSUME RingMod \div 2 <= DoneMax, MaxDelay < RxHold, MaxReorder <= EvictDist,
         MaxDelay <= EmitHold, 1 \notin SduCounts,
         LinkInv, InRange(fec), LastInv, [LinkNext]_vars
  PROVE  LastInv'
<1>1. PICK f \in BlockId :
         OneSession => Session(f) /\ Kept(sent, f, fec) /\ Flown(f) /\ Tallied(f)
  BY DEF LastInv
<1> SUFFICES ASSUME OneSession'
             PROVE  Session(f)' /\ Kept(sent', f, fec') /\ Flown(f)' /\ Tallied(f)'
  BY DEF LastInv
<1>2. OneSession /\ Session(f)' /\ Kept(sent', f, fec') /\ Flown(f)'
  BY <1>1, FlownStep
<1>3. /\ Session(f) /\ Kept(sent, f, fec) /\ Flown(f) /\ Tallied(f)
      /\ Len(sent) < RingMod \div 2
  BY <1>1, <1>2 DEF OneSession
<1>4. CASE UNCHANGED vars
  <2>1. UNCHANGED <<fec, sent, air, delivered, written_off>>
    BY <1>4 DEF vars, link
  <2>2. Tallied(f)'
    BY <1>3, <2>1 DEF Tallied
  <2>. QED
    BY <1>2, <2>2
<1>5. ASSUME Restart PROVE FALSE
  BY <1>5 DEF Restart, OneSession
<1>6. CASE SendBlock
  BY <1>2, <1>3, <1>6, SendTallied
<1>7. CASE TimePasses
  BY <1>2, <1>3, <1>7, TickTallied
<1>8. CASE Poll \/ \E b \in DOMAIN air : \E i \in IndexesSent(b) : Arrive(b, i)
  <2>1. Counted(sent, f, air, delivered, written_off, fec')
    BY <1>3, <1>8, CallCounted
  <2>2. Account /\ UNCHANGED link
    BY <1>8 DEF Poll, Arrive
  <2>3. PICK t : t = fec'
    OBVIOUS
  <2>4. DOMAIN t = Fields
    BY <2>3, LinkStep DEF LinkInv, Rested, QueueOK
  <2>5. Counted(sent, f, air, delivered \cup ToSet(t.out), written_off \cup t.lost, ClearResults(t))
    BY <2>1, <2>3, <2>4, CallDoneCounted
  <2>6. Tallied(f)'
    BY <2>2, <2>3, <2>5 DEF Tallied, Account, link
  <2>. QED
    BY <1>2, <2>6
<1>. QED
  BY <1>4, <1>5, <1>6, <1>7, <1>8 DEF LinkNext

\* What a step counts and returns.
LEMMA LastShown ==
  ASSUME RingMod \div 2 <= DoneMax, MaxDelay < RxHold, MaxReorder <= EvictDist,
         MaxDelay <= EmitHold, 1 \notin SduCounts,
         LinkInv, InRange(fec), LastInv, OneSession, [LinkNext]_vars
  PROVE  [/\ fec'.lost \cap (written_off \cup delivered \cup ToSet(fec'.out)) = {}
          /\ ToSet(fec'.out) \cap written_off = {}]_fec
<1>1. PICK f \in BlockId : Session(f) /\ Kept(sent, f, fec) /\ Flown(f) /\ Tallied(f)
  BY DEF LastInv
<1>2. Len(sent) < RingMod \div 2
  BY DEF OneSession
<1>3. CASE UNCHANGED vars \/ SendBlock \/ Restart
  BY <1>3 DEF vars, SendBlock, Restart
<1>4. CASE TimePasses
  <2>1. fec'.out = <<>> /\ fec'.lost = {}
    <3> DEFINE s == ClearResults(fec)
    <3>1. DOMAIN s = Fields /\ s.out = <<>> /\ s.lost = {}
      BY DEF ClearResults, LinkInv, Rested, QueueOK, Fields
    <3> HIDE DEF s
    <3>. QED
      BY <1>4, <3>1 DEF TimePasses, Tick, s, Fields
  <2>2. ToSet(<<>>) = {}
    BY DEF ToSet
  <2>. QED
    BY <2>1, <2>2
<1>5. CASE Poll \/ \E b \in DOMAIN air : \E i \in IndexesSent(b) : Arrive(b, i)
  <2>1. Counted(sent, f, air, delivered, written_off, fec')
    BY <1>1, <1>2, <1>5, CallCounted
  <2>. QED
    BY <2>1 DEF Counted, Final, Returned
<1>. QED
  BY <1>3, <1>4, <1>5 DEF LinkNext

\* LossIsFinal along one session shorter than half the ring, on a link as NeverTwice
\* requires, on which a shard also arrives before k_emit_hold has passed and no block has
\* only one packet: the head is given up when its block has all n shards, when its hold,
\* which is no older than the block, is over, or when the block is stale; so nothing of it
\* that is counted as lost can come any more, and abandon_partial_block returns the rest.
THEOREM LossStays ==
  ASSUME MaxReorder <= EvictDist, MaxDelay < RxHold, RingMod \div 2 <= DoneMax,
         MaxDelay <= EmitHold, 1 \notin SduCounts
  PROVE  LinkSpec /\ []OneSession => LossIsFinal
<1> DEFINE Inv == LinkInv /\ InRange(fec) /\ LastInv
<1>1. LinkInit => Inv
  BY LinkStarts, ClearedRange, LastStarts DEF LinkInit, RxInit
<1>2. Inv /\ [LinkNext]_vars => Inv'
  BY LinkStep, RangeStep, LastStep
<1>3. Inv /\ OneSession /\ [LinkNext]_vars =>
        [/\ fec'.lost \cap (written_off \cup delivered \cup ToSet(fec'.out)) = {}
         /\ ToSet(fec'.out) \cap written_off = {}]_fec
  BY LastShown
<1>. QED
  BY <1>1, <1>2, <1>3, PTL DEF LinkSpec, LossIsFinal
================================================================================
