--------------------------- MODULE BlockRing_proofs ---------------------------
(***************************************************************************)
(* Facts about the ring of block ids, for every even RingMod: what the     *)
(* signed 8-bit difference is, and that moving the head forward never puts *)
(* a block that was ahead of it, and was not passed, behind it.            *)
(***************************************************************************)
EXTENDS BlockRing, WellFoundedInduction, TLAPS

\* A nonempty set of naturals has a least element.
LEMMA NatMin ==
  ASSUME NEW T \in SUBSET Nat, T # {}
  PROVE  \E x \in T : \A y \in T : x <= y
<1>1. PICK x \in T : \A y \in T : ~ (<<y, x>> \in OpToRel(<, Nat))
  BY WFMin, NatLessThanWellFounded
<1>2. \A y \in T : ~ (y < x)
  BY <1>1 DEF OpToRel
<1>. QED
  BY <1>2

\* x % RingMod for the arguments the code can produce.
LEMMA ModRange ==
  ASSUME NEW x \in (-RingMod) .. (2 * RingMod - 1)
  PROVE  x % RingMod = IF x < 0 THEN x + RingMod ELSE IF x < RingMod THEN x ELSE x - RingMod
BY RingAssumption

\* The ring has two halves.
LEMMA HalfRing == RingMod \div 2 \in Nat /\ 2 * (RingMod \div 2) = RingMod
BY RingAssumption

\* wire_block_id yields a ring id.
LEMMA WireId == ASSUME NEW i \in Nat PROVE wire_block_id(i) \in BlockId
BY RingAssumption DEF wire_block_id, BlockId

\* The id m after e, less than a round of the ring away.
LEMMA Ahead ==
  ASSUME NEW e \in BlockId, NEW m \in 0 .. RingMod - 1
  PROVE  wire_block_id(e + m) = IF e + m < RingMod THEN e + m ELSE e + m - RingMod
<1>1. e + m \in (-RingMod) .. (2 * RingMod - 1) /\ ~(e + m < 0)
  BY RingAssumption DEF BlockId
<1>. QED
  BY <1>1, ModRange, RingAssumption DEF wire_block_id, BlockId

\* The id at no distance.
LEMMA WireHere == ASSUME NEW e \in BlockId PROVE wire_block_id(e + 0) = e
<1>1. 0 \in 0 .. RingMod - 1 /\ e < RingMod /\ e + 0 = e
  BY RingAssumption DEF BlockId
<1>. QED
  BY <1>1, Ahead

\* ring_dist without the modulus.
LEMMA DistValue ==
  ASSUME NEW a \in BlockId, NEW b \in BlockId
  PROVE  ring_dist(a, b) = IF a >= b THEN (IF a - b < RingMod \div 2 THEN a - b ELSE a - b - RingMod)
                           ELSE IF a - b + RingMod < RingMod \div 2 THEN a - b + RingMod ELSE a - b
<1> DEFINE H == RingMod \div 2
<1>1. a - b \in (-RingMod) .. (2 * RingMod - 1)
  BY RingAssumption DEF BlockId
<1>2. (a - b) % RingMod = IF a >= b THEN a - b ELSE a - b + RingMod
  BY <1>1, ModRange, RingAssumption DEF BlockId
<1>3. H \in Nat
  BY HalfRing
<1>. QED
  BY <1>2, <1>3, RingAssumption DEF BlockId, ring_dist

\* A distance is an integer.
LEMMA DistInt ==
  ASSUME NEW a \in BlockId, NEW b \in BlockId
  PROVE  ring_dist(a, b) \in Int
<1> DEFINE H == RingMod \div 2
<1>1. a \in Int /\ b \in Int /\ RingMod \in Int /\ H \in Int
  BY HalfRing, RingAssumption DEF BlockId
<1> HIDE DEF H
<1>2. ring_dist(a, b) = IF a >= b THEN (IF a - b < H THEN a - b ELSE a - b - RingMod)
                         ELSE IF a - b + RingMod < H THEN a - b + RingMod ELSE a - b
  BY DistValue DEF H
<1>. QED
  BY <1>1, <1>2

\* Only the id itself is at distance 0.
LEMMA DistZero ==
  ASSUME NEW a \in BlockId, NEW b \in BlockId
  PROVE  ring_dist(a, b) = 0 <=> a = b
<1> DEFINE H == RingMod \div 2
<1>1. H \in Nat /\ 2 * H = RingMod /\ RingMod \in Nat \ {0}
  BY HalfRing, RingAssumption
<1>. QED
  BY <1>1, DistValue DEF BlockId

\* A head moved to an id that is no farther ahead than b stays at or before b.
LEMMA DistNearer ==
  ASSUME NEW e \in BlockId, NEW t \in BlockId, NEW b \in BlockId,
         0 <= ring_dist(t, e), ring_dist(t, e) <= ring_dist(b, e)
  PROVE  ring_dist(b, t) >= 0
<1> DEFINE H == RingMod \div 2
<1>1. H \in Nat /\ 2 * H = RingMod /\ RingMod \in Nat \ {0}
  BY HalfRing, RingAssumption
<1>2. e \in Nat /\ t \in Nat /\ b \in Nat /\ e < RingMod /\ t < RingMod /\ b < RingMod
  BY <1>1 DEF BlockId
<1> HIDE DEF H
<1>3. ring_dist(t, e) = IF t >= e THEN (IF t - e < H THEN t - e ELSE t - e - RingMod)
                           ELSE IF t - e + RingMod < H THEN t - e + RingMod ELSE t - e
  BY DistValue DEF H
<1>4. ring_dist(b, e) = IF b >= e THEN (IF b - e < H THEN b - e ELSE b - e - RingMod)
                           ELSE IF b - e + RingMod < H THEN b - e + RingMod ELSE b - e
  BY DistValue DEF H
<1>5. ring_dist(b, t) = IF b >= t THEN (IF b - t < H THEN b - t ELSE b - t - RingMod)
                           ELSE IF b - t + RingMod < H THEN b - t + RingMod ELSE b - t
  BY DistValue DEF H
<1>. QED
  BY <1>1, <1>2, <1>3, <1>4, <1>5

\* A head moved past m ids, none of them b, stays at or before b.
LEMMA DistPassed ==
  ASSUME NEW e \in BlockId, NEW b \in BlockId, NEW m \in 0 .. RingMod,
         ring_dist(b, e) >= 0, \A j \in 0 .. m - 1 : wire_block_id(e + j) # b
  PROVE  ring_dist(b, wire_block_id(e + m)) >= 0
<1> DEFINE H == RingMod \div 2
<1>1. H \in Nat /\ 2 * H = RingMod /\ RingMod \in Nat \ {0}
  BY HalfRing, RingAssumption
<1>2. e \in Nat /\ b \in Nat /\ e < RingMod /\ b < RingMod /\ m \in Nat /\ m <= RingMod
  BY <1>1 DEF BlockId
<1> HIDE DEF H
<1>3. ring_dist(b, e) = IF b >= e THEN (IF b - e < H THEN b - e ELSE b - e - RingMod)
                           ELSE IF b - e + RingMod < H THEN b - e + RingMod ELSE b - e
  BY DistValue DEF H
<1> DEFINE d == ring_dist(b, e)
<1>4. d \in 0 .. H - 1 /\ (e + d = b \/ e + d = b + RingMod)
  BY <1>1, <1>2, <1>3
<1>5. wire_block_id(e + d) = b
  BY <1>1, <1>2, <1>4, ModRange DEF wire_block_id
<1>6. d >= m
  BY <1>4, <1>5, <1>1, <1>2
<1>7. wire_block_id(e + m) = IF e + m < RingMod THEN e + m ELSE e + m - RingMod
  BY <1>1, <1>4, <1>6, Ahead
<1> DEFINE t == wire_block_id(e + m)
<1>8. t \in BlockId
  BY WireId, <1>2
<1>9. t \in Nat /\ t < RingMod
  BY <1>8, <1>1 DEF BlockId
<1>10. ring_dist(b, t) = IF b >= t THEN (IF b - t < H THEN b - t ELSE b - t - RingMod)
                           ELSE IF b - t + RingMod < H THEN b - t + RingMod ELSE b - t
  BY DistValue, <1>8 DEF H
<1>. QED
  BY <1>1, <1>2, <1>4, <1>6, <1>7, <1>9, <1>10
=============================================================================
