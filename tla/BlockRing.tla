------------------------------ MODULE BlockRing ------------------------------
(***************************************************************************)
(* The ring of on-air FEC block ids: block_id is one byte in the shard     *)
(* header (rs_block_erasure.hpp k_wire_block_id_mod) and every comparison  *)
(* of two ids goes through the sign of an 8-bit difference.  RingMod is    *)
(* 256 in the code; the models use a smaller even ring.                    *)
(***************************************************************************)
EXTENDS Integers

CONSTANT RingMod      \* k_wire_block_id_mod

ASSUME RingAssumption == RingMod \in Nat \ {0} /\ RingMod % 2 = 0

BlockId == 0 .. RingMod - 1

wire_block_id(id) == id % RingMod

\* int8_t(uint8_t(a - b)): how far a is ahead of (or, negative, behind) b.
ring_dist(a, b) ==
  LET d == (a - b) % RingMod
  IN  IF d < RingMod \div 2 THEN d ELSE d - RingMod
=============================================================================
