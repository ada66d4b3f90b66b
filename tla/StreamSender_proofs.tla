------------------------- MODULE StreamSender_proofs -------------------------
(***************************************************************************)
(* The send queue is bounded for every cap, although enqueue_wire_copy     *)
(* makes room and pushes in two critical sections.  The bound alone is not *)
(* inductive: a thread that has made room carries the right to push one    *)
(* packet, so what stays bounded is the queue and those rights together.   *)
(* At most one packet leaves a gate that was closed; the numbers of one    *)
(* opening have no holes; the byte counter is exact; and what was encoded  *)
(* is in the order of the packets.  From these, that the sender implements *)
(* BlockStream, the abstract sender that FecLink assumes.                  *)
(***************************************************************************)
EXTENDS StreamSender, BlockRing_proofs, SequenceTheorems, FiniteSetTheorems

(* --------------------------- the transmit half -------------------------- *)
(* What its operations keep and hand out, for every k, n and packet.        *)

Packet == [no : Nat \ {0}, size : Nat]
Shard  == [blk : Nat \ {0}, idx : Nat, pkt : Nat, size : Nat]

TxType ==
  [active : BOOLEAN, k : Nat, n : Nat, max : Nat, pending : Seq(Packet),
   due : BOOLEAN, block_id : BlockId, nblocks : Nat]

\* An object between calls: a full block has left, and only an enabled object
\* holds packets.
TxOK(tx) ==
  /\ tx \in TxType
  /\ tx.active => tx.k \in 1 .. tx.n /\ Len(tx.pending) < tx.k
  /\ ~tx.active => tx.pending = <<>>

\* The same inside push_app, where the block may be full.
TxFull(tx) ==
  /\ tx \in TxType
  /\ tx.active => tx.k \in 1 .. tx.n /\ Len(tx.pending) <= tx.k
  /\ ~tx.active => tx.pending = <<>>

\* The shards of one block, in increasing order of their indexes.
BlockOf(burst, no) ==
  /\ burst \in Seq(Shard)
  /\ \A i \in 1 .. Len(burst) : burst[i].blk = no
  /\ \A i, j \in 1 .. Len(burst) : i < j => burst[i].idx < burst[j].idx

\* What a call hands out: nothing, or the next block.
Handed(tx, r) ==
  /\ TxOK(r.tx)
  /\ \/ r.air = <<>> /\ r.tx.nblocks = tx.nblocks /\ r.tx.block_id = tx.block_id
     \/ /\ r.air # <<>> /\ BlockOf(r.air, tx.nblocks + 1)
        /\ r.tx.nblocks = tx.nblocks + 1
        /\ r.tx.block_id = wire_block_id(tx.block_id + 1)

------------------------------------------------------------------------------

\* A nonempty set of indexes has a maximum.
LEMMA MaxOfIndexes ==
  ASSUME NEW n \in Nat, NEW S \in SUBSET (1 .. n), S # {}
  PROVE  Max(S) \in S /\ \A y \in S : Max(S) >= y
<1>. DEFINE U == {u \in Nat : \A y \in S : u >= y}
<1>1. PICK u \in U : \A v \in U : u <= v
  <2>1. n \in U
    OBVIOUS
  <2>2. U \in SUBSET Nat
    OBVIOUS
  <2>. HIDE DEF U
  <2>. QED
    BY <2>1, <2>2, NatMin
<1>2. u \in Nat /\ \A y \in S : u >= y
  OBVIOUS
<1>3. u \in S
  <2>. SUFFICES ASSUME u \notin S PROVE FALSE
    OBVIOUS
  <2>1. \A y \in S : y \in Nat /\ y >= 1 /\ y # u
    OBVIOUS
  <2>4. PICK z \in S : TRUE
    OBVIOUS
  <2>5. u \in Nat /\ u >= 1
    BY <1>2, <2>1, <2>4
  <2>2. u - 1 \in Nat /\ \A y \in S : u - 1 >= y
    <3>. HIDE DEF U
    <3>. QED
      BY <1>2, <2>1, <2>5
  <2>3. u - 1 \in U
    BY <2>2
  <2>. HIDE DEF U
  <2>. QED
    BY <1>1, <1>2, <2>3
<1>4. \E x \in S : \A y \in S : x >= y
  BY <1>2, <1>3
<1>. QED
  BY <1>4 DEF Max

\* A nonempty finite list of naturals has a maximum.
LEMMA MaxInNat ==
  ASSUME NEW n \in Nat \ {0}, NEW f \in [1 .. n -> Nat]
  PROVE  Max({f[j] : j \in 1 .. n}) \in Nat
<1>. DEFINE Top(i, m) == \A j \in 1 .. m : f[i] >= f[j]
            T == {m \in 1 .. n : ~(\E i \in 1 .. m : Top(i, m))}
<1>1. T = {}
  <2>. SUFFICES ASSUME T # {} PROVE FALSE
    OBVIOUS
  <2>1. T \in SUBSET Nat
    OBVIOUS
  <2>2. PICK m \in T : \A l \in T : m <= l
    <3>. HIDE DEF T
    <3>. QED
      BY <2>1, NatMin
  <2>3. m \in 1 .. n
    OBVIOUS
  <2>4. m # 1
    <3>1. Top(1, 1)
      <4>1. 1 \in 1 .. n
        OBVIOUS
      <4>2. f[1] \in Nat
        BY <4>1
      <4>. QED
        BY <4>2
    <3>. QED
      BY <3>1
  <2>5. m - 1 \in 1 .. n
    BY <2>3, <2>4
  <2>6. m - 1 \notin T
    <3>. HIDE DEF T
    <3>. QED
      BY <2>2, <2>3
  <2>7. PICK i \in 1 .. m - 1 : Top(i, m - 1)
    <3>. HIDE DEF Top
    <3>. QED
      BY <2>5, <2>6
  <2>8. \A j \in 1 .. n : f[j] \in Nat
    OBVIOUS
  <2>9. CASE f[i] >= f[m]
    <3>1. \A j \in 1 .. m : f[i] >= f[j]
      BY <2>3, <2>7, <2>9
    <3>2. i \in 1 .. m
      BY <2>3
    <3>. QED
      BY <3>1, <3>2
  <2>10. CASE f[m] >= f[i]
    <3>1. i \in 1 .. n
      BY <2>3
    <3>2. \A j \in 1 .. m - 1 : f[m] >= f[j]
      BY <2>3, <2>7, <2>8, <2>10, <3>1
    <3>3. \A j \in 1 .. m : f[m] >= f[j]
      BY <2>3, <2>8, <3>2
    <3>4. m \in 1 .. m
      BY <2>3
    <3>. QED
      BY <3>3, <3>4
  <2>. QED
    BY <2>3, <2>7, <2>8, <2>9, <2>10
<1>2. n \in 1 .. n
  OBVIOUS
<1>3. \E i \in 1 .. n : Top(i, n)
  <2>. HIDE DEF Top
  <2>. QED
    BY <1>1, <1>2
<1>4. \E x \in {f[j] : j \in 1 .. n} : \A y \in {f[j] : j \in 1 .. n} : x >= y
  BY <1>3
<1>5. Max({f[j] : j \in 1 .. n}) \in {f[j] : j \in 1 .. n}
  BY <1>4 DEF Max
<1>. QED
  BY <1>5

\* encode_block: the systematic shards of the packets, then the parity.
LEMMA EncodeOK ==
  ASSUME NEW tx, TxFull(tx), tx.active, tx.pending # <<>>
  PROVE  /\ encode_block(tx) # <<>>
         /\ BlockOf(encode_block(tx), tx.nblocks + 1)
         /\ Len(encode_block(tx)) = Len(tx.pending) + (tx.n - tx.k)
         /\ \A i \in 1 .. Len(tx.pending) : encode_block(tx)[i].pkt = tx.pending[i].no
         /\ \A i \in Len(tx.pending) + 1 .. Len(encode_block(tx)) : encode_block(tx)[i].pkt = 0
<1>. DEFINE sdu == Len(tx.pending)
            row == Max({tx.pending[j].size : j \in 1 .. sdu})
            D == [j \in 1 .. sdu |-> [blk |-> tx.nblocks + 1, idx |-> j - 1,
                                      pkt |-> tx.pending[j].no, size |-> tx.pending[j].size]]
            P == [j \in 1 .. tx.n - tx.k |-> [blk |-> tx.nblocks + 1, idx |-> tx.k + j - 1,
                                              pkt |-> 0, size |-> row]]
<1>1. /\ sdu \in Nat \ {0} /\ tx.pending \in [1 .. sdu -> Packet]
      /\ tx.k \in Nat /\ tx.n \in Nat /\ sdu <= tx.k /\ tx.k <= tx.n /\ tx.nblocks \in Nat
  BY LenProperties, EmptySeq DEF TxFull, TxType
<1>2. row \in Nat
  <2>. DEFINE f == [j \in 1 .. sdu |-> tx.pending[j].size]
  <2>1. f \in [1 .. sdu -> Nat]
    BY <1>1 DEF Packet
  <2>2. {f[j] : j \in 1 .. sdu} = {tx.pending[j].size : j \in 1 .. sdu}
    OBVIOUS
  <2>. QED
    BY <1>1, <2>1, <2>2, MaxInNat
<1>. HIDE DEF row
<1>3. encode_block(tx) = D \o P
  BY DEF encode_block, row
<1>4. D \in [1 .. sdu -> Shard]
  BY <1>1 DEF Packet, Shard
<1>5. P \in [1 .. tx.n - tx.k -> Shard]
  BY <1>1, <1>2 DEF Shard
<1>. DEFINE par == tx.n - tx.k
<1>6. par \in Nat
  BY <1>1
<1>7. /\ \A i \in 1 .. sdu : D[i].blk = tx.nblocks + 1 /\ D[i].idx = i - 1 /\ D[i].pkt = tx.pending[i].no
      /\ \A i \in 1 .. par : P[i].blk = tx.nblocks + 1 /\ P[i].idx = tx.k + i - 1 /\ P[i].pkt = 0
  OBVIOUS
<1>. HIDE DEF D, P, par, sdu
<1>8. D \in Seq(Shard) /\ Len(D) = sdu /\ P \in Seq(Shard) /\ Len(P) = par
  <2>1. D \in Seq(Shard)
    BY <1>1, <1>4, SeqDef
  <2>2. P \in Seq(Shard)
    BY <1>5, <1>6, SeqDef DEF par
  <2>. QED
    BY <1>1, <1>4, <1>5, <1>6, <2>1, <2>2, LenProperties DEF par
<1>. DEFINE E == D \o P
<1>9. E \in Seq(Shard) /\ Len(E) = sdu + par
  BY <1>8, ConcatProperties
<1>10. \A i \in 1 .. sdu + par : E[i] = IF i <= sdu THEN D[i] ELSE P[i - sdu]
  BY <1>8, ConcatProperties
<1>. HIDE DEF E
<1>11. \A i \in 1 .. sdu :
         E[i].blk = tx.nblocks + 1 /\ E[i].idx = i - 1 /\ E[i].pkt = tx.pending[i].no
  <2>1. \A i \in 1 .. sdu : i \in 1 .. sdu + par /\ i <= sdu
    BY <1>1, <1>6
  <2>2. \A i \in 1 .. sdu : E[i] = D[i]
    BY <1>10, <2>1
  <2>. QED
    BY <1>7, <2>2
<1>12. \A i \in sdu + 1 .. sdu + par :
         E[i].blk = tx.nblocks + 1 /\ E[i].idx = tx.k + (i - sdu) - 1 /\ E[i].pkt = 0
  <2>. TAKE i \in sdu + 1 .. sdu + par
  <2>1. i - sdu \in 1 .. par /\ i \in 1 .. sdu + par /\ ~(i <= sdu)
    BY <1>1, <1>6
  <2>. QED
    BY <1>7, <1>10, <2>1
<1>13. sdu + par \in Nat \ {0}
  BY <1>1, <1>6
<1>14. BlockOf(E, tx.nblocks + 1)
  <2>1. \A i \in 1 .. Len(E) : E[i].blk = tx.nblocks + 1
    BY <1>1, <1>6, <1>9, <1>11, <1>12
  <2>2. \A i \in 1 .. sdu + par : E[i].idx = IF i <= sdu THEN i - 1 ELSE tx.k + (i - sdu) - 1
    BY <1>1, <1>6, <1>11, <1>12
  <2>3. ASSUME NEW i \in 1 .. Len(E), NEW j \in 1 .. Len(E), i < j
        PROVE  E[i].idx < E[j].idx
    <3>1. sdu \in Nat /\ par \in Nat /\ tx.k \in Nat /\ sdu <= tx.k
      BY <1>1, <1>6
    <3>2. i \in 1 .. sdu + par /\ j \in 1 .. sdu + par
      BY <1>9
    <3>3. /\ E[i].idx = IF i <= sdu THEN i - 1 ELSE tx.k + (i - sdu) - 1
          /\ E[j].idx = IF j <= sdu THEN j - 1 ELSE tx.k + (j - sdu) - 1
      BY <2>2, <3>2
    <3>. QED
      BY <2>3, <3>1, <3>2, <3>3
  <2>. QED
    BY <1>9, <2>1, <2>3 DEF BlockOf
<1>15. E # <<>>
  BY <1>9, <1>13, EmptySeq
<1>. QED
  BY <1>1, <1>3, <1>9, <1>11, <1>12, <1>14, <1>15 DEF E, sdu, par

\* flush: everything pending leaves as the next block.
LEMMA FlushOK ==
  ASSUME NEW tx, TxFull(tx)
  PROVE  /\ Handed(tx, flush(tx))
         /\ flush(tx).tx.pending = <<>> /\ flush(tx).tx.active = tx.active
<1>1. CASE ~tx.active \/ tx.pending = <<>>
  <2>1. flush(tx).tx = tx /\ flush(tx).air = <<>> /\ tx.pending = <<>>
    BY <1>1 DEF flush, Nothing, TxFull
  <2>2. Len(tx.pending) = 0
    BY <2>1, EmptySeq
  <2>3. TxOK(tx)
    BY <2>1, <2>2 DEF TxFull, TxOK, TxType
  <2>. QED
    BY <2>1, <2>3 DEF Handed
<1>2. CASE tx.active /\ tx.pending # <<>>
  <2>. DEFINE next == wire_block_id(tx.block_id + 1)
              number == tx.nblocks + 1
              t == [tx EXCEPT !.pending = <<>>, !.due = FALSE, !.nblocks = number,
                              !.block_id = next]
  <2>1. flush(tx).tx = t /\ flush(tx).air = encode_block(tx)
    BY <1>2 DEF flush
  <2>2. next \in BlockId
    <3>1. tx.block_id + 1 \in Nat
      BY RingAssumption DEF TxFull, TxType, BlockId
    <3>. QED
      BY <3>1, WireId
  <2>7. tx \in TxType /\ number \in Nat
    BY DEF TxFull, TxType
  <2>. HIDE DEF next, number
  <2>3. <<>> \in Seq(Packet) /\ Len(<<>>) = 0
    BY EmptySeq
  <2>4. t \in TxType
    BY <2>2, <2>3, <2>7 DEF TxType
  <2>5. /\ t.active /\ t.pending = <<>> /\ t.k = tx.k /\ t.n = tx.n
        /\ t.nblocks = number /\ t.block_id = next
    BY <1>2, <2>7 DEF TxType
  <2>. HIDE DEF t
  <2>6. TxOK(t)
    BY <1>2, <2>3, <2>4, <2>5 DEF TxOK, TxFull
  <2>. QED
    BY <1>2, <2>1, <2>5, <2>6, EncodeOK DEF Handed, next, number
<1>. QED
  BY <1>1, <1>2 DEF TxFull, TxType

\* A call that hands out nothing.
LEMMA NothingOK ==
  ASSUME NEW tx, TxOK(tx)
  PROVE  Handed(tx, Nothing(tx)) /\ Nothing(tx).tx.active = tx.active
BY DEF Nothing, Handed

LEMMA FullerOK ==
  ASSUME NEW tx, TxOK(tx)
  PROVE  TxFull(tx)
BY LenProperties DEF TxOK, TxFull, TxType

\* push_app: the packet joins the pending ones, unless it does not fit.
LEMMA PushOK ==
  ASSUME NEW tx, TxOK(tx), NEW p \in Packet
  PROVE  Handed(tx, push_app(tx, p)) /\ push_app(tx, p).tx.active = tx.active
<1>. DEFINE t == [tx EXCEPT !.pending = Append(@, p)]
<1>1. CASE ~fits(tx, p)
  BY <1>1, NothingOK DEF push_app
<1>2. CASE fits(tx, p)
  <2>1. tx.active /\ tx.pending \in Seq(Packet) /\ tx.k \in Nat
    BY <1>2 DEF fits, TxOK, TxType
  <2>2. /\ Append(tx.pending, p) \in Seq(Packet)
        /\ Len(Append(tx.pending, p)) = Len(tx.pending) + 1 /\ Len(tx.pending) \in Nat
    BY <2>1, AppendProperties, LenProperties
  <2>3. /\ t.active = tx.active /\ t.nblocks = tx.nblocks /\ t.block_id = tx.block_id
        /\ t.pending = Append(tx.pending, p) /\ t.k = tx.k /\ t.n = tx.n
    BY DEF TxOK, TxType
  <2>4. t \in TxType
    BY <2>2 DEF TxOK, TxType
  <2>5. push_app(tx, p) = IF Len(t.pending) >= t.k THEN flush(t) ELSE Nothing(t)
    BY <1>2 DEF push_app
  <2>. HIDE DEF t
  <2>6. TxFull(t)
    BY <2>1, <2>2, <2>3, <2>4 DEF TxFull, TxOK
  <2>7. CASE Len(t.pending) >= t.k
    BY <2>3, <2>5, <2>6, <2>7, FlushOK DEF Handed
  <2>8. CASE ~(Len(t.pending) >= t.k)
    <3>1. TxOK(t)
      BY <2>1, <2>2, <2>3, <2>4, <2>6, <2>8 DEF TxFull, TxOK
    <3>. QED
      BY <2>3, <2>5, <2>8, <3>1 DEF Handed, Nothing
  <2>. QED
    BY <2>7, <2>8
<1>. QED
  BY <1>1, <1>2

\* on_tick: a block whose deadline has passed leaves.
LEMMA TickOK ==
  ASSUME NEW tx, TxOK(tx)
  PROVE  Handed(tx, on_tick(tx)) /\ on_tick(tx).tx.active = tx.active
BY FullerOK, FlushOK, NothingOK DEF on_tick

\* init and disable: the object is empty, and its numbering goes on.
LEMMA InitOK ==
  ASSUME NEW tx, TxOK(tx), NEW c, c.k \in Nat \ {0}, c.n \in Nat, c.k <= c.n, c.max \in Nat
  PROVE  /\ TxOK(init(tx, c)) /\ init(tx, c).active
         /\ init(tx, c).nblocks = tx.nblocks /\ init(tx, c).block_id = tx.block_id
<1>1. <<>> \in Seq(Packet) /\ Len(<<>>) = 0
  BY EmptySeq
<1>2. init(tx, c) \in TxType
  BY <1>1 DEF init, TxOK, TxType
<1>3. /\ init(tx, c).active /\ init(tx, c).k = c.k /\ init(tx, c).n = c.n
      /\ init(tx, c).pending = <<>>
      /\ init(tx, c).nblocks = tx.nblocks /\ init(tx, c).block_id = tx.block_id
  BY DEF init, TxOK, TxType
<1>. QED
  BY <1>1, <1>2, <1>3 DEF TxOK

LEMMA DisableOK ==
  ASSUME NEW tx, TxOK(tx)
  PROVE  /\ TxOK(disable(tx)) /\ ~disable(tx).active
         /\ disable(tx).nblocks = tx.nblocks /\ disable(tx).block_id = tx.block_id
<1>1. <<>> \in Seq(Packet) /\ Len(<<>>) = 0
  BY EmptySeq
<1>2. disable(tx) \in TxType
  BY <1>1 DEF disable, TxOK, TxType
<1>3. /\ ~disable(tx).active /\ disable(tx).pending = <<>>
      /\ disable(tx).nblocks = tx.nblocks /\ disable(tx).block_id = tx.block_id
  BY DEF disable, TxOK, TxType
<1>. QED
  BY <1>2, <1>3 DEF TxOK

\* A new object is disabled and empty.
LEMMA NewOK ==
  ASSUME NEW first \in BlockId
  PROVE  /\ TxOK(NewTx(first)) /\ ~NewTx(first).active
         /\ NewTx(first).nblocks = 0 /\ NewTx(first).block_id = first
<1>1. <<>> \in Seq(Packet)
  BY EmptySeq
<1>. QED
  BY <1>1 DEF NewTx, TxOK, TxType

(* ------------------------------ the packets ----------------------------- *)

\* Packets numbered from from + 1 on.
Consecutive(pending, from) == \A j \in 1 .. Len(pending) : pending[j].no = from + j

\* The shards of a block of the count packets after from: data, then parity.
Carries(burst, from, count) ==
  /\ count \in 1 .. Len(burst)
  /\ \A i \in 1 .. Len(burst) : burst[i].pkt = IF i <= count THEN from + i ELSE 0

\* The count packets after from are what a call has handed out or left pending.
Numbered(r, from, count) ==
  \/ r.air = <<>> /\ Consecutive(r.tx.pending, from) /\ Len(r.tx.pending) = count
  \/ r.air # <<>> /\ Carries(r.air, from, count) /\ r.tx.pending = <<>>

LEMMA NothingNumbers ==
  ASSUME NEW tx, NEW from, Consecutive(tx.pending, from)
  PROVE  Numbered(Nothing(tx), from, Len(tx.pending))
BY DEF Nothing, Numbered

LEMMA FlushNumbers ==
  ASSUME NEW tx, TxFull(tx), NEW from \in Nat, Consecutive(tx.pending, from)
  PROVE  Numbered(flush(tx), from, Len(tx.pending))
<1>1. CASE ~tx.active \/ tx.pending = <<>>
  BY <1>1, NothingNumbers DEF flush
<1>2. CASE tx.active /\ tx.pending # <<>>
  <2>. DEFINE burst == encode_block(tx)
              count == Len(tx.pending)
  <2>1. /\ burst # <<>> /\ Len(burst) = count + (tx.n - tx.k)
        /\ \A i \in 1 .. count : burst[i].pkt = tx.pending[i].no
        /\ \A i \in count + 1 .. Len(burst) : burst[i].pkt = 0
    BY <1>2, EncodeOK
  <2>2. count \in Nat \ {0} /\ tx.n - tx.k \in Nat
    BY <1>2, LenProperties, EmptySeq DEF TxFull, TxType
  <2>3. flush(tx).air = burst /\ flush(tx).tx.pending = <<>>
    BY <1>2, FlushOK DEF flush
  <2>4. \A i \in 1 .. count : burst[i].pkt = from + i
    BY <2>1 DEF Consecutive
  <2>. HIDE DEF burst, count
  <2>5. Carries(burst, from, count)
    BY <2>1, <2>2, <2>4 DEF Carries
  <2>. QED
    BY <2>1, <2>3, <2>5 DEF Numbered, count
<1>. QED
  BY <1>1, <1>2 DEF TxFull, TxType

LEMMA TickNumbers ==
  ASSUME NEW tx, TxOK(tx), NEW from \in Nat, Consecutive(tx.pending, from)
  PROVE  Numbered(on_tick(tx), from, Len(tx.pending))
BY FullerOK, FlushNumbers, NothingNumbers DEF on_tick

LEMMA PushNumbers ==
  ASSUME NEW tx, TxOK(tx), NEW from \in Nat, Consecutive(tx.pending, from),
         NEW p \in Packet, p.no = from + Len(tx.pending) + 1
  PROVE  Numbered(push_app(tx, p), from,
                  IF fits(tx, p) THEN Len(tx.pending) + 1 ELSE Len(tx.pending))
<1>. DEFINE t == [tx EXCEPT !.pending = Append(@, p)]
<1>1. CASE ~fits(tx, p)
  BY <1>1, NothingNumbers DEF push_app
<1>2. CASE fits(tx, p)
  <2>1. tx.active /\ tx.pending \in Seq(Packet) /\ tx.k \in Nat
    BY <1>2 DEF fits, TxOK, TxType
  <2>2. /\ Append(tx.pending, p) \in Seq(Packet)
        /\ Len(Append(tx.pending, p)) = Len(tx.pending) + 1 /\ Len(tx.pending) \in Nat
        /\ \A j \in 1 .. Len(tx.pending) : Append(tx.pending, p)[j] = tx.pending[j]
        /\ Append(tx.pending, p)[Len(tx.pending) + 1] = p
    BY <2>1, AppendProperties, LenProperties
  <2>3. /\ t.active = tx.active /\ t.pending = Append(tx.pending, p) /\ t.k = tx.k /\ t.n = tx.n
    BY DEF TxOK, TxType
  <2>4. t \in TxType
    BY <2>2 DEF TxOK, TxType
  <2>5. push_app(tx, p) = IF Len(t.pending) >= t.k THEN flush(t) ELSE Nothing(t)
    BY <1>2 DEF push_app
  <2>. HIDE DEF t
  <2>6. TxFull(t)
    BY <2>1, <2>2, <2>3, <2>4 DEF TxFull, TxOK
  <2>7. Consecutive(t.pending, from) /\ Len(t.pending) = Len(tx.pending) + 1
    <3>. SUFFICES ASSUME NEW j \in 1 .. Len(t.pending) PROVE t.pending[j].no = from + j
      BY <2>2, <2>3 DEF Consecutive
    <3>1. CASE j \in 1 .. Len(tx.pending)
      BY <2>2, <2>3, <3>1 DEF Consecutive
    <3>2. CASE j = Len(tx.pending) + 1
      BY <2>2, <2>3, <3>2
    <3>. QED
      BY <2>2, <2>3, <3>1, <3>2
  <2>. QED
    BY <1>2, <2>5, <2>6, <2>7, FlushNumbers, NothingNumbers
<1>. QED
  BY <1>1, <1>2

\* The largest packet number of a block is that of its last packet.
LEMMA LastCarried ==
  ASSUME NEW burst \in Seq(Shard), NEW from \in Nat, NEW count, Carries(burst, from, count)
  PROVE  Max({sh.pkt : sh \in ToSet(burst)}) = from + count
<1>. DEFINE Pkts == {sh.pkt : sh \in ToSet(burst)}
<1>1. /\ Len(burst) \in Nat /\ DOMAIN burst = 1 .. Len(burst) /\ count \in 1 .. Len(burst)
      /\ \A i \in 1 .. Len(burst) : burst[i].pkt = IF i <= count THEN from + i ELSE 0
  BY LenProperties DEF Carries
<1>2. Pkts = {burst[i].pkt : i \in 1 .. Len(burst)}
  BY <1>1 DEF ToSet
<1>3. \A x \in Pkts : x \in Nat /\ from + count >= x
  <2>1. \A i \in 1 .. Len(burst) : burst[i].pkt \in Nat /\ from + count >= burst[i].pkt
    BY <1>1
  <2>. HIDE DEF Pkts
  <2>. QED
    BY <1>2, <2>1
<1>4. from + count \in Pkts
  <2>1. burst[count].pkt = from + count
    BY <1>1
  <2>. QED
    BY <1>1, <1>2, <2>1
<1>. HIDE DEF Pkts
<1>5. \A x \in Pkts : (\A y \in Pkts : x >= y) => x = from + count
  BY <1>1, <1>3, <1>4
<1>6. Max(Pkts) \in Pkts /\ \A y \in Pkts : Max(Pkts) >= y
  BY <1>3, <1>4 DEF Max
<1>. QED
  BY <1>5, <1>6 DEF Pkts

(* ------------------------------- the queue ------------------------------ *)

\* The threads that have made room and not yet pushed.
Right(t) == IF room[t] THEN 1 ELSE 0
Rights   == Right("input") + Right("send") + Right("control")

QueueIsSeq == \E S : queue \in Seq(S)

RoomInv ==
  /\ QueueIsSeq
  /\ room \in [Thread -> BOOLEAN]
  /\ Len(queue) + Rights <= PacketCap + 2

\* There are three threads.
LEMMA ThreeThreads == Cardinality(Thread) = 3
<1>1. IsFiniteSet({"input"}) /\ Cardinality({"input"}) = 1
  BY FS_Singleton
<1>2. IsFiniteSet({"input"} \cup {"send"}) /\ Cardinality({"input"} \cup {"send"}) = 2
  BY <1>1, FS_AddElement
<1>3. Cardinality(({"input"} \cup {"send"}) \cup {"control"}) = 3
  BY <1>2, FS_AddElement
<1>4. Thread = ({"input"} \cup {"send"}) \cup {"control"}
  BY DEF Thread
<1>. QED
  BY <1>3, <1>4

\* Eviction leaves a queue with room for one packet below the cap.
LEMMA EvictedHasRoom ==
  ASSUME NEW S, queue \in Seq(S), NEW size
  PROVE  /\ Evicted(size) \in Seq(S)
         /\ Len(Evicted(size)) <= PacketCap - 1
<1>. DEFINE Rest(i) == SubSeq(queue, i, Len(queue))
            Room(i) == \/ Rest(i) = <<>>
                       \/ Bytes(Rest(i)) + size <= ByteLimit /\ Len(Rest(i)) < PacketCap
            Fit     == {i \in 1 .. Len(queue) + 1 : Room(i)}
<1>1. Len(queue) \in Nat /\ \A i \in 1 .. Len(queue) : queue[i] \in S
  BY LenProperties, ElementOfSeq
<1>2. Len(queue) + 1 \in Fit
  <2>1. Rest(Len(queue) + 1) = <<>>
    BY <1>1, SubSeqEmpty
  <2>. QED
    BY <1>1, <2>1
<1>3. PICK m \in Fit : \A j \in Fit : m <= j
  <2>. HIDE DEF Room
  <2>1. Fit \in SUBSET Nat
    BY <1>1
  <2>2. Fit # {}
    BY <1>2
  <2>. HIDE DEF Fit
  <2>. QED
    BY <2>1, <2>2, NatMin
<1>4. \A i \in 1 .. Len(queue) + 1 : Room(i) => Rest(i) \in Seq(S) /\ Len(Rest(i)) <= PacketCap - 1
  <2>. SUFFICES ASSUME NEW i \in 1 .. Len(queue) + 1, Room(i)
                PROVE  Rest(i) \in Seq(S) /\ Len(Rest(i)) <= PacketCap - 1
    OBVIOUS
  <2>1. Rest(i) \in Seq(S)
    <3>1. \A j \in i .. Len(queue) : queue[j] \in S
      BY <1>1
    <3>. QED
      BY <1>1, <3>1, SubSeqProperties
  <2>2. Len(Rest(i)) \in Nat
    BY <2>1, LenProperties
  <2>3. CASE Rest(i) = <<>>
    <3>1. Len(<<>>) = 0
      BY EmptySeq
    <3>. QED
      BY <2>1, <2>3, <3>1, SenderAssumption
  <2>4. CASE Len(Rest(i)) < PacketCap
    BY <2>1, <2>2, <2>4, SenderAssumption
  <2>. QED
    BY <2>3, <2>4
<1>. DEFINE Cut == CHOOSE i \in 1 .. Len(queue) + 1 :
                     Room(i) /\ \A j \in 1 .. i - 1 : ~Room(j)
<1>5. Cut \in 1 .. Len(queue) + 1 /\ Room(Cut)
  <2>. HIDE DEF Room
  <2>1. m \in 1 .. Len(queue) + 1 /\ Room(m)
    BY <1>3
  <2>2. ASSUME NEW j \in 1 .. m - 1, Room(j) PROVE FALSE
    BY <1>1, <1>3, <2>1, <2>2
  <2>. QED
    BY <2>1, <2>2
<1>6. Evicted(size) = Rest(Cut)
  BY Zenon DEF Evicted
<1>. HIDE DEF Rest, Room, Cut
<1>. QED
  BY <1>4, <1>5, <1>6

\* At the start the queue is empty and no thread has made room.
LEMMA RoomStarts == Init => RoomInv
<1>. SUFFICES ASSUME Init PROVE RoomInv
  OBVIOUS
<1>1. queue \in Seq({}) /\ Len(queue) = 0
  BY EmptySeq DEF Init
<1>2. room \in [Thread -> BOOLEAN] /\ Rights = 0
  BY DEF Init, Thread, Rights, Right
<1>3. QueueIsSeq
  BY <1>1, Zenon DEF QueueIsSeq
<1>. QED
  BY <1>1, <1>2, <1>3, SenderAssumption DEF RoomInv

\* A thread that makes room gains a right and leaves one packet less than the cap.
LEMMA RoomMade ==
  ASSUME RoomInv, NEW t \in Thread, MakeRoom(t)
  PROVE  RoomInv'
<1>1. PICK S : queue \in Seq(S)
  BY Zenon DEF RoomInv, QueueIsSeq
<1>2. queue' \in Seq(S) /\ Len(queue') <= PacketCap - 1
  BY <1>1, EvictedHasRoom DEF MakeRoom
<1>3. QueueIsSeq'
  BY <1>2, Zenon DEF QueueIsSeq
<1>4. room' \in [Thread -> BOOLEAN]
  BY DEF MakeRoom, RoomInv
<1>5. Rights' \in 0 .. 3
  BY <1>4 DEF Rights, Right, Thread
<1>6. Len(queue') \in Nat
  BY <1>2, LenProperties
<1>. QED
  BY <1>2, <1>3, <1>4, <1>5, <1>6, SenderAssumption DEF RoomInv

\* A push spends the right it was given.
LEMMA RoomSpent ==
  ASSUME RoomInv, NEW t \in Thread, PushBack(t)
  PROVE  RoomInv'
<1>1. PICK S : queue \in Seq(S)
  BY Zenon DEF RoomInv, QueueIsSeq
<1>. DEFINE x == Head(air[t])
            R == S \cup {x}
<1>2. queue \in Seq(R)
  <2>1. Len(queue) \in Nat /\ queue \in [1 .. Len(queue) -> S]
    BY <1>1, LenProperties
  <2>2. queue \in [1 .. Len(queue) -> R]
    BY <2>1
  <2>. QED
    BY <2>1, <2>2, SeqDef
<1>3. queue' \in Seq(R) /\ Len(queue') = Len(queue) + 1 /\ Len(queue) \in Nat
  BY <1>2, AppendProperties, LenProperties DEF PushBack
<1>4. QueueIsSeq'
  BY <1>3, Zenon DEF QueueIsSeq
<1>5. room' \in [Thread -> BOOLEAN]
  BY DEF PushBack, RoomInv
<1>6. Rights' = Rights - 1 /\ Rights \in 0 .. 3
  BY DEF PushBack, RoomInv, Rights, Right, Thread
<1>. HIDE DEF Rights
<1>. QED
  BY <1>3, <1>4, <1>5, <1>6, SenderAssumption DEF RoomInv

\* The send thread only takes packets away.
LEMMA RoomKeptByWait ==
  ASSUME RoomInv, SendWait
  PROVE  RoomInv'
<1>1. PICK S : queue \in Seq(S)
  BY Zenon DEF RoomInv, QueueIsSeq
<1>2. queue' \in Seq(S) /\ Len(queue') <= Len(queue)
  <2>1. CASE queue' = queue
    BY <1>1, <2>1, LenProperties
  <2>2. CASE queue # <<>> /\ queue' = Tail(queue)
    BY <1>1, <2>2, HeadTailProperties, LenProperties
  <2>. QED
    BY <2>1, <2>2 DEF SendWait
<1>3. QueueIsSeq'
  BY <1>2, Zenon DEF QueueIsSeq
<1>4. room' = room /\ Rights' = Rights /\ Rights \in 0 .. 3
  BY DEF SendWait, RoomInv, Rights, Right, Thread
<1>5. Len(queue) \in Nat /\ Len(queue') \in Nat
  BY <1>1, <1>2, LenProperties
<1>. HIDE DEF Rights
<1>. QED
  BY <1>2, <1>3, <1>4, <1>5, SenderAssumption DEF RoomInv

\* close() empties the queue.
LEMMA RoomKeptByClose ==
  ASSUME RoomInv, CloseClear
  PROVE  RoomInv'
<1>1. queue' \in Seq({}) /\ Len(queue') = 0
  BY EmptySeq DEF CloseClear
<1>2. QueueIsSeq'
  BY <1>1, Zenon DEF QueueIsSeq
<1>3. room' = room /\ Rights' \in 0 .. 3 /\ room \in [Thread -> BOOLEAN]
  BY DEF CloseClear, RoomInv, Rights, Right, Thread
<1>4. Rights' <= PacketCap + 2
  BY <1>3, SenderAssumption
<1>. QED
  BY <1>1, <1>2, <1>3, <1>4 DEF RoomInv

\* Any other step leaves the queue and the rights alone.
LEMMA RoomUntouched ==
  ASSUME RoomInv, UNCHANGED <<queue, room>>
  PROVE  RoomInv'
BY DEF RoomInv, QueueIsSeq, Rights, Right

\* One step of the sender.
LEMMA RoomStep ==
  ASSUME RoomInv, [Next]_vars
  PROVE  RoomInv'
<1>1. CASE InputPacket
  BY <1>1, RoomUntouched DEF InputPacket
<1>2. ASSUME NEW t \in Thread, Enqueue(t) PROVE RoomInv'
  <2>1. CASE DropOversized(t)
    BY <2>1, RoomUntouched DEF DropOversized
  <2>. QED
    BY <1>2, <2>1, RoomMade, RoomSpent DEF Enqueue
<1>3. CASE SendThread
  <2>1. CASE SendTick
    BY <2>1, RoomUntouched DEF SendTick
  <2>2. CASE SendWait
    BY <2>2, RoomKeptByWait
  <2>3. CASE SendGate
    BY <2>3, RoomUntouched DEF SendGate, buffer
  <2>4. CASE SendStamp
    BY <2>4, RoomUntouched DEF SendStamp, buffer
  <2>5. CASE SendTo
    BY <2>5, RoomUntouched DEF SendTo, buffer
  <2>. QED
    BY <1>2, <1>3, <2>1, <2>2, <2>3, <2>4, <2>5 DEF SendThread, Thread
<1>4. CASE ControlGoesOn
  <2>1. CASE OpenStart
    BY <2>1, RoomUntouched DEF OpenStart, buffer
  <2>2. CASE Reinit
    BY <2>2, RoomUntouched DEF Reinit
  <2>3. CASE CloseJoin
    BY <2>3, RoomUntouched DEF CloseJoin, buffer
  <2>4. CASE CloseDisable
    BY <2>4, RoomUntouched DEF CloseDisable
  <2>. QED
    BY <1>2, <1>4, <2>1, <2>2, <2>3, <2>4, RoomKeptByClose DEF ControlGoesOn, Thread
<1>5. CASE set_enabled \/ DeadlinePasses \/ TimeoutFalls
  BY <1>5, RoomUntouched DEF set_enabled, DeadlinePasses, TimeoutFalls, buffer
<1>6. CASE OpenInit \/ Configure \/ CloseStop
  BY <1>6, RoomUntouched DEF OpenInit, Configure, CloseStop, buffer
<1>7. CASE UNCHANGED vars
  BY <1>7, RoomUntouched DEF vars, buffer
<1>. QED
  BY <1>1, <1>2, <1>3, <1>4, <1>5, <1>6, <1>7 DEF Next, Thread

\* RoomInv gives the bound.
LEMMA RoomBounds == RoomInv => QueueBound
<1>. SUFFICES ASSUME RoomInv PROVE QueueBound
  OBVIOUS
<1>1. Len(queue) \in Nat
  BY LenProperties DEF RoomInv, QueueIsSeq
<1>2. Rights \in 0 .. 3
  BY DEF RoomInv, Rights, Right, Thread
<1>. HIDE DEF Rights
<1>. QED
  BY <1>1, <1>2, ThreeThreads, SenderAssumption DEF RoomInv, QueueBound

\* enqueue_wire_copy: whatever the cap and the interleaving, the queue never
\* holds more than the cap and the two other threads that may be enqueuing.
THEOREM QueueBounded == Spec => []QueueBound
<1>1. RoomInv /\ [Next]_vars => RoomInv'
  BY RoomStep
<1>. QED
  BY RoomStarts, RoomBounds, <1>1, PTL DEF Spec

(* ------------------------------- the gate ------------------------------- *)

Closed == ~gate.on \/ Passed

\* A packet that left a closed gate behind is the one that had passed it: by
\* then the thread holds no other that has, and it takes none past SendGate.
GateInv ==
  /\ gate \in [on : BOOLEAN, until : {"never", "later", "passed"}]
  /\ \/ leaked = 0
     \/ leaked = 1 /\ Closed /\ pc \notin {"stamp", "pace"}

\* A step that leaves the gate alone and carries no packet past it.
LEMMA GateUntouched ==
  ASSUME GateInv, UNCHANGED <<gate, leaked>>,
         pc' = pc \/ pc' \notin {"stamp", "pace"}
  PROVE  GateInv'
BY DEF GateInv, Closed, Passed

LEMMA GateStarts == Init => GateInv
BY DEF Init, GateInv

\* The steps that do either.
LEMMA GateMoved ==
  ASSUME GateInv, SendGate \/ SendStamp \/ SendTo \/ set_enabled \/ DeadlinePasses
  PROVE  GateInv'
<1>1. CASE SendGate
  <2>1. UNCHANGED leaked
    BY <1>1 DEF SendGate, sends
  <2>2. CASE gate.on /\ ~Passed
    <3>1. leaked = 0 /\ UNCHANGED gate
      BY <1>1, <2>2 DEF SendGate, GateInv, Closed
    <3>. QED
      BY <2>1, <3>1 DEF GateInv
  <2>3. CASE Closed
    <3>1. /\ pc' = "tick"
          /\ gate' = [on |-> FALSE, until |-> IF gate.on THEN "never" ELSE gate.until]
      BY <1>1, <2>3 DEF SendGate, Closed
    <3>. QED
      BY <2>1, <3>1 DEF GateInv, Closed
  <2>. QED
    BY <2>2, <2>3 DEF Closed
<1>2. CASE SendStamp
  BY <1>2 DEF SendStamp, GateInv, sends
<1>3. CASE SendTo
  <2>1. leaked = 0
    BY <1>3 DEF SendTo, GateInv
  <2>. QED
    BY <1>3, <2>1 DEF SendTo, GateInv, Closed, Passed
<1>4. CASE set_enabled
  <2>1. pc' = pc
    BY <1>4 DEF set_enabled, thread
  <2>2. CASE gate' = [on |-> FALSE, until |-> "never"] /\ UNCHANGED leaked
    BY <2>1, <2>2 DEF GateInv, Closed
  <2>3. CASE \E u \in Deadlines : gate' = [on |-> TRUE, until |-> u] /\ leaked' = 0
    BY <2>3, SenderAssumption DEF GateInv
  <2>. QED
    BY <1>4, <2>2, <2>3 DEF set_enabled
<1>5. CASE DeadlinePasses
  BY <1>5 DEF DeadlinePasses, GateInv, Closed, Passed, thread, sends
<1>. QED
  BY <1>1, <1>2, <1>3, <1>4, <1>5

LEMMA GateStep == GateInv /\ [Next]_vars => GateInv'
<1>. SUFFICES ASSUME GateInv, [Next]_vars PROVE GateInv'
  OBVIOUS
<1>1. CASE InputPacket \/ TimeoutFalls
  BY <1>1, GateUntouched DEF InputPacket, TimeoutFalls, thread, sends
<1>2. ASSUME NEW t \in Thread, Enqueue(t) PROVE GateInv'
  <2>1. CASE DropOversized(t)
    BY <2>1, GateUntouched DEF DropOversized, thread, sends
  <2>2. CASE MakeRoom(t)
    BY <2>2, GateUntouched DEF MakeRoom, thread, sends
  <2>3. CASE PushBack(t)
    BY <2>3, GateUntouched DEF PushBack, thread, sends
  <2>. QED
    BY <1>2, <2>1, <2>2, <2>3 DEF Enqueue
<1>3. CASE SendTick \/ SendWait
  BY <1>3, GateUntouched DEF SendTick, SendWait, sends
<1>4. CASE OpenStart
  BY <1>4, GateUntouched DEF OpenStart, sends
<1>5. CASE Reinit \/ CloseJoin \/ CloseDisable \/ CloseClear
  BY <1>5, GateUntouched DEF Reinit, CloseJoin, CloseDisable, CloseClear, thread, sends
<1>6. CASE OpenInit \/ Configure \/ CloseStop
  BY <1>6, GateUntouched DEF OpenInit, Configure, CloseStop, thread, sends
<1>7. CASE UNCHANGED vars
  BY <1>7, GateUntouched DEF vars, thread, sends
<1>. QED
  BY <1>1, <1>2, <1>3, <1>4, <1>5, <1>6, <1>7, GateMoved
  DEF Next, SendThread, ControlGoesOn, Thread

\* send_thread_main: however set_enabled, its deadline and the send thread
\* interleave, at most one packet leaves after the gate was closed.
THEOREM GateHolds == Spec => []GateStops
<1>1. GateInv => GateStops
  BY DEF GateInv, GateStops
<1>2. GateInv /\ [Next]_vars => GateInv'
  BY GateStep
<1>. QED
  BY GateStarts, <1>1, <1>2, PTL DEF Spec

(* ------------------------------- the types ------------------------------ *)

Block == [id : BlockId, shards : Seq(Shard)]

FecInv ==
  /\ TxOK(fec) /\ fec.nblocks = Len(blocks) /\ blocks \in Seq(Block)
  /\ cfg \in Configs /\ accepted \in Nat

\* The encoder is enabled while open() has started it and close() has not yet
\* disabled it; the thread runs at most that long.
CtlInv ==
  /\ opened \in BOOLEAN /\ opens \in Nat
  /\ ctl \in {"idle", "starting", "reinit", "joining", "disabling", "closing"}
  /\ ctl = "starting" => ~opened
  /\ ctl \in {"reinit", "joining", "disabling", "closing"} => opened
  /\ fec.active <=> (opened /\ ctl # "closing") \/ ctl = "starting"
  /\ send_stop = (ctl = "joining")
  /\ pc \in {"off", "tick", "wait", "gate", "stamp", "pace"}
  /\ pc # "off" => opened /\ ctl \in {"idle", "reinit", "joining"}

Sending == pc \in {"gate", "stamp", "pace"}

HandInv ==
  /\ Sending => hand \in Shard
  /\ ~Sending => hand = None
  /\ stamp \in 0 .. SeqRange - 1 /\ stream_sequence \in 0 .. SeqRange - 1
  /\ wire \in [blk : Nat, seq : 0 .. SeqRange - 1, session : Nat]

BufferInv ==
  /\ air \in [Thread -> Seq(Shard)] /\ room \in [Thread -> BOOLEAN]
  /\ \A t \in Thread : room[t] => air[t] # <<>>
  /\ air["send"] # <<>> => pc = "wait"
  /\ air["control"] # <<>> => ctl \in {"idle", "closing"}
  /\ queue \in Seq(Shard)

TypeInv == FecInv /\ CtlInv /\ HandInv /\ BufferInv

LEMMA SeqNext == (0 + 1) % SeqRange \in 0 .. SeqRange - 1
                 /\ \A i \in Nat : (i + 1) % SeqRange \in 0 .. SeqRange - 1
BY SenderAssumption

LEMMA TypeStarts == Init => TypeInv
<1>. SUFFICES ASSUME Init PROVE TypeInv
  OBVIOUS
<1>1. <<>> \in Seq(Shard) /\ <<>> \in Seq(Block) /\ Len(<<>>) = 0
  BY EmptySeq
<1>2. FecInv /\ ~fec.active
  <2>1. PICK id \in FirstIds : fec = NewTx(id)
    BY DEF Init
  <2>2. id \in BlockId
    BY SenderAssumption
  <2>. QED
    BY <1>1, <2>1, <2>2, NewOK DEF Init, FecInv
<1>3. CtlInv
  BY <1>2, SenderAssumption DEF Init, CtlInv
<1>4. HandInv
  BY SenderAssumption DEF Init, HandInv, Sending
<1>5. BufferInv
  <2>1. air = [t \in Thread |-> <<>>] /\ room = [t \in Thread |-> FALSE] /\ queue = <<>>
    BY DEF Init
  <2>. QED
    BY <1>1, <2>1 DEF BufferInv, Thread
<1>. QED
  BY <1>2, <1>3, <1>4, <1>5 DEF TypeInv

\* What an operation of the encoder hands out is a block for the air, and the
\* next one of the history.
LEMMA EncodedOK ==
  ASSUME TypeInv, NEW t \in Thread, NEW r, Handed(fec, r), Encoded(t, r),
         cfg' \in Configs, accepted' \in Nat
  PROVE  /\ FecInv' /\ r.air \in Seq(Shard)
         /\ fec'.active = r.tx.active
         /\ air' = [air EXCEPT ![t] = r.air]
<1>1. TxOK(r.tx) /\ fec' = r.tx
  BY DEF Handed, Encoded
<1>2. CASE r.air = <<>> /\ r.tx.nblocks = fec.nblocks
  <2>1. blocks' = blocks /\ r.air \in Seq(Shard)
    BY <1>2, EmptySeq DEF Encoded
  <2>. QED
    BY <1>1, <1>2, <2>1 DEF Encoded, TypeInv, FecInv
<1>3. CASE r.air # <<>> /\ BlockOf(r.air, fec.nblocks + 1) /\ r.tx.nblocks = fec.nblocks + 1
  <2>. DEFINE b == [id |-> fec.block_id, shards |-> r.air]
  <2>1. r.air \in Seq(Shard) /\ blocks' = Append(blocks, b)
    BY <1>3 DEF Encoded, BlockOf
  <2>2. b \in Block
    BY <2>1 DEF Block, TypeInv, FecInv, TxOK, TxType
  <2>. HIDE DEF b
  <2>3. blocks' \in Seq(Block) /\ Len(blocks') = Len(blocks) + 1
    BY <2>1, <2>2, AppendProperties DEF TypeInv, FecInv
  <2>. QED
    BY <1>1, <1>3, <2>1, <2>3 DEF Encoded, TypeInv, FecInv
<1>. QED
  BY <1>2, <1>3 DEF Handed

LEMMA TypeInput == ASSUME TypeInv, InputPacket PROVE TypeInv'
<1>1. PICK s \in Sizes : /\ Encoded("input", push_app(fec, [no |-> accepted + 1, size |-> s]))
                         /\ accepted' = IF fits(fec, [no |-> accepted + 1, size |-> s])
                                        THEN accepted + 1 ELSE accepted
  BY Zenon DEF InputPacket
<1>. DEFINE p == [no |-> accepted + 1, size |-> s]
<1>2. p \in Packet
  BY SenderAssumption DEF Packet, TypeInv, FecInv
<1>3. accepted' \in Nat /\ cfg' \in Configs
  BY <1>1 DEF InputPacket, TypeInv, FecInv
<1>. DEFINE r == push_app(fec, p)
<1>4. Handed(fec, r) /\ Encoded("input", r) /\ r.tx.active = fec.active
  BY <1>1, <1>2, PushOK DEF TypeInv, FecInv
<1>. HIDE DEF r
<1>5. FecInv' /\ r.air \in Seq(Shard) /\ fec'.active = fec.active /\ air' = [air EXCEPT !["input"] = r.air]
  BY <1>3, <1>4, EncodedOK DEF Thread
<1>6. CtlInv'
  BY <1>5 DEF InputPacket, TypeInv, CtlInv, control, thread
<1>7. HandInv'
  BY DEF InputPacket, TypeInv, HandInv, thread, sends, Sending
<1>8. BufferInv'
  BY <1>5 DEF InputPacket, TypeInv, BufferInv, thread, control, Thread
<1>. QED
  BY <1>5, <1>6, <1>7, <1>8 DEF TypeInv

\* A step that leaves all of one part alone.
LEMMA FecUntouched == FecInv /\ UNCHANGED <<fec, cfg, accepted, blocks>> => FecInv'
BY DEF FecInv

LEMMA HandUntouched ==
  HandInv /\ UNCHANGED <<thread, stream_sequence, wire>> => HandInv'
BY DEF HandInv, Sending, thread

LEMMA TypeEnqueue == ASSUME TypeInv, NEW t \in Thread, Enqueue(t) PROVE TypeInv'
<1>1. /\ UNCHANGED <<fec, cfg, accepted, blocks>>
      /\ UNCHANGED <<thread, stream_sequence, wire>> /\ UNCHANGED control
      /\ air[t] # <<>> /\ air' \in {air, [air EXCEPT ![t] = Tail(@)]}
      /\ room' \in {[room EXCEPT ![t] = TRUE], [room EXCEPT ![t] = FALSE], room}
      /\ \A u \in Thread : room'[u] => (room[u] /\ u # t) \/ air' = air
  BY DEF Enqueue, DropOversized, MakeRoom, PushBack, sends, TypeInv, BufferInv
<1>2. Tail(air[t]) \in Seq(Shard) /\ Head(air[t]) \in Shard
  BY <1>1, HeadTailProperties DEF TypeInv, BufferInv
<1>3. queue' \in Seq(Shard)
  <2>1. CASE DropOversized(t)
    BY <2>1 DEF DropOversized, TypeInv, BufferInv
  <2>2. CASE MakeRoom(t)
    BY <2>2, EvictedHasRoom DEF MakeRoom, TypeInv, BufferInv
  <2>3. CASE PushBack(t)
    BY <2>3, <1>2, AppendProperties DEF PushBack, TypeInv, BufferInv
  <2>. QED
    BY <2>1, <2>2, <2>3 DEF Enqueue
<1>4. CtlInv'
  BY <1>1 DEF CtlInv, TypeInv, control, thread
<1>5. BufferInv'
  <2>1. air' \in [Thread -> Seq(Shard)] /\ room' \in [Thread -> BOOLEAN]
    BY <1>1, <1>2 DEF TypeInv, BufferInv
  <2>2. \A u \in Thread : air'[u] # <<>> => air[u] # <<>>
    BY <1>1 DEF TypeInv, BufferInv
  <2>3. \A u \in Thread : room'[u] => air'[u] # <<>>
    <3>1. CASE DropOversized(t) \/ PushBack(t)
      BY <3>1 DEF DropOversized, PushBack, TypeInv, BufferInv
    <3>2. CASE MakeRoom(t)
      BY <3>2 DEF MakeRoom, TypeInv, BufferInv
    <3>. QED
      BY <3>1, <3>2 DEF Enqueue
  <2>. QED
    BY <1>1, <1>3, <2>1, <2>2, <2>3 DEF TypeInv, BufferInv, control, thread, Thread
<1>. QED
  BY <1>1, <1>4, <1>5, FecUntouched, HandUntouched DEF TypeInv

LEMMA TypeSendTick == ASSUME TypeInv, SendTick PROVE TypeInv'
<1>1. CASE send_stop
  <2>1. pc = "tick" /\ pc' = "off" /\ UNCHANGED <<fec, air, blocks, cfg, control, hand, stamp, room, queue,
                                    stream_sequence, accepted, wire>>
    BY <1>1 DEF SendTick, sends
  <2>. QED
    BY <2>1 DEF TypeInv, FecInv, CtlInv, HandInv, BufferInv, Sending, control
<1>2. CASE ~send_stop
  <2>1. /\ pc = "tick" /\ pc' = "wait" /\ Encoded("send", on_tick(fec))
        /\ UNCHANGED <<cfg, control, hand, stamp, room, queue, stream_sequence, accepted, wire>>
    BY <1>2 DEF SendTick, sends
  <2>. DEFINE r == on_tick(fec)
  <2>2. Handed(fec, r) /\ r.tx.active = fec.active /\ Encoded("send", r)
    BY <2>1, TickOK DEF TypeInv, FecInv
  <2>. HIDE DEF r
  <2>3. cfg' \in Configs /\ accepted' \in Nat
    BY <2>1 DEF TypeInv, FecInv
  <2>4. /\ FecInv' /\ r.air \in Seq(Shard) /\ fec'.active = fec.active
        /\ air' = [air EXCEPT !["send"] = r.air]
    BY <2>2, <2>3, EncodedOK DEF Thread
  <2>5. CtlInv'
    BY <2>1, <2>4 DEF TypeInv, CtlInv, control
  <2>6. HandInv'
    BY <2>1 DEF TypeInv, HandInv, Sending
  <2>7. BufferInv'
    BY <2>1, <2>4 DEF TypeInv, BufferInv, control, Thread
  <2>. QED
    BY <2>4, <2>5, <2>6, <2>7 DEF TypeInv
<1>. QED
  BY <1>1, <1>2

LEMMA TypeSendWait == ASSUME TypeInv, SendWait PROVE TypeInv'
<1>1. /\ UNCHANGED <<fec, cfg, accepted, blocks, control, stamp, air, room, stream_sequence, wire>>
      /\ pc = "wait" /\ air["send"] = <<>>
  BY DEF SendWait, sends
<1>2. CASE send_stop \/ queue = <<>>
  <2>1. UNCHANGED <<hand, queue>> /\ pc' \in {"off", "tick"} /\ (pc' = "off" <=> send_stop)
    BY <1>2 DEF SendWait
  <2>. QED
    BY <1>1, <2>1, FecUntouched DEF TypeInv, CtlInv, HandInv, BufferInv, Sending, control
<1>3. CASE ~(send_stop \/ queue = <<>>)
  <2>1. pc' = "gate" /\ hand' = Head(queue) /\ queue' = Tail(queue) /\ queue # <<>>
    BY <1>3 DEF SendWait
  <2>2. hand' \in Shard /\ queue' \in Seq(Shard)
    BY <2>1, HeadTailProperties DEF TypeInv, BufferInv
  <2>3. CtlInv'
    BY <1>1, <2>1 DEF TypeInv, CtlInv, control
  <2>4. HandInv' /\ BufferInv'
    BY <1>1, <2>1, <2>2 DEF TypeInv, HandInv, BufferInv, Sending, control
  <2>. QED
    BY <1>1, <2>3, <2>4, FecUntouched DEF TypeInv
<1>. QED
  BY <1>2, <1>3

LEMMA TypeSendRest ==
  ASSUME TypeInv, SendGate \/ SendStamp \/ SendTo
  PROVE  TypeInv'
<1>1. FecInv' /\ CtlInv' /\ BufferInv'
  <2>1. /\ UNCHANGED <<fec, cfg, accepted, blocks, control, buffer>>
        /\ pc \in {"gate", "stamp", "pace"} /\ pc' \in {"tick", "stamp", "pace"}
    BY DEF SendGate, SendStamp, SendTo
  <2>. QED
    BY <2>1 DEF TypeInv, FecInv, CtlInv, BufferInv, control, buffer
<1>2. HandInv'
  <2>1. CASE SendGate
    BY <2>1 DEF SendGate, TypeInv, HandInv, Sending, sends
  <2>2. CASE SendStamp
    <3>1. (stream_sequence + 1) % SeqRange \in 0 .. SeqRange - 1
      BY SeqNext DEF TypeInv, HandInv
    <3>2. stamp' \in 0 .. SeqRange - 1 /\ stream_sequence' \in 0 .. SeqRange - 1
      BY <2>2, <3>1, SenderAssumption DEF SendStamp, TypeInv, HandInv
    <3>3. pc = "stamp" /\ pc' = "pace" /\ UNCHANGED <<hand, wire>>
      BY <2>2 DEF SendStamp, sends
    <3>. QED
      BY <3>2, <3>3 DEF TypeInv, HandInv, Sending
  <2>3. CASE SendTo
    <3>1. /\ pc = "pace" /\ pc' = "tick" /\ hand' = None /\ stamp' = 0 /\ UNCHANGED stream_sequence
          /\ wire' = [blk |-> hand.blk, seq |-> stamp, session |-> opens]
      BY <2>3 DEF SendTo
    <3>2. wire' \in [blk : Nat, seq : 0 .. SeqRange - 1, session : Nat]
      BY <3>1 DEF TypeInv, HandInv, CtlInv, Sending, Shard
    <3>. QED
      BY <3>1, <3>2, SenderAssumption DEF TypeInv, HandInv, Sending
  <2>. QED
    BY <2>1, <2>2, <2>3
<1>. QED
  BY <1>1, <1>2 DEF TypeInv

LEMMA TypeClock ==
  ASSUME TypeInv, set_enabled \/ DeadlinePasses \/ TimeoutFalls
  PROVE  TypeInv'
<1>1. /\ UNCHANGED <<cfg, accepted, blocks, control, thread, buffer, stream_sequence, wire>>
      /\ fec' \in {fec, [fec EXCEPT !.due = TRUE]}
  BY DEF set_enabled, DeadlinePasses, TimeoutFalls, sends
<1>2. TxOK(fec') /\ fec'.active = fec.active /\ fec'.nblocks = fec.nblocks
  BY <1>1 DEF TypeInv, FecInv, TxOK, TxType
<1>3. FecInv'
  BY <1>1, <1>2 DEF TypeInv, FecInv
<1>4. CtlInv'
  BY <1>1, <1>2 DEF TypeInv, CtlInv, control, thread
<1>5. BufferInv'
  BY <1>1 DEF TypeInv, BufferInv, control, buffer, thread
<1>. QED
  BY <1>1, <1>3, <1>4, <1>5, HandUntouched DEF TypeInv

\* The steps of the calls that leave the encoder alone.
LEMMA TypeControl ==
  ASSUME TypeInv, OpenStart \/ Configure \/ CloseStop \/ CloseJoin \/ CloseClear
  PROVE  TypeInv'
<1>1. FecInv'
  BY DEF OpenStart, Configure, CloseStop, CloseJoin, CloseClear, TypeInv, FecInv
<1>2. CtlInv'
  <2>1. CASE OpenStart
    BY <2>1 DEF OpenStart, TypeInv, CtlInv
  <2>2. CASE Configure
    BY <2>2 DEF Configure, TypeInv, CtlInv, thread
  <2>3. CASE CloseStop
    BY <2>3 DEF CloseStop, TypeInv, CtlInv, thread
  <2>4. CASE CloseJoin
    BY <2>4 DEF CloseJoin, TypeInv, CtlInv, thread
  <2>5. CASE CloseClear
    BY <2>5 DEF CloseClear, TypeInv, CtlInv, thread
  <2>. QED
    BY <2>1, <2>2, <2>3, <2>4, <2>5
<1>3. HandInv'
  <2>1. CASE OpenStart
    BY <2>1 DEF OpenStart, TypeInv, CtlInv, HandInv, Sending, sends
  <2>2. CASE ~OpenStart
    BY <2>2, HandUntouched DEF Configure, CloseStop, CloseJoin, CloseClear, TypeInv, sends
  <2>. QED
    BY <2>1, <2>2
<1>4. BufferInv'
  <2>1. CASE OpenStart
    BY <2>1 DEF OpenStart, TypeInv, CtlInv, BufferInv, buffer
  <2>2. CASE Configure \/ CloseStop \/ CloseJoin
    BY <2>2 DEF Configure, CloseStop, CloseJoin, TypeInv, BufferInv, thread, buffer
  <2>3. CASE CloseClear
    BY <2>3, EmptySeq DEF CloseClear, TypeInv, BufferInv, thread
  <2>. QED
    BY <2>1, <2>2, <2>3
<1>. QED
  BY <1>1, <1>2, <1>3, <1>4 DEF TypeInv

LEMMA TypeOpenInit == ASSUME TypeInv, OpenInit PROVE TypeInv'
<1>1. /\ ctl = "idle" /\ ~opened /\ ctl' = "starting" /\ opens' = opens + 1
      /\ fec' = init(fec, cfg) /\ air["control"] = <<>>
      /\ UNCHANGED <<cfg, opened, send_stop, thread, buffer, stream_sequence, accepted, blocks, wire>>
  BY DEF OpenInit, sends
<1>2. cfg.k \in Nat \ {0} /\ cfg.n \in Nat /\ cfg.k <= cfg.n /\ cfg.max \in Nat
  BY SenderAssumption DEF TypeInv, FecInv
<1>3. TxOK(fec') /\ fec'.active /\ fec'.nblocks = fec.nblocks
  BY <1>1, <1>2, InitOK DEF TypeInv, FecInv
<1>4. FecInv' /\ CtlInv' /\ BufferInv'
  BY <1>1, <1>3 DEF TypeInv, FecInv, CtlInv, BufferInv, thread, buffer
<1>. QED
  BY <1>1, <1>4, HandUntouched DEF TypeInv

\* The steps that flush, and then start the encoder anew or disable it.
LEMMA TypeFlush == ASSUME TypeInv, Reinit \/ CloseDisable PROVE TypeInv'
<1>. DEFINE f == flush(fec)
<1>1. Handed(fec, f) /\ TxOK(f.tx) /\ f.tx.active = fec.active
  BY FullerOK, FlushOK DEF TypeInv, FecInv, Handed
<1>. HIDE DEF f
<1>2. cfg.k \in Nat \ {0} /\ cfg.n \in Nat /\ cfg.k <= cfg.n /\ cfg.max \in Nat
  BY SenderAssumption DEF TypeInv, FecInv
<1>3. PICK r : /\ Handed(fec, r) /\ Encoded("control", r)
               /\ Reinit <=> r.tx.active
  <2>1. CASE Reinit
    <3>. DEFINE r == [f EXCEPT !.tx = init(@, cfg)]
    <3>1. Encoded("control", r)
      BY <2>1 DEF Reinit, f
    <3>2. r.tx = init(f.tx, cfg) /\ r.air = f.air
      BY DEF f, flush, Nothing
    <3>. HIDE DEF r
    <3>3. Handed(fec, r) /\ r.tx.active
      BY <1>1, <1>2, <3>2, InitOK DEF Handed
    <3>. QED
      BY <2>1, <3>1, <3>3
  <2>2. CASE CloseDisable
    <3>. DEFINE r == [f EXCEPT !.tx = disable(@)]
    <3>1. Encoded("control", r)
      BY <2>2 DEF CloseDisable, f
    <3>2. r.tx = disable(f.tx) /\ r.air = f.air
      BY DEF f, flush, Nothing
    <3>. HIDE DEF r
    <3>3. Handed(fec, r) /\ ~r.tx.active
      BY <1>1, <3>2, DisableOK DEF Handed
    <3>4. ~Reinit
      BY <2>2 DEF Reinit, CloseDisable
    <3>. QED
      BY <3>1, <3>3, <3>4
  <2>. QED
    BY <2>1, <2>2
<1>4. /\ UNCHANGED <<cfg, opened, send_stop, opens, thread, room, queue, stream_sequence, accepted, wire>>
      /\ \/ Reinit /\ ctl = "reinit" /\ ctl' = "idle"
         \/ ~Reinit /\ ctl = "disabling" /\ ctl' = "closing"
  BY DEF Reinit, CloseDisable, sends
<1>5. cfg' \in Configs /\ accepted' \in Nat
  BY <1>4 DEF TypeInv, FecInv
<1>6. /\ FecInv' /\ r.air \in Seq(Shard) /\ fec'.active = r.tx.active
      /\ air' = [air EXCEPT !["control"] = r.air]
  BY <1>3, <1>5, EncodedOK DEF Thread
<1>7. CtlInv'
  BY <1>3, <1>4, <1>6 DEF TypeInv, CtlInv, thread
<1>8. BufferInv'
  BY <1>4, <1>6 DEF TypeInv, BufferInv, thread, Thread
<1>. QED
  BY <1>4, <1>6, <1>7, <1>8, HandUntouched DEF TypeInv

LEMMA TypeStep == TypeInv /\ [Next]_vars => TypeInv'
<1>. SUFFICES ASSUME TypeInv, [Next]_vars PROVE TypeInv'
  OBVIOUS
<1>1. CASE UNCHANGED vars
  BY <1>1 DEF TypeInv, FecInv, CtlInv, HandInv, BufferInv, Sending,
              vars, control, thread, buffer, sends
<1>. QED
  BY <1>1, TypeInput, TypeEnqueue, TypeSendTick, TypeSendWait, TypeSendRest, TypeClock,
     TypeControl, TypeOpenInit, TypeFlush
  DEF Next, SendThread, ControlGoesOn, Thread

LEMMA Typed == Spec => []TypeInv
BY TypeStarts, TypeStep, PTL DEF Spec

\* The encoder is enabled as long as the send thread runs, what it holds is
\* less than a block, and the thread has a packet in hand exactly while it is
\* between the queue and sendto.
THEOREM SenderTyped == Spec => []TypeOK
<1>1. TypeInv => TypeOK
  <2>1. None \notin Shard
    BY DEF None, Shard
  <2>. QED
    BY <2>1 DEF TypeInv, FecInv, CtlInv, HandInv, Sending, TxOK, TxType, TypeOK
<1>. QED
  BY <1>1, Typed, PTL

(* --------------------------- sequence numbers --------------------------- *)

\* In the running session the next packet gets the successor of the last one
\* sent, unless it has got it already.  A session that has sent nothing yet has
\* not reached wire.
SequenceInv ==
  /\ wire.session <= opens
  /\ ctl = "starting" => wire.session < opens
  /\ wire.session = opens =>
       /\ pc \in {"tick", "wait", "gate", "stamp"} =>
            stream_sequence = (wire.seq + 1) % SeqRange
       /\ pc = "pace" => stamp = (wire.seq + 1) % SeqRange
  /\ pc = "pace" => stream_sequence = (stamp + 1) % SeqRange

LEMMA SequenceStarts == Init => SequenceInv
BY DEF Init, SequenceInv

LEMMA SequenceUntouched ==
  ASSUME SequenceInv, UNCHANGED <<wire, opens, stream_sequence, stamp, pc>>, ctl' # "starting" \/ ctl' = ctl
  PROVE  SequenceInv'
BY DEF SequenceInv

LEMMA SequenceStep == TypeInv /\ SequenceInv /\ [Next]_vars => SequenceInv'
<1>. SUFFICES ASSUME TypeInv, SequenceInv, [Next]_vars PROVE SequenceInv'
  OBVIOUS
<1>0. opens \in Nat /\ wire.session \in Nat /\ wire.seq \in Nat /\ (pc # "off" => fec.active)
  BY DEF TypeInv, CtlInv, HandInv
<1>1. CASE InputPacket \/ TimeoutFalls \/ set_enabled \/ DeadlinePasses
  BY <1>1, SequenceUntouched
  DEF InputPacket, TimeoutFalls, set_enabled, DeadlinePasses, control, thread, sends
<1>2. ASSUME NEW t \in Thread, Enqueue(t) PROVE SequenceInv'
  BY <1>2, SequenceUntouched DEF Enqueue, DropOversized, MakeRoom, PushBack, control, thread, sends
<1>3. CASE SendTick \/ SendWait \/ SendGate
  BY <1>3 DEF SendTick, SendWait, SendGate, SequenceInv, control, sends
<1>4. CASE SendStamp
  <2>1. /\ pc = "stamp" /\ pc' = "pace" /\ UNCHANGED <<wire, opens, ctl>>
        /\ stamp' = stream_sequence /\ stream_sequence' = (stream_sequence + 1) % SeqRange
    BY <1>0, <1>4 DEF SendStamp, control, sends
  <2>. QED
    BY <2>1 DEF SequenceInv
<1>5. CASE SendTo
  <2>1. /\ pc = "pace" /\ pc' = "tick" /\ UNCHANGED <<opens, ctl, stream_sequence>>
        /\ wire'.seq = stamp /\ wire'.session = opens
    BY <1>5 DEF SendTo, control
  <2>2. ctl # "starting"
    BY <2>1 DEF TypeInv, CtlInv
  <2>3. stream_sequence = (stamp + 1) % SeqRange
    BY <2>1 DEF SequenceInv
  <2>. QED
    BY <1>0, <2>1, <2>2, <2>3 DEF SequenceInv
<1>6. CASE OpenInit
  BY <1>0, <1>6 DEF OpenInit, SequenceInv, thread, sends
<1>7. CASE OpenStart
  BY <1>0, <1>7 DEF OpenStart, SequenceInv, sends
<1>8. CASE Configure \/ CloseStop \/ Reinit \/ CloseJoin \/ CloseDisable \/ CloseClear
  BY <1>8, SequenceUntouched
  DEF Configure, CloseStop, Reinit, CloseJoin, CloseDisable, CloseClear, thread, sends
<1>9. CASE UNCHANGED vars
  BY <1>9, SequenceUntouched DEF vars, control, thread, sends
<1>. QED
  BY <1>1, <1>2, <1>3, <1>4, <1>5, <1>6, <1>7, <1>8, <1>9 DEF Next, SendThread, ControlGoesOn, Thread

\* send_thread_main: however packets are queued, dropped at the gate or flushed,
\* consecutive packets of a session carry consecutive sequence numbers.
THEOREM NoHoles == Spec => SequenceHasNoHoles
<1>1. TypeInv /\ SequenceInv /\ [Next]_vars
      => [wire'.session = wire.session => wire'.seq = (wire.seq + 1) % SeqRange]_wire
  <2>. SUFFICES ASSUME SequenceInv, [Next]_vars, wire' # wire, wire'.session = wire.session
                PROVE  wire'.seq = (wire.seq + 1) % SeqRange
    OBVIOUS
  <2>1. SendTo
    BY DEF Next, SendThread, ControlGoesOn, Enqueue, vars, control, thread, buffer, sends,
           InputPacket, TimeoutFalls, DropOversized, MakeRoom, PushBack,
           SendTick, SendWait, SendGate, SendStamp, set_enabled, DeadlinePasses,
           OpenInit, OpenStart, Configure, Reinit, CloseStop, CloseJoin, CloseDisable, CloseClear
  <2>2. pc = "pace" /\ wire'.seq = stamp /\ wire'.session = opens
    BY <2>1 DEF SendTo
  <2>. QED
    BY <2>2 DEF SequenceInv
<1>2. SequenceInv /\ TypeInv /\ [Next]_vars => SequenceInv'
  BY SequenceStep
<1>3. Spec => []SequenceInv
  BY SequenceStarts, <1>2, Typed, PTL DEF Spec
<1>. QED
  BY <1>1, <1>3, Typed, PTL DEF Spec, SequenceHasNoHoles

(* ----------------------------- the byte count --------------------------- *)

\* FoldLeft takes the largest index first; Folds(s) are its partial results.
Folds(s) == CHOOSE g : g = [t \in SUBSET (DOMAIN s) |->
                              IF t = {} THEN 0 ELSE g[t \ {Max(t)}] + s[Max(t)].size]

IsFold(s, m, g) ==
  g = [t \in SUBSET (1 .. m) |->
         IF t = {} THEN 0 ELSE g[t \ {Max(t)}] + s[Max(t)].size]

\* The partial results exist up to every index of the sequence.
LEMMA FoldExists ==
  ASSUME NEW s \in Seq(Shard)
  PROVE  \E g : IsFold(s, Len(s), g)
<1>. DEFINE n == Len(s)
            T == {m \in 0 .. n : ~ \E g : IsFold(s, m, g)}
<1>1. n \in Nat
  BY LenProperties
<1>. HIDE DEF n
<1>2. T = {}
  <2>. SUFFICES ASSUME T # {} PROVE FALSE
    OBVIOUS
  <2>1. PICK m \in T : \A l \in T : m <= l
    <3>1. T \in SUBSET Nat
      BY <1>1
    <3>. HIDE DEF T
    <3>. QED
      BY <3>1, NatMin
  <2>2. m \in 0 .. n /\ ~ \E g : IsFold(s, m, g)
    OBVIOUS
  <2>3. m # 0
    <3>. DEFINE g == [t \in {{}} |-> 0]
    <3>1. SUBSET (1 .. 0) = {{}}
      OBVIOUS
    <3>2. g = [t \in SUBSET (1 .. 0) |-> IF t = {} THEN 0 ELSE g[t \ {Max(t)}] + s[Max(t)].size]
      BY <3>1
    <3>3. IsFold(s, 0, g)
      BY <3>2, Zenon DEF IsFold
    <3>. QED
      BY <2>2, <3>3
  <2>4. m - 1 \in 0 .. n /\ m - 1 \notin T
    <3>. HIDE DEF T
    <3>. QED
      BY <1>1, <2>1, <2>2, <2>3
  <2>5. PICK g : IsFold(s, m - 1, g)
    BY <2>4
  <2>. DEFINE Part(t) == IF t = {} THEN 0 ELSE g[t \ {Max(t)}] + s[Max(t)].size
              h == [t \in SUBSET (1 .. m) |-> IF m \in t THEN g[t \ {m}] + s[m].size ELSE g[t]]
              Body(t) == IF t = {} THEN 0 ELSE h[t \ {Max(t)}] + s[Max(t)].size
  <2>6. \A t \in SUBSET (1 .. m - 1) : g[t] = Part(t)
    BY <2>5 DEF IsFold
  <2>7. \A t \in SUBSET (1 .. m - 1) : h[t] = g[t]
    <3>. TAKE t \in SUBSET (1 .. m - 1)
    <3>1. t \in SUBSET (1 .. m) /\ m \notin t
      BY <1>1, <2>2
    <3>. QED
      BY <3>1
  <2>8. \A t \in SUBSET (1 .. m) : h[t] = Body(t)
    <3>. TAKE t \in SUBSET (1 .. m)
    <3>1. CASE m \in t
      <4>1. \A y \in t : m >= y
        BY <2>2
      <4>2. Max(t) = m
        <5>. HIDE DEF h
        <5>1. m \in Nat /\ t # {}
          BY <1>1, <2>2, <3>1
        <5>2. Max(t) \in t /\ \A y \in t : Max(t) >= y
          BY <5>1, MaxOfIndexes
        <5>3. Max(t) \in 1 .. m
          BY <5>2
        <5>. QED
          BY <3>1, <4>1, <5>1, <5>2, <5>3
      <4>3. t \ {m} \in SUBSET (1 .. m - 1)
        BY <1>1, <2>2
      <4>4. h[t \ {m}] = g[t \ {m}]
        BY <2>7, <4>3
      <4>5. h[t] = g[t \ {m}] + s[m].size
        BY <3>1
      <4>. HIDE DEF h
      <4>. QED
        BY <3>1, <4>2, <4>4, <4>5
    <3>2. CASE m \notin t
      <4>1. t \in SUBSET (1 .. m - 1)
        BY <1>1, <2>2, <3>2
      <4>2. h[t] = Part(t)
        BY <2>6, <2>7, <4>1
      <4>3. CASE t # {}
        <5>1. t \ {Max(t)} \in SUBSET (1 .. m - 1)
          BY <4>1
        <5>2. h[t \ {Max(t)}] = g[t \ {Max(t)}]
          BY <2>7, <5>1
        <5>. HIDE DEF h
        <5>. QED
          BY <4>2, <4>3, <5>2
      <4>. QED
        BY <4>2, <4>3
    <3>. QED
      BY <3>1, <3>2
  <2>9. h = [t \in SUBSET (1 .. m) |-> Body(t)]
    <3>1. h = [t \in SUBSET (1 .. m) |-> h[t]]
      OBVIOUS
    <3>. HIDE DEF h
    <3>2. [t \in SUBSET (1 .. m) |-> h[t]] = [t \in SUBSET (1 .. m) |-> Body(t)]
      BY <2>8
    <3>. QED
      BY <3>1, <3>2
  <2>. HIDE DEF h
  <2>10. IsFold(s, m, h)
    BY <2>9, Zenon DEF IsFold
  <2>. QED
    BY <2>2, <2>10
<1>3. n \in 0 .. n
  BY <1>1
<1>. QED
  BY <1>2, <1>3 DEF n

\* The running totals of the sizes of s.
Totals(s, b) ==
  /\ b \in [0 .. Len(s) -> Nat]
  /\ b[0] = 0
  /\ \A i \in 1 .. Len(s) : b[i] = b[i - 1] + s[i].size

\* Bytes is the last running total.
LEMMA BytesTotals ==
  ASSUME NEW s \in Seq(Shard)
  PROVE  \E b : Totals(s, b) /\ Bytes(s) = b[Len(s)]
<1>. DEFINE n == Len(s)
            g == Folds(s)
            b == [i \in 0 .. n |-> g[1 .. i]]
<1>1. n \in Nat /\ DOMAIN s = 1 .. n /\ \A i \in 1 .. n : s[i].size \in Nat
  <2>1. n \in Nat /\ s \in [1 .. n -> Shard]
    BY LenProperties
  <2>. HIDE DEF n
  <2>. QED
    BY <2>1 DEF Shard
<1>2. IsFold(s, n, g)
  <2>1. Folds(s) = CHOOSE h : IsFold(s, n, h)
    BY <1>1, Zenon DEF Folds, IsFold
  <2>. QED
    BY <2>1, FoldExists
<1>3. Bytes(s) = g[1 .. n]
  BY <1>1, Zenon DEF Bytes, FoldLeft, MapThenFoldSet, Folds
<1>. HIDE DEF g, n
<1>4. g[1 .. 0] = 0
  <2>1. 1 .. 0 = {} /\ {} \in SUBSET (1 .. n)
    OBVIOUS
  <2>2. g[{}] = 0
    BY <1>2, <2>1, Zenon DEF IsFold
  <2>. QED
    BY <2>1, <2>2
<1>5. \A i \in 1 .. n : g[1 .. i] = g[1 .. i - 1] + s[i].size
  <2>. TAKE i \in 1 .. n
  <2>1. 1 .. i \in SUBSET (1 .. n) /\ i \in 1 .. i /\ i \in Nat /\ (1 .. i) \ {i} = 1 .. i - 1
    BY <1>1
  <2>2. Max(1 .. i) = i
    <3>1. Max(1 .. i) \in 1 .. i /\ \A y \in 1 .. i : Max(1 .. i) >= y
      BY <2>1, MaxOfIndexes
    <3>. QED
      BY <2>1, <3>1
  <2>3. g[1 .. i] = g[(1 .. i) \ {Max(1 .. i)}] + s[Max(1 .. i)].size
    BY <1>2, <2>1, Zenon DEF IsFold
  <2>. QED
    BY <2>1, <2>2, <2>3
<1>6. \A i \in 0 .. n : g[1 .. i] \in Nat
  <2>. DEFINE T == {i \in 0 .. n : g[1 .. i] \notin Nat}
  <2>. SUFFICES ASSUME T # {} PROVE FALSE
    OBVIOUS
  <2>1. PICK m \in T : \A l \in T : m <= l
    <3>1. T \in SUBSET Nat
      BY <1>1
    <3>. HIDE DEF T
    <3>. QED
      BY <3>1, NatMin
  <2>2. m \in 0 .. n /\ g[1 .. m] \notin Nat
    OBVIOUS
  <2>3. m # 0
    BY <1>4, <2>2
  <2>4. m - 1 \in 0 .. n /\ m - 1 \notin T
    <3>. HIDE DEF T
    <3>. QED
      BY <1>1, <2>1, <2>2, <2>3
  <2>5. g[1 .. m - 1] \in Nat
    BY <2>4
  <2>. QED
    BY <1>1, <1>5, <2>2, <2>3, <2>5
<1>7. b \in [0 .. n -> Nat] /\ b[0] = 0 /\ b[n] = g[1 .. n]
  BY <1>1, <1>4, <1>6
<1>8. \A i \in 1 .. n : b[i] = b[i - 1] + s[i].size
  BY <1>1, <1>5
<1>. HIDE DEF b
<1>9. Totals(s, b)
  BY <1>7, <1>8 DEF Totals, n
<1>. QED
  BY <1>3, <1>7, <1>9 DEF n

LEMMA BytesNat == ASSUME NEW s \in Seq(Shard) PROVE Bytes(s) \in Nat
<1>1. PICK b : Totals(s, b) /\ Bytes(s) = b[Len(s)]
  BY BytesTotals
<1>2. Len(s) \in Nat
  BY LenProperties
<1>. QED
  BY <1>1, <1>2 DEF Totals

LEMMA BytesEmpty == Bytes(<<>>) = 0
<1>1. <<>> \in Seq(Shard) /\ Len(<<>>) = 0
  BY EmptySeq
<1>2. PICK b : Totals(<<>>, b) /\ Bytes(<<>>) = b[Len(<<>>)]
  BY <1>1, BytesTotals
<1>. QED
  BY <1>1, <1>2 DEF Totals

\* Two lists with the same start have the same running totals there, where one
\* may be behind the other by a first element.
LEMMA TotalsAgree ==
  ASSUME NEW s \in Seq(Shard), NEW a, Totals(s, a), NEW u \in Seq(Shard), NEW b, Totals(u, b),
         NEW skip \in Nat, NEW m \in Nat, skip + m <= Len(s), m <= Len(u),
         \A i \in 1 .. m : s[skip + i] = u[i]
  PROVE  a[skip + m] = a[skip] + b[m]
<1>. DEFINE T == {i \in 0 .. m : a[skip + i] # a[skip] + b[i]}
<1>1. Len(s) \in Nat /\ Len(u) \in Nat /\ u \in [1 .. Len(u) -> Shard]
  BY LenProperties
<1>2. /\ \A i \in 0 .. Len(s) : a[i] \in Nat
      /\ \A i \in 0 .. Len(u) : b[i] \in Nat
      /\ b[0] = 0
      /\ \A i \in 1 .. Len(s) : a[i] = a[i - 1] + s[i].size
      /\ \A i \in 1 .. Len(u) : b[i] = b[i - 1] + u[i].size
  BY DEF Totals
<1>3. \A i \in 1 .. m : u[i].size \in Nat
  <2>. TAKE i \in 1 .. m
  <2>1. i \in 1 .. Len(u)
    BY <1>1
  <2>. QED
    BY <1>1, <2>1 DEF Shard
<1>4. T = {}
  <2>. SUFFICES ASSUME T # {} PROVE FALSE
    OBVIOUS
  <2>1. PICK i \in T : \A l \in T : i <= l
    <3>1. T \in SUBSET Nat
      OBVIOUS
    <3>. HIDE DEF T
    <3>. QED
      BY <3>1, NatMin
  <2>2. i \in 0 .. m /\ a[skip + i] # a[skip] + b[i]
    OBVIOUS
  <2>3. i # 0
    <3>1. skip \in 0 .. Len(s) /\ skip + 0 = skip
      BY <1>1
    <3>. QED
      BY <1>2, <2>2, <3>1
  <2>4. i - 1 \in 0 .. m /\ i - 1 \notin T
    <3>. HIDE DEF T
    <3>. QED
      BY <2>1, <2>2, <2>3
  <2>5. a[skip + (i - 1)] = a[skip] + b[i - 1]
    BY <2>4
  <2>. HIDE DEF T
  <2>6. /\ skip + i \in 1 .. Len(s) /\ i \in 1 .. Len(u) /\ i \in 1 .. m
        /\ (skip + i) - 1 = skip + (i - 1)
        /\ skip \in 0 .. Len(s) /\ i - 1 \in 0 .. Len(u)
    BY <1>1, <2>2, <2>3
  <2>7. /\ a[skip + i] = a[skip + (i - 1)] + s[skip + i].size
        /\ b[i] = b[i - 1] + u[i].size /\ s[skip + i] = u[i]
    BY <1>2, <2>6
  <2>8. a[skip] \in Nat /\ b[i - 1] \in Nat /\ u[i].size \in Nat
    BY <1>2, <1>3, <2>6
  <2>9. a[skip + i] = (a[skip] + b[i - 1]) + u[i].size
    BY <2>5, <2>6, <2>7
  <2>10. a[skip + i] = a[skip] + b[i]
    BY <2>7, <2>8, <2>9
  <2>. QED
    BY <2>2, <2>10
<1>5. m \in 0 .. m
  OBVIOUS
<1>. QED
  BY <1>4, <1>5

\* A push adds the size of the shard.
LEMMA BytesAppend ==
  ASSUME NEW s \in Seq(Shard), NEW x \in Shard
  PROVE  Bytes(Append(s, x)) = Bytes(s) + x.size
<1>. DEFINE u == Append(s, x)
<1>1. /\ u \in Seq(Shard) /\ Len(u) = Len(s) + 1 /\ Len(s) \in Nat
      /\ \A i \in 1 .. Len(s) : u[i] = s[i]
      /\ u[Len(s) + 1] = x
  BY AppendProperties, LenProperties
<1>. HIDE DEF u
<1>2. PICK a : Totals(u, a) /\ Bytes(u) = a[Len(u)]
  BY <1>1, BytesTotals
<1>3. PICK b : Totals(s, b) /\ Bytes(s) = b[Len(s)]
  BY BytesTotals
<1>4. a[0 + Len(s)] = a[0] + b[Len(s)]
  <2>1. 0 \in Nat /\ 0 + Len(s) <= Len(u) /\ Len(s) <= Len(s) /\ \A i \in 1 .. Len(s) : u[0 + i] = s[i]
    BY <1>1
  <2>. QED
    BY <1>1, <1>2, <1>3, <2>1, TotalsAgree
<1>5. b[Len(s)] \in Nat /\ a[0] = 0 /\ a[Len(s) + 1] = a[Len(s)] + u[Len(s) + 1].size
  BY <1>1, <1>2, <1>3 DEF Totals
<1>. QED
  BY <1>1, <1>2, <1>3, <1>4, <1>5 DEF u

\* A pop takes the size of the first shard away.
LEMMA BytesTail ==
  ASSUME NEW s \in Seq(Shard), s # <<>>
  PROVE  Bytes(Tail(s)) = Bytes(s) - Head(s).size /\ Head(s).size \in Nat
<1>. DEFINE u == Tail(s)
<1>1. /\ u \in Seq(Shard) /\ Len(u) = Len(s) - 1 /\ Len(s) \in Nat \ {0}
      /\ \A i \in 1 .. Len(u) : u[i] = s[i + 1]
      /\ Head(s) = s[1] /\ Head(s) \in Shard
  BY HeadTailProperties, LenProperties, EmptySeq
<1>. HIDE DEF u
<1>2. PICK a : Totals(s, a) /\ Bytes(s) = a[Len(s)]
  BY BytesTotals
<1>3. PICK b : Totals(u, b) /\ Bytes(u) = b[Len(u)]
  BY <1>1, BytesTotals
<1>4. a[1 + Len(u)] = a[1] + b[Len(u)]
  <2>. DEFINE skip == 1
  <2>1. /\ skip \in Nat /\ Len(u) \in Nat /\ skip + Len(u) <= Len(s) /\ Len(u) <= Len(u)
        /\ \A i \in 1 .. Len(u) : s[skip + i] = u[i]
    BY <1>1
  <2>. HIDE DEF skip
  <2>2. a[skip + Len(u)] = a[skip] + b[Len(u)]
    BY <1>1, <1>2, <1>3, <2>1, TotalsAgree
  <2>. QED
    BY <2>2 DEF skip
<1>5. b[Len(u)] \in Nat /\ a[0] = 0 /\ a[1] = a[0] + s[1].size /\ Head(s).size \in Nat
  <2>1. 1 \in 1 .. Len(s) /\ 1 - 1 = 0 /\ Len(u) \in 0 .. Len(u)
    BY <1>1
  <2>. QED
    BY <1>1, <1>2, <1>3, <2>1 DEF Totals, Shard
<1>6. 1 + Len(u) = Len(s) /\ 1 - 1 = 0
  BY <1>1
<1>. QED
  BY <1>1, <1>2, <1>3, <1>4, <1>5, <1>6 DEF u

LEMMA BytesStep == TypeInv /\ QueueBytesExact /\ [Next]_vars => QueueBytesExact'
<1>. SUFFICES ASSUME TypeInv, QueueBytesExact, [Next]_vars PROVE QueueBytesExact'
  OBVIOUS
<1>1. queue \in Seq(Shard) /\ queue_bytes = Bytes(queue) /\ Bytes(queue) \in Nat
  BY BytesNat DEF TypeInv, BufferInv, QueueBytesExact
<1>2. CASE UNCHANGED <<queue, queue_bytes>>
  BY <1>1, <1>2 DEF QueueBytesExact
<1>3. ASSUME NEW t \in Thread, Enqueue(t) PROVE QueueBytesExact'
  <2>1. CASE DropOversized(t)
    BY <1>2, <2>1 DEF DropOversized
  <2>2. CASE MakeRoom(t)
    <3>1. queue' \in Seq(Shard)
      BY <2>2, <1>1, EvictedHasRoom DEF MakeRoom
    <3>2. Bytes(queue') \in Nat
      BY <3>1, BytesNat
    <3>3. queue_bytes' = queue_bytes - (Bytes(queue) - Bytes(queue'))
      BY <2>2 DEF MakeRoom
    <3>. QED
      BY <1>1, <3>2, <3>3 DEF QueueBytesExact
  <2>3. CASE PushBack(t)
    <3>1. Head(air[t]) \in Shard
      BY <2>3, HeadTailProperties DEF PushBack, TypeInv, BufferInv
    <3>2. queue' = Append(queue, Head(air[t])) /\ queue_bytes' = queue_bytes + Head(air[t]).size
      BY <2>3 DEF PushBack
    <3>. QED
      BY <1>1, <3>1, <3>2, BytesAppend DEF QueueBytesExact
  <2>. QED
    BY <1>3, <2>1, <2>2, <2>3 DEF Enqueue
<1>4. CASE SendWait
  <2>1. CASE send_stop \/ queue = <<>>
    BY <1>2, <1>4, <2>1 DEF SendWait
  <2>2. CASE ~(send_stop \/ queue = <<>>)
    <3>1. queue # <<>> /\ queue' = Tail(queue) /\ queue_bytes' = queue_bytes - Head(queue).size
      BY <1>4, <2>2 DEF SendWait
    <3>. QED
      BY <1>1, <3>1, BytesTail DEF QueueBytesExact
  <2>. QED
    BY <2>1, <2>2
<1>5. CASE CloseClear
  BY <1>5, BytesEmpty DEF CloseClear, QueueBytesExact
<1>6. CASE InputPacket \/ SendTick \/ SendGate \/ SendStamp \/ SendTo
  BY <1>2, <1>6 DEF InputPacket, SendTick, SendGate, SendStamp, SendTo, buffer
<1>7. CASE set_enabled \/ DeadlinePasses \/ TimeoutFalls \/ OpenInit \/ Configure \/ CloseStop
  BY <1>2, <1>7 DEF set_enabled, DeadlinePasses, TimeoutFalls, OpenInit, Configure, CloseStop, buffer
<1>8. CASE OpenStart \/ Reinit \/ CloseJoin \/ CloseDisable
  BY <1>2, <1>8 DEF OpenStart, Reinit, CloseJoin, CloseDisable, buffer
<1>9. CASE UNCHANGED vars
  BY <1>2, <1>9 DEF vars, buffer
<1>. QED
  BY <1>3, <1>4, <1>5, <1>6, <1>7, <1>8, <1>9 DEF Next, SendThread, ControlGoesOn, Thread

\* enqueue_wire_copy, wait and close: whatever the interleaving of evictions,
\* pushes and pops, the byte counter is what the queue holds.
THEOREM BytesExact == Spec => []QueueBytesExact
<1>1. Init => QueueBytesExact
  BY BytesEmpty DEF Init, QueueBytesExact
<1>2. TypeInv /\ QueueBytesExact /\ [Next]_vars => QueueBytesExact'
  BY BytesStep
<1>. QED
  BY <1>1, <1>2, Typed, PTL DEF Spec

(* -------------------------- the order of packets ------------------------ *)

\* Block b of bs holds the packets after those of the block before it.
GoesOn(bs, b) == \E data : Carries(bs[b].shards, LastOf(bs, b - 1), data)

InOrder(bs, pending, count) ==
  /\ \A b \in 1 .. Len(bs) : GoesOn(bs, b)
  /\ Consecutive(pending, LastOf(bs, Len(bs)))
  /\ count = LastOf(bs, Len(bs)) + Len(pending)

LEMMA InOrderMeans == EncodedOnceInOrder <=> InOrder(blocks, fec.pending, accepted)
BY DEF EncodedOnceInOrder, InOrder, GoesOn, Carries, Consecutive

\* One more block.
LEMMA InOrderAppend ==
  ASSUME NEW bs \in Seq(Block), NEW pending, NEW before, InOrder(bs, pending, before),
         NEW new \in Block, NEW count \in Nat, LastOf(bs, Len(bs)) \in Nat,
         Carries(new.shards, LastOf(bs, Len(bs)), count)
  PROVE  InOrder(Append(bs, new), <<>>, LastOf(bs, Len(bs)) + count)
<1>. DEFINE n == Len(bs)
            from == LastOf(bs, n)
            cs == Append(bs, new)
<1>1. /\ n \in Nat /\ Len(cs) = n + 1 /\ cs[n + 1] = new
      /\ \A b \in 1 .. n : cs[b] = bs[b]
  BY AppendProperties, LenProperties
<1>. HIDE DEF cs, n
<1>2. \A b \in 0 .. n : LastOf(cs, b) = LastOf(bs, b)
  BY <1>1 DEF LastOf
<1>3. LastOf(cs, n + 1) = from + count
  <2>1. LastOf(cs, n + 1) = LastPacket(new.shards)
    BY <1>1 DEF LastOf
  <2>2. new.shards \in Seq(Shard)
    BY DEF Block
  <2>. QED
    BY <2>1, <2>2, LastCarried DEF LastPacket, n
<1>4. \A b \in 1 .. n : GoesOn(cs, b)
  <2>. TAKE b \in 1 .. n
  <2>1. b - 1 \in 0 .. n /\ GoesOn(bs, b)
    BY <1>1 DEF InOrder, n
  <2>. QED
    BY <1>1, <1>2, <2>1 DEF GoesOn
<1>5. GoesOn(cs, n + 1)
  <2>1. (n + 1) - 1 = n /\ n \in 0 .. n
    BY <1>1
  <2>2. LastOf(cs, (n + 1) - 1) = from
    BY <1>2, <2>1
  <2>. QED
    BY <1>1, <2>2 DEF GoesOn, n
<1>6. \A b \in 1 .. Len(cs) : GoesOn(cs, b)
  <2>1. \A b \in 1 .. Len(cs) : b \in 1 .. n \/ b = n + 1
    BY <1>1
  <2>. QED
    BY <1>4, <1>5, <2>1
<1>7. Len(<<>>) = 0 /\ from + count \in Nat
  BY EmptySeq DEF n
<1>8. Consecutive(<<>>, LastOf(cs, Len(cs)))
  BY <1>7 DEF Consecutive
<1>9. from + count = LastOf(cs, Len(cs)) + Len(<<>>)
  BY <1>1, <1>3, <1>7
<1>. QED
  BY <1>6, <1>8, <1>9 DEF InOrder, cs, n

\* The numbering goes on when an operation of the encoder does.
LEMMA NumberingGoesOn ==
  ASSUME TypeInv, EncodedOnceInOrder, NEW t \in Thread, NEW r, Handed(fec, r), Encoded(t, r),
         NEW count \in Nat, Numbered(r, LastOf(blocks, Len(blocks)), count),
         LastOf(blocks, Len(blocks)) \in Nat,
         accepted' = LastOf(blocks, Len(blocks)) + count
  PROVE  EncodedOnceInOrder'
<1>1. fec' = r.tx /\ blocks \in Seq(Block) /\ InOrder(blocks, fec.pending, accepted)
  BY InOrderMeans DEF TypeInv, FecInv, Encoded
<1>2. InOrder(blocks', r.tx.pending, accepted')
  <2>1. CASE r.air = <<>>
    <3>1. blocks' = blocks
      BY <2>1 DEF Encoded
    <3>. QED
      BY <1>1, <2>1, <3>1 DEF Numbered, InOrder
  <2>2. CASE r.air # <<>>
    <3>. DEFINE new == [id |-> fec.block_id, shards |-> r.air]
    <3>1. blocks' = Append(blocks, new) /\ new.shards = r.air
      BY <2>2 DEF Encoded
    <3>2. new \in Block
      BY <2>2 DEF Block, Handed, BlockOf, TypeInv, FecInv, TxOK, TxType
    <3>3. Carries(r.air, LastOf(blocks, Len(blocks)), count) /\ r.tx.pending = <<>>
      BY <2>2 DEF Numbered
    <3>. HIDE DEF new
    <3>. QED
      BY <1>1, <3>1, <3>2, <3>3, InOrderAppend
  <2>. QED
    BY <2>1, <2>2
<1>3. InOrder(blocks', fec'.pending, accepted') => EncodedOnceInOrder'
  BY DEF EncodedOnceInOrder, InOrder, GoesOn, Carries, Consecutive
<1>. QED
  BY <1>1, <1>2, <1>3

\* What is pending goes on where the last block ended.
LEMMA PendingGoesOn ==
  ASSUME TypeInv, EncodedOnceInOrder
  PROVE  /\ Consecutive(fec.pending, LastOf(blocks, Len(blocks)))
         /\ Len(fec.pending) \in Nat /\ LastOf(blocks, Len(blocks)) \in Nat
         /\ accepted = LastOf(blocks, Len(blocks)) + Len(fec.pending)
<1>. DEFINE n == Len(blocks)
<1>1. /\ n \in Nat /\ blocks \in [1 .. n -> Block]
      /\ fec.pending \in Seq(Packet) /\ Len(fec.pending) \in Nat
  BY LenProperties DEF TypeInv, FecInv, TxOK, TxType
<1>2. InOrder(blocks, fec.pending, accepted)
  BY InOrderMeans
<1>. HIDE DEF n
<1>3. LastOf(blocks, n) \in Nat
  <2>1. CASE n = 0
    BY <2>1 DEF LastOf
  <2>2. CASE n # 0
    <3>. DEFINE made == blocks[n].shards
    <3>1. n \in 1 .. n
      BY <1>1, <2>2
    <3>2. made \in Seq(Shard)
      BY <1>1, <3>1 DEF Block
    <3>. DEFINE sizes == [j \in 1 .. Len(made) |-> made[j].pkt]
    <3>3. PICK data : data \in 1 .. Len(made)
      BY <1>2, <3>1 DEF InOrder, GoesOn, Carries, n
    <3>4. Len(made) \in Nat \ {0} /\ made \in [1 .. Len(made) -> Shard]
      <4>1. Len(made) \in Nat /\ made \in [1 .. Len(made) -> Shard]
        BY <3>2, LenProperties
      <4>. HIDE DEF made
      <4>. QED
        BY <3>3, <4>1
    <3>. HIDE DEF made
    <3>5. sizes \in [1 .. Len(made) -> Nat]
      BY <3>4 DEF Shard
    <3>6. {sizes[j] : j \in 1 .. Len(made)} = {sh.pkt : sh \in ToSet(made)}
      BY <3>4 DEF ToSet
    <3>. HIDE DEF sizes
    <3>7. Max({sh.pkt : sh \in ToSet(made)}) \in Nat
      BY <3>4, <3>5, <3>6, MaxInNat
    <3>8. LastOf(blocks, n) = LastPacket(made)
      BY <2>2 DEF LastOf, made
    <3>. QED
      BY <3>7, <3>8 DEF LastPacket
  <2>. QED
    BY <2>1, <2>2
<1>. QED
  BY <1>1, <1>2, <1>3 DEF InOrder, n

LEMMA OrderInput ==
  ASSUME TypeInv, EncodedOnceInOrder, InputPacket
  PROVE  EncodedOnceInOrder'
<1>1. PICK s \in Sizes : /\ Encoded("input", push_app(fec, [no |-> accepted + 1, size |-> s]))
                         /\ accepted' = IF fits(fec, [no |-> accepted + 1, size |-> s])
                                        THEN accepted + 1 ELSE accepted
  BY Zenon DEF InputPacket
<1>. DEFINE p == [no |-> accepted + 1, size |-> s]
            from == LastOf(blocks, Len(blocks))
            count == IF fits(fec, p) THEN Len(fec.pending) + 1 ELSE Len(fec.pending)
            r == push_app(fec, p)
<1>2. p \in Packet
  BY SenderAssumption DEF Packet, TypeInv, FecInv
<1>3. /\ Consecutive(fec.pending, from) /\ Len(fec.pending) \in Nat /\ from \in Nat
      /\ accepted = from + Len(fec.pending)
  BY PendingGoesOn
<1>4. p.no = from + Len(fec.pending) + 1
  BY <1>3
<1>5. Handed(fec, r) /\ Encoded("input", r)
  BY <1>1, <1>2, PushOK DEF TypeInv, FecInv
<1>. HIDE DEF p, from
<1>6. Numbered(r, from, count)
  BY <1>2, <1>3, <1>4, PushNumbers DEF TypeInv, FecInv
<1>7. accepted' = IF fits(fec, p) THEN accepted + 1 ELSE accepted
  BY <1>1 DEF p
<1>8. accepted' = from + count /\ count \in Nat
  BY <1>3, <1>7
<1>. HIDE DEF count, r
<1>. QED
  BY <1>3, <1>5, <1>6, <1>8, NumberingGoesOn DEF from, Thread

\* A call that takes no packet keeps the count.
LEMMA OrderFlush ==
  ASSUME TypeInv, EncodedOnceInOrder, NEW t \in Thread, NEW r, Handed(fec, r), Encoded(t, r),
         Numbered(r, LastOf(blocks, Len(blocks)), Len(fec.pending)), UNCHANGED accepted
  PROVE  EncodedOnceInOrder'
BY PendingGoesOn, NumberingGoesOn

LEMMA OrderUntouched ==
  EncodedOnceInOrder /\ UNCHANGED <<blocks, accepted>> /\ fec'.pending = fec.pending
  => EncodedOnceInOrder'
BY DEF EncodedOnceInOrder

LEMMA OrderStarts == Init => EncodedOnceInOrder
<1>. SUFFICES ASSUME Init PROVE EncodedOnceInOrder
  OBVIOUS
<1>1. blocks = <<>> /\ accepted = 0 /\ fec.pending = <<>> /\ Len(<<>>) = 0
  BY EmptySeq DEF Init, NewTx
<1>. QED
  BY <1>1 DEF EncodedOnceInOrder, LastOf

LEMMA OrderStep == TypeInv /\ EncodedOnceInOrder /\ [Next]_vars => EncodedOnceInOrder'
<1>. SUFFICES ASSUME TypeInv, EncodedOnceInOrder, [Next]_vars PROVE EncodedOnceInOrder'
  OBVIOUS
<1>. DEFINE from == LastOf(blocks, Len(blocks))
<1>0. /\ TxOK(fec) /\ TxFull(fec) /\ fec \in TxType
      /\ Consecutive(fec.pending, from) /\ from \in Nat /\ Len(fec.pending) \in Nat
      /\ accepted = from + Len(fec.pending)
  BY PendingGoesOn, FullerOK DEF TypeInv, FecInv, TxOK
<1>1. CASE SendTick
  <2>1. CASE send_stop
    BY <1>1, <2>1, OrderUntouched DEF SendTick
  <2>2. CASE ~send_stop
    <3>. DEFINE r == on_tick(fec)
    <3>1. Encoded("send", r) /\ UNCHANGED accepted
      BY <1>1, <2>2 DEF SendTick
    <3>2. Handed(fec, r) /\ Numbered(r, from, Len(fec.pending))
      BY <1>0, TickOK, TickNumbers
    <3>. HIDE DEF r
    <3>. QED
      BY <3>1, <3>2, OrderFlush DEF Thread
  <2>. QED
    BY <2>1, <2>2
<1>2. CASE Reinit \/ CloseDisable
  <2>. DEFINE f == flush(fec)
  <2>1. /\ Handed(fec, f) /\ TxOK(f.tx) /\ f.tx.pending = <<>>
        /\ Numbered(f, from, Len(fec.pending))
    BY <1>0, FlushOK, FlushNumbers DEF Handed
  <2>2. cfg.k \in Nat \ {0} /\ cfg.n \in Nat /\ cfg.k <= cfg.n /\ cfg.max \in Nat
    BY SenderAssumption DEF TypeInv, FecInv
  <2>3. UNCHANGED accepted
    BY <1>2 DEF Reinit, CloseDisable
  <2>4. \A r : r.air = f.air /\ r.tx.pending = <<>> => Numbered(r, from, Len(fec.pending))
    <3>. HIDE DEF f
    <3>. QED
      BY <2>1 DEF Numbered
  <2>5. CASE Reinit
    <3>. DEFINE r == [f EXCEPT !.tx = init(@, cfg)]
    <3>1. Encoded("control", r)
      BY <2>5 DEF Reinit
    <3>2. r.tx = init(f.tx, cfg) /\ r.air = f.air
      BY DEF flush, Nothing
    <3>. HIDE DEF r, f
    <3>3. r.tx.pending = <<>>
      BY <2>1, <3>2 DEF init, TxOK, TxType
    <3>4. Handed(fec, r)
      BY <2>1, <2>2, <3>2, InitOK DEF Handed
    <3>. QED
      BY <2>3, <2>4, <3>1, <3>2, <3>3, <3>4, OrderFlush DEF Thread
  <2>6. CASE CloseDisable
    <3>. DEFINE r == [f EXCEPT !.tx = disable(@)]
    <3>1. Encoded("control", r)
      BY <2>6 DEF CloseDisable
    <3>2. r.tx = disable(f.tx) /\ r.air = f.air
      BY DEF flush, Nothing
    <3>. HIDE DEF r, f
    <3>3. r.tx.pending = <<>>
      BY <2>1, <3>2 DEF disable, TxOK, TxType
    <3>4. Handed(fec, r)
      BY <2>1, <3>2, DisableOK DEF Handed
    <3>. QED
      BY <2>3, <2>4, <3>1, <3>2, <3>3, <3>4, OrderFlush DEF Thread
  <2>. QED
    BY <1>2, <2>5, <2>6
<1>3. CASE OpenInit
  <2>. DEFINE none == Nothing(init(fec, cfg))
  <2>1. UNCHANGED <<blocks, accepted>> /\ fec' = init(fec, cfg)
    BY <1>3 DEF OpenInit
  <2>2. fec.pending = <<>>
    BY <1>0, <1>3 DEF OpenInit, TypeInv, CtlInv, TxOK
  <2>. QED
    BY <1>0, <2>1, <2>2, OrderUntouched DEF init, TxType
<1>4. CASE TimeoutFalls
  BY <1>0, <1>4, OrderUntouched DEF TimeoutFalls, TxType
<1>5. ASSUME NEW t \in Thread, Enqueue(t) PROVE EncodedOnceInOrder'
  BY <1>5, OrderUntouched DEF Enqueue, DropOversized, MakeRoom, PushBack
<1>6. CASE SendWait \/ SendGate \/ SendStamp \/ SendTo \/ set_enabled \/ DeadlinePasses
  BY <1>6, OrderUntouched DEF SendWait, SendGate, SendStamp, SendTo, set_enabled, DeadlinePasses
<1>7. CASE OpenStart \/ Configure \/ CloseStop \/ CloseJoin \/ CloseClear
  BY <1>7, OrderUntouched DEF OpenStart, Configure, CloseStop, CloseJoin, CloseClear
<1>8. CASE UNCHANGED vars
  BY <1>8, OrderUntouched DEF vars
<1>. QED
  BY <1>1, <1>2, <1>3, <1>4, <1>5, <1>6, <1>7, <1>8, OrderInput
  DEF Next, SendThread, ControlGoesOn, Thread

\* input, on_tick, reinit_fec and disable_fec: no packet is lost, repeated or
\* moved on its way into the blocks.
THEOREM InOneOrder == Spec => []EncodedOnceInOrder
<1>1. TypeInv /\ EncodedOnceInOrder /\ [Next]_vars => EncodedOnceInOrder'
  BY OrderStep
<1>. QED
  BY OrderStarts, <1>1, Typed, PTL DEF Spec

(* --------------------------- shards on their way ------------------------ *)

\* Of two shards of one block, x has the smaller index.
Before(x, y)   == x.blk = y.blk => x.idx < y.idx
Increasing(s)  == \A i, j \in 1 .. Len(s) : i < j => Before(s[i], s[j])
AheadOf(x, s)  == \A i \in 1 .. Len(s) : Before(x, s[i])
Apart(s, u)    == \A i \in 1 .. Len(s), j \in 1 .. Len(u) : s[i].blk # u[j].blk

\* A shard of one of the blocks bs.
MadeOf(bs, x) ==
  /\ x.blk \in 1 .. Len(bs)
  /\ \E k \in 1 .. Len(bs[x.blk].shards) : bs[x.blk].shards[k].idx = x.idx

AsShard(g) == [blk |-> g[1], idx |-> g[2]]

\* On their way to the wire the shards of a block keep the order of their
\* indexes: those gone (past), the one in hand (held), those queued (line) and
\* those a thread has yet to enqueue (up).  No two threads enqueue shards of one
\* block.
AllMade(bs, busy, held, line, up) ==
  /\ busy => MadeOf(bs, held)
  /\ \A i \in 1 .. Len(line) : MadeOf(bs, line[i])
  /\ \A t \in Thread : \A i \in 1 .. Len(up[t]) : MadeOf(bs, up[t][i])

Ordered(busy, held, line, up) ==
  /\ busy => AheadOf(held, line) /\ \A t \in Thread : AheadOf(held, up[t])
  /\ Increasing(line)
  /\ \A t \in Thread : Increasing(up[t])
  /\ \A t \in Thread : \A i \in 1 .. Len(line) : AheadOf(line[i], up[t])
  /\ \A t, u \in Thread : t # u => Apart(up[t], up[u])

AllPast(bs, busy, held, line, up, past) ==
  \A g \in past :
    /\ g \in (1 .. Len(bs)) \X Nat
    /\ AheadOf(AsShard(g), line)
    /\ \A t \in Thread : AheadOf(AsShard(g), up[t])
    /\ busy => Before(AsShard(g), held)

Placed(bs, busy, held, line, up, past) ==
  /\ AllMade(bs, busy, held, line, up)
  /\ Ordered(busy, held, line, up)
  /\ AllPast(bs, busy, held, line, up, past)

PlaceInv == Placed(blocks, Sending, hand, queue, air, gone)

\* What is left of s after some of its first elements were taken away.
Rest(u, s) ==
  \E c \in Nat : \A i \in 1 .. Len(u) : c + i \in 1 .. Len(s) /\ u[i] = s[c + i]

LEMMA RestSame == ASSUME NEW S, NEW s \in Seq(S) PROVE Rest(s, s)
<1>1. Len(s) \in Nat
  BY LenProperties
<1>2. 0 \in Nat /\ \A i \in 1 .. Len(s) : 0 + i \in 1 .. Len(s) /\ s[i] = s[0 + i]
  BY <1>1
<1>. QED
  BY <1>2 DEF Rest

LEMMA RestTail == ASSUME NEW S, NEW s \in Seq(S), s # <<>> PROVE Rest(Tail(s), s)
<1>1. /\ Len(Tail(s)) = Len(s) - 1 /\ Len(s) \in Nat
      /\ \A i \in 1 .. Len(Tail(s)) : Tail(s)[i] = s[i + 1]
  BY HeadTailProperties, LenProperties
<1>2. 1 \in Nat /\ \A i \in 1 .. Len(Tail(s)) : 1 + i \in 1 .. Len(s) /\ Tail(s)[i] = s[1 + i]
  BY <1>1
<1>. QED
  BY <1>2 DEF Rest

LEMMA RestEmpty == ASSUME NEW s PROVE Rest(<<>>, s)
<1>1. Len(<<>>) = 0 /\ 0 \in Nat
  BY EmptySeq
<1>. QED
  BY <1>1 DEF Rest

\* Evicting packets takes them from the front.
LEMMA RestEvicted ==
  ASSUME NEW S, queue \in Seq(S), NEW size
  PROVE  Rest(Evicted(size), queue)
<1>. DEFINE Fits(i) == LET rest == SubSeq(queue, i, Len(queue))
                       IN  \/ rest = <<>>
                           \/ Bytes(rest) + size <= ByteLimit /\ Len(rest) < PacketCap
            Fit == {i \in 1 .. Len(queue) + 1 : Fits(i)}
            Cut == CHOOSE i \in 1 .. Len(queue) + 1 : Fits(i) /\ \A j \in 1 .. i - 1 : ~Fits(j)
<1>1. Len(queue) \in Nat /\ queue \in [1 .. Len(queue) -> S]
  BY LenProperties
<1>2. Evicted(size) = SubSeq(queue, Cut, Len(queue))
  BY Zenon DEF Evicted
<1>3. Fits(Len(queue) + 1)
  BY <1>1, SubSeqEmpty
<1>. HIDE DEF Fits
<1>4. PICK m \in Fit : \A j \in Fit : m <= j
  <2>1. Fit \in SUBSET Nat
    BY <1>1
  <2>2. Fit # {}
    BY <1>1, <1>3
  <2>. HIDE DEF Fit
  <2>. QED
    BY <2>1, <2>2, NatMin
<1>5. m \in 1 .. Len(queue) + 1 /\ Fits(m) /\ \A j \in 1 .. m - 1 : ~Fits(j)
  <2>1. m \in 1 .. Len(queue) + 1 /\ Fits(m)
    OBVIOUS
  <2>2. ASSUME NEW j \in 1 .. m - 1, Fits(j) PROVE FALSE
    <3>1. j \in Fit
      BY <1>1, <2>1, <2>2
    <3>. HIDE DEF Fit
    <3>. QED
      BY <1>1, <1>4, <2>1, <3>1
  <2>. QED
    BY <2>1, <2>2
<1>6. Cut \in 1 .. Len(queue) + 1
  BY <1>5
<1>. HIDE DEF Cut
<1>. DEFINE u == SubSeq(queue, Cut, Len(queue))
<1>7. \A j \in Cut .. Len(queue) : queue[j] \in S
  BY <1>1, <1>6
<1>8. /\ Len(u) = IF Cut <= Len(queue) THEN Len(queue) - Cut + 1 ELSE 0
      /\ \A i \in 1 .. Len(queue) - Cut + 1 : u[i] = queue[Cut + i - 1]
  BY <1>1, <1>6, <1>7, SubSeqProperties
<1>. HIDE DEF u
<1>9. Cut - 1 \in Nat /\ \A i \in 1 .. Len(u) : (Cut - 1) + i \in 1 .. Len(queue) /\ u[i] = queue[(Cut - 1) + i]
  BY <1>1, <1>6, <1>8
<1>10. Rest(u, queue)
  BY <1>9 DEF Rest
<1>. QED
  BY <1>2, <1>10 DEF u

\* What holds of a sequence holds of the rest of it.
LEMMA RestKeeps ==
  ASSUME NEW S, NEW T, NEW s \in Seq(S), NEW u \in Seq(T), Rest(u, s)
  PROVE  /\ \A i \in 1 .. Len(u) : \E j \in 1 .. Len(s) : u[i] = s[j]
         /\ Increasing(s) => Increasing(u)
         /\ \A x : AheadOf(x, s) => AheadOf(x, u)
<1>1. PICK c \in Nat : \A i \in 1 .. Len(u) : c + i \in 1 .. Len(s) /\ u[i] = s[c + i]
  BY DEF Rest
<1>2. Len(u) \in Nat /\ Len(s) \in Nat
  BY LenProperties
<1>3. ASSUME Increasing(s) PROVE Increasing(u)
  <2>. SUFFICES ASSUME NEW i \in 1 .. Len(u), NEW j \in 1 .. Len(u), i < j
                PROVE  Before(u[i], u[j])
    BY DEF Increasing
  <2>1. c + i < c + j /\ c + i \in 1 .. Len(s) /\ c + j \in 1 .. Len(s)
    BY <1>1, <1>2
  <2>. QED
    BY <1>1, <1>3, <2>1 DEF Increasing
<1>. QED
  BY <1>1, <1>3 DEF AheadOf

\* Shards may be dropped anywhere along the way.
LEMMA PlaceDrop ==
  ASSUME NEW bs, NEW busy, NEW held, NEW line \in Seq(Shard), NEW up \in [Thread -> Seq(Shard)],
         NEW past, NEW busy2, NEW held2, NEW line2 \in Seq(Shard),
         NEW up2 \in [Thread -> Seq(Shard)],
         Placed(bs, busy, held, line, up, past),
         busy2 => busy /\ held2 = held, Rest(line2, line), \A t \in Thread : Rest(up2[t], up[t])
  PROVE  Placed(bs, busy2, held2, line2, up2, past)
<1>1. /\ \A i \in 1 .. Len(line2) : \E j \in 1 .. Len(line) : line2[i] = line[j]
      /\ Increasing(line) => Increasing(line2)
      /\ \A x : AheadOf(x, line) => AheadOf(x, line2)
  BY RestKeeps
<1>2. ASSUME NEW t \in Thread
      PROVE  /\ \A i \in 1 .. Len(up2[t]) : \E j \in 1 .. Len(up[t]) : up2[t][i] = up[t][j]
             /\ Increasing(up[t]) => Increasing(up2[t])
             /\ \A x : AheadOf(x, up[t]) => AheadOf(x, up2[t])
  <2>1. up[t] \in Seq(Shard) /\ up2[t] \in Seq(Shard) /\ Rest(up2[t], up[t])
    OBVIOUS
  <2>. QED
    BY <2>1, RestKeeps
<1>3. AllMade(bs, busy2, held2, line2, up2)
  BY <1>1, <1>2 DEF Placed, AllMade
<1>4. \A t, u \in Thread : t # u => Apart(up2[t], up2[u])
  <2>. SUFFICES ASSUME NEW t \in Thread, NEW u \in Thread, t # u,
                       NEW i \in 1 .. Len(up2[t]), NEW j \in 1 .. Len(up2[u])
                PROVE  up2[t][i].blk # up2[u][j].blk
    BY DEF Apart
  <2>1. PICK k \in 1 .. Len(up[t]), l \in 1 .. Len(up[u]) :
          up2[t][i] = up[t][k] /\ up2[u][j] = up[u][l]
    BY <1>2
  <2>. QED
    BY <2>1 DEF Placed, Ordered, Apart
<1>5. \A t \in Thread : \A i \in 1 .. Len(line2) : AheadOf(line2[i], up2[t])
  BY <1>1, <1>2 DEF Placed, Ordered
<1>6. Ordered(busy2, held2, line2, up2)
  BY <1>1, <1>2, <1>4, <1>5 DEF Placed, Ordered
<1>7. AllPast(bs, busy2, held2, line2, up2, past)
  BY <1>1, <1>2 DEF Placed, AllPast
<1>. QED
  BY <1>3, <1>6, <1>7 DEF Placed

\* The send thread takes the first of the queue.
LEMMA PlacePop ==
  ASSUME NEW bs, NEW held, NEW line \in Seq(Shard), NEW up \in [Thread -> Seq(Shard)],
         NEW past, line # <<>>,
         Placed(bs, FALSE, held, line, up, past)
  PROVE  Placed(bs, TRUE, Head(line), Tail(line), up, past)
<1>. DEFINE x == Head(line)
            line2 == Tail(line)
<1>1. /\ x = line[1] /\ 1 \in 1 .. Len(line) /\ line2 \in Seq(Shard)
      /\ Len(line2) = Len(line) - 1 /\ Len(line) \in Nat \ {0}
      /\ \A i \in 1 .. Len(line2) : line2[i] = line[i + 1]
  BY HeadTailProperties, LenProperties, EmptySeq
<1>2. /\ \A i \in 1 .. Len(line2) : \E j \in 1 .. Len(line) : line2[i] = line[j]
      /\ Increasing(line) => Increasing(line2)
      /\ \A y : AheadOf(y, line) => AheadOf(y, line2)
  BY <1>1, RestTail, RestKeeps
<1>. HIDE DEF x, line2
<1>3. AheadOf(x, line2)
  <2>. SUFFICES ASSUME NEW i \in 1 .. Len(line2) PROVE Before(x, line2[i])
    BY DEF AheadOf
  <2>1. i + 1 \in 1 .. Len(line) /\ 1 < i + 1 /\ line2[i] = line[i + 1]
    BY <1>1
  <2>. QED
    BY <1>1, <2>1 DEF Placed, Ordered, Increasing
<1>4. AllMade(bs, TRUE, x, line2, up)
  BY <1>1, <1>2 DEF Placed, AllMade
<1>5. Ordered(TRUE, x, line2, up)
  BY <1>1, <1>2, <1>3 DEF Placed, Ordered
<1>6. AllPast(bs, TRUE, x, line2, up, past)
  BY <1>1, <1>2 DEF Placed, AllPast, AheadOf
<1>. QED
  BY <1>4, <1>5, <1>6 DEF x, line2, Placed

\* A thread moves the first of its shards to the end of the queue.
LEMMA PlacePush ==
  ASSUME NEW bs, NEW busy, NEW held, NEW line \in Seq(Shard), NEW up \in [Thread -> Seq(Shard)],
         NEW past, NEW t \in Thread, up[t] # <<>>,
         Placed(bs, busy, held, line, up, past)
  PROVE  LET line2 == Append(line, Head(up[t]))
             up2   == [up EXCEPT ![t] = Tail(@)]
         IN  Placed(bs, busy, held, line2, up2, past)
<1>. DEFINE x == Head(up[t])
            line2 == Append(line, x)
            up2 == [up EXCEPT ![t] = Tail(@)]
<1>1. /\ x = up[t][1] /\ x \in Shard /\ 1 \in 1 .. Len(up[t]) /\ Tail(up[t]) \in Seq(Shard)
      /\ Len(Tail(up[t])) = Len(up[t]) - 1 /\ Len(up[t]) \in Nat \ {0}
      /\ \A i \in 1 .. Len(Tail(up[t])) : Tail(up[t])[i] = up[t][i + 1]
  <2>1. up[t] \in Seq(Shard)
    OBVIOUS
  <2>. QED
    BY <2>1, HeadTailProperties, LenProperties, EmptySeq
<1>2. /\ Len(line2) = Len(line) + 1 /\ Len(line) \in Nat /\ line2[Len(line) + 1] = x
      /\ \A i \in 1 .. Len(line) : line2[i] = line[i]
  BY <1>1, AppendProperties, LenProperties
<1>3. up2 \in [Thread -> Seq(Shard)] /\ up2[t] = Tail(up[t]) /\ \A u \in Thread \ {t} : up2[u] = up[u]
  BY <1>1
<1>. HIDE DEF x, line2, up2
<1>4. ASSUME NEW u \in Thread
      PROVE  /\ \A i \in 1 .. Len(up2[u]) : \E j \in 1 .. Len(up[u]) : up2[u][i] = up[u][j]
             /\ Increasing(up[u]) => Increasing(up2[u])
             /\ \A y : AheadOf(y, up[u]) => AheadOf(y, up2[u])
  <2>1. up[u] \in Seq(Shard) /\ up2[u] \in Seq(Shard)
    BY <1>3
  <2>2. Rest(up2[u], up[u])
    <3>1. CASE u = t
      BY <1>3, <2>1, <3>1, RestTail
    <3>2. CASE u # t
      BY <1>3, <2>1, <3>2, RestSame
    <3>. QED
      BY <3>1, <3>2
  <2>. QED
    BY <2>1, <2>2, RestKeeps
<1>5. \A i \in 1 .. Len(line2) : i \in 1 .. Len(line) \/ i = Len(line) + 1
  BY <1>2
<1>6. AllMade(bs, busy, held, line2, up2)
  BY <1>1, <1>2, <1>4, <1>5 DEF Placed, AllMade
<1>7. \A y : AheadOf(y, line) /\ Before(y, x) => AheadOf(y, line2)
  BY <1>2, <1>5 DEF AheadOf
<1>8. \A y : AheadOf(y, up[t]) => Before(y, x)
  BY <1>1 DEF AheadOf
<1>9. Increasing(line2)
  <2>. SUFFICES ASSUME NEW i \in 1 .. Len(line2), NEW j \in 1 .. Len(line2), i < j
                PROVE  Before(line2[i], line2[j])
    BY DEF Increasing
  <2>1. i \in 1 .. Len(line)
    BY <1>2
  <2>2. CASE j \in 1 .. Len(line)
    BY <1>2, <2>1, <2>2 DEF Placed, Ordered, Increasing
  <2>3. CASE j = Len(line) + 1
    BY <1>2, <1>8, <2>1, <2>3 DEF Placed, Ordered
  <2>. QED
    BY <1>5, <2>2, <2>3
<1>10. \A u \in Thread : AheadOf(x, up2[u])
  <2>. TAKE u \in Thread
  <2>1. CASE u = t
    <3>. SUFFICES ASSUME NEW i \in 1 .. Len(up2[u]) PROVE Before(x, up2[u][i])
      BY DEF AheadOf
    <3>1. i \in 1 .. Len(Tail(up[t])) /\ up2[u][i] = Tail(up[t])[i]
      BY <1>3, <2>1
    <3>2. i + 1 \in 1 .. Len(up[t]) /\ 1 < i + 1 /\ up2[u][i] = up[t][i + 1]
      BY <1>1, <3>1
    <3>. QED
      BY <1>1, <3>2 DEF Placed, Ordered, Increasing
  <2>2. CASE u # t
    <3>. SUFFICES ASSUME NEW i \in 1 .. Len(up2[u]) PROVE x.blk # up2[u][i].blk
      BY DEF AheadOf, Before
    <3>1. Apart(up[t], up[u]) /\ up2[u] = up[u]
      BY <1>3, <2>2 DEF Placed, Ordered
    <3>. QED
      BY <1>1, <3>1 DEF Apart
  <2>. QED
    BY <2>1, <2>2
<1>11. \A u \in Thread : \A i \in 1 .. Len(line2) : AheadOf(line2[i], up2[u])
  BY <1>2, <1>4, <1>5, <1>10 DEF Placed, Ordered
<1>12. \A u, v \in Thread : u # v => Apart(up2[u], up2[v])
  <2>. SUFFICES ASSUME NEW u \in Thread, NEW v \in Thread, u # v,
                       NEW i \in 1 .. Len(up2[u]), NEW j \in 1 .. Len(up2[v])
                PROVE  up2[u][i].blk # up2[v][j].blk
    BY DEF Apart
  <2>1. PICK k \in 1 .. Len(up[u]), l \in 1 .. Len(up[v]) :
          up2[u][i] = up[u][k] /\ up2[v][j] = up[v][l]
    BY <1>4
  <2>. QED
    BY <2>1 DEF Placed, Ordered, Apart
<1>13. Ordered(busy, held, line2, up2)
  BY <1>4, <1>7, <1>8, <1>9, <1>11, <1>12 DEF Placed, Ordered
<1>14. AllPast(bs, busy, held, line2, up2, past)
  BY <1>4, <1>7, <1>8 DEF Placed, AllPast
<1>. QED
  BY <1>6, <1>13, <1>14 DEF x, line2, up2, Placed

\* The shard in hand goes out.
LEMMA PlaceGo ==
  ASSUME NEW bs, NEW held \in Shard, NEW line \in Seq(Shard), NEW up \in [Thread -> Seq(Shard)],
         NEW past, NEW held2,
         Placed(bs, TRUE, held, line, up, past)
  PROVE  LET past2 == past \cup {<<held.blk, held.idx>>}
         IN  Placed(bs, FALSE, held2, line, up, past2)
<1>. DEFINE g == <<held.blk, held.idx>>
<1>1. AllMade(bs, FALSE, held2, line, up) /\ Ordered(FALSE, held2, line, up)
  BY DEF Placed, AllMade, Ordered
<1>2. /\ g \in (1 .. Len(bs)) \X Nat
      /\ AsShard(g).blk = held.blk /\ AsShard(g).idx = held.idx
  BY DEF Placed, AllMade, MadeOf, Shard, AsShard
<1>. HIDE DEF g
<1>3. AheadOf(AsShard(g), line) /\ \A t \in Thread : AheadOf(AsShard(g), up[t])
  BY <1>2 DEF Placed, Ordered, AheadOf, Before
<1>4. AllPast(bs, FALSE, held2, line, up, past \cup {g})
  BY <1>2, <1>3 DEF Placed, AllPast
<1>. QED
  BY <1>1, <1>4 DEF g, Placed

\* A thread that had none left takes the shards of a new block.
LEMMA PlaceNew ==
  ASSUME NEW bs \in Seq(Block), NEW busy, NEW held, NEW line \in Seq(Shard),
         NEW up \in [Thread -> Seq(Shard)], NEW past, NEW t \in Thread, up[t] = <<>>,
         NEW new \in Block, BlockOf(new.shards, Len(bs) + 1),
         Placed(bs, busy, held, line, up, past)
  PROVE  LET bs2 == Append(bs, new)
             up2 == [up EXCEPT ![t] = new.shards]
         IN  Placed(bs2, busy, held, line, up2, past)
<1>. DEFINE n == Len(bs)
            bs2 == Append(bs, new)
            air2 == new.shards
            up2 == [up EXCEPT ![t] = air2]
<1>1. /\ n \in Nat /\ Len(bs2) = n + 1 /\ bs2[n + 1] = new
      /\ \A b \in 1 .. n : bs2[b] = bs[b]
  BY AppendProperties, LenProperties
<1>2. /\ air2 \in Seq(Shard) /\ Increasing(air2)
      /\ \A i \in 1 .. Len(air2) : air2[i].blk = n + 1
  BY DEF BlockOf, Increasing, Before
<1>3. up2[t] = air2 /\ \A u \in Thread \ {t} : up2[u] = up[u]
  BY <1>2
<1>4. bs2[n + 1].shards = air2
  BY <1>1
<1>. HIDE DEF n, bs2, air2, up2
<1>5. \A x : MadeOf(bs, x) => MadeOf(bs2, x) /\ x.blk \in 1 .. n
  BY <1>1 DEF MadeOf, n
<1>6. \A i \in 1 .. Len(air2) : MadeOf(bs2, air2[i])
  BY <1>1, <1>2, <1>4 DEF MadeOf
<1>7. \A x : x.blk \in 1 .. n => AheadOf(x, air2)
  BY <1>1, <1>2 DEF AheadOf, Before
<1>8. AllMade(bs2, busy, held, line, up2)
  BY <1>3, <1>5, <1>6 DEF Placed, AllMade
<1>9. \A u \in Thread \ {t} : Apart(up2[u], air2) /\ Apart(air2, up2[u])
  <2>1. \A u \in Thread \ {t} : \A i \in 1 .. Len(up2[u]) : up2[u][i].blk \in 1 .. n
    BY <1>3, <1>5 DEF Placed, AllMade
  <2>2. \A u \in Thread \ {t} : \A i \in 1 .. Len(up2[u]) : up2[u][i].blk # n + 1
    BY <1>1, <2>1
  <2>. QED
    BY <1>2, <2>2 DEF Apart
<1>10. Ordered(busy, held, line, up2)
  <2>1. \A u, v \in Thread : u # v => Apart(up2[u], up2[v])
    BY <1>3, <1>9 DEF Placed, Ordered
  <2>2. \A u \in Thread : Increasing(up2[u])
    BY <1>2, <1>3 DEF Placed, Ordered
  <2>3. \A u \in Thread : \A i \in 1 .. Len(line) : AheadOf(line[i], up2[u])
    BY <1>3, <1>5, <1>7 DEF Placed, Ordered, AllMade
  <2>4. busy => \A u \in Thread : AheadOf(held, up2[u])
    BY <1>3, <1>5, <1>7 DEF Placed, Ordered, AllMade
  <2>. QED
    BY <2>1, <2>2, <2>3, <2>4 DEF Placed, Ordered
<1>11. AllPast(bs2, busy, held, line, up2, past)
  <2>. SUFFICES ASSUME NEW g \in past
                PROVE  /\ g \in (1 .. Len(bs2)) \X Nat
                       /\ \A u \in Thread : AheadOf(AsShard(g), up2[u])
    BY DEF Placed, AllPast
  <2>1. g \in (1 .. n) \X Nat
    BY DEF Placed, AllPast, n
  <2>2. AsShard(g).blk \in 1 .. n
    BY <2>1 DEF AsShard
  <2>3. g \in (1 .. Len(bs2)) \X Nat
    BY <1>1, <2>1
  <2>4. \A u \in Thread : AheadOf(AsShard(g), up2[u])
    BY <1>3, <1>7, <2>2 DEF Placed, AllPast
  <2>. QED
    BY <2>3, <2>4
<1>. QED
  BY <1>8, <1>10, <1>11 DEF bs2, up2, air2, Placed

\* Ring ids go on from the last block.
IdInv == blocks # <<>> => fec.block_id = wire_block_id(blocks[Len(blocks)].id + 1)

\* An operation of the encoder by a thread that has no shard left to enqueue.
LEMMA PlaceEncoded ==
  ASSUME TypeInv, PlaceInv, IdInv, NEW t \in Thread, air[t] = <<>>,
         NEW r, Handed(fec, r), Encoded(t, r),
         UNCHANGED <<hand, queue, gone>>, Sending' <=> Sending
  PROVE  PlaceInv' /\ IdInv'
<1>1. /\ blocks \in Seq(Block) /\ queue \in Seq(Shard) /\ air \in [Thread -> Seq(Shard)]
      /\ fec.nblocks = Len(blocks) /\ fec.block_id \in BlockId
  BY DEF TypeInv, FecInv, BufferInv, TxOK, TxType
<1>2. fec' = r.tx /\ air' = [air EXCEPT ![t] = r.air]
  BY DEF Encoded
<1>3. CASE r.air = <<>> /\ r.tx.block_id = fec.block_id
  <2>1. blocks' = blocks
    BY <1>3 DEF Encoded
  <2>2. air' = air
    BY <1>1, <1>2, <1>3
  <2>. QED
    BY <1>2, <1>3, <2>1, <2>2 DEF PlaceInv, Placed, IdInv
<1>4. CASE /\ r.air # <<>> /\ BlockOf(r.air, fec.nblocks + 1)
           /\ r.tx.block_id = wire_block_id(fec.block_id + 1)
  <2>. DEFINE new == [id |-> fec.block_id, shards |-> r.air]
  <2>1. blocks' = Append(blocks, new)
    BY <1>4 DEF Encoded
  <2>2. new \in Block
    BY <1>1, <1>4 DEF Block, BlockOf
  <2>3. new.shards = r.air /\ new.id = fec.block_id
    OBVIOUS
  <2>. HIDE DEF new
  <2>4. PlaceInv'
    <3>1. PICK busy \in BOOLEAN : busy <=> Sending
      OBVIOUS
    <3>2. Placed(blocks, busy, hand, queue, air, gone)
      BY <3>1 DEF Placed, PlaceInv, AllMade, Ordered, AllPast
    <3>3. BlockOf(new.shards, Len(blocks) + 1) /\ air' = [air EXCEPT ![t] = new.shards]
      BY <1>1, <1>2, <1>4, <2>3
    <3>4. Placed(blocks', busy, hand, queue, air', gone)
      BY <1>1, <2>1, <2>2, <3>2, <3>3, PlaceNew
    <3>. QED
      BY <3>1, <3>4 DEF Placed, PlaceInv, AllMade, Ordered, AllPast
  <2>5. Len(blocks') = Len(blocks) + 1 /\ blocks'[Len(blocks')] = new
    BY <1>1, <2>1, <2>2, AppendProperties
  <2>6. IdInv'
    BY <1>2, <1>4, <2>3, <2>5 DEF IdInv
  <2>. QED
    BY <2>4, <2>6
<1>. QED
  BY <1>3, <1>4 DEF Handed

\* A step that at most drops shards.
LEMMA PlaceDropped ==
  ASSUME TypeInv, TypeInv', PlaceInv, IdInv, UNCHANGED <<blocks, gone>>,
         fec'.block_id = fec.block_id,
         Sending' => Sending /\ hand' = hand,
         Rest(queue', queue), \A t \in Thread : Rest(air'[t], air[t])
  PROVE  PlaceInv' /\ IdInv'
<1>1. /\ queue \in Seq(Shard) /\ air \in [Thread -> Seq(Shard)]
      /\ queue' \in Seq(Shard) /\ air' \in [Thread -> Seq(Shard)]
  BY DEF TypeInv, BufferInv
<1>2. PICK busy \in BOOLEAN, busy2 \in BOOLEAN : (busy <=> Sending) /\ (busy2 <=> Sending')
  OBVIOUS
<1>3. Placed(blocks, busy, hand, queue, air, gone)
  BY <1>2 DEF Placed, PlaceInv, AllMade, Ordered, AllPast
<1>4. busy2 => busy /\ hand' = hand
  BY <1>2
<1>5. Placed(blocks, busy2, hand', queue', air', gone)
  BY <1>1, <1>3, <1>4, PlaceDrop
<1>6. PlaceInv'
  BY <1>2, <1>5 DEF Placed, PlaceInv, AllMade, Ordered, AllPast
<1>. QED
  BY <1>6 DEF IdInv

LEMMA PlaceUntouched ==
  ASSUME PlaceInv, IdInv, UNCHANGED <<blocks, gone, queue, air, hand>>,
         fec'.block_id = fec.block_id, Sending' <=> Sending
  PROVE  PlaceInv' /\ IdInv'
BY DEF Placed, PlaceInv, IdInv, AllMade, Ordered, AllPast

LEMMA PlaceStarts == Init => PlaceInv /\ IdInv
<1>. SUFFICES ASSUME Init PROVE PlaceInv /\ IdInv
  OBVIOUS
<1>1. /\ blocks = <<>> /\ queue = <<>> /\ gone = {} /\ ~Sending /\ Len(<<>>) = 0
      /\ \A t \in Thread : Len(air[t]) = 0
  BY EmptySeq DEF Init, Sending
<1>. QED
  BY <1>1 DEF Placed, PlaceInv, IdInv, AllMade, Ordered, AllPast, Increasing, AheadOf, Apart

LEMMA PlaceStep == TypeInv /\ TypeInv' /\ PlaceInv /\ IdInv /\ [Next]_vars => PlaceInv' /\ IdInv'
<1>. SUFFICES ASSUME TypeInv, TypeInv', PlaceInv, IdInv, [Next]_vars PROVE PlaceInv' /\ IdInv'
  OBVIOUS
<1>0. /\ TxOK(fec) /\ TxFull(fec) /\ fec \in TxType
      /\ queue \in Seq(Shard) /\ air \in [Thread -> Seq(Shard)]
  BY FullerOK DEF TypeInv, FecInv, TxOK, BufferInv
<1>. DEFINE KeepAir == \A t \in Thread : Rest(air[t], air[t])
<1>a. KeepAir /\ Rest(queue, queue)
  <2>1. \A t \in Thread : air[t] \in Seq(Shard)
    BY <1>0
  <2>. QED
    BY <1>0, <2>1, RestSame
<1>1. CASE InputPacket
  <2>1. PICK s \in Sizes : Encoded("input", push_app(fec, [no |-> accepted + 1, size |-> s]))
    BY <1>1, Zenon DEF InputPacket
  <2>. DEFINE r == push_app(fec, [no |-> accepted + 1, size |-> s])
  <2>2. [no |-> accepted + 1, size |-> s] \in Packet
    BY SenderAssumption DEF Packet, TypeInv, FecInv
  <2>3. Handed(fec, r) /\ Encoded("input", r)
    BY <1>0, <2>1, <2>2, PushOK
  <2>. HIDE DEF r
  <2>4. air["input"] = <<>> /\ UNCHANGED <<hand, queue, gone>> /\ (Sending' <=> Sending)
    BY <1>1 DEF InputPacket, thread, sends, Sending
  <2>. QED
    BY <2>3, <2>4, PlaceEncoded DEF Thread
<1>2. CASE SendTick
  <2>1. CASE send_stop
    BY <1>2, <2>1, PlaceUntouched DEF SendTick, sends, Sending
  <2>2. CASE ~send_stop
    <3>. DEFINE r == on_tick(fec)
    <3>1. Handed(fec, r) /\ Encoded("send", r)
      BY <1>0, <1>2, <2>2, TickOK DEF SendTick
    <3>. HIDE DEF r
    <3>2. air["send"] = <<>> /\ UNCHANGED <<hand, queue, gone>> /\ (Sending' <=> Sending)
      BY <1>2, <2>2 DEF SendTick, sends, Sending, TypeInv, BufferInv
    <3>. QED
      BY <3>1, <3>2, PlaceEncoded DEF Thread
  <2>. QED
    BY <2>1, <2>2
<1>3. CASE Reinit \/ CloseDisable
  <2>1. PICK r : Handed(fec, r) /\ Encoded("control", r)
    <3>. DEFINE f == flush(fec)
    <3>1. Handed(fec, f) /\ TxOK(f.tx)
      BY <1>0, FlushOK DEF Handed
    <3>2. cfg.k \in Nat \ {0} /\ cfg.n \in Nat /\ cfg.k <= cfg.n /\ cfg.max \in Nat
      BY SenderAssumption DEF TypeInv, FecInv
    <3>3. CASE Reinit
      <4>. DEFINE r == [f EXCEPT !.tx = init(@, cfg)]
      <4>1. Encoded("control", r)
        BY <3>3 DEF Reinit
      <4>2. r.tx = init(f.tx, cfg) /\ r.air = f.air
        BY DEF flush, Nothing
      <4>. HIDE DEF r, f
      <4>3. Handed(fec, r)
        BY <3>1, <3>2, <4>2, InitOK DEF Handed
      <4>. QED
        BY <4>1, <4>3
    <3>4. CASE CloseDisable
      <4>. DEFINE r == [f EXCEPT !.tx = disable(@)]
      <4>1. Encoded("control", r)
        BY <3>4 DEF CloseDisable
      <4>2. r.tx = disable(f.tx) /\ r.air = f.air
        BY DEF flush, Nothing
      <4>. HIDE DEF r, f
      <4>3. Handed(fec, r)
        BY <3>1, <4>2, DisableOK DEF Handed
      <4>. QED
        BY <4>1, <4>3
    <3>. QED
      BY <1>3, <3>3, <3>4
  <2>2. air["control"] = <<>> /\ UNCHANGED <<hand, queue, gone>> /\ (Sending' <=> Sending)
    BY <1>3 DEF Reinit, CloseDisable, thread, sends, Sending, TypeInv, BufferInv
  <2>. QED
    BY <2>1, <2>2, PlaceEncoded DEF Thread
<1>4. ASSUME NEW t \in Thread, Enqueue(t) PROVE PlaceInv' /\ IdInv'
  <2>1. CASE DropOversized(t) \/ MakeRoom(t)
    <3>1. Rest(queue', queue)
      BY <1>0, <1>a, <2>1, RestEvicted DEF DropOversized, MakeRoom
    <3>2. \A u \in Thread : Rest(air'[u], air[u])
      <4>1. CASE DropOversized(t)
        <5>1. air[t] \in Seq(Shard) /\ air[t] # <<>>
          BY <1>0, <4>1 DEF DropOversized
        <5>2. Rest(Tail(air[t]), air[t])
          BY <5>1, RestTail
        <5>3. air' = [air EXCEPT ![t] = Tail(air[t])]
          BY <4>1 DEF DropOversized
        <5>. QED
          BY <1>0, <1>a, <5>2, <5>3
      <4>2. CASE MakeRoom(t)
        BY <1>a, <4>2 DEF MakeRoom
      <4>. QED
        BY <2>1, <4>1, <4>2
    <3>3. UNCHANGED <<blocks, gone, fec, hand>> /\ (Sending' <=> Sending)
      BY <2>1 DEF DropOversized, MakeRoom, thread, sends, Sending
    <3>. QED
      BY <3>1, <3>2, <3>3, PlaceDropped
  <2>2. CASE PushBack(t)
    <3>1. /\ air[t] # <<>> /\ queue' = Append(queue, Head(air[t]))
          /\ air' = [air EXCEPT ![t] = Tail(@)]
          /\ UNCHANGED <<blocks, gone, fec, hand>> /\ (Sending' <=> Sending)
      BY <2>2 DEF PushBack, thread, sends, Sending, TypeInv, BufferInv
    <3>2. PICK busy \in BOOLEAN : busy <=> Sending
      OBVIOUS
    <3>3. Placed(blocks, busy, hand, queue, air, gone)
      BY <3>2 DEF Placed, PlaceInv, AllMade, Ordered, AllPast
    <3>4. Placed(blocks, busy, hand, queue', air', gone)
      BY <1>0, <3>1, <3>3, PlacePush
    <3>. QED
      BY <3>1, <3>2, <3>4 DEF Placed, PlaceInv, IdInv, AllMade, Ordered, AllPast
  <2>. QED
    BY <1>4, <2>1, <2>2 DEF Enqueue
<1>5. CASE SendWait
  <2>1. CASE send_stop \/ queue = <<>>
    BY <1>5, <2>1, PlaceUntouched DEF SendWait, sends, Sending
  <2>2. CASE ~(send_stop \/ queue = <<>>)
    <3>1. /\ pc = "wait" /\ pc' = "gate" /\ queue # <<>> /\ hand' = Head(queue) /\ queue' = Tail(queue)
          /\ UNCHANGED <<blocks, gone, fec, air>>
      BY <1>5, <2>2 DEF SendWait, sends
    <3>2. ~Sending /\ Sending'
      BY <3>1 DEF Sending
    <3>3. Placed(blocks, FALSE, hand, queue, air, gone)
      BY <3>2 DEF Placed, PlaceInv, AllMade, Ordered, AllPast
    <3>4. Placed(blocks, TRUE, hand', queue', air, gone)
      BY <1>0, <3>1, <3>3, PlacePop
    <3>. QED
      BY <3>1, <3>2, <3>4 DEF Placed, PlaceInv, IdInv, AllMade, Ordered, AllPast
  <2>. QED
    BY <2>1, <2>2
<1>6. CASE SendGate
  <2>1. /\ UNCHANGED <<blocks, gone, fec, queue, air>>
        /\ Sending' => Sending /\ hand' = hand
    BY <1>6 DEF SendGate, buffer, sends, Sending
  <2>. QED
    BY <1>a, <2>1, PlaceDropped
<1>7. CASE SendStamp
  BY <1>7, PlaceUntouched DEF SendStamp, buffer, sends, Sending
<1>8. CASE SendTo
  <2>1. /\ pc = "pace" /\ pc' = "tick" /\ gone' = gone \cup {<<hand.blk, hand.idx>>}
        /\ UNCHANGED <<blocks, fec, queue, air>>
    BY <1>8 DEF SendTo, buffer
  <2>2. Sending /\ ~Sending' /\ hand \in Shard
    BY <2>1 DEF Sending, TypeInv, HandInv
  <2>3. Placed(blocks, TRUE, hand, queue, air, gone)
    BY <2>2 DEF Placed, PlaceInv, AllMade, Ordered, AllPast
  <2>4. Placed(blocks, FALSE, hand', queue, air, gone')
    BY <1>0, <2>1, <2>2, <2>3, PlaceGo
  <2>. QED
    BY <2>1, <2>2, <2>4 DEF Placed, PlaceInv, IdInv, AllMade, Ordered, AllPast
<1>9. CASE CloseClear
  <2>1. Rest(queue', queue) /\ UNCHANGED <<blocks, gone, fec, air, hand>> /\ (Sending' <=> Sending)
    BY <1>9, RestEmpty DEF CloseClear, thread, sends, Sending
  <2>. QED
    BY <1>a, <2>1, PlaceDropped
<1>10. CASE OpenInit
  <2>1. fec' = init(fec, cfg) /\ fec'.block_id = fec.block_id
    BY <1>0, <1>10 DEF OpenInit, init, TxType
  <2>. QED
    BY <1>10, <2>1, PlaceUntouched DEF OpenInit, thread, buffer, sends, Sending
<1>11. CASE TimeoutFalls
  BY <1>0, <1>11, PlaceUntouched DEF TimeoutFalls, TxType, thread, buffer, sends, Sending
<1>12. CASE set_enabled \/ DeadlinePasses \/ Configure \/ CloseStop \/ CloseJoin
  BY <1>12, PlaceUntouched
  DEF set_enabled, DeadlinePasses, Configure, CloseStop, CloseJoin, thread, buffer, sends, Sending
<1>13. CASE OpenStart
  <2>1. UNCHANGED <<blocks, gone, fec, air, hand, queue>> /\ ~Sending'
    BY <1>13 DEF OpenStart, buffer, sends, Sending
  <2>. QED
    BY <1>a, <2>1, PlaceDropped
<1>14. CASE UNCHANGED vars
  BY <1>14, PlaceUntouched DEF vars, thread, buffer, sends, Sending
<1>. QED
  BY <1>1, <1>2, <1>3, <1>4, <1>5, <1>6, <1>7, <1>8, <1>9, <1>10, <1>11, <1>12, <1>13, <1>14
  DEF Next, SendThread, ControlGoesOn, Thread


(* ---------------------------- the abstract link ------------------------- *)

\* The blocks as BlockStream sees them.
Made(bs) ==
  [b \in 1 .. Len(bs) |-> [id |-> bs[b].id, idxs |-> {sh.idx : sh \in ToSet(bs[b].shards)}]]

LEMMA MadeIs ==
  ASSUME NEW bs \in Seq(Block)
  PROVE  /\ Len(Made(bs)) = Len(bs) /\ Made(bs) \in Seq([id : BlockId, idxs : SUBSET Nat])
         /\ \A b \in 1 .. Len(bs) : /\ Made(bs)[b].id = bs[b].id
                                    /\ Made(bs)[b].idxs = {sh.idx : sh \in ToSet(bs[b].shards)}
<1>1. Len(bs) \in Nat
  BY LenProperties
<1>2. ASSUME NEW b \in 1 .. Len(bs)
      PROVE  Made(bs)[b] \in [id : BlockId, idxs : SUBSET Nat]
  <2>1. bs[b] \in Block
    BY <1>2, ElementOfSeq
  <2>2. bs[b].id \in BlockId /\ bs[b].shards \in Seq(Shard)
    BY <2>1 DEF Block
  <2>3. \A sh \in ToSet(bs[b].shards) : sh.idx \in Nat
    <3>1. \A i \in 1 .. Len(bs[b].shards) : bs[b].shards[i] \in Shard
      BY <2>2, ElementOfSeq
    <3>2. DOMAIN bs[b].shards = 1 .. Len(bs[b].shards)
      BY <2>2, LenProperties
    <3>. QED
      BY <3>1, <3>2 DEF ToSet, Shard
  <2>. QED
    BY <2>2, <2>3 DEF Made
<1>3. Made(bs) \in Seq([id : BlockId, idxs : SUBSET Nat])
  BY <1>1, <1>2 DEF Made
<1>4. Len(Made(bs)) = Len(bs)
  BY <1>1, <1>3, LenProperties DEF Made
<1>. QED
  BY <1>3, <1>4 DEF Made

LEMMA MadeGrows ==
  ASSUME NEW bs \in Seq(Block), NEW new \in Block
  PROVE  LET m  == Made(bs)
             m2 == Made(Append(bs, new))
         IN  /\ Len(m2) > Len(m) /\ m2 = Append(m, m2[Len(m2)])
             /\ m2[Len(m2)].id = new.id /\ m2[Len(m2)].id \in BlockId
             /\ m2[Len(m2)].idxs \subseteq Nat
             /\ m # <<>> => bs # <<>> /\ m[Len(m)].id = bs[Len(bs)].id
<1>. DEFINE S  == [id : BlockId, idxs : SUBSET Nat]
            bs2 == Append(bs, new)
            m  == Made(bs)
            m2 == Made(bs2)
            x == m2[Len(m2)]
<1>1. /\ bs2 \in Seq(Block) /\ Len(bs2) = Len(bs) + 1 /\ bs2[Len(bs) + 1] = new
      /\ \A b \in 1 .. Len(bs) : bs2[b] = bs[b]
      /\ Len(bs) \in Nat
  BY AppendProperties, LenProperties
<1>. HIDE DEF bs2
<1>2. /\ m \in Seq(S) /\ m2 \in Seq(S) /\ Len(m) = Len(bs) /\ Len(m2) = Len(bs) + 1
      /\ \A b \in 1 .. Len(bs) : m2[b] = m[b]
      /\ x \in S /\ x.id = new.id
  <2>1. /\ m \in Seq(S) /\ m2 \in Seq(S) /\ Len(m) = Len(bs) /\ Len(m2) = Len(bs) + 1
    BY <1>1, MadeIs
  <2>2. ASSUME NEW b \in 1 .. Len(bs) PROVE m2[b] = m[b]
    <3>1. b \in 1 .. Len(bs2) /\ bs2[b] = bs[b]
      BY <1>1
    <3>. QED
      BY <3>1 DEF Made
  <2>3. x.id = new.id
    BY <1>1, <2>1, MadeIs
  <2>4. x \in S
    <3>. HIDE DEF m2, S
    <3>. QED
      BY <1>1, <2>1, ElementOfSeq DEF x
  <2>. QED
    BY <2>1, <2>2, <2>3, <2>4
<1>3. m # <<>> => bs # <<>> /\ m[Len(m)].id = bs[Len(bs)].id
  <2>. SUFFICES ASSUME m # <<>> PROVE bs # <<>> /\ m[Len(m)].id = bs[Len(bs)].id
    OBVIOUS
  <2>1. Len(bs) # 0
    BY <1>2, EmptySeq
  <2>. QED
    BY <1>1, <1>2, <2>1, MadeIs, EmptySeq
<1>. HIDE DEF m, m2, x, S
<1>4. m2 = Append(m, x)
  <2>1. /\ Append(m, x) \in Seq(S) /\ Len(Append(m, x)) = Len(bs) + 1
        /\ Append(m, x)[Len(bs) + 1] = x
        /\ \A b \in 1 .. Len(bs) : Append(m, x)[b] = m[b]
    BY <1>2, AppendProperties
  <2>2. x = m2[Len(bs) + 1]
    BY <1>2 DEF x
  <2>3. \A b \in 1 .. Len(bs) + 1 : m2[b] = Append(m, x)[b]
    BY <1>1, <1>2, <2>1, <2>2
  <2>. QED
    BY <1>2, <2>1, <2>3, SeqEqual
<1>5. x \in S => x.id \in BlockId /\ x.idxs \subseteq Nat
  BY DEF S
<1>. QED
  BY <1>1, <1>2, <1>3, <1>4, <1>5 DEF m, m2, x, bs2


\* A block that is encoded is the next block of the link.
LEMMA LinkEncodes ==
  ASSUME TypeInv, IdInv, NEW new \in Block, blocks' = Append(blocks, new),
         new.id = fec.block_id, gone' = gone
  PROVE  Link!Encode
<1>. DEFINE m  == Made(blocks)
            m2 == Made(blocks')
<1>1. /\ Len(m2) > Len(m) /\ m2 = Append(m, m2[Len(m2)])
      /\ m2[Len(m2)].id = new.id /\ m2[Len(m2)].id \in BlockId
      /\ m2[Len(m2)].idxs \subseteq Nat
      /\ m # <<>> => blocks # <<>> /\ m[Len(m)].id = blocks[Len(blocks)].id
  BY MadeGrows DEF TypeInv, FecInv
<1>2. m # <<>> => m2[Len(m2)].id = wire_block_id(m[Len(m)].id + 1)
  BY <1>1 DEF IdInv
<1>3. /\ m = [b \in 1 .. Len(blocks) |-> [id |-> blocks[b].id, idxs |-> Shards(b)]]
      /\ m2 = [b \in 1 .. Len(blocks) |-> [id |-> blocks[b].id, idxs |-> Shards(b)]]'
  BY DEF Made, Shards
<1>. HIDE DEF m, m2
<1>. QED
  BY <1>1, <1>2, <1>3 DEF Link!Encode, Link!BlockId, BlockId, Link!wire_block_id, wire_block_id

\* A shard that is handed to sendto leaves on the link.
LEMMA LinkLeaves ==
  ASSUME TypeInv, PlaceInv, SendTo
  PROVE  Link!Leave
<1>. DEFINE m == Made(blocks)
            b == hand.blk
            i == hand.idx
<1>1. /\ Sending /\ hand \in Shard /\ gone' = gone \cup {<<b, i>>} /\ blocks' = blocks
  BY DEF SendTo, Sending, TypeInv, HandInv
<1>2. MadeOf(blocks, hand)
  BY <1>1 DEF PlaceInv, Placed, AllMade
<1>3. b \in 1 .. Len(blocks) /\ blocks[b] \in Block
  BY <1>2, ElementOfSeq DEF MadeOf, TypeInv, FecInv
<1>4. /\ Len(m) = Len(blocks)
      /\ m[b].idxs = {sh.idx : sh \in ToSet(blocks[b].shards)}
  BY <1>3, MadeIs DEF TypeInv, FecInv
<1>5. i \in m[b].idxs
  <2>1. PICK k \in 1 .. Len(blocks[b].shards) : blocks[b].shards[k].idx = i
    BY <1>2 DEF MadeOf
  <2>2. DOMAIN blocks[b].shards = 1 .. Len(blocks[b].shards)
    BY <1>3, LenProperties DEF Block
  <2>. QED
    BY <1>4, <2>1, <2>2 DEF ToSet
<1>6. \A j \in m[b].idxs : <<b, j>> \in gone => j < i
  BY <1>1 DEF PlaceInv, Placed, AllPast, Before, AsShard
<1>7. /\ m = [c \in 1 .. Len(blocks) |-> [id |-> blocks[c].id, idxs |-> Shards(c)]]
      /\ m = [c \in 1 .. Len(blocks) |-> [id |-> blocks[c].id, idxs |-> Shards(c)]]'
  BY <1>1 DEF Made, Shards
<1>. HIDE DEF m, b, i
<1>. QED
  BY <1>1, <1>3, <1>4, <1>5, <1>6, <1>7 DEF Link!Leave

\* The blocks change only by a block that is encoded.
LEMMA BlocksGrow ==
  ASSUME TypeInv, Next, ~UNCHANGED blocks
  PROVE  /\ gone' = gone
         /\ \E new \in Block : blocks' = Append(blocks, new) /\ new.id = fec.block_id
<1>0. TxOK(fec) /\ TxFull(fec) /\ fec.block_id \in BlockId
  BY FullerOK DEF TypeInv, FecInv, TxOK, TxType
<1>1. ASSUME NEW t \in Thread, NEW r, Handed(fec, r), Encoded(t, r)
      PROVE  \E new \in Block : blocks' = Append(blocks, new) /\ new.id = fec.block_id
  <2>1. r.air # <<>> /\ blocks' = Append(blocks, [id |-> fec.block_id, shards |-> r.air])
    BY <1>1 DEF Encoded
  <2>2. r.air \in Seq(Shard)
    BY <1>1, <2>1 DEF Handed, BlockOf
  <2>. QED
    BY <1>0, <2>1, <2>2 DEF Block
<1>2. CASE InputPacket
  <2>1. PICK s \in Sizes : Encoded("input", push_app(fec, [no |-> accepted + 1, size |-> s]))
    BY <1>2, Zenon DEF InputPacket
  <2>2. [no |-> accepted + 1, size |-> s] \in Packet
    BY SenderAssumption DEF Packet, TypeInv, FecInv
  <2>3. Handed(fec, push_app(fec, [no |-> accepted + 1, size |-> s]))
    BY <1>0, <2>2, PushOK
  <2>. QED
    BY <1>1, <1>2, <2>1, <2>3 DEF InputPacket, sends, Thread
<1>3. CASE SendTick
  <2>1. ~send_stop /\ Encoded("send", on_tick(fec)) /\ gone' = gone
    BY <1>3 DEF SendTick, sends
  <2>. QED
    BY <1>0, <1>1, <2>1, TickOK DEF Thread
<1>4. CASE Reinit \/ CloseDisable
  <2>. DEFINE f == flush(fec)
  <2>1. Handed(fec, f)
    BY <1>0, FlushOK
  <2>2. PICK r : Encoded("control", r) /\ r.air = f.air
    <3>1. f.air = [f EXCEPT !.tx = init(@, cfg)].air /\ f.air = [f EXCEPT !.tx = disable(@)].air
      BY DEF flush, Nothing
    <3>. HIDE DEF f
    <3>. QED
      BY <1>4, <3>1, Zenon DEF Reinit, CloseDisable, f
  <2>3. gone' = gone
    BY <1>4 DEF Reinit, CloseDisable, sends
  <2>4. r.air # <<>> /\ blocks' = Append(blocks, [id |-> fec.block_id, shards |-> r.air])
    BY <2>2 DEF Encoded
  <2>5. r.air \in Seq(Shard)
    BY <2>1, <2>2, <2>4 DEF Handed, BlockOf
  <2>. QED
    BY <1>0, <2>3, <2>4, <2>5 DEF Block
<1>5. CASE ~(InputPacket \/ SendTick \/ Reinit \/ CloseDisable)
  BY <1>5 DEF Next, SendThread, ControlGoesOn, Enqueue, DropOversized, MakeRoom, PushBack, SendWait,
     SendGate, SendStamp, SendTo, set_enabled, DeadlinePasses, TimeoutFalls, OpenInit, Configure,
     CloseStop, OpenStart, CloseJoin, CloseClear
<1>. QED
  BY <1>2, <1>3, <1>4, <1>5

\* Nothing but sendto puts a shard on the wire.
LEMMA GoneGrows ==
  ASSUME Next, ~SendTo
  PROVE  gone' = gone
BY DEF Next, SendThread, ControlGoesOn, Enqueue, DropOversized, MakeRoom, PushBack, SendWait,
   SendGate, SendStamp, SendTick, InputPacket, set_enabled, DeadlinePasses, TimeoutFalls, OpenInit,
   Configure, CloseStop, OpenStart, CloseJoin, CloseClear, CloseDisable, Reinit, sends

\* Whatever threads encode, enqueue, evict and reconfigure, and whatever the gate
\* drops: blocks take consecutive ring ids, a shard leaves at most once, and the
\* shards of a block leave in the order of their indexes.  The sender implements
\* BlockStream, which is what FecLink assumes of a sender.
THEOREM SenderKeepsBlockStream == Spec => KeepsBlockStream
<1>. DEFINE Inv  == TypeInv /\ PlaceInv /\ IdInv
            made == [b \in 1 .. Len(blocks) |-> [id |-> blocks[b].id, idxs |-> Shards(b)]]
<1>1. Init => Link!Init
  <2>. SUFFICES ASSUME Init PROVE Link!Init
    OBVIOUS
  <2>1. blocks = <<>> /\ gone = {} /\ Len(<<>>) = 0
    BY EmptySeq DEF Init
  <2>2. made = <<>>
    BY <2>1
  <2>. QED
    BY <2>1, <2>2 DEF Link!Init
<1>2. Inv /\ [Next]_vars => [Link!Encode \/ Link!Leave]_<<made, gone>>
  <2>. SUFFICES ASSUME Inv, [Next]_vars
                PROVE  Link!Encode \/ Link!Leave \/ UNCHANGED <<made, gone>>
    OBVIOUS
  <2>1. CASE UNCHANGED vars
    BY <2>1 DEF vars, sends, Shards
  <2>2. CASE Next /\ ~UNCHANGED blocks
    BY <2>2, BlocksGrow, LinkEncodes
  <2>3. CASE Next /\ UNCHANGED blocks /\ SendTo
    BY <2>3, LinkLeaves
  <2>4. CASE Next /\ UNCHANGED blocks /\ ~SendTo
    <3>1. gone' = gone /\ blocks' = blocks
      BY <2>4, GoneGrows
    <3>. QED
      BY <3>1 DEF Shards
  <2>. QED
    BY <2>1, <2>2, <2>3, <2>4
<1>3. Spec => []Inv
  BY Typed, PlaceStarts, PlaceStep, PTL DEF Spec
<1>. QED
  BY <1>1, <1>2, <1>3, PTL DEF Spec, KeepsBlockStream, Link!Spec
=============================================================================
