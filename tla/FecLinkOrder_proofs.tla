------------------------ MODULE FecLinkOrder_proofs ------------------------
(***************************************************************************)
(* Complete blocks come out in order, along one session shorter than half  *)
(* the ring, on a link on which nothing is returned twice.                 *)
(*                                                                         *)
(* Lined is what holds at every point of a call: what has been returned is *)
(* shown, that is behind the head or streamed from the block at it, unless *)
(* its block was given up; and what this call has returned came in turn.   *)
(* One lemma per operator of the receiver shows that it keeps Lined.       *)
(***************************************************************************)
EXTENDS FecLink_proofs

\* x is of a block behind the head, or of the one at the head, and streamed.
Shown(f, s, x) ==
  \/ x[1] < Place(f, s.emit_next)
  \/ /\ x[1] = Place(f, s.emit_next) /\ s.emit_next \in DOMAIN s.rx_blocks
     /\ x[2] < s.rx_blocks[s.emit_next].released

\* The packet o[j] is of a block before place H, which the head had passed; or its block was
\* given up; or it comes after those of D and those of o before it.  W, and then V, are the
\* packets written off.
InTurn(H, D, W, V, o, j) ==
  \/ o[j][1] < H \/ Broken(o[j], V)
  \/ /\ \A p \in D : Before(p, o[j]) \/ Broken(p, W)
     /\ \A l \in 1 .. j - 1 : Before(o[l], o[j]) \/ Broken(o[l], V)

\* What has been returned is shown, but for packets of blocks given up; and what this call
\* has returned came in turn.
Lined(f, H, D, W, s) ==
  /\ \A p \in D : Shown(f, s, p) \/ Broken(p, W)
  /\ \A p \in ToSet(s.out) : Shown(f, s, p) \/ Broken(p, W \cup s.lost)
  /\ \A j \in 1 .. Len(s.out) : InTurn(H, D, W, W \cup s.lost, s.out, j)

\* What is shown stays shown.
HeadOn(f, s, t) == \A x \in Nat \X Nat : Shown(f, s, x) => Shown(f, t, x)

\* One packet after the other.
InSeries(q) == \A i, j \in 1 .. Len(q) : i < j => Before(q[i], q[j])

\* The packets q come after all that is shown in s, and are shown in t.
Follows(f, s, t, q) ==
  /\ InSeries(q)
  /\ \A y \in ToSet(q) : /\ Shown(f, t, y)
                         /\ \A x \in Nat \X Nat : Shown(f, s, x) => Before(x, y)

\* The packets q are shown in t, and of blocks that the head had passed before the call.
Late(f, H, t, q) == \A y \in ToSet(q) : Shown(f, t, y) /\ y[1] < H

\* The packets q are of blocks given up.
AllBroken(t, q) == \A y \in ToSet(q) : Broken(y, t.lost)

\* The list with more packets.
LEMMA OutMore ==
  ASSUME NEW P, NEW a \in Seq(P), NEW b \in Seq(P)
  PROVE  /\ Len(a) \in Nat /\ Len(b) \in Nat /\ Len(a \o b) = Len(a) + Len(b)
         /\ \A i \in 1 .. Len(a) : (a \o b)[i] = a[i]
         /\ \A i \in 1 .. Len(a) + Len(b) :
              \/ i \in 1 .. Len(a)
              \/ i - Len(a) \in 1 .. Len(b) /\ (a \o b)[i] = b[i - Len(a)]
         /\ ToSet(a \o b) = ToSet(a) \cup ToSet(b)
         /\ \A i \in 1 .. Len(a) : a[i] \in ToSet(a) /\ a[i] \in P
         /\ \A i \in 1 .. Len(b) : b[i] \in ToSet(b) /\ b[i] \in P
<1> DEFINE m == Len(a)
           n == Len(b)
           c == a \o b
<1>1. /\ m \in Nat /\ n \in Nat /\ DOMAIN a = 1 .. m /\ DOMAIN b = 1 .. n
      /\ c \in Seq(P) /\ DOMAIN c = 1 .. m + n /\ Len(c) = m + n
      /\ \A i \in 1 .. m + n : c[i] = IF i <= m THEN a[i] ELSE b[i - m]
  BY ConcatProperties, LenProperties
<1>2. /\ \A i \in 1 .. m : a[i] \in P
      /\ \A i \in 1 .. n : b[i] \in P
  BY ElementOfSeq
<1> HIDE DEF m, n, c
<1>3. \A i \in 1 .. m : i \in DOMAIN c /\ c[i] = a[i]
  BY <1>1
<1>4. \A i \in 1 .. n : m + i \in DOMAIN c /\ c[m + i] = b[i]
  <2> TAKE i \in 1 .. n
  <2>1. m + i \in 1 .. m + n /\ ~(m + i <= m) /\ (m + i) - m = i
    BY <1>1
  <2>. QED
    BY <1>1, <2>1
<1>5. \A i \in 1 .. m + n : \/ i \in 1 .. m
                            \/ i - m \in 1 .. n /\ c[i] = b[i - m]
  BY <1>1
<1>6. ToSet(c) = ToSet(a) \cup ToSet(b)
  <2>1. ToSet(c) \subseteq ToSet(a) \cup ToSet(b)
    BY <1>1, <1>3, <1>5 DEF ToSet
  <2>2. ToSet(a) \subseteq ToSet(c)
    BY <1>1, <1>3 DEF ToSet
  <2>3. ToSet(b) \subseteq ToSet(c)
    BY <1>1, <1>4 DEF ToSet
  <2>. QED
    BY <2>1, <2>2, <2>3
<1>7. /\ \A i \in 1 .. m : a[i] \in ToSet(a)
      /\ \A i \in 1 .. n : b[i] \in ToSet(b)
  BY <1>1 DEF ToSet
<1>. QED
  BY <1>1, <1>2, <1>3, <1>5, <1>6, <1>7 DEF m, n, c

\* More is written off.
LEMMA BrokenMore ==
  ASSUME NEW p, NEW V, NEW U, V \subseteq U, Broken(p, V)
  PROVE  Broken(p, U)
BY DEF Broken

\* A step that returns packets in one of these ways.
LEMMA LinedStep ==
  ASSUME NEW z, NEW f, NEW H, NEW D, D \subseteq Nat \X Nat, NEW W, NEW s, NEW t,
         s.out \in Seq(Pkt(z)), NEW q \in Seq(Pkt(z)), t.out = s.out \o q, s.lost \subseteq t.lost,
         Lined(f, H, D, W, s), HeadOn(f, s, t),
         Follows(f, s, t, q) \/ Late(f, H, t, q) \/ AllBroken(t, q)
  PROVE  Lined(f, H, D, W, t)
<1> DEFINE o == s.out
           u == t.out
           V == W \cup s.lost
           U == W \cup t.lost
           m == Len(o)
           n == Len(q)
<1>1. /\ m \in Nat /\ n \in Nat /\ Len(u) = m + n
      /\ \A i \in 1 .. m : u[i] = o[i] /\ o[i] \in ToSet(o)
      /\ \A i \in 1 .. m + n : i \in 1 .. m \/ (i - m \in 1 .. n /\ u[i] = q[i - m])
      /\ ToSet(u) = ToSet(o) \cup ToSet(q)
      /\ \A i \in 1 .. m : o[i] \in Pkt(z)
      /\ \A i \in 1 .. n : q[i] \in ToSet(q)
  BY OutMore
<1>2. Pkt(z) \subseteq Nat \X Nat /\ V \subseteq U /\ t.lost \subseteq U
  BY DEF Pkt
<1>3. \A x \in ToSet(o) : x \in Nat \X Nat
  <2>1. \A x \in ToSet(o) : x \in Pkt(z)
    BY LenProperties, ElementOfSeq DEF ToSet
  <2>. QED
    BY <1>2, <2>1
<1>4. \A p \in D : Shown(f, t, p) \/ Broken(p, W)
  BY DEF Lined, HeadOn
<1>5. \A p \in ToSet(o) : Shown(f, s, p) \/ Broken(p, V)
  BY DEF Lined
<1>6. \A p : Broken(p, V) => Broken(p, U)
  BY <1>2, BrokenMore
<1>7. \A p \in ToSet(u) : Shown(f, t, p) \/ Broken(p, U)
  <2> SUFFICES ASSUME NEW p \in ToSet(u) PROVE Shown(f, t, p) \/ Broken(p, U)
    OBVIOUS
  <2>1. CASE p \in ToSet(o)
    BY <1>3, <1>5, <1>6, <2>1 DEF HeadOn
  <2>2. CASE p \in ToSet(q)
    BY <1>2, <2>2, BrokenMore DEF Follows, Late, AllBroken
  <2>. QED
    BY <1>1, <2>1, <2>2
<1>8. ASSUME NEW j \in 1 .. Len(u)
      PROVE  InTurn(H, D, W, U, u, j)
  <2>1. CASE j \in 1 .. m
    <3>1. InTurn(H, D, W, V, o, j) /\ u[j] = o[j]
      BY <1>1, <2>1 DEF Lined
    <3>2. \A l \in 1 .. j - 1 : l \in 1 .. m /\ u[l] = o[l]
      BY <1>1, <2>1
    <3> HIDE DEF o, u, V, U, m
    <3>. QED
      BY <1>6, <3>1, <3>2 DEF InTurn
  <2>2. CASE j \notin 1 .. m
    <3> DEFINE y == q[j - m]
    <3>1. u[j] = y /\ y \in ToSet(q) /\ j - m \in 1 .. n
      BY <1>1, <2>2
    <3> HIDE DEF y
    <3>2. CASE Late(f, H, t, q)
      BY <3>1, <3>2 DEF InTurn, Late
    <3>3. CASE AllBroken(t, q)
      <4>1. Broken(y, U)
        BY <1>2, <3>1, <3>3, BrokenMore DEF AllBroken
      <4>. QED
        BY <3>1, <4>1 DEF InTurn
    <3>4. CASE Follows(f, s, t, q)
      <4>1. \A p \in D : Before(p, u[j]) \/ Broken(p, W)
        BY <3>1, <3>4 DEF Lined, Follows
      <4>2. ASSUME NEW l \in 1 .. j - 1
            PROVE  Before(u[l], u[j]) \/ Broken(u[l], U)
        <5>1. CASE l \in 1 .. m
          <6>1. u[l] = o[l] /\ o[l] \in ToSet(o) /\ o[l] \in Nat \X Nat
            BY <1>1, <1>3, <5>1
          <6>. QED
            BY <1>5, <1>6, <3>1, <3>4, <6>1 DEF Follows
        <5>2. CASE l \notin 1 .. m
          <6>1. l \in 1 .. m + n
            BY <1>1
          <6>2. u[l] = q[l - m] /\ l - m \in 1 .. n
            BY <1>1, <5>2, <6>1
          <6>3. l - m < j - m
            BY <1>1
          <6>4. Before(q[l - m], q[j - m])
            BY <3>1, <3>4, <6>2, <6>3 DEF Follows, InSeries
          <6>. QED
            BY <3>1, <6>2, <6>4 DEF y
        <5>. QED
          BY <5>1, <5>2
      <4>. QED
        BY <4>1, <4>2 DEF InTurn
    <3>. QED
      BY <3>2, <3>3, <3>4
  <2>. QED
    BY <2>1, <2>2
<1>. QED
  BY <1>4, <1>7, <1>8 DEF Lined

\* A step that returns nothing.
LEMMA LinedQuiet ==
  ASSUME NEW z, NEW f, NEW H, NEW D, D \subseteq Nat \X Nat, NEW W, NEW s, NEW t,
         s.out \in Seq(Pkt(z)), t.out = s.out, s.lost \subseteq t.lost,
         Lined(f, H, D, W, s), HeadOn(f, s, t)
  PROVE  Lined(f, H, D, W, t)
<1>1. <<>> \in Seq(Pkt(z)) /\ t.out = s.out \o <<>>
  <2> DEFINE P == Pkt(z)
  <2>1. s.out \in Seq(P)
    OBVIOUS
  <2> HIDE DEF P
  <2>2. PICK o \in Seq(P) : o = s.out
    BY <2>1
  <2>3. <<>> \in Seq(P) /\ o \o <<>> = o
    BY EmptySeq, ConcatEmptySeq
  <2>. QED
    BY <2>2, <2>3 DEF P
<1>2. AllBroken(t, <<>>)
  <2>1. DOMAIN <<>> = {}
    BY EmptySeq
  <2>. QED
    BY <2>1 DEF AllBroken, ToSet
<1>. QED
  BY <1>1, <1>2, LinedStep

\* The head goes on, or stays, with its block.
LEMMA HeadFurther ==
  ASSUME NEW f, NEW s, NEW t, Place(f, s.emit_next) \in Nat, Place(f, t.emit_next) \in Nat,
         Place(f, s.emit_next) < Place(f, t.emit_next)
  PROVE  HeadOn(f, s, t)
BY DEF HeadOn, Shown

\* Where the head and its block stay, so does what is shown.
LEMMA HeadSame ==
  ASSUME NEW f, NEW s, NEW t, t.emit_next = s.emit_next,
         s.emit_next \in DOMAIN s.rx_blocks =>
           /\ s.emit_next \in DOMAIN t.rx_blocks
           /\ s.rx_blocks[s.emit_next].released \in Nat
           /\ t.rx_blocks[s.emit_next].released \in Nat
           /\ s.rx_blocks[s.emit_next].released <= t.rx_blocks[s.emit_next].released
  PROVE  HeadOn(f, s, t)
BY DEF HeadOn, Shown

\* What stays shown over two steps.
LEMMA HeadOnTrans ==
  ASSUME NEW f, NEW s, NEW t, NEW u, HeadOn(f, s, t), HeadOn(f, t, u)
  PROVE  HeadOn(f, s, u)
BY DEF HeadOn

\* emit_payload, packet by packet.
LEMMA EmitOut ==
  ASSUME NEW P, NEW s, DOMAIN s = Fields, s.out \in Seq(P), NEW q \in Seq(P)
  PROVE  LET t == emit_payloads(s, q)
         IN  t.out = s.out \o q /\ t.lost = s.lost
<1>1. CASE q = <<>>
  <2>1. PICK o \in Seq(P) : o = s.out
    OBVIOUS
  <2>2. o \o <<>> = o
    BY ConcatEmptySeq
  <2>. QED
    BY <1>1, <2>1, <2>2 DEF emit_payloads
<1>2. CASE q # <<>>
  BY <1>2 DEF emit_payloads, Fields
<1>. QED
  BY <1>1, <1>2

\* A run of packets of one block is a series.
LEMMA RunSeries ==
  ASSUME NEW b \in Nat, NEW r \in Nat, NEW m \in Nat, NEW q, IsRun(q, b, r, m)
  PROVE  InSeries(q)
<1>1. Len(q) = m /\ \A j \in 1 .. m : q[j] = <<b, r + j - 1>>
  BY RunNew DEF IsRun
<1>2. ASSUME NEW i \in 1 .. m, NEW j \in 1 .. m, i < j
      PROVE  Before(q[i], q[j])
  <2>1. q[i] = <<b, r + i - 1>> /\ q[j] = <<b, r + j - 1>>
    BY <1>1
  <2>2. q[i][1] = b /\ q[j][1] = b /\ q[i][2] = r + i - 1 /\ q[j][2] = r + j - 1
    BY <2>1
  <2>. QED
    BY <1>2, <2>2 DEF Before
<1>. QED
  BY <1>1, <1>2 DEF InSeries

\* Two series, the second after the first.
LEMMA JoinSeries ==
  ASSUME NEW P, NEW a \in Seq(P), NEW b \in Seq(P), InSeries(a), InSeries(b),
         \A x \in ToSet(a), y \in ToSet(b) : Before(x, y)
  PROVE  InSeries(a \o b)
<1> DEFINE m == Len(a)
           n == Len(b)
           c == a \o b
<1>1. /\ m \in Nat /\ n \in Nat /\ Len(c) = m + n
      /\ \A i \in 1 .. m : c[i] = a[i] /\ a[i] \in ToSet(a)
      /\ \A i \in 1 .. m + n : i \in 1 .. m \/ (i - m \in 1 .. n /\ c[i] = b[i - m])
      /\ \A i \in 1 .. n : b[i] \in ToSet(b)
  BY OutMore
<1>2. ASSUME NEW i \in 1 .. m + n, NEW j \in 1 .. m + n, i < j
      PROVE  Before(c[i], c[j])
  <2>1. CASE j \in 1 .. m
    <3>1. i \in 1 .. m
      BY <1>1, <1>2, <2>1
    <3>. QED
      BY <1>1, <1>2, <2>1, <3>1 DEF InSeries
  <2>2. CASE i \in 1 .. m /\ j \notin 1 .. m
    <3>1. c[i] = a[i] /\ a[i] \in ToSet(a) /\ c[j] = b[j - m] /\ b[j - m] \in ToSet(b)
      BY <1>1, <2>2
    <3>. QED
      BY <3>1
  <2>3. CASE i \notin 1 .. m /\ j \notin 1 .. m
    <3>1. /\ c[i] = b[i - m] /\ c[j] = b[j - m]
          /\ i - m \in 1 .. n /\ j - m \in 1 .. n /\ i - m < j - m
      BY <1>1, <1>2, <2>3
    <3>. QED
      BY <3>1 DEF InSeries
  <2>. QED
    BY <2>1, <2>2, <2>3
<1> HIDE DEF c, m, n
<1>. QED
  BY <1>1, <1>2 DEF InSeries, c

\* Series, one after the other.
AllSeries(P, q) ==
  /\ q \in Seq(Seq(P))
  /\ \A i \in 1 .. Len(q) : InSeries(q[i])
  /\ \A i, j \in 1 .. Len(q) : i < j => \A x \in ToSet(q[i]), y \in ToSet(q[j]) : Before(x, y)

\* Joined, they are a series.
LEMMA FlattenSeries ==
  ASSUME NEW P, NEW q, AllSeries(P, q)
  PROVE  InSeries(FlattenSeq(q))
<1> DEFINE n == Len(q)
           g == CHOOSE h : IsFlat(q, n, h)
           F == FlattenSeq(q)
           G(i) == /\ g[i] \in Seq(P) /\ InSeries(g[i])
                   /\ \A x \in ToSet(g[i]) : \E j \in 1 .. i : x \in ToSet(q[j])
           T == {i \in 1 .. n : ~G(i)}
<1>1. n \in Nat /\ \A i \in 1 .. n : q[i] \in Seq(P)
  BY LenProperties, ElementOfSeq DEF AllSeries
<1>2. IsFlat(q, n, g)
  <2> HIDE DEF n
  <2>. QED
    BY <1>1, FlatExists
<1>3. F = IF n = 0 THEN q ELSE g[n]
  BY DEF FlattenSeq, IsFlat
<1> HIDE DEF g, F
<1>4. \A i \in 1 .. n : g[i] = IF i = 1 THEN q[i] ELSE g[i - 1] \o q[i]
  <2> HIDE DEF n
  <2>. QED
    BY <1>2, Zenon DEF IsFlat
<1>5. T = {}
  <2> SUFFICES ASSUME T # {} PROVE FALSE
    OBVIOUS
  <2>1. PICK i \in T : \A k \in T : i <= k
    <3>1. T \in SUBSET Nat
      OBVIOUS
    <3> HIDE DEF T
    <3>. QED
      BY <3>1, NatMin
  <2>2. i \in 1 .. n /\ ~G(i)
    OBVIOUS
  <2>3. InSeries(q[i]) /\ q[i] \in Seq(P)
    BY <1>1, <2>2 DEF AllSeries
  <2> HIDE DEF n
  <2>4. CASE i = 1
    <3>1. g[i] = q[i]
      BY <1>4, <2>2, <2>4
    <3>2. i \in 1 .. i
      BY <2>4
    <3>. QED
      BY <2>2, <2>3, <3>1, <3>2
  <2>5. CASE i # 1
    <3>1. i - 1 \in 1 .. n /\ i - 1 \notin T /\ i \in Nat
      <4> HIDE DEF T
      <4>. QED
        BY <1>1, <2>1, <2>2, <2>5
    <3>2. G(i - 1)
      BY <3>1
    <3>3. g[i] = g[i - 1] \o q[i]
      BY <1>4, <2>2, <2>5
    <3>4. \A j \in 1 .. i - 1 : j \in 1 .. n /\ j < i
      BY <1>1, <2>2
    <3>5. \A j \in 1 .. i - 1 : \A x \in ToSet(q[j]), y \in ToSet(q[i]) : Before(x, y)
      BY <2>2, <3>4 DEF AllSeries, n
    <3>6. \A x \in ToSet(g[i - 1]), y \in ToSet(q[i]) : Before(x, y)
      BY <3>2, <3>5
    <3>7. InSeries(g[i])
      BY <2>3, <3>2, <3>3, <3>6, JoinSeries
    <3>8. g[i] \in Seq(P) /\ ToSet(g[i]) = ToSet(g[i - 1]) \cup ToSet(q[i])
      BY <2>3, <3>2, <3>3, OutMore, ConcatProperties
    <3>9. i \in 1 .. i /\ \A j \in 1 .. i - 1 : j \in 1 .. i
      BY <1>1, <2>2
    <3>. QED
      BY <2>2, <3>2, <3>7, <3>8, <3>9
  <2>. QED
    BY <2>4, <2>5
<1>6. CASE n = 0
  <2>1. q = <<>>
    BY <1>6, EmptySeq DEF AllSeries
  <2>2. F = <<>> /\ Len(<<>>) = 0
    BY <1>3, <1>6, <2>1
  <2>. QED
    BY <2>2 DEF InSeries, F
<1>7. CASE n # 0
  <2>1. n \in 1 .. n /\ F = g[n]
    BY <1>1, <1>3, <1>7
  <2>2. G(n)
    BY <1>5, <2>1
  <2>. QED
    BY <2>1, <2>2 DEF F
<1>. QED
  BY <1>6, <1>7

\* What has been streamed of a block is here; another of its packets is not.
Streamed(blk) == 0 .. blk.released - 1 \subseteq DOMAIN blk.frags
Lacks(blk)    == \E i \in blk.released .. blk.sdu - 1 : i \notin DOMAIN blk.frags

\* Every block being collected lacks a packet, but for those of T.
Gapped(s, T) ==
  /\ Whole(s)
  /\ \A c \in DOMAIN s.rx_blocks :
       Streamed(s.rx_blocks[c]) /\ (c \in T \/ Lacks(s.rx_blocks[c]))

\* Fewer blocks.
LEMMA GappedLess ==
  ASSUME NEW s, NEW t, NEW T, Gapped(s, T), DOMAIN t.rx_blocks \subseteq DOMAIN s.rx_blocks,
         \A c \in DOMAIN t.rx_blocks : t.rx_blocks[c] = s.rx_blocks[c]
  PROVE  Gapped(t, T)
BY DEF Gapped, Whole

\* A block that lacks a packet is not given up without counting it lost.
LEMMA LackingBroken ==
  ASSUME NEW z, NEW f \in BlockId, NEW s, OnTrack(z, f, s), NEW c \in DOMAIN s.rx_blocks,
         Lacks(s.rx_blocks[c]), NEW V, Missing(s.rx_blocks[c]) \subseteq V,
         NEW x, x[1] = Place(f, c)
  PROVE  Broken(x, V)
<1> DEFINE blk == s.rx_blocks[c]
           src == blk.frags[CHOOSE i \in DOMAIN blk.frags : TRUE]
<1>1. DOMAIN blk.frags # {} /\ \A i \in DOMAIN blk.frags : blk.frags[i] = Place(f, c)
  BY DEF OnTrack, RxOK, InRange, BlockOK, BlockAt
<1>2. src = Place(f, c)
  BY <1>1
<1>3. PICK i \in blk.released .. blk.sdu - 1 : i \notin DOMAIN blk.frags
  BY DEF Lacks
<1>4. <<src, i>> \in Missing(blk)
  BY <1>3 DEF Missing
<1> HIDE DEF blk, src
<1>5. <<src, i>> \in V /\ <<src, i>>[1] = x[1]
  BY <1>2, <1>4 DEF blk
<1>. QED
  BY <1>5 DEF Broken

\* The systematic shards of the block at the head are streamed in turn.
LEMMA StreamLined ==
  ASSUME NEW z, NEW f \in BlockId, NEW a, NEW H, NEW D, D \subseteq Nat \X Nat, NEW W, NEW s, NEW T,
         OnTrack(z, f, s), Once(z, f, a, D, s), s.emit_next \in DOMAIN s.rx_blocks,
         Lined(f, H, D, W, s), Gapped(s, T)
  PROVE  LET t == try_stream_head_systematic(s, s.emit_next)
         IN  Lined(f, H, D, W, t) /\ Gapped(t, T)
<1> DEFINE id   == s.emit_next
           blk  == s.rx_blocks[id]
           R(r) == /\ \A i \in blk.released .. r - 1 : i \in DOMAIN blk.frags
                   /\ r = blk.sdu \/ r \notin DOMAIN blk.frags
           stop == CHOOSE r \in blk.released .. blk.sdu : R(r)
           pkts == [j \in 1 .. stop - blk.released |->
                      <<blk.frags[blk.released + j - 1], blk.released + j - 1>>]
           e    == emit_payloads(s, pkts)
           t    == try_stream_head_systematic(s, id)
           b    == Place(f, id)
<1>1. /\ DOMAIN blk = BlockFields /\ blk.sdu \in Nat /\ blk.released \in 0 .. blk.sdu
      /\ DOMAIN s = Fields /\ id \in BlockId /\ s.out \in Seq(Pkt(z))
  BY DEF InRange, BlockOK, OnTrack, RxOK, QueueOK, Once, FreshOut
<1>2. t = [e EXCEPT !.rx_blocks[id].released = stop]
  BY DEF try_stream_head_systematic
<1>3. stop \in blk.released .. blk.sdu /\ R(stop)
  <2>1. \E r \in blk.released .. blk.sdu : R(r)
    BY <1>1, StopExists
  <2> HIDE DEF R, blk
  <2>. QED
    BY <2>1
<1>4. \A i \in DOMAIN blk.frags : blk.frags[i] = b
  BY DEF OnTrack, BlockAt
<1>5. Unreturned(f, D, s, id, blk.released)
  BY <1>1 DEF Once, OneAt
<1> DEFINE m == stop - blk.released
           r == blk.released
<1>6. /\ m \in Nat /\ r \in Nat /\ r + m = stop
      /\ \A j \in 1 .. m : r + j - 1 \in r .. stop - 1
  <2> HIDE DEF stop, blk
  <2>. QED
    BY <1>1, <1>3
<1>7. b \in Nat /\ Len(z) \in Nat /\ b < Len(z)
  BY TrackHeld DEF OnTrack
<1>8. IsRun(pkts, b, r, m)
  <2>1. pkts = [j \in 1 .. m |-> <<blk.frags[r + j - 1], r + j - 1>>]
    BY DEF m, r
  <2>2. \A j \in 1 .. m : r + j - 1 \in DOMAIN blk.frags
    BY <1>3, <1>6
  <2> HIDE DEF pkts, b, m, r, stop
  <2>3. \A j \in 1 .. m : blk.frags[r + j - 1] = b
    BY <1>4, <2>2
  <2> HIDE DEF blk
  <2>. QED
    BY <2>1, <2>3 DEF IsRun
<1>9. Gapped(t, T) /\ stop \in Nat /\ t.rx_blocks[id].released = stop /\ id \in DOMAIN t.rx_blocks
      /\ t.emit_next = id /\ t.out = e.out /\ t.lost = e.lost
  <2>1. DOMAIN e = Fields /\ e.rx_blocks = s.rx_blocks /\ e.emit_next = s.emit_next
    BY <1>1, EmitStill DEF Still
  <2> HIDE DEF e
  <2>2. t.rx_blocks = [s.rx_blocks EXCEPT ![id].released = stop]
        /\ t.emit_next = id /\ t.out = e.out /\ t.lost = e.lost
    BY <1>2, <2>1 DEF Fields
  <2> DEFINE new == t.rx_blocks[id]
  <2>3. /\ new.released = stop /\ new.frags = blk.frags /\ new.sdu = blk.sdu
        /\ DOMAIN t.rx_blocks = DOMAIN s.rx_blocks
        /\ \A c \in DOMAIN s.rx_blocks : c # id => t.rx_blocks[c] = s.rx_blocks[c]
    <3> DEFINE nb == [blk EXCEPT !.released = stop]
    <3>1. nb.released = stop /\ nb.frags = blk.frags /\ nb.sdu = blk.sdu
      <4> HIDE DEF stop, blk
      <4>. QED
        BY <1>1 DEF BlockFields
    <3>2. t.rx_blocks = [s.rx_blocks EXCEPT ![id] = nb]
      BY <2>2
    <3> HIDE DEF nb, t, blk, stop
    <3>3. new = nb
      BY <3>2
    <3>. QED
      BY <3>1, <3>2, <3>3
  <2> HIDE DEF t, stop, new
  <2>4. stop \in Nat /\ Streamed(new)
    <3>1. 0 .. r - 1 \subseteq DOMAIN blk.frags
      BY DEF Gapped, Streamed
    <3>2. \A i \in 0 .. stop - 1 : i \in 0 .. r - 1 \/ i \in r .. stop - 1
      BY <1>6
    <3>3. \A i \in r .. stop - 1 : i \in DOMAIN blk.frags
      BY <1>3 DEF r
    <3> HIDE DEF blk, r
    <3>4. 0 .. stop - 1 \subseteq DOMAIN new.frags
      BY <2>3, <3>1, <3>2, <3>3
    <3>5. stop \in Nat
      BY <1>6
    <3>. QED
      BY <2>3, <3>4, <3>5 DEF Streamed
  <2>5. Lacks(blk) => Lacks(new)
    <3> SUFFICES ASSUME Lacks(blk) PROVE Lacks(new)
      OBVIOUS
    <3>1. PICK i \in r .. blk.sdu - 1 : i \notin DOMAIN blk.frags
      BY DEF Lacks
    <3>2. i \in stop .. blk.sdu - 1
      <4> HIDE DEF blk
      <4>. QED
        BY <1>1, <1>3, <1>6, <3>1
    <3>. QED
      BY <2>3, <3>1, <3>2 DEF Lacks
  <2>6. Whole(t)
    <3>1. \A c \in DOMAIN s.rx_blocks : t.rx_blocks[c].frags = s.rx_blocks[c].frags
      BY <2>3 DEF new
    <3>. QED
      BY <2>3, <3>1 DEF Whole, Gapped
  <2>7. Gapped(t, T)
    BY <2>3, <2>4, <2>5, <2>6 DEF Gapped, new
  <2>. QED
    BY <2>2, <2>3, <2>4, <2>7 DEF new
<1> HIDE DEF stop, pkts, m, r, t, b
<1>10. /\ pkts \in Seq(Pkt(z)) /\ ToSet(pkts) \subseteq PktRun(b, r, m) /\ InSeries(pkts)
  <2>1. Unreturned(f, D, s, id, r)
    BY <1>5 DEF r
  <2>2. pkts \in Seq(Pkt(z)) /\ ToSet(pkts) \subseteq PktRun(Place(f, id), r, m)
    BY <1>6, <1>7, <1>8, <2>1, RunFresh DEF b
  <2>3. InSeries(pkts)
    BY <1>6, <1>7, <1>8, RunSeries
  <2>. QED
    BY <2>2, <2>3 DEF b
<1>11. e.out = s.out \o pkts /\ e.lost = s.lost
  BY <1>1, <1>10, EmitOut
<1> HIDE DEF e
<1>12. HeadOn(f, s, t)
  <2>1. r <= stop /\ r \in Nat
    BY <1>6
  <2>. QED
    BY <1>9, <2>1, HeadSame DEF r, blk
<1>13. Follows(f, s, t, pkts)
  <2>1. ASSUME NEW y \in ToSet(pkts)
        PROVE  Shown(f, t, y) /\ \A x \in Nat \X Nat : Shown(f, s, x) => Before(x, y)
    <3>1. PICK i \in r .. r + m - 1 : y = <<b, i>>
      BY <1>10 DEF PktRun
    <3>2. y[1] = b /\ y[2] = i /\ i < stop /\ r <= i
      BY <1>6, <3>1
    <3>3. Shown(f, t, y)
      BY <1>9, <3>2 DEF Shown, b
    <3>4. ASSUME NEW x \in Nat \X Nat, Shown(f, s, x)
          PROVE  Before(x, y)
      <4>1. x[1] < b \/ (x[1] = b /\ x[2] < r)
        BY <3>4 DEF Shown, b, r, blk
      <4>2. x[1] < b \/ (x[1] = b /\ x[2] < i)
        BY <1>6, <3>2, <4>1
      <4>. QED
        BY <3>2, <4>2 DEF Before
    <3>. QED
      BY <3>3, <3>4
  <2>. QED
    BY <1>10, <2>1 DEF Follows
<1>14. Lined(f, H, D, W, t)
  <2>1. t.out = s.out \o pkts /\ s.lost \subseteq t.lost
    BY <1>9, <1>11
  <2>. QED
    BY <1>1, <1>10, <1>12, <1>13, <2>1, LinedStep
<1>. QED
  BY <1>9, <1>14 DEF t

\* Where no block is at the head.
LEMMA HeadBare ==
  ASSUME NEW f, NEW s, NEW t, Place(f, s.emit_next) \in Nat, Place(f, t.emit_next) \in Nat,
         s.emit_next \notin DOMAIN s.rx_blocks, Place(f, s.emit_next) <= Place(f, t.emit_next)
  PROVE  HeadOn(f, s, t)
BY DEF HeadOn, Shown

\* The decoded blocks that follow the head are a series.
LEMMA ReadySeries ==
  ASSUME NEW z, NEW f \in BlockId, NEW a, NEW D, NEW s,
         OnTrack(z, f, s), Once(z, f, a, D, s), NEW m \in 0 .. RingMod,
         \A j \in 0 .. m - 1 : wire_block_id(s.emit_next + j) \in DOMAIN s.ready_blocks
  PROVE  LET F == FlattenSeq(ReadyPkts(s, IdsFrom(s.emit_next, m), m))
         IN  /\ F \in Seq(Pkt(z)) /\ InSeries(F)
             /\ \A y \in ToSet(F) : y[1] \in Place(f, s.emit_next) .. Place(f, s.emit_next) + m - 1
<1> DEFINE e == s.emit_next
           p == Place(f, e)
           ids == IdsFrom(e, m)
           q == ReadyPkts(s, ids, m)
           F == FlattenSeq(q)
<1>1. m \in Nat /\ e \in Nat /\ e \in BlockId /\ p \in Nat
  BY TrackPlaces, RingAssumption DEF BlockId
<1>2. Owed(z, f, D, s, m, ids, q)
  BY ReadyOwed
<1>3. \A j \in 1 .. m : /\ ids[j] \in DOMAIN s.ready_blocks /\ ids[j] \in BlockId
                        /\ Place(f, ids[j]) = p + (j - 1)
  <2> TAKE j \in 1 .. m
  <2>1. e + j - 1 = e + (j - 1) /\ j - 1 \in 0 .. m - 1 /\ j - 1 \in 0 .. m
    <3> HIDE DEF e
    <3>. QED
      BY <1>1
  <2>2. ids[j] = wire_block_id(e + (j - 1))
    BY <2>1 DEF IdsFrom
  <2> HIDE DEF ids
  <2>3. Place(f, wire_block_id(e + (j - 1))) = p + (j - 1)
    BY <2>1, HeadPlaces
  <2>4. ids[j] \in DOMAIN s.ready_blocks
    BY <2>1, <2>2
  <2>. QED
    BY <2>2, <2>3, <2>4, TrackHeld
<1>4. ASSUME NEW j \in 1 .. m
      PROVE  InSeries(q[j])
  <2> DEFINE c == ids[j]
             rdy == s.ready_blocks[c]
  <2>1. q[j] = Decoded(rdy)
    BY DEF ReadyPkts
  <2>2. c \in DOMAIN s.ready_blocks /\ c \in BlockId
    BY <1>3
  <2> HIDE DEF c
  <2>3. ReadyAt(f, rdy, c)
    BY <2>2 DEF Once, OneAt
  <2>4. Place(f, c) \in Nat
    BY <2>2, TrackHeld
  <2> HIDE DEF rdy, q
  <2>5. /\ rdy.released \in Nat /\ rdy.sdu - rdy.released \in Nat
        /\ IsRun(q[j], Place(f, c), rdy.released, rdy.sdu - rdy.released)
    BY <2>1, <2>3, DecodedRun
  <2>. QED
    BY <2>4, <2>5, RunSeries
<1> HIDE DEF ids, q
<1>5. q \in Seq(Seq(Pkt(z))) /\ Len(q) = m
  <2>1. \A j \in 1 .. m : q[j] \in Seq(Pkt(z))
    BY <1>2 DEF Owed
  <2>2. q = [j \in 1 .. m |-> q[j]]
    BY <1>2, Zenon DEF Owed
  <2>3. q \in [1 .. m -> Seq(Pkt(z))]
    BY <2>1, <2>2, Zenon
  <2>. QED
    BY <1>1, <2>2, <2>3, ASeq
<1>6. ASSUME NEW i \in 1 .. m, NEW j \in 1 .. m, i < j,
             NEW x \in ToSet(q[i]), NEW y \in ToSet(q[j])
      PROVE  Before(x, y)
  <2>1. x[1] = Place(f, ids[i]) /\ y[1] = Place(f, ids[j])
    <3>1. x \in {Place(f, ids[i])} \X Nat /\ y \in {Place(f, ids[j])} \X Nat
      BY <1>2 DEF Owed
    <3>. QED
      BY <3>1
  <2>2. x[1] = p + (i - 1) /\ y[1] = p + (j - 1)
    BY <1>3, <2>1
  <2>3. x[1] < y[1]
    <3> HIDE DEF p
    <3>. QED
      BY <1>1, <1>6, <2>2
  <2>. QED
    BY <2>3 DEF Before
<1>7. AllSeries(Pkt(z), q)
  BY <1>4, <1>5, <1>6 DEF AllSeries
<1>8. F \in Seq(Pkt(z)) /\ \A y \in ToSet(F) : \E j \in 1 .. m : Place(f, ids[j]) = y[1]
  BY <1>2, OwedJoined
<1>9. InSeries(F)
  BY <1>7, FlattenSeries
<1>10. \A y \in ToSet(F) : y[1] \in p .. p + m - 1
  <2> TAKE y \in ToSet(F)
  <2>1. PICK j \in 1 .. m : y[1] = p + (j - 1)
    BY <1>3, <1>8
  <2> HIDE DEF p
  <2>. QED
    BY <1>1, <2>1
<1>. QED
  BY <1>8, <1>9, <1>10 DEF F, q, ids

\* They come out in turn.
LEMMA EmptiedLined ==
  ASSUME NEW z, NEW f \in BlockId, NEW a, NEW H, NEW D, D \subseteq Nat \X Nat, NEW W, NEW s, NEW T,
         OnTrack(z, f, s), Once(z, f, a, D, s), Lined(f, H, D, W, s), Gapped(s, T)
  PROVE  Lined(f, H, D, W, Emptied(s)) /\ Gapped(Emptied(s), T)
<1> DEFINE h    == s.emit_next
           p    == Place(f, h)
           m    == RunLength(DOMAIN s.ready_blocks, h)
           ids  == IdsFrom(h, m)
           pkts == FlattenSeq(ReadyPkts(s, ids, m))
           e    == emit_payloads(s, pkts)
           u    == PassHead(e, m)
           gone == IdSet(ids, m)
           t    == Emptied(s)
<1>1. /\ m \in 0 .. RingMod /\ DOMAIN s = Fields /\ h \in BlockId
      /\ \A j \in 0 .. m - 1 : wire_block_id(h + j) \in DOMAIN s.ready_blocks
      /\ DOMAIN s.rx_blocks \cap DOMAIN s.ready_blocks = {} /\ s.out \in Seq(Pkt(z))
  BY RunLengthOK DEF RxOK, QueueOK, OnTrack, Once, FreshOut
<1>1a. \A j \in 0 .. m - 1 : wire_block_id(h + j) \in DOMAIN s.rx_blocks \cup DOMAIN s.ready_blocks
  BY <1>1
<1>2. t = [u EXCEPT !.ready_blocks = Without(@, gone)]
  BY DEF Emptied
<1> HIDE DEF m, t
<1>3. pkts \in Seq(Pkt(z)) /\ InSeries(pkts) /\ \A y \in ToSet(pkts) : y[1] \in p .. p + m - 1
  BY <1>1, ReadySeries
<1> HIDE DEF pkts
<1>4. e.out = s.out \o pkts /\ e.lost = s.lost
  BY <1>1, <1>3, EmitOut
<1>5. DOMAIN e = Fields /\ e.rx_blocks = s.rx_blocks /\ e.emit_next = h
  BY <1>1, EmitStill DEF Still
<1> HIDE DEF e
<1>6. /\ DOMAIN u = Fields /\ u.rx_blocks = s.rx_blocks /\ u.out = e.out /\ u.lost = e.lost
      /\ u.emit_next = wire_block_id(h + m)
  BY <1>5, PassHeadOnward, PassHeadRest DEF Onward
<1> HIDE DEF u
<1>7. /\ t.rx_blocks = s.rx_blocks /\ t.out = s.out \o pkts /\ t.lost = s.lost
      /\ t.emit_next = wire_block_id(h + m)
  BY <1>2, <1>4, <1>6 DEF Fields
<1>8. Place(f, t.emit_next) = p + m /\ p \in Nat /\ m \in Nat /\ t.emit_next \in BlockId
  <2>1. /\ \A j \in 0 .. m : /\ wire_block_id(s.emit_next + j) \in BlockId
                             /\ Place(f, wire_block_id(s.emit_next + j)) =
                                  Place(f, s.emit_next) + j
        /\ m # 0 => Place(f, s.emit_next) + m <= Place(f, s.newest) + 1
        /\ \A j \in 0 .. m - 1 : Place(f, wire_block_id(s.emit_next + j)) < RingMod \div 2
    <3>. HIDE DEF h, p
    <3>1. /\ m \in 0 .. RingMod
          /\ \A j \in 0 .. m - 1 :
               wire_block_id(s.emit_next + j) \in DOMAIN s.rx_blocks \cup DOMAIN s.ready_blocks
      BY <1>1, <1>1a DEF h
    <3>. QED
      BY <3>1, HeadPlaces
  <2>2. m \in 0 .. m
    BY <1>1
  <2>. QED
    BY <1>1, <1>7, <2>1, <2>2, TrackPlaces
<1>9. ASSUME m # 0 PROVE h \notin DOMAIN s.rx_blocks
  <2>1. 0 \in 0 .. m - 1
    BY <1>8, <1>9
  <2>2. wire_block_id(h + 0) = h
    <3>1. h \in Nat /\ h + 0 = h /\ wire_block_id(h) = h
      BY <1>1, RingAssumption DEF BlockId, wire_block_id
    <3>. QED
      BY <3>1
  <2>. QED
    BY <1>1, <2>1, <2>2
<1>10. HeadOn(f, s, t)
  <2>1. CASE m = 0
    <3>1. p + m = p
      <4> HIDE DEF p
      <4>. QED
        BY <1>8, <2>1
    <3>2. t.emit_next = h
      BY <1>1, <1>8, <3>1, PlaceSame
    <3>3. h \in DOMAIN s.rx_blocks => s.rx_blocks[h].released \in Nat
      BY DEF OnTrack, RxOK, InRange, BlockOK
    <3>. QED
      BY <1>7, <3>2, <3>3, HeadSame
  <2>2. CASE m # 0
    <3>1. p <= p + m /\ p + m \in Nat
      <4> HIDE DEF p
      <4>. QED
        BY <1>8
    <3>. QED
      BY <1>8, <1>9, <2>2, <3>1, HeadBare
  <2>. QED
    BY <2>1, <2>2
<1>11. Follows(f, s, t, pkts)
  <2>1. ASSUME NEW y \in ToSet(pkts)
        PROVE  Shown(f, t, y) /\ \A x \in Nat \X Nat : Shown(f, s, x) => Before(x, y)
    <3>1. y[1] \in p .. p + m - 1
      BY <1>3
    <3>2. y[1] < p + m /\ p <= y[1] /\ m # 0
      <4> HIDE DEF p
      <4>. QED
        BY <1>8, <3>1
    <3>3. Shown(f, t, y)
      BY <1>8, <3>2 DEF Shown
    <3>4. ASSUME NEW x \in Nat \X Nat, Shown(f, s, x)
          PROVE  Before(x, y)
      <4>1. x[1] < p
        BY <1>9, <3>2, <3>4 DEF Shown
      <4>2. x[1] < y[1]
        <5>1. x[1] \in Nat
          OBVIOUS
        <5> HIDE DEF p
        <5>. QED
          BY <1>8, <3>1, <4>1, <5>1
      <4>. QED
        BY <4>2 DEF Before
    <3>. QED
      BY <3>3, <3>4
  <2>. QED
    BY <1>3, <2>1 DEF Follows
<1>12. Lined(f, H, D, W, t)
  <2>1. s.lost \subseteq t.lost
    BY <1>7
  <2>. QED
    BY <1>1, <1>3, <1>7, <1>10, <1>11, <2>1, LinedStep
<1>13. Gapped(t, T)
  BY <1>7, GappedLess
<1>. QED
  BY <1>12, <1>13 DEF t

\* Draining the queue keeps the order.
LEMMA DrainLined ==
  ASSUME RingMod \div 2 <= DoneMax, NEW z, NEW f \in BlockId, NEW a, Airborne(z, a),
         NEW H, NEW D, D \subseteq Nat \X Nat, NEW W, NEW s, NEW T,
         OnTrack(z, f, s), Once(z, f, a, D, s), Lined(f, H, D, W, s), Gapped(s, T)
  PROVE  Lined(f, H, D, W, DrainHead(s)) /\ Gapped(DrainHead(s), T)
<1> DEFINE t == Emptied(s)
<1>1. OnTrack(z, f, t) /\ Once(z, f, a, D, t) /\ Lined(f, H, D, W, t) /\ Gapped(t, T)
  BY EmptiedOnce, EmptiedLined
<1>2. DrainHead(s) = IF t.emit_next \in DOMAIN t.rx_blocks
                     THEN try_stream_head_systematic(t, t.emit_next) ELSE t
  BY DrainIs
<1> HIDE DEF t
<1>3. CASE t.emit_next \in DOMAIN t.rx_blocks
  <2> DEFINE x == try_stream_head_systematic(t, t.emit_next)
  <2>1. Lined(f, H, D, W, x) /\ Gapped(x, T)
    BY <1>1, <1>3, StreamLined
  <2> HIDE DEF x
  <2>2. DrainHead(s) = x
    BY <1>2, <1>3 DEF x
  <2>. QED
    BY <2>1, <2>2
<1>4. CASE t.emit_next \notin DOMAIN t.rx_blocks
  BY <1>1, <1>2, <1>4
<1>. QED
  BY <1>3, <1>4

\* The place after the head.
LEMMA HeadNext ==
  ASSUME NEW z, NEW f \in BlockId, NEW s, OnTrack(z, f, s)
  PROVE  /\ wire_block_id(s.emit_next + 1) \in BlockId
         /\ Place(f, wire_block_id(s.emit_next + 1)) = Place(f, s.emit_next) + 1
         /\ Place(f, s.emit_next) \in Nat
<1> DEFINE p == Place(f, s.emit_next)
           H == RingMod \div 2
           n == Place(f, s.newest)
<1>1. p <= H /\ n + 2 <= H /\ H \in Nat /\ 2 * H = RingMod /\ n \in Nat /\ p \in Nat
      /\ s.emit_next \in BlockId
  BY TrackPlaces
<1>2. p + 1 < RingMod
  <2> HIDE DEF H, p, n
  <2>. QED
    BY <1>1
<1>. QED
  BY <1>1, <1>2, PlaceNext

\* The block at the head is given up: what it returns is broken.
LEMMA AbandonHeadLined ==
  ASSUME NEW z, NEW f \in BlockId, NEW a, NEW H, NEW D, D \subseteq Nat \X Nat, NEW W, NEW s,
         OnTrack(z, f, s), Once(z, f, a, D, s), s.emit_next \in DOMAIN s.rx_blocks,
         Lined(f, H, D, W, s), Gapped(s, {})
  PROVE  LET t == abandon_partial_block([s EXCEPT !.rx_blocks = Without(@, {s.emit_next})],
                                        s.rx_blocks[s.emit_next], s.emit_next)
         IN  Lined(f, H, D, W, t) /\ Gapped(t, {})
<1> DEFINE h == s.emit_next
           M == Missing(s.rx_blocks[h])
           u == [s EXCEPT !.rx_blocks = Without(@, {h})]
           q == Systematic(s.rx_blocks[h], s.rx_blocks[h].released)
           e == emit_payloads(u, q)
           x == [e EXCEPT !.lost = @ \cup M]
           g == PassHead(x, 1)
           t == [g EXCEPT !.later_block_since = Never]
<1>1. DOMAIN s = Fields /\ DOMAIN u = Fields /\ u.emit_next = h /\ h \in BlockId
      /\ s.out \in Seq(Pkt(z)) /\ u.out = s.out /\ u.lost = s.lost
      /\ u.rx_blocks = Without(s.rx_blocks, {h})
  BY DEF OnTrack, RxOK, QueueOK, Fields, Once, FreshOut
<1>2. abandon_partial_block(u, s.rx_blocks[h], h) = t
  BY <1>1 DEF abandon_partial_block
<1>3. q \in Seq(Pkt(z)) /\ ToSet(q) \subseteq {Place(f, h)} \X Nat
  BY CollectedFresh
<1>4. Lacks(s.rx_blocks[h])
  BY DEF Gapped
<1> HIDE DEF q, u
<1>5. e.out = s.out \o q /\ e.lost = s.lost
  BY <1>1, <1>3, EmitOut
<1>6. DOMAIN e = Fields /\ e.rx_blocks = u.rx_blocks /\ e.emit_next = h
  BY <1>1, EmitStill DEF Still
<1> HIDE DEF e
<1>7. /\ DOMAIN x = Fields /\ x.lost = s.lost \cup M /\ x.out = s.out \o q
      /\ x.rx_blocks = u.rx_blocks /\ x.emit_next = h
  BY <1>5, <1>6 DEF Fields
<1> HIDE DEF x
<1>8. /\ DOMAIN g = Fields /\ g.rx_blocks = x.rx_blocks /\ g.out = x.out /\ g.lost = x.lost
      /\ g.emit_next = wire_block_id(h + 1)
  BY <1>7, PassHeadOnward, PassHeadRest DEF Onward
<1> HIDE DEF g
<1>9. /\ t.lost = s.lost \cup M /\ t.out = s.out \o q
      /\ t.rx_blocks = Without(s.rx_blocks, {h}) /\ t.emit_next = wire_block_id(h + 1)
  BY <1>1, <1>7, <1>8 DEF Fields
<1> HIDE DEF t, M
<1>10. AllBroken(t, q)
  <2> SUFFICES ASSUME NEW y \in ToSet(q) PROVE Broken(y, t.lost)
    BY DEF AllBroken
  <2>1. y[1] = Place(f, h) /\ Missing(s.rx_blocks[h]) \subseteq t.lost
    BY <1>3, <1>9 DEF M
  <2>. QED
    BY <1>4, <2>1, LackingBroken
<1>11. HeadOn(f, s, t)
  <2> DEFINE p == Place(f, h)
  <2>1. Place(f, t.emit_next) = p + 1 /\ p \in Nat
    BY <1>9, HeadNext
  <2>2. p < p + 1 /\ p + 1 \in Nat
    <3> HIDE DEF p
    <3>. QED
      BY <2>1
  <2>. QED
    BY <2>1, <2>2, HeadFurther
<1>12. Lined(f, H, D, W, t)
  <2>1. s.lost \subseteq t.lost
    BY <1>9
  <2>. QED
    BY <1>1, <1>3, <1>9, <1>10, <1>11, <2>1, LinedStep
<1>13. Gapped(t, {})
  <2>1. DOMAIN t.rx_blocks \subseteq DOMAIN s.rx_blocks
        /\ \A c \in DOMAIN t.rx_blocks : t.rx_blocks[c] = s.rx_blocks[c]
    BY <1>9 DEF Without
  <2>. QED
    BY <2>1, GappedLess
<1>. QED
  BY <1>2, <1>12, <1>13 DEF u

\* Giving up the head keeps the order.
LEMMA GiveUpLined ==
  ASSUME NEW z, NEW f \in BlockId, NEW a, NEW H, NEW D, D \subseteq Nat \X Nat, NEW W, NEW s,
         OnTrack(z, f, s), Once(z, f, a, D, s), Lined(f, H, D, W, s), Gapped(s, {})
  PROVE  Lined(f, H, D, W, maybe_give_up_head(s)) /\ Gapped(maybe_give_up_head(s), {})
<1> DEFINE t == maybe_give_up_head(s)
           e == s.emit_next
           p == Place(f, e)
           A == abandon_partial_block([s EXCEPT !.rx_blocks = Without(@, {e})],
                                      s.rx_blocks[e], e)
           g == IF ReadyAheadOf(s) # {} THEN NearestReady(s) ELSE wire_block_id(e + 1)
           v == [s EXCEPT !.emit_next = g, !.later_block_since = Never]
<1>1. DOMAIN s = Fields /\ QueueOK(s) /\ e \in BlockId /\ s.out \in Seq(Pkt(z))
  BY DEF OnTrack, RxOK, QueueOK, Once, FreshOut
<1>2. t = IF e \in DOMAIN s.rx_blocks
          THEN IF \/ Cardinality(DOMAIN s.rx_blocks[e].frags) >= s.rx_blocks[e].n
                  \/ HoldOver(s)
               THEN A ELSE s
          ELSE IF e \notin DOMAIN s.ready_blocks /\ HoldOver(s) THEN v ELSE s
  BY DEF maybe_give_up_head
<1> HIDE DEF t
<1>3. ASSUME e \in DOMAIN s.rx_blocks PROVE Lined(f, H, D, W, A) /\ Gapped(A, {})
  BY <1>3, AbandonHeadLined
<1>4. ASSUME e \notin DOMAIN s.rx_blocks PROVE Lined(f, H, D, W, v) /\ Gapped(v, {})
  <2>1. g \in BlockId /\ p \in Nat /\ Place(f, g) \in Nat /\ p <= Place(f, g)
    <3>1. CASE ReadyAheadOf(s) # {}
      <4>1. g \in DOMAIN s.ready_blocks
        BY <1>1, <3>1, NearestReadyOK DEF ReadyAheadOf
      <4>. QED
        BY <4>1, TrackHeld, TrackPlaces
    <3>2. CASE ReadyAheadOf(s) = {}
      <4>1. g \in BlockId /\ Place(f, g) = p + 1 /\ p \in Nat
        BY <3>2, HeadNext
      <4> HIDE DEF g, p
      <4>. QED
        BY <4>1
    <3>. QED
      BY <3>1, <3>2
  <2> HIDE DEF g
  <2>2. v.emit_next = g /\ v.rx_blocks = s.rx_blocks /\ v.out = s.out /\ v.lost = s.lost
    BY <1>1 DEF Fields
  <2> HIDE DEF v
  <2>3. HeadOn(f, s, v)
    BY <1>4, <2>1, <2>2, HeadBare
  <2>4. s.lost \subseteq v.lost
    BY <2>2
  <2>. QED
    BY <1>1, <2>2, <2>3, <2>4, LinedQuiet, GappedLess
<1> HIDE DEF A, v
<1>. QED
  BY <1>2, <1>3, <1>4 DEF t

\* The emit engine.
LEMMA EngineLined ==
  ASSUME RingMod \div 2 <= DoneMax, NEW z, NEW f \in BlockId, NEW a, Airborne(z, a),
         NEW H, NEW D, D \subseteq Nat \X Nat, NEW W, NEW s,
         OnTrack(z, f, s), Once(z, f, a, D, s), Lined(f, H, D, W, s), Gapped(s, {})
  PROVE  Lined(f, H, D, W, run_emit_engine(s)) /\ Gapped(run_emit_engine(s), {})
<1> DEFINE d == DrainHead(s)
           g == maybe_give_up_head(d)
           t == DrainHead(g)
<1>1. run_emit_engine(s) = t
  BY DEF run_emit_engine, OnTrack
<1>2. OnTrack(z, f, d) /\ d.emit_next \notin DOMAIN d.ready_blocks /\ Once(z, f, a, D, d)
      /\ Lined(f, H, D, W, d) /\ Gapped(d, {})
  BY DrainTrack, DrainOnce, DrainLined
<1> HIDE DEF d
<1>3. OnTrack(z, f, g) /\ Once(z, f, a, D, g) /\ Lined(f, H, D, W, g) /\ Gapped(g, {})
  BY <1>2, GiveUpTrack, GiveUpOnce, GiveUpLined
<1> HIDE DEF g
<1>4. Lined(f, H, D, W, t) /\ Gapped(t, {})
  BY <1>3, DrainLined
<1>. QED
  BY <1>1, <1>4

\* Several blocks are given up: what they return is broken.
LEMMA AbandonAllLined ==
  ASSUME NEW z, NEW f \in BlockId, NEW a, NEW H, NEW D, D \subseteq Nat \X Nat, NEW W, NEW s,
         OnTrack(z, f, s), Once(z, f, a, D, s), Lined(f, H, D, W, s), Gapped(s, {}),
         NEW S, S \subseteq DOMAIN s.rx_blocks, NEW t \in AbandonAll(s, S)
  PROVE  Lined(f, H, D, W, t) /\ Gapped(t, {})
<1>1. PICK o \in SetToSeqs(S), m \in 0 .. RingMod :
        /\ HeadRun(o, s.emit_next, m)
        /\ t = IF m = 0 THEN GivenUp(s, S, o)
               ELSE [PassHead(GivenUp(s, S, o), m) EXCEPT !.later_block_since = Never]
  BY AbandonWalk
<1> DEFINE q == [j \in 1 .. Len(o) |->
                   LET blk == s.rx_blocks[o[j]] IN Systematic(blk, blk.released)]
           F == FlattenSeq(q)
           e == emit_payloads(s, F)
           x == GivenUp(s, S, o)
           M == UNION {Missing(s.rx_blocks[c]) : c \in S}
           n == Len(o)
           h == s.emit_next
           p == Place(f, h)
<1>2. /\ DOMAIN s = Fields /\ S \subseteq BlockId /\ h \in BlockId /\ s.out \in Seq(Pkt(z))
  BY DEF OnTrack, RxOK, QueueOK, Once, FreshOut
<1>3. Owed(z, f, D, s, n, o, q)
  BY AbandonOwed
<1>4. ToSet(o) = S /\ \A j \in 1 .. n : o[j] \in S
  <2> DEFINE k == Cardinality(S)
  <2>1. /\ o \in [1 .. k -> S] /\ \A i, j \in 1 .. k : i # j => o[i] # o[j]
        /\ ToSet(o) \subseteq S
    BY DEF SetToSeqs, ToSet
  <2>2. IsFiniteSet(S) /\ k \in Nat
    <3>1. S \subseteq 0 .. RingMod - 1 /\ RingMod \in Nat
      BY <1>2, RingAssumption DEF BlockId
    <3>2. IsFiniteSet(0 .. RingMod - 1)
      BY <3>1, FS_Interval
    <3>. QED
      BY <3>1, <3>2, FS_Subset, FS_CardinalityType
  <2>3. n = k /\ DOMAIN o = 1 .. k
    <3> HIDE DEF k
    <3>. QED
      BY <2>1, <2>2, ASeq
  <2>4. Cardinality(ToSet(o)) = n
    <3>1. o \in Seq(S) /\ IsInjective(o)
      <4> HIDE DEF k
      <4>. QED
        BY <2>1, <2>2, <2>3, ASeq DEF IsInjective
    <3>. QED
      BY <3>1, OutCounted
  <2>5. ToSet(o) = S
    BY <2>1, <2>2, <2>3, <2>4, FS_Subset
  <2>. QED
    BY <2>1, <2>3, <2>5
<1> HIDE DEF q
<1>5. F \in Seq(Pkt(z)) /\ \A y \in ToSet(F) : \E j \in 1 .. n : Place(f, o[j]) = y[1]
  BY <1>3, OwedJoined
<1>6. x = [e EXCEPT !.rx_blocks = Without(@, S), !.lost = @ \cup M]
  BY DEF GivenUp, q
<1> HIDE DEF F
<1>7. e.out = s.out \o F /\ e.lost = s.lost
  BY <1>2, <1>5, EmitOut
<1>8. DOMAIN e = Fields /\ e.rx_blocks = s.rx_blocks /\ e.emit_next = h
  BY <1>2, EmitStill DEF Still
<1> HIDE DEF e
<1>9. /\ DOMAIN x = Fields /\ x.out = s.out \o F /\ x.lost = s.lost \cup M
      /\ x.rx_blocks = Without(s.rx_blocks, S) /\ x.emit_next = h
  BY <1>6, <1>7, <1>8 DEF Fields
<1> HIDE DEF M
<1>10. /\ t.out = s.out \o F /\ t.lost = s.lost \cup M /\ t.rx_blocks = Without(s.rx_blocks, S)
       /\ t.emit_next = IF m = 0 THEN h ELSE wire_block_id(h + m)
  <2> HIDE DEF x
  <2> DEFINE g == PassHead(x, m)
  <2>1. /\ DOMAIN g = Fields /\ g.rx_blocks = x.rx_blocks /\ g.emit_next = wire_block_id(h + m)
        /\ g.out = x.out /\ g.lost = x.lost
    BY <1>9, PassHeadOnward, PassHeadRest DEF Onward
  <2>2. t = IF m = 0 THEN x ELSE [g EXCEPT !.later_block_since = Never]
    BY <1>1 DEF x
  <2> HIDE DEF g
  <2>. QED
    BY <1>9, <2>1, <2>2 DEF Fields
<1> HIDE DEF x
<1>11. HeadOn(f, s, t)
  <2>1. CASE m = 0
    <3>1. h \notin S
      <4>1. 0 \in 0 .. RingMod /\ m # RingMod
        BY <2>1, RingAssumption
      <4>2. wire_block_id(h + 0) = h
        BY <1>2, WireHere
      <4>3. wire_block_id(h + 0) \notin ToSet(o)
        BY <1>1, <2>1, <4>1 DEF HeadRun
      <4>. QED
        BY <1>4, <4>2, <4>3
    <3>2. h \in DOMAIN s.rx_blocks => /\ h \in DOMAIN t.rx_blocks
                                      /\ t.rx_blocks[h] = s.rx_blocks[h]
                                      /\ s.rx_blocks[h].released \in Nat
      BY <1>10, <3>1 DEF Without, OnTrack, RxOK, InRange, BlockOK
    <3>3. t.emit_next = h
      BY <1>10, <2>1
    <3> HIDE DEF h
    <3>4. h \in DOMAIN s.rx_blocks => /\ s.rx_blocks[h].released \in Nat
                                      /\ t.rx_blocks[h].released \in Nat
                                      /\ s.rx_blocks[h].released <= t.rx_blocks[h].released
      BY <3>2
    <3>. QED
      BY <3>2, <3>3, <3>4, HeadSame DEF h
  <2>2. CASE m # 0
    <3>1. \A j \in 0 .. m - 1 : wire_block_id(h + j) \in S
      BY <1>1, <1>4 DEF HeadRun
    <3>2. \A j \in 0 .. m - 1 :
            wire_block_id(s.emit_next + j) \in DOMAIN s.rx_blocks \cup DOMAIN s.ready_blocks
      BY <3>1
    <3>3. /\ \A j \in 0 .. m : /\ wire_block_id(s.emit_next + j) \in BlockId
                               /\ Place(f, wire_block_id(s.emit_next + j)) =
                                    Place(f, s.emit_next) + j
          /\ m # 0 => Place(f, s.emit_next) + m <= Place(f, s.newest) + 1
          /\ \A j \in 0 .. m - 1 : Place(f, wire_block_id(s.emit_next + j)) < RingMod \div 2
      <4> HIDE DEF h, p
      <4>. QED
        BY <1>1, <3>2, HeadPlaces
    <3>4. m \in 0 .. m /\ m \in Nat
      OBVIOUS
    <3>5. Place(f, t.emit_next) = p + m /\ p \in Nat
      BY <1>10, <2>2, <3>3, <3>4, TrackPlaces
    <3>6. p < p + m /\ p + m \in Nat
      <4> HIDE DEF p
      <4>. QED
        BY <2>2, <3>4, <3>5
    <3>. QED
      BY <3>5, <3>6, HeadFurther
  <2>. QED
    BY <2>1, <2>2
<1>12. AllBroken(t, F)
  <2> SUFFICES ASSUME NEW y \in ToSet(F) PROVE Broken(y, t.lost)
    BY DEF AllBroken
  <2>1. PICK j \in 1 .. n : Place(f, o[j]) = y[1]
    BY <1>5
  <2> DEFINE c == o[j]
  <2>2. c \in S /\ y[1] = Place(f, c)
    BY <1>4, <2>1
  <2> HIDE DEF c
  <2>3. c \in DOMAIN s.rx_blocks /\ Missing(s.rx_blocks[c]) \subseteq t.lost
    BY <1>10, <2>2 DEF M
  <2>4. Lacks(s.rx_blocks[c])
    BY <2>3 DEF Gapped
  <2>. QED
    BY <2>2, <2>3, <2>4, LackingBroken
<1>13. Lined(f, H, D, W, t)
  <2>1. s.lost \subseteq t.lost
    BY <1>10
  <2>. QED
    BY <1>2, <1>5, <1>10, <1>11, <1>12, <2>1, LinedStep
<1>14. Gapped(t, {})
  <2>1. DOMAIN t.rx_blocks \subseteq DOMAIN s.rx_blocks
        /\ \A c \in DOMAIN t.rx_blocks : t.rx_blocks[c] = s.rx_blocks[c]
    BY <1>10 DEF Without
  <2>. QED
    BY <2>1, GappedLess
<1>. QED
  BY <1>13, <1>14

\* The end of every call keeps the order.
LEMMA EndLined ==
  ASSUME RingMod \div 2 <= DoneMax, MaxDelay < RxHold,
         NEW z, NEW f \in BlockId, NEW a, Airborne(z, a),
         NEW H, NEW D, D \subseteq Nat \X Nat, NEW W, NEW s,
         OnTrack(z, f, s), Once(z, f, a, D, s), Lined(f, H, D, W, s), Gapped(s, {}),
         NEW t \in ExpireThenEmit(s)
  PROVE  Lined(f, H, D, W, t) /\ Gapped(t, {})
<1> DEFINE d == expire_done(s)
           S == Expired(d)
<1>1. PICK u \in AbandonAll(d, S) : t = run_emit_engine(u)
  BY DEF ExpireThenEmit, expire_rx, Expired
<1>2. /\ OnTrack(z, f, d) /\ Once(z, f, a, D, d) /\ SameTrack(s, d)
      /\ d.out = s.out /\ d.lost = s.lost
      /\ S \subseteq DOMAIN d.rx_blocks /\ \A c \in S : Place(f, c) \notin DOMAIN a
  BY ExpiryOnce
<1> HIDE DEF d, S
<1>3. Lined(f, H, D, W, d) /\ Gapped(d, {})
  BY <1>2 DEF SameTrack, Lined, Shown, InTurn, Gapped, Whole
<1>4. OnTrack(z, f, u) /\ Once(z, f, a, D, u) /\ Lined(f, H, D, W, u) /\ Gapped(u, {})
  BY <1>2, <1>3, AbandonAllTrack, AbandonAllOnce, AbandonAllLined
<1>. QED
  BY <1>1, <1>4, EngineLined

\* The blocks on the air are the newest ones, and the newer the younger.
Younger(z, a) == \A b \in DOMAIN a : \A c \in b .. Len(z) - 1 : c \in DOMAIN a /\ a[c] <= a[b]

\* Where nothing of the blocks on the air is out, all that is out is of blocks before each of them.
LEMMA NoneBefore ==
  ASSUME NEW z, NEW f \in BlockId, NEW a, Airborne(z, a), Younger(z, a),
         Len(z) \in Nat, Len(z) < RingMod \div 2, NEW D, D \subseteq Pkt(z), NEW s,
         NoneOut(f, a, D, s), NEW id \in BlockId, Place(f, id) \in DOMAIN a,
         NEW p \in D
  PROVE  p[1] < Place(f, id)
<1> SUFFICES ASSUME ~(p[1] < Place(f, id)) PROVE FALSE
  OBVIOUS
<1> DEFINE b == p[1]
           c == wire_block_id(f + b)
<1>1. b \in 0 .. Len(z) - 1 /\ p[2] \in Nat /\ p = <<b, p[2]>>
  BY DEF Pkt
<1> HIDE DEF b
<1>2. Place(f, id) \in Nat /\ b \in Place(f, id) .. Len(z) - 1
  <2>1. Place(f, id) \in 0 .. RingMod - 1
    BY PlaceValue
  <2>. QED
    BY <1>1, <2>1 DEF b
<1>3. b \in DOMAIN a
  BY <1>2 DEF Younger
<1>4. c \in BlockId /\ Place(f, c) = b
  <2>1. b \in Nat /\ Place(f, f) = 0 /\ Place(f, f) + b < RingMod
    <3>1. Place(f, f) = 0
      BY PlaceValue, RingAssumption DEF BlockId
    <3>. QED
      BY <1>1, <3>1, HalfRing, RingAssumption
  <2>. QED
    BY <2>1, PlaceNext
<1> HIDE DEF c
<1>5. Partly(f, D, s, c)
  BY <1>1, <1>4 DEF Partly, Returned
<1>. QED
  BY <1>3, <1>4, <1>5 DEF NoneOut

\* The head of t is id, and nothing of the blocks on the air is out; or it is that of s.
Heads(f, a, D, id, s, t) ==
  /\ t.out = s.out
  /\ \/ t.emit_next = id /\ NoneOut(f, a, D, s)
     \/ s.emit_base_set /\ t.emit_next = s.emit_next /\ t.rx_blocks = s.rx_blocks

\* The same over two steps.
LEMMA HeadsTrans ==
  ASSUME NEW f, NEW a, NEW D, NEW id, NEW s, NEW t, NEW u,
         Heads(f, a, D, id, s, t), Heads(f, a, D, id, t, u)
  PROVE  Heads(f, a, D, id, s, u)
<1>1. NoneOut(f, a, D, t) => NoneOut(f, a, D, s)
  BY DEF Heads, NoneOut, Partly, Returned
<1>. QED
  BY <1>1 DEF Heads

\* The first shard sets the head.
LEMMA BaseHeads ==
  ASSUME NEW z, NEW f \in BlockId, NEW a, NEW D, NEW s, RxOK(s), Once(z, f, a, D, s),
         NEW id \in BlockId
  PROVE  Heads(f, a, D, id, s, note_emit_base(s, id))
<1> DEFINE t == note_emit_base(s, id)
<1>1. CASE s.emit_base_set
  BY <1>1 DEF note_emit_base, Heads
<1>2. CASE ~s.emit_base_set
  <2>1. t.out = s.out /\ t.emit_next = id
    BY <1>2 DEF note_emit_base, RxOK, QueueOK, Fields
  <2> HIDE DEF t
  <2>2. s.done = <<>> /\ DOMAIN s.rx_blocks = {} /\ DOMAIN s.ready_blocks = {}
    BY <1>2 DEF Once, RxOK, QueueOK
  <2>. QED
    BY <2>1, <2>2, IdleNone DEF Heads, t
<1>. QED
  BY <1>1, <1>2

\* After a silence the head moves, but then nothing of the blocks on the air is out.
LEMMA RebaseHeads ==
  ASSUME MaxDelay < RxHold, NEW z, NEW f \in BlockId, NEW a, Airborne(z, a), NEW D, NEW s,
         OnTrack(z, f, s), Once(z, f, a, D, s), NEW id \in BlockId
  PROVE  Heads(f, a, D, id, s, maybe_rebase_after_silence(s, id))
<1> DEFINE t == maybe_rebase_after_silence(s, id)
           u == [s EXCEPT !.last_shard_rx = 0]
           v == [u EXCEPT !.rx_blocks = EmptyMap, !.ready_blocks = EmptyMap,
                     !.done = <<>>, !.emit_next = id, !.newest = id,
                     !.later_block_since = Never]
<1>1. t = u \/ (t = v /\ s.last_shard_rx >= RxHold)
  BY DEF maybe_rebase_after_silence
<1>2. DOMAIN s = Fields /\ s.emit_base_set
  BY DEF OnTrack, RxOK, QueueOK
<1>3. /\ DOMAIN u = Fields /\ u.rx_blocks = s.rx_blocks /\ u.out = s.out
      /\ u.emit_next = s.emit_next
  BY <1>2 DEF Fields
<1> HIDE DEF t, u
<1>4. CASE t = u
  BY <1>2, <1>3, <1>4 DEF Heads, t
<1>5. CASE t = v /\ s.last_shard_rx >= RxHold
  <2>1. t.out = s.out /\ t.emit_next = id
    BY <1>3, <1>5 DEF Fields
  <2>2. NoneOut(f, a, D, s)
    <3> SUFFICES ASSUME NEW c \in BlockId, Place(f, c) \in DOMAIN a, Partly(f, D, s, c)
                 PROVE  FALSE
      BY DEF NoneOut
    <3>1. Recent(s.last_shard_rx, a[Place(f, c)]) /\ a[Place(f, c)] \in 0 .. MaxDelay
      BY DEF Once, OneAt, Airborne
    <3>2. MaxDelay \in Nat /\ RxHold \in Nat
      BY LinkAssumption, RxAssumption
    <3>. QED
      BY <1>5, <3>1, <3>2 DEF Recent
  <2>. QED
    BY <2>1, <2>2 DEF Heads, t
<1>. QED
  BY <1>1, <1>4, <1>5

\* The newest id moves no head.
LEMMA TouchHeads ==
  ASSUME NEW z, NEW f, NEW a, NEW D, NEW s, OnTrack(z, f, s), NEW id
  PROVE  Heads(f, a, D, id, s, touch_newest(s, id))
<1>1. DOMAIN s = Fields /\ s.emit_base_set
  BY DEF OnTrack, RxOK, QueueOK
<1>. QED
  BY <1>1 DEF touch_newest, Heads, Fields

\* A resync moves it back, but then nothing of the blocks on the air is out.
LEMMA ResyncHeads ==
  ASSUME MaxDelay < RxHold, NEW z, NEW f \in BlockId, NEW a, Airborne(z, a), NEW D, NEW s,
         OnTrack(z, f, s), Once(z, f, a, D, s), NEW id \in BlockId
  PROVE  Heads(f, a, D, id, s, maybe_resync_on_late_shard(s, id))
<1> DEFINE t == maybe_resync_on_late_shard(s, id)
           B(S) == {b \in S : ring_dist(b, id) < 0}
           u == clear_state_behind(s, id)
           v == [u EXCEPT !.emit_next = id, !.later_block_since = Never]
<1>1. t = s \/ (t = v /\ s.last_payload_emit >= RxHold)
  BY DEF maybe_resync_on_late_shard
<1>2. CASE t = s
  BY <1>2 DEF Heads, OnTrack
<1>3. CASE t = v /\ s.last_payload_emit >= RxHold
  <2>1. DOMAIN s = Fields
    BY DEF OnTrack, RxOK, QueueOK
  <2> HIDE DEF t
  <2>2. u = [s EXCEPT !.rx_blocks = Without(@, B(DOMAIN @)),
                !.ready_blocks = Without(@, B(DOMAIN @)),
                !.done = forget(@, B(BlockId))]
    BY DEF clear_state_behind
  <2> HIDE DEF u, B
  <2>3. DOMAIN u = Fields /\ u.out = s.out
    BY <2>1, <2>2 DEF Fields
  <2>4. t.out = s.out /\ t.emit_next = id
    BY <1>3, <2>3 DEF Fields
  <2> HIDE DEF v
  <2>5. NoneOut(f, a, D, s)
    <3> SUFFICES ASSUME NEW c \in BlockId, Place(f, c) \in DOMAIN a, Partly(f, D, s, c)
                 PROVE  FALSE
      BY DEF NoneOut
    <3>1. Recent(s.last_payload_emit, a[Place(f, c)]) /\ a[Place(f, c)] \in 0 .. MaxDelay
      BY DEF Once, OneAt, Airborne
    <3>2. MaxDelay \in Nat /\ RxHold \in Nat
      BY LinkAssumption, RxAssumption
    <3>. QED
      BY <1>3, <3>1, <3>2 DEF Recent
  <2>. QED
    BY <2>4, <2>5 DEF Heads, t
<1>. QED
  BY <1>1, <1>2, <1>3

\* What push_air does before the eviction moves the head to id, if at all.
LEMMA PreparedHeads ==
  ASSUME MaxDelay < RxHold,
         NEW z, NEW f \in BlockId, NEW a, Airborne(z, a), NEW D,
         NEW id \in BlockId,
         Len(z) \in Nat, Len(z) < RingMod \div 2, Place(f, id) < Len(z),
         NEW s, Rested(s), InRange(s),
         s.emit_base_set => OnTrack(z, f, s) /\ Settled(z, f, s),
         ~s.emit_base_set => s.later_block_since = Never,
         Once(z, f, a, D, ClearResults(s))
  PROVE  Heads(f, a, D, id, ClearResults(s), Prepared(s, id))
<1> DEFINE r == ClearResults(s)
           q == note_emit_base(r, id)
           b == maybe_rebase_after_silence(q, id)
           c == touch_newest(b, id)
           d == maybe_resync_on_late_shard(c, id)
<1>0. RxOK(s)
  BY DEF Rested, RxOK
<1>1. RxOK(r) /\ SameTrack(s, r)
  <2>1. SameTrack(s, r)
    BY <1>0 DEF ClearResults, SameTrack, RxOK, QueueOK, Fields
  <2>. QED
    BY <1>0, <2>1, ClearResultsRange
<1>2. Prepared(s, id) = d
  BY DEF Prepared
<1> HIDE DEF r
<1>3. /\ r.emit_base_set => OnTrack(z, f, r) /\ Settled(z, f, r)
      /\ ~r.emit_base_set => r.later_block_since = Never
  <2>1. ASSUME s.emit_base_set PROVE OnTrack(z, f, r) /\ Settled(z, f, r)
    BY <1>1, <2>1, SameTrackOK DEF Settled, SameTrack
  <2>. QED
    BY <1>1, <2>1 DEF SameTrack
<1>4. OnTrack(z, f, q) /\ Settled(z, f, q) /\ Once(z, f, a, D, q) /\ Heads(f, a, D, id, r, q)
  <2>1. Once(z, f, a, D, r)
    BY DEF r
  <2>. QED
    BY <1>1, <1>3, <2>1, BaseTrack, BaseOnce, BaseHeads
<1> HIDE DEF q
<1>5. OnTrack(z, f, b) /\ Settled(z, f, b) /\ Once(z, f, a, D, b) /\ Heads(f, a, D, id, q, b)
  <2>1. OnTrack(z, f, b) /\ Settled(z, f, b)
    BY <1>4, RebaseTrack
  <2>2. Once(z, f, a, D, b)
    BY <1>4, RebaseOnce
  <2>3. Heads(f, a, D, id, q, b)
    BY <1>4, RebaseHeads
  <2>. QED
    BY <2>1, <2>2, <2>3
<1> HIDE DEF b
<1>6. OnTrack(z, f, c) /\ Once(z, f, a, D, c) /\ Heads(f, a, D, id, b, c)
  <2>1. OnTrack(z, f, c)
    BY <1>5, TouchTrack
  <2>2. Once(z, f, a, D, c)
    BY <1>5, TouchOnce
  <2>3. Heads(f, a, D, id, b, c)
    BY <1>5, TouchHeads
  <2>. QED
    BY <2>1, <2>2, <2>3
<1> HIDE DEF c
<1>7. Heads(f, a, D, id, c, d)
  BY <1>6, ResyncHeads
<1> HIDE DEF d
<1>8. Heads(f, a, D, id, r, d)
  BY <1>4, <1>5, <1>6, <1>7, HeadsTrans
<1>. QED
  BY <1>2, <1>8 DEF r

\* So what is shown stays shown, but for packets of blocks given up.
LEMMA HeadsLined ==
  ASSUME NEW z, NEW f \in BlockId, NEW a, Airborne(z, a), Younger(z, a),
         Len(z) \in Nat, Len(z) < RingMod \div 2, NEW H, NEW D, D \subseteq Pkt(z), NEW W,
         NEW id \in BlockId, Place(f, id) \in DOMAIN a,
         NEW s, NEW t, s.out = <<>>, Heads(f, a, D, id, s, t), Lined(f, H, D, W, s)
  PROVE  Lined(f, H, D, W, t)
<1>1. t.out = <<>> /\ ToSet(t.out) = {} /\ Len(t.out) = 0
  BY EmptySeq DEF Heads, ToSet
<1>2. \A p \in D : Shown(f, t, p) \/ Broken(p, W)
  <2>1. CASE t.emit_next = id /\ NoneOut(f, a, D, s)
    BY <2>1, NoneBefore DEF Shown
  <2>2. CASE s.emit_base_set /\ t.emit_next = s.emit_next /\ t.rx_blocks = s.rx_blocks
    BY <2>2 DEF Shown, Lined
  <2>. QED
    BY <2>1, <2>2 DEF Heads
<1>. QED
  BY <1>1, <1>2 DEF Lined

\* When blocks are given up the head passes none but those.
LEMMA PassesGivenUp ==
  ASSUME NEW z, NEW f \in BlockId, NEW s, OnTrack(z, f, s), NEW S, S \subseteq DOMAIN s.rx_blocks,
         NEW t \in AbandonAll(s, S), NEW c \in BlockId, c \notin S,
         Place(f, c) < Place(f, t.emit_next)
  PROVE  Place(f, c) < Place(f, s.emit_next)
<1>1. DOMAIN s = Fields
  BY DEF OnTrack, RxOK, QueueOK
<1>2. \/ Still(s, t)
      \/ \E m \in 0 .. RingMod :
           /\ t.emit_next = wire_block_id(s.emit_next + m)
           /\ \A j \in 0 .. m - 1 : wire_block_id(s.emit_next + j) \in S
  BY <1>1, AbandonAllFewer
<1>3. CASE Still(s, t)
  BY <1>3 DEF Still
<1>4. ASSUME NEW m \in 0 .. RingMod, t.emit_next = wire_block_id(s.emit_next + m),
             \A j \in 0 .. m - 1 : wire_block_id(s.emit_next + j) \in S
      PROVE  Place(f, c) < Place(f, s.emit_next)
  <2>1. \A j \in 0 .. m - 1 :
          wire_block_id(s.emit_next + j) \in DOMAIN s.rx_blocks \cup DOMAIN s.ready_blocks
    BY <1>4
  <2>2. \A j \in 0 .. m : /\ wire_block_id(s.emit_next + j) \in BlockId
                          /\ Place(f, wire_block_id(s.emit_next + j)) = Place(f, s.emit_next) + j
    BY <2>1, HeadPlaces
  <2>3. Place(f, c) \in Nat /\ Place(f, s.emit_next) \in Nat
    BY PlaceValue, TrackPlaces, RingAssumption
  <2>4. Place(f, t.emit_next) = Place(f, s.emit_next) + m /\ m \in Nat
    BY <1>4, <2>2
  <2> SUFFICES ASSUME ~(Place(f, c) < Place(f, s.emit_next)) PROVE FALSE
    OBVIOUS
  <2> DEFINE j == Place(f, c) - Place(f, s.emit_next)
             e == wire_block_id(s.emit_next + j)
  <2>5. j \in 0 .. m - 1 /\ j \in 0 .. m /\ Place(f, s.emit_next) + j = Place(f, c)
    BY <2>3, <2>4
  <2>6. e \in S /\ e \in BlockId /\ Place(f, e) = Place(f, c)
    <3> HIDE DEF j
    <3>. QED
      BY <1>4, <2>2, <2>5
  <2> HIDE DEF e
  <2>7. e = c
    BY <2>6, PlaceSame
  <2>. QED
    BY <2>6, <2>7
<1>. QED
  BY <1>2, <1>3, <1>4

\* All that push_air does before it looks at the shard's block.
LEMMA BeforeTakeLined ==
  ASSUME RingMod \div 2 <= DoneMax, MaxDelay < RxHold,
         NEW z, NEW f \in BlockId, NEW a, Airborne(z, a), Younger(z, a),
         NEW D, D \subseteq Pkt(z), NEW W,
         NEW sh, sh.id \in BlockId, Place(f, sh.id) \in DOMAIN a,
         Len(z) \in Nat, Len(z) < RingMod \div 2, Place(f, sh.id) < Len(z),
         NEW s, Rested(s), InRange(s),
         s.emit_base_set => OnTrack(z, f, s) /\ Settled(z, f, s),
         ~s.emit_base_set => s.later_block_since = Never,
         Once(z, f, a, D, ClearResults(s)),
         NEW H, s.emit_base_set => H = Place(f, s.emit_next),
         Lined(f, H, D, W, ClearResults(s)), Gapped(s, {}),
         NEW t \in BeforeTake(s, sh)
  PROVE  /\ Lined(f, H, D, W, t) /\ Gapped(t, {})
         /\ Place(f, sh.id) < Place(f, t.emit_next) => Place(f, sh.id) < H
<1> DEFINE r == ClearResults(s)
           id == sh.id
           d == Prepared(s, id)
           Stale(S) == {i \in S : ring_dist(i, d.newest) < -EvictDist}
           old  == Stale(DOMAIN d.rx_blocks)
           ids  == Stale(BlockId)
<1>1. t \in ring_evict_stale(d)
  BY DEF BeforeTake, Prepared
<1>2. OnTrack(z, f, d) /\ Once(z, f, a, D, d)
  BY PreparedOnce
<1>3. DOMAIN s = Fields
  BY DEF Rested, QueueOK
<1>4. /\ r.out = <<>> /\ r.rx_blocks = s.rx_blocks /\ r.emit_next = s.emit_next
      /\ r.emit_base_set = s.emit_base_set
  BY <1>3 DEF ClearResults, Fields
<1>5. Heads(f, a, D, id, r, d)
  BY PreparedHeads
<1>6. Gapped(d, {})
  <2>1. Milder(r, d)
    BY <1>3, PreparedMilder
  <2>2. Gapped(r, {})
    BY <1>4, GappedLess
  <2>. QED
    BY <2>1, <2>2, GappedLess DEF Milder, Alike
<1> HIDE DEF d, r
<1>7. Lined(f, H, D, W, d)
  BY <1>4, <1>5, HeadsLined DEF r
<1>8. PICK v \in AbandonAll(d, old) : t = [v EXCEPT !.done = forget(@, ids)]
  BY <1>1 DEF ring_evict_stale
<1>9. old \subseteq DOMAIN d.rx_blocks /\ DOMAIN d.rx_blocks \subseteq BlockId
  BY <1>2 DEF OnTrack, RxOK, QueueOK
<1>10. id \notin old
  <2>1. \A c \in old : Place(f, c) \notin DOMAIN a
    BY <1>2, <1>9, StaleGone
  <2>. QED
    BY <2>1
<1> HIDE DEF old, ids
<1>11. Lined(f, H, D, W, v) /\ Gapped(v, {}) /\ OnTrack(z, f, v)
  <2>1. D \subseteq Nat \X Nat
    BY DEF Pkt
  <2>. QED
    BY <1>2, <1>6, <1>7, <1>9, <2>1, AbandonAllLined, AbandonAllTrack
<1>12. DOMAIN v = Fields
  BY <1>11 DEF OnTrack, RxOK, QueueOK
<1>13. /\ t.out = v.out /\ t.lost = v.lost /\ t.emit_next = v.emit_next
       /\ t.rx_blocks = v.rx_blocks
  BY <1>8, <1>12 DEF Fields
<1>14. Lined(f, H, D, W, t) /\ Gapped(t, {})
  BY <1>11, <1>13 DEF Lined, Shown, InTurn, Gapped, Whole
<1>15. ASSUME Place(f, id) < Place(f, t.emit_next) PROVE Place(f, id) < H
  <2>1. Place(f, id) < Place(f, d.emit_next)
    BY <1>2, <1>9, <1>10, <1>13, <1>15, PassesGivenUp
  <2>2. d.emit_next # id
    <3>1. Place(f, id) \in Nat
      BY PlaceValue, RingAssumption
    <3>. QED
      BY <2>1, <3>1
  <2>. QED
    BY <1>4, <1>5, <2>1, <2>2 DEF Heads
<1>. QED
  BY <1>14, <1>15

\* A block that cannot be decoded lacks a packet.
LEMMA UndecodableLacks ==
  ASSUME NEW z, NEW f, NEW s, OnTrack(z, f, s), Whole(s), NEW c \in DOMAIN s.rx_blocks,
         Streamed(s.rx_blocks[c]), ~Decodable(s.rx_blocks[c])
  PROVE  Lacks(s.rx_blocks[c])
<1> DEFINE blk  == s.rx_blocks[c]
           F    == DOMAIN blk.frags
           U    == 0 .. blk.sdu - 1
           pads == (blk.sdu .. blk.k - 1) \ F
<1>1. /\ blk.sdu \in Nat /\ blk.released \in Nat /\ blk.k = K /\ K \in Nat /\ N \in Nat
      /\ 0 .. blk.released - 1 \subseteq F /\ F \subseteq 0 .. N - 1
  BY LinkAssumption DEF OnTrack, RxOK, InRange, BlockOK, BlockAt, Whole, Streamed
<1> SUFFICES ASSUME ~Lacks(blk) PROVE FALSE
  OBVIOUS
<1>2. ~(Cardinality(F) >= blk.sdu /\ Cardinality(F) + Cardinality(pads) >= blk.k)
  BY DEF Decodable
<1>3. U \subseteq F
  <2> SUFFICES ASSUME NEW i \in U PROVE i \in F
    OBVIOUS
  <2>1. i \in 0 .. blk.released - 1 \/ i \in blk.released .. blk.sdu - 1
    BY <1>1
  <2>2. CASE i \in 0 .. blk.released - 1
    BY <1>1, <2>2
  <2>3. CASE i \in blk.released .. blk.sdu - 1
    BY <2>3 DEF Lacks
  <2>. QED
    BY <2>1, <2>2, <2>3
<1> HIDE DEF F
<1>4. IsFiniteSet(F) /\ Cardinality(F) \in Nat
  BY <1>1, CountTo, FS_Subset, FS_CardinalityType
<1>5. Cardinality(F) >= blk.sdu
  <2>1. IsFiniteSet(U) /\ Cardinality(U) = blk.sdu
    BY <1>1, CountTo
  <2>. QED
    BY <1>3, <1>4, <2>1, FS_Subset
<1>6. IsFiniteSet(0 .. K - 1) /\ Cardinality(0 .. K - 1) = K
  BY <1>1, CountTo
<1>7. IsFiniteSet(pads) /\ Cardinality(pads) \in Nat
  <2>1. pads \subseteq 0 .. K - 1
    BY <1>1
  <2> HIDE DEF pads
  <2>. QED
    BY <1>6, <2>1, FS_Subset, FS_CardinalityType
<1>8. 0 .. K - 1 \subseteq F \cup pads /\ F \cap pads = {}
  <2>1. ASSUME NEW i \in 0 .. K - 1, i \notin F PROVE i \in pads
    <3>1. i \notin U
      BY <1>3, <2>1
    <3>. QED
      BY <1>1, <2>1, <3>1
  <2>. QED
    BY <2>1
<1> HIDE DEF pads
<1>9. /\ IsFiniteSet(F \cup pads)
      /\ Cardinality(F \cup pads) = Cardinality(F) + Cardinality(pads)
  <2>1. /\ IsFiniteSet(F \cup pads)
        /\ Cardinality(F \cup pads) = Cardinality(F) + Cardinality(pads) - Cardinality(F \cap pads)
    BY <1>4, <1>7, FS_Union
  <2>2. Cardinality(F \cap pads) = 0
    BY <1>8, FS_EmptySet
  <2>. QED
    BY <1>4, <1>7, <2>1, <2>2
<1>10. K <= Cardinality(F \cup pads)
  BY <1>6, <1>8, <1>9, FS_Subset
<1>. QED
  BY <1>1, <1>2, <1>4, <1>5, <1>7, <1>9, <1>10

\* A block is taken out.
LEMMA GappedWithout ==
  ASSUME NEW s, NEW t, NEW id, Gapped(s, {id}), t.rx_blocks = Without(s.rx_blocks, {id})
  PROVE  Gapped(t, {})
BY DEF Gapped, Whole, Without

\* A shard is stored.
LEMMA StoredLined ==
  ASSUME NEW z, NEW f \in BlockId, NEW a, NEW H, NEW D, D \subseteq Nat \X Nat, NEW W, NEW s,
         OnTrack(z, f, s), Once(z, f, a, D, s), Lined(f, H, D, W, s), Gapped(s, {}),
         NEW sh, OfSession(z, f, sh)
  PROVE  LET t == [s EXCEPT !.rx_blocks = With(@, sh.id, Grown(s, sh))]
         IN  Lined(f, H, D, W, t) /\ Gapped(t, {sh.id})
<1> DEFINE id == sh.id
           b1 == Given(s, sh)
           b2 == Grown(s, sh)
           t  == [s EXCEPT !.rx_blocks = With(@, id, b2)]
<1>1. DOMAIN s = Fields /\ sh.idx \in 0 .. N - 1 /\ s.out \in Seq(Pkt(z))
  <2>1. sh.idx \in (0 .. sh.sdu - 1) \cup (sh.k .. sh.n - 1)
    BY DEF OfSession, IsShard
  <2>2. sh.n = N /\ sh.k \in 1 .. N /\ sh.sdu \in 1 .. sh.k /\ N \in Nat
    BY DEF OfSession, IsShard
  <2>. QED
    BY <2>1, <2>2 DEF OnTrack, RxOK, QueueOK, Once, FreshOut
<1>2. /\ t.out = s.out /\ t.lost = s.lost /\ t.emit_next = s.emit_next
      /\ t.rx_blocks = With(s.rx_blocks, id, b2)
  BY <1>1 DEF Fields
<1> HIDE DEF t
<1>3. DOMAIN b2.frags = DOMAIN b1.frags \cup {sh.idx}
  <2>1. ShardIn(z, f, s, sh)
    BY GrownBlock
  <2>. QED
    BY <2>1 DEF ShardIn
<1>4. b2.released = b1.released
  <2>1. DOMAIN b1 = BlockFields
    BY DEF OnTrack, RxOK, InRange, BlockOK, Given, NewBlock, BlockFields
  <2> HIDE DEF b1
  <2>2. b2 = [b1 EXCEPT !.frags = With(@, sh.idx, sh.src), !.last_seen = 0]
    BY DEF Grown, b1
  <2> HIDE DEF b2
  <2>. QED
    BY <2>1, <2>2 DEF BlockFields
<1>5. Streamed(b1) /\ DOMAIN b1.frags \subseteq 0 .. N - 1
  <2>1. CASE id \in DOMAIN s.rx_blocks
    BY <2>1 DEF Given, Gapped, Whole
  <2>2. CASE id \notin DOMAIN s.rx_blocks
    <3>1. b1.released = 0 /\ b1.frags = EmptyMap
      BY <2>2 DEF Given, NewBlock
    <3>. QED
      BY <3>1 DEF Streamed, EmptyMap
  <2>. QED
    BY <2>1, <2>2
<1>6. id \in DOMAIN s.rx_blocks => b1 = s.rx_blocks[id]
  BY DEF Given
<1> HIDE DEF b1, b2
<1>7. /\ DOMAIN t.rx_blocks = DOMAIN s.rx_blocks \cup {id} /\ t.rx_blocks[id] = b2
      /\ \A c \in DOMAIN s.rx_blocks : c # id => t.rx_blocks[c] = s.rx_blocks[c]
  BY <1>2 DEF With
<1>8. Gapped(t, {id})
  BY <1>1, <1>3, <1>4, <1>5, <1>7 DEF Gapped, Whole, Streamed
<1>9. HeadOn(f, s, t)
  <2> DEFINE h == s.emit_next
  <2>1. ASSUME h \in DOMAIN s.rx_blocks
        PROVE  /\ s.rx_blocks[h].released \in Nat
               /\ t.rx_blocks[h].released = s.rx_blocks[h].released
    BY <1>4, <1>6, <1>7, <2>1 DEF OnTrack, RxOK, InRange, BlockOK
  <2>2. ASSUME h \in DOMAIN s.rx_blocks
        PROVE  /\ h \in DOMAIN t.rx_blocks
               /\ s.rx_blocks[h].released \in Nat /\ t.rx_blocks[h].released \in Nat
               /\ s.rx_blocks[h].released <= t.rx_blocks[h].released
    BY <1>7, <2>1, <2>2
  <2>. QED
    BY <1>2, <2>2, HeadSame
<1>10. Lined(f, H, D, W, t)
  <2>1. s.lost \subseteq t.lost
    BY <1>2
  <2>. QED
    BY <1>1, <1>2, <1>9, <2>1, LinedQuiet
<1>. QED
  BY <1>8, <1>10 DEF t, b2

\* It streams, or starts the hold.
LEMMA StreamOrArmLined ==
  ASSUME NEW z, NEW f \in BlockId, NEW a, NEW H, NEW D, D \subseteq Nat \X Nat, NEW W, NEW s,
         NEW T, OnTrack(z, f, s), Once(z, f, a, D, s), Lined(f, H, D, W, s), Gapped(s, T),
         NEW id \in DOMAIN s.rx_blocks
  PROVE  Lined(f, H, D, W, StreamOrArm(s, id)) /\ Gapped(StreamOrArm(s, id), T)
<1>1. CASE id = s.emit_next
  <2>1. StreamOrArm(s, id) = try_stream_head_systematic(s, s.emit_next)
    BY <1>1 DEF StreamOrArm
  <2>. QED
    BY <1>1, <2>1, StreamLined
<1>2. CASE id # s.emit_next
  <2> DEFINE t == ArmLater(s, id)
  <2>1. DOMAIN s = Fields
    BY DEF OnTrack, RxOK, QueueOK
  <2>2. /\ t.out = s.out /\ t.lost = s.lost /\ t.emit_next = s.emit_next
        /\ t.rx_blocks = s.rx_blocks
    BY <2>1 DEF ArmLater, Fields
  <2>3. StreamOrArm(s, id) = t
    BY <1>2 DEF StreamOrArm
  <2> HIDE DEF t
  <2>4. Lined(f, H, D, W, t) /\ Gapped(t, T)
    BY <2>2 DEF Lined, Shown, InTurn, Gapped, Whole
  <2>. QED
    BY <2>3, <2>4
<1>. QED
  BY <1>1, <1>2

\* A block behind the head is returned, marked and gone.
LEMMA LateLined ==
  ASSUME NEW z, NEW f \in BlockId, NEW a, NEW H, NEW D, D \subseteq Nat \X Nat, NEW W, NEW s,
         OnTrack(z, f, s), Once(z, f, a, D, s), NEW id \in DOMAIN s.rx_blocks,
         Lined(f, H, D, W, s), Gapped(s, {id}),
         Place(f, id) < Place(f, s.emit_next), Place(f, id) < H,
         NEW q \in Seq(Pkt(z)), ToSet(q) \subseteq {Place(f, id)} \X Nat
  PROVE  LET e == emit_payloads([s EXCEPT !.rx_blocks = Without(@, {id})], q)
             t == [e EXCEPT !.done = mark_done(@, id)]
         IN  Lined(f, H, D, W, t) /\ Gapped(t, {})
<1> DEFINE w == [s EXCEPT !.rx_blocks = Without(@, {id})]
           e == emit_payloads(w, q)
           t == [e EXCEPT !.done = mark_done(@, id)]
<1>1. /\ DOMAIN s = Fields /\ DOMAIN w = Fields /\ s.out \in Seq(Pkt(z)) /\ w.out = s.out
      /\ w.lost = s.lost /\ w.emit_next = s.emit_next /\ w.rx_blocks = Without(s.rx_blocks, {id})
  BY DEF OnTrack, RxOK, QueueOK, Fields, Once, FreshOut
<1> HIDE DEF w
<1>2. e.out = s.out \o q /\ e.lost = s.lost
  BY <1>1, EmitOut
<1>3. DOMAIN e = Fields /\ e.rx_blocks = w.rx_blocks /\ e.emit_next = w.emit_next
  BY <1>1, EmitStill DEF Still
<1> HIDE DEF e
<1>4. /\ t.out = s.out \o q /\ t.lost = s.lost /\ t.emit_next = s.emit_next
      /\ t.rx_blocks = Without(s.rx_blocks, {id})
  BY <1>1, <1>2, <1>3 DEF Fields
<1> HIDE DEF t
<1>5. HeadOn(f, s, t)
  <2> DEFINE h == s.emit_next
  <2>1. h # id
    <3>1. Place(f, h) \in Nat
      BY TrackPlaces
    <3>. QED
      BY <3>1
  <2>2. ASSUME h \in DOMAIN s.rx_blocks
        PROVE  /\ h \in DOMAIN t.rx_blocks /\ t.rx_blocks[h] = s.rx_blocks[h]
               /\ s.rx_blocks[h].released \in Nat
    BY <1>4, <2>1, <2>2 DEF Without, OnTrack, RxOK, InRange, BlockOK
  <2>3. ASSUME h \in DOMAIN s.rx_blocks
        PROVE  /\ h \in DOMAIN t.rx_blocks
               /\ s.rx_blocks[h].released \in Nat /\ t.rx_blocks[h].released \in Nat
               /\ s.rx_blocks[h].released <= t.rx_blocks[h].released
    BY <2>2, <2>3
  <2>. QED
    BY <1>4, <2>3, HeadSame
<1>6. Late(f, H, t, q)
  <2> SUFFICES ASSUME NEW y \in ToSet(q) PROVE Shown(f, t, y) /\ y[1] < H
    BY DEF Late
  <2>1. y[1] = Place(f, id)
    OBVIOUS
  <2>. QED
    BY <1>4, <2>1 DEF Shown
<1>7. Lined(f, H, D, W, t)
  <2>1. s.lost \subseteq t.lost
    BY <1>4
  <2>. QED
    BY <1>1, <1>4, <1>5, <1>6, <2>1, LinedStep
<1>8. Gapped(t, {})
  BY <1>4, GappedWithout
<1>. QED
  BY <1>7, <1>8 DEF t, e, w

\* The block at the head decodes and the head passes it.
LEMMA HeadLined ==
  ASSUME NEW z, NEW f \in BlockId, NEW a, NEW H, NEW D, D \subseteq Nat \X Nat, NEW W, NEW s,
         OnTrack(z, f, s), Once(z, f, a, D, s), NEW id \in DOMAIN s.rx_blocks, id = s.emit_next,
         Lined(f, H, D, W, s), Gapped(s, {id}),
         NEW q \in Seq(Pkt(z)), NEW m \in Nat,
         IsRun(q, Place(f, id), s.rx_blocks[id].released, m)
  PROVE  LET e == emit_payloads([s EXCEPT !.rx_blocks = Without(@, {id})], q)
             t == [PassHead(e, 1) EXCEPT !.later_block_since = Never]
         IN  Lined(f, H, D, W, t) /\ Gapped(t, {})
<1> DEFINE w == [s EXCEPT !.rx_blocks = Without(@, {id})]
           e == emit_payloads(w, q)
           g == PassHead(e, 1)
           t == [g EXCEPT !.later_block_since = Never]
           b == Place(f, id)
           r == s.rx_blocks[id].released
<1>1. /\ DOMAIN s = Fields /\ DOMAIN w = Fields /\ s.out \in Seq(Pkt(z)) /\ w.out = s.out
      /\ w.lost = s.lost /\ w.emit_next = s.emit_next /\ w.rx_blocks = Without(s.rx_blocks, {id})
      /\ r \in Nat
  BY DEF OnTrack, RxOK, QueueOK, InRange, BlockOK, Fields, Once, FreshOut
<1> HIDE DEF w
<1>2. e.out = s.out \o q /\ e.lost = s.lost
  BY <1>1, EmitOut
<1>3. DOMAIN e = Fields /\ e.rx_blocks = w.rx_blocks /\ e.emit_next = w.emit_next
  BY <1>1, EmitStill DEF Still
<1> HIDE DEF e
<1>4. /\ DOMAIN g = Fields /\ g.rx_blocks = e.rx_blocks /\ g.out = e.out /\ g.lost = e.lost
      /\ g.emit_next = wire_block_id(e.emit_next + 1)
  BY <1>3, PassHeadOnward, PassHeadRest DEF Onward
<1> HIDE DEF g
<1>5. /\ t.out = s.out \o q /\ t.lost = s.lost /\ t.emit_next = wire_block_id(s.emit_next + 1)
      /\ t.rx_blocks = Without(s.rx_blocks, {id})
  BY <1>1, <1>2, <1>3, <1>4 DEF Fields
<1> HIDE DEF t
<1>6. Place(f, t.emit_next) = b + 1 /\ b \in Nat
  BY <1>5, HeadNext
<1> HIDE DEF b
<1>7. b < b + 1 /\ b + 1 \in Nat
  BY <1>6
<1>8. HeadOn(f, s, t)
  BY <1>6, <1>7, HeadFurther DEF b
<1> HIDE DEF r
<1>9. /\ InSeries(q)
      /\ \A y \in ToSet(q) : y[1] = b /\ y[2] \in Nat /\ y[2] >= r
  <2>1. IsRun(q, b, r, m)
    BY DEF b, r
  <2>2. InSeries(q) /\ ToSet(q) \subseteq PktRun(b, r, m)
    BY <1>1, <1>6, <2>1, RunSeries, RunNew
  <2>3. ASSUME NEW y \in ToSet(q) PROVE y[1] = b /\ y[2] \in Nat /\ y[2] >= r
    <3>1. PICK i \in r .. r + m - 1 : y = <<b, i>>
      BY <2>2 DEF PktRun
    <3>. QED
      BY <1>1, <3>1
  <2>. QED
    BY <2>2, <2>3
<1>10. Follows(f, s, t, q)
  <2> SUFFICES ASSUME NEW y \in ToSet(q)
               PROVE  /\ Shown(f, t, y)
                      /\ \A x \in Nat \X Nat : Shown(f, s, x) => Before(x, y)
    BY <1>9 DEF Follows
  <2>1. y[1] = b /\ y[2] \in Nat /\ y[2] >= r
    BY <1>9
  <2>2. Shown(f, t, y)
    BY <1>6, <1>7, <2>1 DEF Shown
  <2>3. ASSUME NEW x \in Nat \X Nat, Shown(f, s, x) PROVE Before(x, y)
    <3>1. x[1] < b \/ (x[1] = b /\ x[2] < r)
      BY <2>3 DEF Shown, b, r
    <3>2. x[1] \in Nat /\ x[2] \in Nat
      OBVIOUS
    <3>. QED
      BY <1>1, <1>6, <2>1, <3>1, <3>2 DEF Before
  <2>. QED
    BY <2>2, <2>3
<1>11. Lined(f, H, D, W, t)
  <2>1. s.lost \subseteq t.lost
    BY <1>5
  <2>. QED
    BY <1>1, <1>5, <1>8, <1>10, <2>1, LinedStep
<1>12. Gapped(t, {})
  BY <1>5, GappedWithout
<1>. QED
  BY <1>11, <1>12 DEF t, g, e, w

\* A block ahead of the head waits.
LEMMA AheadLined ==
  ASSUME NEW z, NEW f \in BlockId, NEW a, NEW H, NEW D, D \subseteq Nat \X Nat, NEW W, NEW s,
         OnTrack(z, f, s), Once(z, f, a, D, s), NEW id \in DOMAIN s.rx_blocks, id # s.emit_next,
         Lined(f, H, D, W, s), Gapped(s, {id}), NEW rdy
  PROVE  LET w == [s EXCEPT !.rx_blocks = Without(@, {id})]
             t == ArmLater([w EXCEPT !.ready_blocks = With(@, id, rdy)], id)
         IN  Lined(f, H, D, W, t) /\ Gapped(t, {})
<1> DEFINE w == [s EXCEPT !.rx_blocks = Without(@, {id})]
           x == [w EXCEPT !.ready_blocks = With(@, id, rdy)]
           t == ArmLater(x, id)
           h == s.emit_next
<1>1. DOMAIN s = Fields /\ s.out \in Seq(Pkt(z))
  BY DEF OnTrack, RxOK, QueueOK, Once, FreshOut
<1>2. /\ DOMAIN x = Fields /\ x.out = s.out /\ x.lost = s.lost /\ x.emit_next = h
      /\ x.rx_blocks = Without(s.rx_blocks, {id})
  BY <1>1 DEF Fields
<1> HIDE DEF x
<1>3. /\ t.out = s.out /\ t.lost = s.lost /\ t.emit_next = h
      /\ t.rx_blocks = Without(s.rx_blocks, {id})
  BY <1>2 DEF ArmLater, Fields
<1> HIDE DEF t
<1>4. ASSUME h \in DOMAIN s.rx_blocks
      PROVE  /\ h \in DOMAIN t.rx_blocks /\ t.rx_blocks[h] = s.rx_blocks[h]
             /\ s.rx_blocks[h].released \in Nat
  BY <1>3, <1>4 DEF Without, OnTrack, RxOK, InRange, BlockOK
<1>5. ASSUME h \in DOMAIN s.rx_blocks
      PROVE  /\ h \in DOMAIN t.rx_blocks
             /\ s.rx_blocks[h].released \in Nat /\ t.rx_blocks[h].released \in Nat
             /\ s.rx_blocks[h].released <= t.rx_blocks[h].released
  BY <1>4, <1>5
<1>6. HeadOn(f, s, t)
  BY <1>3, <1>5, HeadSame
<1>7. Lined(f, H, D, W, t)
  <2>1. s.lost \subseteq t.lost
    BY <1>3
  <2>. QED
    BY <1>1, <1>3, <1>6, <2>1, LinedQuiet
<1>8. Gapped(t, {})
  BY <1>3, GappedWithout
<1>. QED
  BY <1>7, <1>8 DEF t, x

\* A block that has its shards is returned, or waits.
LEMMA DecodeLined ==
  ASSUME RingMod \div 2 <= DoneMax, NEW z, NEW f \in BlockId, NEW a, Airborne(z, a),
         NEW H, NEW D, D \subseteq Nat \X Nat, NEW W, NEW s,
         OnTrack(z, f, s), Once(z, f, a, D, s), NEW id \in DOMAIN s.rx_blocks,
         Lined(f, H, D, W, s), Gapped(s, {id}),
         Place(f, id) < Place(f, s.emit_next) => Place(f, id) < H
  PROVE  LET t == try_decode_block(s, id, TRUE)
         IN  Lined(f, H, D, W, t) /\ Gapped(t, {})
<1> DEFINE blk == s.rx_blocks[id]
           w   == [s EXCEPT !.rx_blocks = Without(@, {id})]
           rdy == [sdu |-> blk.sdu, released |-> blk.released, payloads |-> DecodedPayloads(blk)]
           q   == Decoded(rdy)
           m   == rdy.sdu - rdy.released
           d   == on_block_decoded(w, id, rdy)
           t   == try_decode_block(s, id, TRUE)
           R(x) == Lined(f, H, D, W, x) /\ Gapped(x, {})
<1>1. /\ DOMAIN s = Fields /\ id \in BlockId /\ s.emit_next \in BlockId
  BY DEF OnTrack, RxOK, QueueOK
<1>2. /\ Place(f, id) \in Nat /\ Place(f, id) < Len(z) /\ Len(z) \in Nat
      /\ ring_dist(id, s.emit_next) = Place(f, id) - Place(f, s.emit_next)
      /\ Place(f, s.emit_next) \in Nat
  BY TrackPlaces, TrackHeld, TrackDist DEF OnTrack
<1>3. t = IF ~Decodable(blk) THEN run_emit_engine(s) ELSE d
  BY DEF try_decode_block
<1>4. CASE ~Decodable(blk)
  <2>1. Lacks(s.rx_blocks[id])
    BY <1>4, UndecodableLacks DEF Gapped
  <2>2. Gapped(s, {})
    BY <2>1 DEF Gapped
  <2>3. R(run_emit_engine(s))
    BY <2>2, EngineLined
  <2> HIDE DEF R
  <2>4. R(t)
    BY <1>3, <1>4, <2>3
  <2>. QED
    BY <2>4 DEF R
<1>5. ReadyAt(f, rdy, id)
  BY DecodesAt
<1>6. rdy.released = s.rx_blocks[id].released /\ w.emit_next = s.emit_next
  BY <1>1 DEF Fields
<1>7. dist_from_emit(w, id) = Place(f, id) - Place(f, s.emit_next)
  BY <1>2, <1>6 DEF dist_from_emit
<1> HIDE DEF rdy, blk
<1>8. /\ q \in Seq(Pkt(z)) /\ IsInjective(q) /\ ToSet(q) \cap Returned(D, s) = {}
      /\ ToSet(q) \subseteq {Place(f, id)} \X Nat
  <2>1. OneAt(f, a, D, s, id)
    BY <1>1 DEF Once
  <2>2. Unreturned(f, D, s, id, rdy.released)
    BY <1>6, <2>1 DEF OneAt
  <2>. QED
    BY <1>2, <1>5, <2>2, DecodedFresh
<1>9. m \in Nat /\ IsRun(q, Place(f, id), s.rx_blocks[id].released, m)
  BY <1>5, <1>6, DecodedRun
<1> HIDE DEF q, w, m, R
<1>10. ASSUME dist_from_emit(w, id) < 0 PROVE R(d)
  <2>1. Place(f, id) < Place(f, s.emit_next)
    <3> DEFINE x == Place(f, id)
               y == Place(f, s.emit_next)
    <3>1. x \in Nat /\ y \in Nat /\ x - y < 0
      BY <1>2, <1>7, <1>10
    <3> HIDE DEF x, y
    <3>2. x < y
      BY <3>1
    <3>. QED
      BY <3>2 DEF x, y
  <2>2. d = [emit_payloads(w, q) EXCEPT !.done = mark_done(@, id)]
    BY <1>10 DEF on_block_decoded, q
  <2> HIDE DEF d
  <2>3. R([emit_payloads(w, q) EXCEPT !.done = mark_done(@, id)])
    BY <1>8, <2>1, LateLined DEF w, R
  <2>. QED
    BY <2>2, <2>3
<1>11. ASSUME dist_from_emit(w, id) = 0 PROVE R(d)
  <2> DEFINE x == emit_payloads(w, q)
             g == [PassHead(x, 1) EXCEPT !.later_block_since = Never]
  <2>1. d = run_emit_engine(g)
    BY <1>11 DEF on_block_decoded, q
  <2> HIDE DEF d
  <2>2. id = s.emit_next
    BY <1>1, <1>6, <1>11, DistZero DEF dist_from_emit
  <2>3. OnTrack(z, f, g)
    BY <2>2, HeadGoneTrack DEF w
  <2>4. Lined(f, H, D, W, g) /\ Gapped(g, {})
    BY <1>8, <1>9, <2>2, HeadLined DEF w
  <2>5. DOMAIN x = Fields
    <3>1. DOMAIN w = Fields
      BY <1>1 DEF w, Fields
    <3>. QED
      BY <3>1, EmitStill
  <2>6. LetGo(s, q, x)
    BY <2>2, <2>5 DEF LetGo, w
  <2> HIDE DEF x
  <2>7. Once(z, f, a, D, g)
    <3>1. s.emit_next \in DOMAIN s.rx_blocks /\ ToSet(q) \subseteq {Place(f, s.emit_next)} \X Nat
      BY <1>8, <2>2
    <3>. QED
      BY <1>8, <2>6, <3>1, HeadGoneOnce
  <2> HIDE DEF g
  <2>8. R(run_emit_engine(g))
    BY <2>3, <2>4, <2>7, EngineLined DEF R
  <2>. QED
    BY <2>1, <2>8
<1>12. ASSUME dist_from_emit(w, id) > 0 PROVE R(d)
  <2>1. d = ArmLater([w EXCEPT !.ready_blocks = With(@, id, rdy)], id) /\ id # s.emit_next
    <3> DEFINE x == dist_from_emit(w, id)
    <3>1. x \in Int /\ x > 0
      BY <1>2, <1>7, <1>12
    <3> HIDE DEF x
    <3>2. ~(x < 0) /\ ~(x = 0)
      BY <3>1
    <3>3. id # s.emit_next
      BY <1>1, <1>6, <3>2, DistZero DEF dist_from_emit, x
    <3>. QED
      BY <3>2, <3>3 DEF on_block_decoded, x
  <2> HIDE DEF d
  <2>2. R(ArmLater([w EXCEPT !.ready_blocks = With(@, id, rdy)], id))
    BY <2>1, AheadLined DEF w, R
  <2>. QED
    BY <2>1, <2>2
<1>13. dist_from_emit(w, id) < 0 \/ dist_from_emit(w, id) = 0 \/ dist_from_emit(w, id) > 0
  <2> DEFINE x == dist_from_emit(w, id)
  <2>1. x \in Int
    BY <1>2, <1>7
  <2> HIDE DEF x
  <2>2. x < 0 \/ x = 0 \/ x > 0
    BY <2>1
  <2>. QED
    BY <2>2 DEF x
<1>14. R(d)
  BY <1>10, <1>11, <1>12, <1>13
<1>15. CASE Decodable(blk)
  <2>1. R(t)
    BY <1>3, <1>14, <1>15
  <2>. QED
    BY <2>1 DEF R
<1>. QED
  BY <1>4, <1>15

\* Whatever the shard is good for, the order is kept.
LEMMA TakeLined ==
  ASSUME RingMod \div 2 <= DoneMax, NEW z, NEW f \in BlockId, NEW a, Airborne(z, a),
         NEW H, NEW D, D \subseteq Nat \X Nat, NEW W,
         NEW s, OnTrack(z, f, s), Once(z, f, a, D, s), s.last_shard_rx = 0, Fresh(f, s),
         Lined(f, H, D, W, s), Gapped(s, {}),
         NEW sh, OfSession(z, f, sh), Place(f, sh.id) \in DOMAIN a, Near(f, s, sh.id),
         Settled(z, f, s) \/ Awaited(f, s, sh.id),
         Place(f, sh.id) < Place(f, s.emit_next) => Place(f, sh.id) < H
  PROVE  LET w == TakeShard(s, sh, TRUE)
         IN  Lined(f, H, D, W, w) /\ Gapped(w, {})
<1> DEFINE id   == sh.id
           blk  == Given(s, sh)
           b2   == Grown(s, sh)
           t    == [s EXCEPT !.rx_blocks = With(@, id, b2)]
           v    == StreamOrArm(t, id)
           w    == TakeShard(s, sh, TRUE)
           old  == \/ dist_from_emit(s, id) < 0 /\ IsDone(s, id)
                   \/ id \in DOMAIN s.ready_blocks
           R(x) == Lined(f, H, D, W, x) /\ Gapped(x, {})
<1>1. id \in BlockId
  BY DEF OfSession, IsShard
<1>2. w = IF old THEN s
          ELSE IF <<blk.k, blk.n, blk.sdu>> # <<sh.k, sh.n, sh.sdu>>
          THEN abandon_partial_block([s EXCEPT !.rx_blocks = Without(@, {id})], blk, id)
          ELSE IF sh.idx \in DOMAIN blk.frags THEN s
          ELSE try_decode_block(v, id, TRUE)
  BY DEF TakeShard, StoreShard, Given, Grown
<1> HIDE DEF w
<1>3. /\ blk.k = sh.k /\ blk.n = sh.n /\ blk.sdu = sh.sdu
      /\ BlockOK(b2) /\ BlockAt(z, f, b2, id) /\ b2.last_seen = 0
  <2>1. ShardIn(z, f, s, sh)
    BY GrownBlock
  <2>. QED
    BY <2>1 DEF ShardIn
<1> HIDE DEF b2, blk
<1>4. w = s \/ (~old /\ w = try_decode_block(v, id, TRUE))
  BY <1>2, <1>3
<1>5. ASSUME ~old PROVE R(try_decode_block(v, id, TRUE))
  <2>1. /\ OnTrack(z, f, t) /\ Fresh(f, t) /\ Held(z, f, t)
        /\ t.rx_blocks = With(s.rx_blocks, id, b2) /\ t.emit_next = s.emit_next
    BY <1>1, <1>3, <1>5, StoredTrack
  <2>2. Once(z, f, a, D, t)
    BY <1>5, StoredOnce DEF b2
  <2>3. Lined(f, H, D, W, t) /\ Gapped(t, {id})
    BY StoredLined DEF b2
  <2> HIDE DEF t
  <2>4. id \in DOMAIN t.rx_blocks /\ t.rx_blocks[id].last_seen = 0
    BY <1>3, <2>1 DEF With
  <2>5. OnTrack(z, f, v) /\ DOMAIN v.rx_blocks = DOMAIN t.rx_blocks /\ v.emit_next = t.emit_next
    BY <2>1, <2>4, StreamOrArmTrack
  <2>6. Once(z, f, a, D, v) /\ Lined(f, H, D, W, v) /\ Gapped(v, {id})
    <3>1. OnTrack(z, f, t)
      BY <2>1
    <3>. QED
      BY <2>2, <2>3, <2>4, <3>1, StreamOrArmOnce, StreamOrArmLined
  <2> HIDE DEF v
  <2>7. id \in DOMAIN v.rx_blocks /\ OnTrack(z, f, v)
        /\ (Place(f, id) < Place(f, v.emit_next) => Place(f, id) < H)
    BY <2>1, <2>4, <2>5
  <2>. QED
    BY <2>6, <2>7, DecodeLined
<1>6. R(s)
  OBVIOUS
<1> HIDE DEF R
<1>7. R(w)
  BY <1>4, <1>5, <1>6
<1>. QED
  BY <1>7 DEF w, R

\* push_air.
LEMMA PushLined ==
  ASSUME RingMod \div 2 <= DoneMax, MaxDelay < RxHold, MaxReorder <= EvictDist,
         LinkInv, InRange(fec), NEW f \in BlockId, Session(f),
         Len(sent) < RingMod \div 2, Kept(sent, f, fec),
         NEW z, z = sent, NEW a, a = air, Airborne(z, a), Younger(z, a),
         NEW D, D \subseteq Pkt(z), Once(z, f, a, D, ClearResults(fec)),
         NEW W, NEW H, fec.emit_base_set => H = Place(f, fec.emit_next),
         Lined(f, H, D, W, ClearResults(fec)), Gapped(fec, {}),
         NEW b \in DOMAIN air, NEW i \in IndexesSent(b), push_air(ShardOf(b, i)),
         NEW t, t = fec'
  PROVE  Lined(f, H, D, W, t) /\ Gapped(t, {})
<1>1. PICK x : x = fec
  OBVIOUS
<1>2. /\ \E sh, s : Taking(z, f, b, x, sh, s, t)
      /\ Len(z) \in Nat /\ Rested(x)
      /\ x.emit_base_set => OnTrack(z, f, x) /\ Settled(z, f, x)
      /\ ~x.emit_base_set => x.later_block_since = Never
  BY <1>1, PushTakes
<1>3. PICK sh, s : Taking(z, f, b, x, sh, s, t)
  BY <1>2
<1>4. /\ InRange(x) /\ Once(z, f, a, D, ClearResults(x)) /\ Len(z) < RingMod \div 2
      /\ x.emit_base_set => H = Place(f, x.emit_next)
      /\ Lined(f, H, D, W, ClearResults(x)) /\ Gapped(x, {})
  BY <1>1
<1>5. /\ sh.id \in BlockId /\ Place(f, sh.id) < Len(z) /\ s \in BeforeTake(x, sh)
      /\ Place(f, sh.id) \in DOMAIN a /\ D \subseteq Nat \X Nat
  BY <1>3 DEF Taking, Pkt
<1>6. Once(z, f, a, D, s) /\ s.last_shard_rx = 0
  BY <1>2, <1>4, <1>5, BeforeTakeOnce
<1>7. /\ Lined(f, H, D, W, s) /\ Gapped(s, {})
      /\ Place(f, sh.id) < Place(f, s.emit_next) => Place(f, sh.id) < H
  BY <1>2, <1>4, <1>5, BeforeTakeLined
<1> DEFINE w == TakeShard(s, sh, TRUE)
<1>8. Once(z, f, a, D, w) /\ Lined(f, H, D, W, w) /\ Gapped(w, {})
  <2>1. /\ OfSession(z, f, sh) /\ Near(f, s, sh.id) /\ OnTrack(z, f, s) /\ Fresh(f, s)
        /\ Settled(z, f, s) \/ Awaited(f, s, sh.id)
    BY <1>3 DEF Taking
  <2>2. Once(z, f, a, D, w)
    BY <1>5, <1>6, <2>1, TakeOnce
  <2>3. Lined(f, H, D, W, w) /\ Gapped(w, {})
    BY <1>5, <1>6, <1>7, <2>1, TakeLined
  <2>. QED
    BY <2>2, <2>3
<1>9. OnTrack(z, f, w) /\ t \in ExpireThenEmit(w)
  BY <1>3 DEF Taking
<1> HIDE DEF w
<1>. QED
  BY <1>5, <1>8, <1>9, EndLined

\* poll_rx.
LEMMA PollLined ==
  ASSUME RingMod \div 2 <= DoneMax, MaxDelay < RxHold, LinkInv, InRange(fec), NEW f \in BlockId,
         NEW z, Kept(z, f, fec), NEW a, Airborne(z, a),
         NEW D, D \subseteq Pkt(z), Once(z, f, a, D, ClearResults(fec)),
         NEW W, NEW H, Lined(f, H, D, W, ClearResults(fec)), Gapped(ClearResults(fec), {}),
         poll_rx, NEW t, t = fec'
  PROVE  Lined(f, H, D, W, t) /\ Gapped(t, {})
<1> DEFINE c == ClearResults(fec)
<1>1. t \in ExpireThenEmit(c)
  BY DEF poll_rx
<1>2. RxOK(fec) /\ RxOK(c) /\ SameTrack(fec, c)
  <2>1. RxOK(fec)
    BY DEF LinkInv, Rested, RxOK
  <2>. QED
    BY <2>1, ClearResultsRange DEF ClearResults, SameTrack, RxOK, QueueOK, Fields
<1>3. Once(z, f, a, D, c) /\ Lined(f, H, D, W, c) /\ Gapped(c, {}) /\ D \subseteq Nat \X Nat
  BY DEF Pkt
<1> HIDE DEF c
<1>4. CASE fec.emit_base_set
  <2>1. OnTrack(z, f, c)
    BY <1>2, <1>4, SameTrackOK DEF Kept
  <2>. QED
    BY <1>1, <1>3, <2>1, EndLined
<1>5. CASE ~fec.emit_base_set
  <2>1. ~c.emit_base_set /\ c.done = <<>>
    BY <1>2, <1>3, <1>5 DEF Once, SameTrack
  <2>2. /\ DOMAIN c.rx_blocks = {} /\ DOMAIN t.rx_blocks = {} /\ DOMAIN t.ready_blocks = {}
        /\ t.out = c.out /\ t.lost = c.lost /\ t.emit_next = c.emit_next
    BY <1>1, <1>2, <2>1, IdleEnd
  <2>3. \A p : Shown(f, t, p) <=> Shown(f, c, p)
    BY <2>2 DEF Shown
  <2>4. Lined(f, H, D, W, t)
    BY <1>3, <2>2, <2>3 DEF Lined
  <2>5. Gapped(t, {})
    BY <2>2 DEF Gapped, Whole
  <2>. QED
    BY <2>4, <2>5
<1>. QED
  BY <1>4, <1>5

\* What a call has shown is shown before the next.
LEMMA CallDoneLined ==
  ASSUME NEW f, NEW H, NEW D, NEW W, NEW s, DOMAIN s = Fields, Lined(f, H, D, W, s), Gapped(s, {}),
         NEW G
  PROVE  /\ Lined(f, G, D \cup ToSet(s.out), W \cup s.lost, ClearResults(s))
         /\ Gapped(ClearResults(s), {})
<1> DEFINE t == ClearResults(s)
           V == W \cup s.lost
<1>1. /\ t.out = <<>> /\ t.lost = {} /\ t.rx_blocks = s.rx_blocks
      /\ t.ready_blocks = s.ready_blocks /\ t.emit_next = s.emit_next
  BY DEF ClearResults, Fields
<1> HIDE DEF t
<1>2. ToSet(<<>>) = {} /\ Len(<<>>) = 0
  BY DEF ToSet
<1>3. \A p : Shown(f, s, p) => Shown(f, t, p)
  BY <1>1 DEF Shown
<1>4. \A p \in D \cup ToSet(s.out) : Shown(f, t, p) \/ Broken(p, V)
  <2>1. W \subseteq V
    OBVIOUS
  <2> HIDE DEF V
  <2>2. \A p : Broken(p, W) => Broken(p, V)
    BY <2>1, BrokenMore
  <2>. QED
    BY <1>3, <2>2 DEF Lined, V
<1> HIDE DEF V
<1>5. 1 .. Len(t.out) = {} /\ ToSet(t.out) = {}
  BY <1>1, <1>2
<1>6. Lined(f, G, D \cup ToSet(s.out), V, t)
  BY <1>4, <1>5 DEF Lined
<1>7. Gapped(t, {})
  BY <1>1 DEF Gapped, Whole
<1>. QED
  BY <1>6, <1>7 DEF t, V

\* The place of the head, once there is one.
HeadPlace(f) == IF fec.emit_base_set THEN Place(f, fec.emit_next) ELSE 0

\* What has been returned in the session came in turn.
InLine(f) ==
  /\ Younger(sent, air)
  /\ Lined(f, HeadPlace(f), delivered, written_off, ClearResults(fec)) /\ Gapped(fec, {})

\* What has come out in the session so far came in turn, with all it rests on.
OrderInv ==
  \E f \in BlockId : OneSession => Session(f) /\ Kept(sent, f, fec) /\ Flown(f) /\ InLine(f)

\* Clearing the results clears no block.
LEMMA ClearGapped ==
  ASSUME NEW s, DOMAIN s = Fields
  PROVE  Gapped(s, {}) <=> Gapped(ClearResults(s), {})
<1>1. /\ ClearResults(s).rx_blocks = s.rx_blocks
      /\ ClearResults(s).ready_blocks = s.ready_blocks
  BY DEF ClearResults, Fields
<1>. QED
  BY <1>1 DEF Gapped, Whole

\* A link on which nothing has been sent.
LEMMA OrderStarts ==
  ASSUME LinkInit
  PROVE  OrderInv
<1>1. PICK f \in BlockId : OneSession => Session(f) /\ Kept(sent, f, fec) /\ Flown(f)
  BY OnceStarts DEF OnceInv
<1> DEFINE s == ClearResults(fec)
<1>2. /\ DOMAIN fec.rx_blocks = {} /\ DOMAIN fec.ready_blocks = {} /\ s.out = <<>>
      /\ delivered = {} /\ DOMAIN air = {}
  BY DEF LinkInit, RxInit, ClearResults, Cleared, EmptyMap
<1> HIDE DEF s
<1>3. 1 .. Len(s.out) = {} /\ ToSet(s.out) = {}
  <2>1. 1 .. Len(<<>>) = {} /\ ToSet(<<>>) = {}
    BY DEF ToSet
  <2>. QED
    BY <1>2, <2>1
<1>4. Lined(f, HeadPlace(f), delivered, written_off, s)
  BY <1>2, <1>3 DEF Lined
<1>5. Gapped(fec, {}) /\ Younger(sent, air)
  BY <1>2 DEF Gapped, Whole, Younger
<1>6. InLine(f)
  BY <1>4, <1>5 DEF InLine, s
<1>. QED
  BY <1>1, <1>6 DEF OrderInv

\* A receiver's call returns in turn.
LEMMA CallLined ==
  ASSUME RingMod \div 2 <= DoneMax, MaxDelay < RxHold, MaxReorder <= EvictDist,
         LinkInv, InRange(fec), NEW f \in BlockId, Session(f), Len(sent) < RingMod \div 2,
         Kept(sent, f, fec), Flown(f), InLine(f),
         Poll \/ \E b \in DOMAIN air : \E i \in IndexesSent(b) : Arrive(b, i)
  PROVE  Lined(f, HeadPlace(f), delivered, written_off, fec') /\ Gapped(fec', {})
<1>1. PICK z : z = sent
  OBVIOUS
<1>2. PICK a : a = air
  OBVIOUS
<1>3. PICK D : D = delivered
  OBVIOUS
<1>4. PICK t : t = fec'
  OBVIOUS
<1>5. PICK W : W = written_off
  OBVIOUS
<1>6. PICK H : H = HeadPlace(f)
  OBVIOUS
<1>7. DOMAIN fec = Fields
  BY DEF LinkInv, Rested, QueueOK
<1>8. /\ Airborne(z, a) /\ Once(z, f, a, D, ClearResults(fec)) /\ Kept(z, f, fec)
      /\ D \subseteq Pkt(z) /\ Younger(z, a)
      /\ Lined(f, H, D, W, ClearResults(fec)) /\ Gapped(fec, {})
      /\ Gapped(ClearResults(fec), {})
  BY <1>1, <1>2, <1>3, <1>5, <1>6, <1>7, ClearGapped DEF Flown, InLine
<1>9. fec.emit_base_set => H = Place(f, fec.emit_next)
  BY <1>6 DEF HeadPlace
<1>10. ASSUME Poll PROVE Lined(f, H, D, W, t) /\ Gapped(t, {})
  <2>1. poll_rx
    BY <1>10 DEF Poll
  <2>. QED
    BY <1>4, <1>8, <2>1, PollLined
<1>11. ASSUME NEW b \in DOMAIN air, NEW i \in IndexesSent(b), Arrive(b, i)
       PROVE  Lined(f, H, D, W, t) /\ Gapped(t, {})
  <2>1. push_air(ShardOf(b, i))
    BY <1>11 DEF Arrive
  <2>. QED
    BY <1>1, <1>2, <1>4, <1>8, <1>9, <2>1, PushLined
<1>12. Lined(f, H, D, W, t) /\ Gapped(t, {})
  BY <1>10, <1>11
<1>. QED
  BY <1>3, <1>4, <1>5, <1>6, <1>12

\* A block just sent is the newest and the youngest.
LEMMA SendYounger ==
  ASSUME LinkInv, NEW f \in BlockId, Session(f), Flown(f), Younger(sent, air), SendBlock
  PROVE  Younger(sent', air')
<1>1. PICK n \in SduCounts : sent' = Append(sent, [id |-> block_id, sdu |-> n])
  BY DEF SendBlock
<1>2. sent \in Seq([id : BlockId, sdu : SduCounts]) /\ Len(sent) \in Nat
  BY LenProperties DEF LinkInv, SenderOK
<1>3. PICK z : z = sent
  OBVIOUS
<1>4. PICK y : y = sent'
  OBVIOUS
<1>5. PICK a : a = air
  OBVIOUS
<1>6. PICK e : e = air'
  OBVIOUS
<1> DEFINE l == Len(z)
           kept == {b \in DOMAIN a : l - b <= MaxReorder}
<1>7. l \in Nat /\ Len(y) = l + 1
  BY <1>1, <1>2, <1>3, <1>4
<1>8. e = With([b \in kept |-> a[b]], l, 0)
  BY <1>3, <1>5, <1>6 DEF SendBlock
<1>9. \A b \in DOMAIN a : b \in Nat /\ b < l /\ a[b] \in Nat
  BY <1>3, <1>5 DEF Flown, Airborne
<1>10. Younger(z, a)
  BY <1>3, <1>5
<1>11. MaxReorder \in Nat
  BY LinkAssumption
<1> HIDE DEF l, kept
<1>12. DOMAIN e = kept \cup {l} /\ e[l] = 0 /\ \A b \in kept : b # l => e[b] = a[b]
  BY <1>8 DEF With
<1>13. \A b \in kept : b \in DOMAIN a /\ b \in Nat /\ b < l /\ a[b] \in Nat /\ l - b <= MaxReorder
  BY <1>9 DEF kept
<1>14. ASSUME NEW b \in DOMAIN e, NEW c \in b .. l PROVE c \in DOMAIN e /\ e[c] <= e[b]
  <2>1. CASE c = l
    <3>1. e[b] \in Nat
      BY <1>12, <1>13
    <3>. QED
      BY <1>12, <2>1, <3>1
  <2>2. CASE c # l
    <3>1. b \in kept /\ b # l
      BY <1>7, <1>12, <2>2
    <3>2. b \in DOMAIN a /\ b \in Nat /\ b < l /\ l - b <= MaxReorder
      BY <1>13, <3>1
    <3>3. c \in b .. l - 1 /\ c \in Nat /\ l - c <= MaxReorder
      BY <1>7, <1>11, <2>2, <3>2
    <3>4. c \in DOMAIN a /\ a[c] <= a[b]
      BY <1>10, <3>2, <3>3 DEF Younger, l
    <3>5. c \in kept
      BY <3>3, <3>4 DEF kept
    <3>. QED
      BY <1>12, <2>2, <3>1, <3>4, <3>5
  <2>. QED
    BY <2>1, <2>2
<1>15. Len(y) - 1 = l
  BY <1>7
<1>16. Younger(y, e)
  BY <1>14, <1>15 DEF Younger
<1>. QED
  BY <1>4, <1>6, <1>16

\* flush() puts the next block on the air.
LEMMA SendInLine ==
  ASSUME LinkInv, NEW f \in BlockId, Session(f), Flown(f), InLine(f), SendBlock
  PROVE  InLine(f)'
<1>1. Younger(sent', air')
  BY SendYounger DEF InLine
<1>2. fec' = fec /\ delivered' = delivered /\ written_off' = written_off
  BY DEF SendBlock
<1>. QED
  BY <1>1, <1>2 DEF InLine, HeadPlace

\* Time passes for both ends.
LEMMA TickInLine ==
  ASSUME LinkInv, InRange(fec), NEW f \in BlockId, Flown(f), InLine(f), TimePasses
  PROVE  InLine(f)'
<1> DEFINE s == ClearResults(fec)
           q == [j \in 1 .. Len(s.done) |-> [s.done[j] EXCEPT !.age = Older(@)]]
           r == [b \in DOMAIN s.rx_blocks |-> [s.rx_blocks[b] EXCEPT !.last_seen = Older(@)]]
<1>1. RxOK(s) /\ s.lost = {} /\ s.out = <<>> /\ DOMAIN fec = Fields
  <2>1. RxOK(fec) /\ DOMAIN fec = Fields
    BY DEF LinkInv, Rested, RxOK, QueueOK
  <2>. QED
    BY <2>1, ClearResultsRange DEF ClearResults, RxOK, QueueOK, Fields
<1>2. PICK t : t = fec'
  OBVIOUS
<1>3. PICK D : D = delivered
  OBVIOUS
<1>4. PICK W : W = written_off
  OBVIOUS
<1>5. PICK H : H = HeadPlace(f)
  OBVIOUS
<1>6. PICK G : G = HeadPlace(f)'
  OBVIOUS
<1>7. Lined(f, H, D, W, s) /\ Gapped(s, {})
  BY <1>1, <1>3, <1>4, <1>5, ClearGapped DEF InLine
<1> HIDE DEF s
<1>8. fec' = [s EXCEPT
                !.last_payload_emit = Older(@),
                !.last_shard_rx     = Older(@),
                !.later_block_since = Older(@),
                !.done              = q,
                !.rx_blocks         = r]
  BY DEF TimePasses, Tick, s
<1> HIDE DEF q, r
<1>9. /\ t.out = s.out /\ t.lost = s.lost /\ t.emit_next = s.emit_next
      /\ t.ready_blocks = s.ready_blocks /\ t.rx_blocks = r /\ DOMAIN t = Fields
  BY <1>1, <1>2, <1>8 DEF RxOK, QueueOK, Fields
<1>10. DOMAIN t.rx_blocks = DOMAIN s.rx_blocks
  BY <1>9 DEF r
<1>11. ASSUME NEW c \in DOMAIN s.rx_blocks
       PROVE  /\ t.rx_blocks[c].frags = s.rx_blocks[c].frags
              /\ t.rx_blocks[c].sdu = s.rx_blocks[c].sdu
              /\ t.rx_blocks[c].released = s.rx_blocks[c].released
  <2> DEFINE blk == s.rx_blocks[c]
             new == t.rx_blocks[c]
  <2>1. new = [blk EXCEPT !.last_seen = Older(@)] /\ BlockOK(blk)
    BY <1>1, <1>9 DEF RxOK, InRange, r
  <2> HIDE DEF blk, new
  <2>2. new.frags = blk.frags /\ new.sdu = blk.sdu /\ new.released = blk.released
    BY <2>1 DEF BlockOK, BlockFields
  <2>. QED
    BY <2>2 DEF blk, new
<1>12. \A p : Shown(f, t, p) <=> Shown(f, s, p)
  BY <1>9, <1>10, <1>11 DEF Shown
<1>13. Lined(f, H, D, W, t)
  BY <1>7, <1>9, <1>12 DEF Lined
<1>14. Gapped(t, {})
  <2>1. Whole(t)
    BY <1>7, <1>10, <1>11 DEF Gapped, Whole
  <2>2. \A c \in DOMAIN t.rx_blocks : Streamed(t.rx_blocks[c]) /\ Lacks(t.rx_blocks[c])
    BY <1>7, <1>10, <1>11 DEF Gapped, Streamed, Lacks
  <2>. QED
    BY <2>1, <2>2 DEF Gapped
<1>15. Lined(f, G, D, W, ClearResults(t))
  <2>1. ToSet(<<>>) = {}
    BY DEF ToSet
  <2>2. D \cup ToSet(t.out) = D /\ W \cup t.lost = W
    BY <1>1, <1>9, <2>1
  <2>. QED
    BY <1>9, <1>13, <1>14, <2>2, CallDoneLined
<1>16. Younger(sent, air')
  <2>1. PICK a : a = air
    OBVIOUS
  <2>2. PICK e : e = air'
    OBVIOUS
  <2>3. PICK z : z = sent
    OBVIOUS
  <2>4. /\ DOMAIN e = {c \in DOMAIN a : a[c] < MaxDelay}
        /\ \A c \in DOMAIN e : e[c] = a[c] + 1
    BY <2>1, <2>2 DEF TimePasses
  <2>5. Younger(z, a) /\ \A c \in DOMAIN a : a[c] \in Nat
    BY <2>1, <2>3 DEF InLine, Flown, Airborne
  <2>6. MaxDelay \in Nat
    BY LinkAssumption
  <2>7. ASSUME NEW b \in DOMAIN e, NEW c \in b .. Len(z) - 1 PROVE c \in DOMAIN e /\ e[c] <= e[b]
    <3>1. b \in DOMAIN a /\ a[b] < MaxDelay /\ a[b] \in Nat
      BY <2>4, <2>5
    <3>2. c \in DOMAIN a /\ a[c] <= a[b] /\ a[c] \in Nat
      BY <2>5, <3>1 DEF Younger
    <3>3. a[c] < MaxDelay /\ a[c] + 1 <= a[b] + 1
      BY <2>6, <3>1, <3>2
    <3>. QED
      BY <2>4, <3>2, <3>3
  <2>8. Younger(z, e)
    BY <2>7 DEF Younger
  <2>. QED
    BY <2>2, <2>3, <2>8
<1>17. sent' = sent /\ delivered' = D /\ written_off' = W
  BY <1>3, <1>4 DEF TimePasses
<1>. QED
  BY <1>2, <1>6, <1>14, <1>15, <1>16, <1>17 DEF InLine

\* Every step of the session goes on with it.
LEMMA OrderStep ==
  ASSUME RingMod \div 2 <= DoneMax, MaxDelay < RxHold, MaxReorder <= EvictDist,
         LinkInv, InRange(fec), OrderInv, [LinkNext]_vars
  PROVE  OrderInv'
<1>1. PICK f \in BlockId :
         OneSession => Session(f) /\ Kept(sent, f, fec) /\ Flown(f) /\ InLine(f)
  BY DEF OrderInv
<1> SUFFICES ASSUME OneSession'
             PROVE  Session(f)' /\ Kept(sent', f, fec') /\ Flown(f)' /\ InLine(f)'
  BY DEF OrderInv
<1>2. OneSession /\ Session(f)' /\ Kept(sent', f, fec') /\ Flown(f)'
  BY <1>1, FlownStep
<1>3. /\ Session(f) /\ Kept(sent, f, fec) /\ Flown(f) /\ InLine(f)
      /\ Len(sent) < RingMod \div 2
  BY <1>1, <1>2 DEF OneSession
<1>4. CASE UNCHANGED vars
  <2>1. UNCHANGED <<fec, sent, air, delivered, written_off>>
    BY <1>4 DEF vars, link
  <2>2. InLine(f)'
    BY <1>3, <2>1 DEF InLine, HeadPlace
  <2>. QED
    BY <1>2, <2>2
<1>5. ASSUME Restart PROVE FALSE
  BY <1>5 DEF Restart, OneSession
<1>6. CASE SendBlock
  BY <1>2, <1>3, <1>6, SendInLine
<1>7. CASE TimePasses
  BY <1>2, <1>3, <1>7, TickInLine
<1>8. CASE Poll \/ \E b \in DOMAIN air : \E i \in IndexesSent(b) : Arrive(b, i)
  <2>1. Lined(f, HeadPlace(f), delivered, written_off, fec') /\ Gapped(fec', {})
    BY <1>3, <1>8, CallLined
  <2>2. Account /\ UNCHANGED link
    BY <1>8 DEF Poll, Arrive
  <2>3. PICK t : t = fec'
    OBVIOUS
  <2>4. DOMAIN t = Fields
    BY <2>3, LinkStep DEF LinkInv, Rested, QueueOK
  <2>5. PICK H : H = HeadPlace(f)
    OBVIOUS
  <2>6. PICK G : G = HeadPlace(f)'
    OBVIOUS
  <2>7. Lined(f, H, delivered, written_off, t) /\ Gapped(t, {})
    BY <2>1, <2>3, <2>5
  <2>8. Lined(f, G, delivered \cup ToSet(t.out), written_off \cup t.lost, ClearResults(t))
    BY <2>4, <2>7, CallDoneLined
  <2>9. Younger(sent', air')
    BY <1>3, <2>2 DEF InLine, link
  <2>10. InLine(f)'
    BY <2>2, <2>3, <2>6, <2>7, <2>8, <2>9 DEF InLine, Account
  <2>. QED
    BY <1>2, <2>10
<1>. QED
  BY <1>4, <1>5, <1>6, <1>7, <1>8 DEF LinkNext

\* The packet p comes out in turn, or the head has passed its block, or its block was given up.
TurnOf(p, j) ==
  \/ fec.emit_base_set /\ dist_from_emit(fec, RingIdOf(p)) < 0
  \/ Broken(p, written_off')
  \/ /\ \A q \in delivered : Before(q, p) \/ Broken(q, written_off)
     /\ \A l \in 1 .. j - 1 : Before(fec'.out[l], p) \/ Broken(fec'.out[l], written_off')

\* A packet of a block before the head is behind it.
LEMMA BehindHead ==
  ASSUME LinkInv, NEW f \in BlockId, Session(f), Kept(sent, f, fec),
         NEW p \in Pkt(sent), p[1] < HeadPlace(f)
  PROVE  fec.emit_base_set /\ dist_from_emit(fec, RingIdOf(p)) < 0
<1>1. sent \in Seq([id : BlockId, sdu : SduCounts]) /\ Len(sent) \in Nat
  BY LenProperties DEF LinkInv, SenderOK
<1> DEFINE b == p[1]
           l == Len(sent)
<1>2. b \in 0 .. l - 1 /\ RingIdOf(p) = sent[b + 1].id
  BY DEF Pkt, RingIdOf
<1> HIDE DEF b, l
<1>3. b \in Nat /\ b < l /\ b + 1 \in 1 .. l /\ (b + 1) - 1 = b /\ l \in Nat
  BY <1>1, <1>2 DEF l
<1>4. sent[b + 1] \in [id : BlockId, sdu : SduCounts]
  BY <1>1, <1>3, ElementOfSeq DEF l
<1>5. RingIdOf(p) \in BlockId /\ Place(f, RingIdOf(p)) = b
  BY <1>2, <1>3, <1>4 DEF Session, l
<1>6. b < HeadPlace(f)
  BY DEF b
<1>7. fec.emit_base_set
  BY <1>3, <1>6 DEF HeadPlace
<1>8. OnTrack(sent, f, fec) /\ HeadPlace(f) = Place(f, fec.emit_next)
  BY <1>7 DEF Kept, HeadPlace
<1>9. dist_from_emit(fec, RingIdOf(p)) = b - HeadPlace(f) /\ HeadPlace(f) \in Nat
  <2>1. PICK x : x = fec
    OBVIOUS
  <2>2. PICK z : z = sent
    OBVIOUS
  <2>3. PICK c \in BlockId : c = RingIdOf(p)
    BY <1>5
  <2>4. OnTrack(z, f, x) /\ Place(f, c) = b /\ Place(f, c) < Len(z)
    BY <1>3, <1>5, <1>8, <2>1, <2>2, <2>3 DEF l
  <2>5. ring_dist(c, x.emit_next) = b - Place(f, x.emit_next) /\ Place(f, x.emit_next) \in Nat
    BY <2>4, TrackDist, TrackPlaces
  <2>. QED
    BY <1>8, <2>1, <2>3, <2>5 DEF dist_from_emit
<1>10. dist_from_emit(fec, RingIdOf(p)) < 0
  BY <1>3, <1>6, <1>9
<1>. QED
  BY <1>7, <1>10

\* What a step returns.
LEMMA OrderShown ==
  ASSUME RingMod \div 2 <= DoneMax, MaxDelay < RxHold, MaxReorder <= EvictDist,
         LinkInv, InRange(fec), OrderInv, OneSession, [LinkNext]_vars
  PROVE  [\A j \in 1 .. Len(fec'.out) : TurnOf(fec'.out[j], j)]_fec
<1>1. PICK f \in BlockId : Session(f) /\ Kept(sent, f, fec) /\ Flown(f) /\ InLine(f)
  BY DEF OrderInv
<1>2. Len(sent) < RingMod \div 2
  BY DEF OneSession
<1>3. CASE UNCHANGED vars \/ SendBlock \/ Restart
  BY <1>3 DEF vars, SendBlock, Restart
<1>4. CASE TimePasses
  <2>1. fec'.out = <<>>
    <3> DEFINE s == ClearResults(fec)
    <3>1. DOMAIN s = Fields /\ s.out = <<>>
      BY DEF ClearResults, LinkInv, Rested, QueueOK, Fields
    <3> HIDE DEF s
    <3>. QED
      BY <1>4, <3>1 DEF TimePasses, Tick, s, Fields
  <2>2. 1 .. Len(<<>>) = {}
    OBVIOUS
  <2>. QED
    BY <2>1, <2>2
<1>5. CASE Poll \/ \E b \in DOMAIN air : \E i \in IndexesSent(b) : Arrive(b, i)
  <2>1. Lined(f, HeadPlace(f), delivered, written_off, fec')
    BY <1>1, <1>2, <1>5, CallLined
  <2>2. Once(sent, f, air, delivered, fec') /\ Account
    BY <1>1, <1>2, <1>5, CallOnce
  <2>3. fec'.out \in Seq(Pkt(sent))
    BY <2>2 DEF Once, FreshOut
  <2>4. written_off' = written_off \cup fec'.lost
    BY <2>2 DEF Account
  <2>5. ASSUME NEW j \in 1 .. Len(fec'.out) PROVE TurnOf(fec'.out[j], j)
    <3>1. PICK o : o = fec'.out
      OBVIOUS
    <3>2. o[j] \in Pkt(sent)
      BY <2>3, <3>1, ElementOfSeq
    <3>3. InTurn(HeadPlace(f), delivered, written_off, written_off', o, j)
      BY <2>1, <2>4, <3>1 DEF Lined
    <3>4. CASE o[j][1] < HeadPlace(f)
      <4>1. PICK p \in Pkt(sent) : p = o[j]
        BY <3>2
      <4>2. fec.emit_base_set /\ dist_from_emit(fec, RingIdOf(p)) < 0
        BY <1>1, <3>4, <4>1, BehindHead
      <4>. QED
        BY <3>1, <4>1, <4>2 DEF TurnOf
    <3>5. CASE ~(o[j][1] < HeadPlace(f))
      BY <3>1, <3>3, <3>5 DEF InTurn, TurnOf
    <3>. QED
      BY <3>4, <3>5
  <2>. QED
    BY <2>5
<1>. QED
  BY <1>3, <1>4, <1>5 DEF LinkNext

\* CompleteBlocksInOrder along one session shorter than half the ring, on a link as NeverTwice
\* requires: between calls a block being collected lacks a packet, so one that is given up has
\* counted it lost; and the head goes back only after a silence of rx_hold_ms, when no shard of
\* a block that has been returned can come any more.
THEOREM OrderKept ==
  ASSUME MaxReorder <= EvictDist, MaxDelay < RxHold, RingMod \div 2 <= DoneMax
  PROVE  LinkSpec /\ []OneSession => CompleteBlocksInOrder
<1> DEFINE Inv == LinkInv /\ InRange(fec) /\ OrderInv
<1>1. LinkInit => Inv
  BY LinkStarts, ClearedRange, OrderStarts DEF LinkInit, RxInit
<1>2. Inv /\ [LinkNext]_vars => Inv'
  BY LinkStep, RangeStep, OrderStep
<1>3. Inv /\ OneSession /\ [LinkNext]_vars =>
        [\A j \in 1 .. Len(fec'.out) :
           \/ fec.emit_base_set /\ dist_from_emit(fec, RingIdOf(fec'.out[j])) < 0
           \/ Broken(fec'.out[j], written_off')
           \/ /\ \A p \in delivered : Before(p, fec'.out[j]) \/ Broken(p, written_off)
              /\ \A l \in 1 .. j - 1 : \/ Before(fec'.out[l], fec'.out[j])
                                       \/ Broken(fec'.out[l], written_off')]_fec
  BY OrderShown DEF TurnOf
<1>. QED
  BY <1>1, <1>2, <1>3, PTL DEF LinkSpec, CompleteBlocksInOrder
================================================================================
