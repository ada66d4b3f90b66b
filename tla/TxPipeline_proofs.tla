-------------------------- MODULE TxPipeline_proofs --------------------------
(***************************************************************************)
(* The transmit pipeline, for any number of slots, workers and frames, any *)
(* depth of the queues, and a camera that comes and goes at any moment.    *)
(*                                                                         *)
(* First the encoder: EncInv(e) says that its slots, the capture times     *)
(* kept with them and the frames in MPP agree, and one lemma per operator  *)
(* shows that it stays so.  Then the pipeline: types, stamps, and the IDR  *)
(* that begins a new size.  Last the order: the frames under way are one   *)
(* line of eight parts, and each step moves one frame along it, adds one   *)
(* at its end or takes some out.                                           *)
(***************************************************************************)
EXTENDS TxPipeline, SequenceTheorems, TLAPS

Sizes == {CameraSize, NoiseSize}
Rates == {CameraFps, NoiseFps}
Srcs  == {"camera", "noise"}
Slot  == 1 .. EncSlots
Stamp == {"camera", "noise", "none"} \X Nat

Picture == [src : Srcs, n : Nat, size : Sizes]
Coded   == [src : Srcs, n : Nat, size : Sizes, key : BOOLEAN]
Au      == [src : Srcs, n : Nat, size : Sizes, key : BOOLEAN, capture : Stamp]

Encoder ==
  [size : Sizes, fps : Rates, live : Sizes \cup {0}, reopen_req : BOOLEAN,
   idr : BOOLEAN, first : BOOLEAN,
   free : Seq(Slot), pending : Seq(Slot), stamp : [Slot -> Stamp],
   mpp : Seq(Coded), packets : Seq(Coded)]

\* The slots are shared out between free and pending, each in one place.
SlotsApart(free, pending) ==
  /\ Len(free) + Len(pending) = EncSlots
  /\ Range(free) \cup Range(pending) = Slot
  /\ \A i, j \in DOMAIN free : i # j => free[i] # free[j]
  /\ \A i, j \in DOMAIN pending : i # j => pending[i] # pending[j]
  /\ \A i \in DOMAIN free, j \in DOMAIN pending : free[i] # pending[j]

\* The slots from the at-th pending one on carry the capture times of q.
Stamped(e, q, at) ==
  \A i \in DOMAIN q : e.stamp[e.pending[at + i]] = <<q[i].src, q[i].n>>

OfSize(q, size) == \A i \in DOMAIN q : q[i].size = size

EncInv(e) ==
  /\ SlotsApart(e.free, e.pending)
  /\ Len(e.pending) = Len(e.packets) + Len(e.mpp)
  /\ Stamped(e, e.packets, 0)
  /\ Stamped(e, e.mpp, Len(e.packets))
  /\ OfSize(e.packets, e.live) /\ OfSize(e.mpp, e.live)
  /\ e.live \in Sizes

LEMMA SlotsAre == EncSlots \in Nat \ {0} /\ MppFrames \in Nat \ {0}
BY EncoderAssumption

\* A function on 1 .. n is a list of length n.
LEMMA ASeq ==
  ASSUME NEW S, NEW n \in Nat, NEW q \in [1 .. n -> S]
  PROVE  q \in Seq(S) /\ Len(q) = n /\ DOMAIN q = 1 .. n
<1>1. q \in Seq(S)
  BY SeqDef
<1>. QED
  BY <1>1, LenProperties

\* An encoder that has just been opened.
LEMMA OpenOK ==
  ASSUME NEW size \in Sizes, NEW fps \in Rates, NEW idr \in BOOLEAN
  PROVE  encoder_open(size, fps, idr) \in Encoder /\ EncInv(encoder_open(size, fps, idr))
<1> DEFINE e    == encoder_open(size, fps, idr)
           free == [i \in 1 .. EncSlots |-> i]
           st   == [i \in 1 .. EncSlots |-> NoStamp]
<1>1. free \in Seq(Slot) /\ Len(free) = EncSlots /\ DOMAIN free = Slot
  <2>1. free \in [1 .. EncSlots -> Slot]
    BY DEF Slot
  <2> HIDE DEF free
  <2>. QED
    BY <2>1, ASeq, SlotsAre DEF Slot
<1>2. st \in [Slot -> Stamp]
  BY DEF Slot, Stamp, NoStamp
<1>3. e = [size |-> size, fps |-> fps, live |-> size, reopen_req |-> FALSE, idr |-> idr, first |-> TRUE,
           free |-> free, pending |-> <<>>, stamp |-> st, mpp |-> <<>>, packets |-> <<>>]
  BY DEF encoder_open
<1>4. \A i \in Slot : free[i] = i
  BY DEF Slot
<1> HIDE DEF free, st, e
<1>5. e \in Encoder
  BY <1>1, <1>2, <1>3 DEF Encoder
<1>6. SlotsApart(e.free, e.pending)
  <2>1. Range(free) = Slot
    BY <1>1, <1>4 DEF Range
  <2>2. Range(<<>>) = {}
    BY DEF Range
  <2>3. Len(free) + 0 = EncSlots
    BY <1>1, SlotsAre
  <2>. QED
    BY <1>1, <1>3, <1>4, <2>1, <2>2, <2>3 DEF SlotsApart
<1>7. EncInv(e)
  BY <1>3, <1>6 DEF EncInv, Stamped, OfSize
<1>. QED
  BY <1>5, <1>7 DEF e

\* A change of the settings touches no slot and no frame.
LEMMA SettingsOK ==
  ASSUME NEW e \in Encoder, NEW size \in Sizes, NEW fps \in Rates, NEW key
  PROVE  /\ configure_size(e, size) \in Encoder
         /\ EncInv(e) => EncInv(configure_size(e, size))
         /\ configure_fps(e, fps) \in Encoder
         /\ EncInv(e) => EncInv(configure_fps(e, fps))
         /\ configure_live(e, key) \in Encoder
         /\ EncInv(e) => EncInv(configure_live(e, key))
<1>1. ASSUME NEW f, f \in Encoder, f.live = e.live, f.free = e.free, f.pending = e.pending,
             f.stamp = e.stamp, f.mpp = e.mpp, f.packets = e.packets
      PROVE  EncInv(e) => EncInv(f)
  BY <1>1 DEF EncInv, Stamped
<1> DEFINE f == configure_size(e, size)
           h == configure_fps(e, fps)
           g == configure_live(e, key)
<1>2. f \in Encoder /\ f.live = e.live /\ f.free = e.free /\ f.pending = e.pending
      /\ f.stamp = e.stamp /\ f.mpp = e.mpp /\ f.packets = e.packets
  BY DEF configure_size, Encoder
<1>3. g \in Encoder /\ g.live = e.live /\ g.free = e.free /\ g.pending = e.pending
      /\ g.stamp = e.stamp /\ g.mpp = e.mpp /\ g.packets = e.packets
  BY DEF configure_live, Encoder
<1>4. h \in Encoder /\ h.live = e.live /\ h.free = e.free /\ h.pending = e.pending
      /\ h.stamp = e.stamp /\ h.mpp = e.mpp /\ h.packets = e.packets
  BY DEF configure_fps, Encoder
<1> HIDE DEF f, g, h
<1>. QED
  BY <1>1, <1>2, <1>3, <1>4 DEF f, g, h

\* Reopening leaves a fresh encoder, or the one there was.
LEMMA ReopenOK ==
  ASSUME NEW e \in Encoder, EncInv(e)
  PROVE  /\ reopen_if_needed(e) \in Encoder /\ EncInv(reopen_if_needed(e))
         /\ \/ reopen_if_needed(e) = e
            \/ /\ reopen_if_needed(e).packets = <<>> /\ reopen_if_needed(e).mpp = <<>>
               /\ reopen_if_needed(e).first
<1> DEFINE c == encoder_close(e)
<1>1. /\ c.size = e.size /\ c.fps = e.fps /\ c.idr = e.idr
      /\ e.size \in Sizes /\ e.fps \in Rates /\ e.idr \in BOOLEAN
  BY DEF encoder_close, Encoder
<1>2. reopen_if_needed(e) \in {e, encoder_open(c.size, c.fps, c.idr)}
  BY DEF reopen_if_needed
<1>3. /\ encoder_open(c.size, c.fps, c.idr).packets = <<>>
      /\ encoder_open(c.size, c.fps, c.idr).mpp = <<>>
      /\ encoder_open(c.size, c.fps, c.idr).first
  BY DEF encoder_open
<1> HIDE DEF c
<1>. QED
  BY <1>1, <1>2, <1>3, OpenOK


\* aus are the access units of the packets of e.
UnitsOf(aus, e) ==
  /\ aus \in Seq(Au) /\ Len(aus) = Len(e.packets)
  /\ \A i \in DOMAIN e.packets :
       /\ aus[i].src = e.packets[i].src /\ aus[i].n = e.packets[i].n
       /\ aus[i].key = e.packets[i].key /\ aus[i].size = e.live
       /\ aus[i].capture = <<e.packets[i].src, e.packets[i].n>>

\* What free and pending are when the m oldest slots of pending have become free.
FreeThen(free, pending, m) == free \o SubSeq(pending, 1, m)
PendingThen(pending, m)    == SubSeq(pending, m + 1, Len(pending))

LEMMA SlotsFreed ==
  ASSUME NEW free \in Seq(Slot), NEW pending \in Seq(Slot), SlotsApart(free, pending),
         NEW m \in 0 .. Len(pending)
  PROVE  /\ FreeThen(free, pending, m) \in Seq(Slot) /\ PendingThen(pending, m) \in Seq(Slot)
         /\ Len(PendingThen(pending, m)) = Len(pending) - m
         /\ \A i \in 1 .. Len(pending) - m : PendingThen(pending, m)[i] = pending[m + i]
         /\ SlotsApart(FreeThen(free, pending, m), PendingThen(pending, m))
<1> DEFINE gone == SubSeq(pending, 1, m)
           more == FreeThen(free, pending, m)
           less == PendingThen(pending, m)
<1>0. more = free \o gone /\ less = SubSeq(pending, m + 1, Len(pending))
  BY DEF FreeThen, PendingThen
<1> HIDE DEF more, less
<1>1. Len(pending) \in Nat /\ Len(free) \in Nat /\ EncSlots \in Nat
  BY LenProperties, SlotsAre
<1>2. gone \in Seq(Slot) /\ Len(gone) = m /\ \A i \in 1 .. m : gone[i] = pending[i]
  BY <1>1, SubSeqProperties
<1>3. less \in Seq(Slot) /\ Len(less) = Len(pending) - m
      /\ \A i \in 1 .. Len(pending) - m : less[i] = pending[m + i]
  BY <1>0, <1>1, SubSeqProperties
<1> HIDE DEF gone
<1>4. /\ more \in Seq(Slot) /\ Len(more) = Len(free) + m
      /\ \A i \in 1 .. Len(free) : more[i] = free[i]
      /\ \A i \in Len(free) + 1 .. Len(free) + m : more[i] = gone[i - Len(free)]
  BY <1>0, <1>1, <1>2, ConcatProperties
<1>5. /\ DOMAIN free = 1 .. Len(free) /\ DOMAIN pending = 1 .. Len(pending)
      /\ DOMAIN more = 1 .. Len(free) + m /\ DOMAIN less = 1 .. Len(pending) - m
  BY <1>3, <1>4, LenProperties
<1>6. \A i \in Len(free) + 1 .. Len(free) + m :
        i - Len(free) \in 1 .. m /\ more[i] = pending[i - Len(free)]
  BY <1>1, <1>2, <1>4
<1>7. \A i \in DOMAIN more :
        \/ i \in DOMAIN free /\ more[i] = free[i]
        \/ i > Len(free) /\ i - Len(free) \in 1 .. m /\ i - Len(free) \in DOMAIN pending
           /\ more[i] = pending[i - Len(free)]
  BY <1>1, <1>4, <1>5, <1>6
<1>8. \A i \in DOMAIN less : m + i \in DOMAIN pending /\ less[i] = pending[m + i]
  BY <1>1, <1>3, <1>5
<1>9. Range(more) \cup Range(less) = Slot
  <2>1. ASSUME NEW s \in Slot PROVE s \in Range(more) \cup Range(less)
    <3>1. CASE s \in Range(free)
      <4>1. PICK i \in DOMAIN free : s = free[i]
        BY <3>1 DEF Range
      <4>2. i \in DOMAIN more /\ more[i] = s
        BY <1>1, <1>4, <1>5, <4>1
      <4>. QED
        BY <4>2 DEF Range
    <3>2. CASE s \in Range(pending)
      <4>1. PICK i \in DOMAIN pending : s = pending[i]
        BY <3>2 DEF Range
      <4>2. CASE i <= m
        <5>1. i + Len(free) \in Len(free) + 1 .. Len(free) + m /\ (i + Len(free)) - Len(free) = i
          BY <1>1, <1>5, <4>1, <4>2
        <5>2. i + Len(free) \in DOMAIN more /\ more[i + Len(free)] = s
          BY <1>1, <1>5, <1>6, <4>1, <5>1
        <5>. QED
          BY <5>2 DEF Range
      <4>3. CASE i > m
        <5>1. i - m \in 1 .. Len(pending) - m /\ m + (i - m) = i
          BY <1>1, <1>5, <4>1, <4>3
        <5>2. i - m \in DOMAIN less /\ less[i - m] = s
          BY <1>3, <1>5, <4>1, <5>1
        <5>. QED
          BY <5>2 DEF Range
      <4>. QED
        BY <1>1, <1>5, <4>1, <4>2, <4>3
    <3>. QED
      BY <3>1, <3>2 DEF SlotsApart
  <2>2. Range(more) \subseteq Slot /\ Range(less) \subseteq Slot
    <3>1. \A i \in DOMAIN more : more[i] \in Slot
      BY <1>4, <1>5, ElementOfSeq
    <3>2. \A i \in DOMAIN less : less[i] \in Slot
      BY <1>3, <1>5, ElementOfSeq
    <3>. QED
      BY <3>1, <3>2 DEF Range
  <2>. QED
    BY <2>1, <2>2
<1>10. \A i, j \in DOMAIN more : i # j => more[i] # more[j]
  BY <1>1, <1>5, <1>7 DEF SlotsApart
<1>11. \A i, j \in DOMAIN less : i # j => less[i] # less[j]
  BY <1>1, <1>5, <1>8 DEF SlotsApart
<1>12. \A i \in DOMAIN more, j \in DOMAIN less : more[i] # less[j]
  BY <1>1, <1>5, <1>7, <1>8 DEF SlotsApart
<1>13. Len(more) + Len(less) = EncSlots
  BY <1>1, <1>3, <1>4 DEF SlotsApart
<1>. QED
  BY <1>3, <1>4, <1>9, <1>10, <1>11, <1>12, <1>13 DEF SlotsApart, more, less

\* A drain takes every packet, with the capture time of its frame.
LEMMA DrainOK ==
  ASSUME NEW e \in Encoder, EncInv(e), NEW d, d = drain_packets(e)
  PROVE  /\ d.e \in Encoder /\ EncInv(d.e) /\ UnitsOf(d.aus, e)
         /\ d.e.packets = <<>> /\ d.e.mpp = e.mpp
         /\ d.e.live = e.live /\ d.e.first = e.first
<1> DEFINE m    == Len(e.packets)
           more == FreeThen(e.free, e.pending, m)
           less == PendingThen(e.pending, m)
           aus  == [i \in 1 .. m |-> ingest_enc_packet(e, i)]
<1>1. /\ e.size \in Sizes /\ e.fps \in Rates /\ e.live \in Sizes \cup {0} /\ e.reopen_req \in BOOLEAN
      /\ e.idr \in BOOLEAN /\ e.first \in BOOLEAN
      /\ e.free \in Seq(Slot) /\ e.pending \in Seq(Slot) /\ e.stamp \in [Slot -> Stamp]
      /\ e.mpp \in Seq(Coded) /\ e.packets \in Seq(Coded)
  BY DEF Encoder
<1>2. m \in Nat /\ Len(e.mpp) \in Nat /\ Len(e.pending) = m + Len(e.mpp)
  BY <1>1, LenProperties DEF EncInv
<1>3. m \in 0 .. Len(e.pending)
  <2> HIDE DEF m
  <2>. QED
    BY <1>2
<1>4. d.aus = aus
      /\ d.e = [e EXCEPT !.packets = <<>>, !.free = more, !.pending = less]
  BY DEF drain_packets, FreeThen, PendingThen
<1>5. DOMAIN e.packets = 1 .. m /\ DOMAIN e.mpp = 1 .. Len(e.mpp)
      /\ DOMAIN e.pending = 1 .. Len(e.pending)
  BY <1>1, LenProperties
<1>6. /\ more \in Seq(Slot) /\ less \in Seq(Slot)
      /\ Len(less) = Len(e.pending) - m
      /\ \A i \in 1 .. Len(e.pending) - m : less[i] = e.pending[m + i]
      /\ SlotsApart(more, less)
  <2>1. SlotsApart(e.free, e.pending)
    BY DEF EncInv
  <2> HIDE DEF m
  <2>. QED
    BY <1>1, <1>3, <2>1, SlotsFreed
<1>7. UnitsOf(aus, e)
  <2>1. ASSUME NEW i \in 1 .. m
        PROVE  /\ aus[i] \in Au
               /\ aus[i].src = e.packets[i].src /\ aus[i].n = e.packets[i].n
               /\ aus[i].key = e.packets[i].key /\ aus[i].size = e.live
               /\ aus[i].capture = <<e.packets[i].src, e.packets[i].n>>
    <3> DEFINE p == e.packets[i]
    <3>1. p \in Coded
      BY <1>1, <1>5, <2>1, ElementOfSeq
    <3>0. i \in DOMAIN e.packets /\ 0 + i = i
      BY <1>2, <1>5, <2>1
    <3>2. p.size = e.live /\ e.stamp[e.pending[0 + i]] = <<p.src, p.n>>
      BY <3>0 DEF EncInv, OfSize, Stamped
    <3>3. e.stamp[e.pending[i]] = <<p.src, p.n>>
      BY <3>0, <3>2
    <3>4. aus[i] = AccessUnit(p, e.stamp[e.pending[i]])
      BY DEF ingest_enc_packet
    <3> HIDE DEF p, aus
    <3>5. <<p.src, p.n>> \in Stamp
      BY <3>1 DEF Coded, Stamp, Srcs
    <3>6. aus[i] \in Au /\ aus[i].src = p.src /\ aus[i].n = p.n /\ aus[i].key = p.key
          /\ aus[i].size = p.size /\ aus[i].capture = <<p.src, p.n>>
      BY <3>1, <3>3, <3>4, <3>5 DEF AccessUnit, Au, Coded
    <3>. QED
      BY <3>2, <3>6 DEF p
  <2> HIDE DEF ingest_enc_packet
  <2>2. aus \in [1 .. m -> Au]
    BY <2>1
  <2> HIDE DEF aus, m
  <2>3. aus \in Seq(Au) /\ Len(aus) = m
    BY <1>2, <2>2, ASeq
  <2>. QED
    BY <1>5, <2>1, <2>3 DEF UnitsOf, m
<1> HIDE DEF more, less, aus
<1>8. /\ d.e.size = e.size /\ d.e.live = e.live /\ d.e.reopen_req = e.reopen_req
      /\ d.e.idr = e.idr /\ d.e.first = e.first /\ d.e.stamp = e.stamp /\ d.e.mpp = e.mpp
      /\ d.e.packets = <<>> /\ d.e.free = more /\ d.e.pending = less
  BY <1>4 DEF Encoder
<1>9. d.e \in Encoder
  <2>1. <<>> \in Seq(Coded)
    BY EmptySeq
  <2>. QED
    BY <1>1, <1>4, <1>6, <2>1 DEF Encoder
<1>10. EncInv(d.e)
  <2>1. \A i \in DOMAIN e.mpp : e.stamp[e.pending[m + i]] = <<e.mpp[i].src, e.mpp[i].n>>
    BY DEF EncInv, Stamped
  <2>2. \A i \in DOMAIN e.mpp : less[0 + i] = e.pending[m + i]
    <3>1. \A i \in DOMAIN e.mpp : i \in 1 .. Len(e.pending) - m /\ 0 + i = i
      BY <1>2, <1>5
    <3>. QED
      BY <1>6, <3>1
  <2>3. Stamped(d.e, d.e.mpp, Len(d.e.packets))
    BY <1>8, <2>1, <2>2 DEF Stamped
  <2>4. Stamped(d.e, d.e.packets, 0) /\ OfSize(d.e.packets, d.e.live)
    BY <1>8 DEF Stamped, OfSize
  <2>5. OfSize(d.e.mpp, d.e.live) /\ d.e.live \in Sizes
    BY <1>8 DEF EncInv
  <2>6. Len(d.e.pending) = Len(d.e.packets) + Len(d.e.mpp)
    BY <1>2, <1>6, <1>8
  <2>. QED
    BY <1>6, <1>8, <2>3, <2>4, <2>5, <2>6 DEF EncInv
<1>. QED
  BY <1>4, <1>7, <1>8, <1>9, <1>10


\* The first free slot, and those that are left.
LEMMA FirstFree ==
  ASSUME NEW S, NEW q \in Seq(S), q # <<>>
  PROVE  /\ Len(q) \in Nat \ {0} /\ DOMAIN q = 1 .. Len(q)
         /\ Head(q) \in S /\ Head(q) = q[1]
         /\ Tail(q) \in Seq(S) /\ DOMAIN Tail(q) = 1 .. Len(q) - 1 /\ Len(Tail(q)) = Len(q) - 1
         /\ \A i \in 1 .. Len(q) - 1 : Tail(q)[i] = q[i + 1]
<1>1. Len(q) \in Nat \ {0} /\ DOMAIN q = 1 .. Len(q)
  BY EmptySeq, LenProperties
<1>2. Head(q) \in S /\ Head(q) = q[1] /\ Tail(q) \in Seq(S) /\ Len(Tail(q)) = Len(q) - 1
      /\ \A i \in 1 .. Len(Tail(q)) : Tail(q)[i] = q[i + 1]
  BY HeadTailProperties
<1>. QED
  BY <1>1, <1>2, LenProperties

\* A list with one more at its end.
LEMMA OneMore ==
  ASSUME NEW S, NEW q \in Seq(S), NEW x \in S
  PROVE  /\ Append(q, x) \in Seq(S) /\ Len(q) \in Nat /\ DOMAIN q = 1 .. Len(q)
         /\ Len(Append(q, x)) = Len(q) + 1 /\ DOMAIN Append(q, x) = 1 .. Len(q) + 1
         /\ \A i \in 1 .. Len(q) : Append(q, x)[i] = q[i]
         /\ Append(q, x)[Len(q) + 1] = x
BY AppendProperties, LenProperties

\* A slot goes from the head of free to the end of pending, or of free.
LEMMA SlotTaken ==
  ASSUME NEW free \in Seq(Slot), NEW pending \in Seq(Slot), SlotsApart(free, pending),
         free # <<>>
  PROVE  /\ SlotsApart(Tail(free), Append(pending, Head(free)))
         /\ SlotsApart(Append(Tail(free), Head(free)), pending)
         /\ \A j \in DOMAIN pending : pending[j] # Head(free)
<1> DEFINE s == Head(free)
           t == Tail(free)
           p == Append(pending, s)
           f == Append(t, s)
<1>1. /\ Len(free) \in Nat \ {0} /\ DOMAIN free = 1 .. Len(free)
      /\ s \in Slot /\ s = free[1]
      /\ t \in Seq(Slot) /\ DOMAIN t = 1 .. Len(free) - 1 /\ Len(t) = Len(free) - 1
      /\ \A i \in 1 .. Len(free) - 1 : t[i] = free[i + 1]
  BY FirstFree
<1> HIDE DEF s, t
<1>2. /\ p \in Seq(Slot) /\ Len(pending) \in Nat /\ DOMAIN pending = 1 .. Len(pending)
      /\ Len(p) = Len(pending) + 1 /\ DOMAIN p = 1 .. Len(pending) + 1
      /\ \A i \in 1 .. Len(pending) : p[i] = pending[i]
      /\ p[Len(pending) + 1] = s
  BY <1>1, OneMore
<1>3. /\ f \in Seq(Slot) /\ Len(f) = Len(free) /\ DOMAIN f = 1 .. Len(free)
      /\ \A i \in 1 .. Len(free) - 1 : f[i] = free[i + 1]
      /\ f[Len(free)] = free[1]
  <2>1. /\ f \in Seq(Slot) /\ Len(f) = Len(t) + 1 /\ DOMAIN f = 1 .. Len(t) + 1
        /\ \A i \in 1 .. Len(t) : f[i] = t[i]
        /\ f[Len(t) + 1] = s
    <3>1. t \in Seq(Slot) /\ s \in Slot
      BY <1>1
    <3>. QED
      BY <3>1, OneMore
  <2> HIDE DEF f
  <2>2. Len(t) + 1 = Len(free)
    BY <1>1
  <2>. QED
    BY <1>1, <2>1, <2>2
<1> HIDE DEF p, f
<1>4. /\ Len(free) + Len(pending) = EncSlots /\ Range(free) \cup Range(pending) = Slot
      /\ \A i, j \in DOMAIN free : i # j => free[i] # free[j]
      /\ \A i, j \in DOMAIN pending : i # j => pending[i] # pending[j]
      /\ \A i \in DOMAIN free, j \in DOMAIN pending : free[i] # pending[j]
      /\ EncSlots \in Nat
  BY SlotsAre DEF SlotsApart
<1>5. Range(t) \cup Range(p) = Slot /\ Range(f) \cup Range(pending) = Slot
  <2>1. /\ Range(t) \subseteq Slot /\ Range(p) \subseteq Slot
        /\ Range(f) \subseteq Slot /\ Range(pending) \subseteq Slot
    <3>1. /\ \A i \in DOMAIN t : t[i] \in Slot
          /\ \A i \in DOMAIN p : p[i] \in Slot
          /\ \A i \in DOMAIN f : f[i] \in Slot
          /\ \A i \in DOMAIN pending : pending[i] \in Slot
      BY <1>1, <1>2, <1>3, ElementOfSeq
    <3>. QED
      BY <3>1 DEF Range
  <2>2. ASSUME NEW x \in Slot, x \in Range(free)
        PROVE  x \in Range(t) \cup Range(p) /\ x \in Range(f)
    <3>1. PICK i \in DOMAIN free : x = free[i]
      BY <2>2 DEF Range
    <3>2. CASE i = 1
      <4>1. Len(pending) + 1 \in DOMAIN p /\ p[Len(pending) + 1] = x
        BY <1>1, <1>2, <3>1, <3>2
      <4>2. Len(free) \in DOMAIN f /\ f[Len(free)] = x
        BY <1>1, <1>3, <3>1, <3>2
      <4>. QED
        BY <4>1, <4>2 DEF Range
    <3>3. CASE i # 1
      <4>1. i - 1 \in 1 .. Len(free) - 1 /\ (i - 1) + 1 = i
        BY <1>1, <3>1, <3>3
      <4>2. i - 1 \in DOMAIN t /\ t[i - 1] = x /\ i - 1 \in DOMAIN f /\ f[i - 1] = x
        BY <1>1, <1>3, <3>1, <4>1
      <4>. QED
        BY <4>2 DEF Range
    <3>. QED
      BY <3>2, <3>3
  <2>3. ASSUME NEW x \in Slot, x \in Range(pending)
        PROVE  x \in Range(p)
    <3>1. PICK i \in DOMAIN pending : x = pending[i]
      BY <2>3 DEF Range
    <3>2. i \in DOMAIN p /\ p[i] = x
      BY <1>2, <3>1
    <3>. QED
      BY <3>2 DEF Range
  <2>. QED
    BY <1>4, <2>1, <2>2, <2>3
<1>6. \A i \in DOMAIN t : i + 1 \in DOMAIN free /\ i + 1 # 1 /\ t[i] = free[i + 1]
  BY <1>1
<1>7. \A i \in DOMAIN p : \/ i \in DOMAIN pending /\ p[i] = pending[i]
                          \/ i = Len(pending) + 1 /\ p[i] = free[1]
  BY <1>1, <1>2
<1>8. \A i \in DOMAIN f : \/ i < Len(free) /\ i + 1 \in DOMAIN free /\ i + 1 # 1
                               /\ f[i] = free[i + 1]
                          \/ i = Len(free) /\ f[i] = free[1]
  BY <1>1, <1>3
<1>9. 1 \in DOMAIN free
  BY <1>1
<1>10. \A i, j \in DOMAIN t : i # j => t[i] # t[j]
  BY <1>1, <1>4, <1>6
<1>11. \A i, j \in DOMAIN p : i # j => p[i] # p[j]
  BY <1>2, <1>4, <1>7, <1>9
<1>12. ASSUME NEW i \in DOMAIN t, NEW j \in DOMAIN p PROVE t[i] # p[j]
  <2>1. t[i] # free[1] /\ \A k \in DOMAIN pending : t[i] # pending[k]
    BY <1>4, <1>6, <1>9
  <2>. QED
    BY <1>7, <2>1
<1>13. \A i, j \in DOMAIN f : i # j => f[i] # f[j]
  BY <1>1, <1>3, <1>4, <1>8, <1>9
<1>14. \A i \in DOMAIN f, j \in DOMAIN pending : f[i] # pending[j]
  BY <1>4, <1>8, <1>9
<1>15. SlotsApart(t, p)
  <2>1. Len(t) + Len(p) = EncSlots
    <3>1. Len(t) = Len(free) - 1 /\ Len(p) = Len(pending) + 1
          /\ Len(free) + Len(pending) = EncSlots
          /\ Len(free) \in Nat /\ Len(pending) \in Nat
      BY <1>1, <1>2, <1>4
    <3>. QED
      BY <3>1
  <2>. QED
    BY <1>5, <1>10, <1>11, <1>12, <2>1 DEF SlotsApart
<1>16. SlotsApart(f, pending)
  BY <1>3, <1>4, <1>5, <1>13, <1>14 DEF SlotsApart
<1>17. \A j \in DOMAIN pending : pending[j] # s
  BY <1>1, <1>4, <1>9
<1>. QED
  BY <1>15, <1>16, <1>17 DEF s, t, p, f


\* What a frame put into e makes of it: it is in MPP, and an IDR if one was asked
\* for or nothing was put before, or MPP is full.
Put(e, f, r, next) ==
  \/ /\ r = "ok" /\ ~next.first
     /\ next.mpp = Append(e.mpp, [src |-> f.src, n |-> f.n, size |-> e.live,
                                  key |-> e.first \/ e.idr])
  \/ r = "EAGAIN" /\ next.mpp = e.mpp /\ (e.mpp # <<>> \/ next = e) /\ next.first = e.first

LEMMA PutOK ==
  ASSUME NEW e \in Encoder, EncInv(e), e.packets = <<>>, e.free # <<>>,
         NEW f \in Picture, f.size = e.live,
         NEW r, r = put_frame(e, f)
  PROVE  /\ r.e \in Encoder /\ EncInv(r.e) /\ r.e.packets = <<>> /\ r.e.live = e.live
         /\ Put(e, f, r.r, r.e)
<1> DEFINE slot == Head(e.free)
           left == Tail(e.free)
           back == Append(left, slot)
           more == Append(e.pending, slot)
           cap  == <<f.src, f.n>>
           st   == [e.stamp EXCEPT ![slot] = cap]
           x    == [src |-> f.src, n |-> f.n, size |-> e.live, key |-> e.first \/ e.idr]
           in   == [e EXCEPT !.free = left, !.stamp[slot] = cap]
           rest == [e EXCEPT !.free = left]
<1>1. /\ e.size \in Sizes /\ e.fps \in Rates /\ e.live \in Sizes \cup {0} /\ e.reopen_req \in BOOLEAN
      /\ e.idr \in BOOLEAN /\ e.first \in BOOLEAN
      /\ e.free \in Seq(Slot) /\ e.pending \in Seq(Slot) /\ e.stamp \in [Slot -> Stamp]
      /\ e.mpp \in Seq(Coded) /\ e.packets \in Seq(Coded)
  BY DEF Encoder
<1>2. slot \in Slot /\ left \in Seq(Slot)
  BY <1>1, FirstFree
<1>3. /\ SlotsApart(left, more) /\ SlotsApart(back, e.pending)
      /\ \A j \in DOMAIN e.pending : e.pending[j] # slot
  <2>1. SlotsApart(e.free, e.pending)
    BY DEF EncInv
  <2>. QED
    BY <1>1, <2>1, SlotTaken
<1>4. /\ back \in Seq(Slot) /\ more \in Seq(Slot) /\ Len(e.pending) \in Nat
      /\ DOMAIN e.pending = 1 .. Len(e.pending) /\ Len(more) = Len(e.pending) + 1
      /\ \A i \in 1 .. Len(e.pending) : more[i] = e.pending[i]
      /\ more[Len(e.pending) + 1] = slot
  <2>1. /\ more \in Seq(Slot) /\ Len(e.pending) \in Nat /\ DOMAIN e.pending = 1 .. Len(e.pending)
        /\ Len(more) = Len(e.pending) + 1
        /\ \A i \in 1 .. Len(e.pending) : more[i] = e.pending[i]
        /\ more[Len(e.pending) + 1] = slot
    <3> HIDE DEF slot
    <3>. QED
      BY <1>1, <1>2, OneMore
  <2>2. back \in Seq(Slot)
    <3> HIDE DEF slot, left
    <3>. QED
      BY <1>2, OneMore
  <2>. QED
    BY <2>1, <2>2
<1>5. x \in Coded /\ x.src = f.src /\ x.n = f.n /\ x.size = e.live
  <2>1. (e.first \/ e.idr) \in BOOLEAN /\ e.live \in Sizes
    BY <1>1 DEF EncInv
  <2>. QED
    BY <2>1 DEF Coded, Picture
<1>6. cap \in Stamp
  BY DEF Stamp, Picture, Srcs
<1>7. st \in [Slot -> Stamp] /\ st[slot] = cap
      /\ \A s \in Slot : s # slot => st[s] = e.stamp[s]
  <2> HIDE DEF slot, cap
  <2>. QED
    BY <1>1, <1>2, <1>6
<1>8. Len(e.packets) = 0 /\ Len(e.mpp) \in Nat /\ Len(e.pending) = Len(e.mpp)
      /\ DOMAIN e.mpp = 1 .. Len(e.mpp)
  BY <1>1, LenProperties DEF EncInv
<1>9. \A i \in DOMAIN e.mpp : /\ i \in DOMAIN e.pending /\ e.pending[i] \in Slot
                              /\ e.pending[i] # slot
                              /\ e.stamp[e.pending[i]] = <<e.mpp[i].src, e.mpp[i].n>>
  <2>1. ASSUME NEW i \in DOMAIN e.mpp
        PROVE  i \in DOMAIN e.pending /\ e.pending[i] \in Slot /\ 0 + i = i
    BY <1>1, <1>4, <1>8, ElementOfSeq
  <2>2. \A i \in DOMAIN e.mpp : e.stamp[e.pending[0 + i]] = <<e.mpp[i].src, e.mpp[i].n>>
    BY <1>8 DEF EncInv, Stamped
  <2>. QED
    BY <1>3, <2>1, <2>2
<1>10. OfSize(e.mpp, e.live) /\ e.live \in Sizes
  BY DEF EncInv
<1>13. in = [size |-> e.size, fps |-> e.fps, live |-> e.live, reopen_req |-> e.reopen_req,
              idr |-> e.idr, first |-> e.first, free |-> left, pending |-> e.pending, stamp |-> st,
              mpp |-> e.mpp, packets |-> e.packets]
  <2>1. in = [rest EXCEPT !.stamp = [rest.stamp EXCEPT ![slot] = cap]]
    OBVIOUS
  <2>2. rest = [size |-> e.size, fps |-> e.fps, live |-> e.live, reopen_req |-> e.reopen_req,
                idr |-> e.idr, first |-> e.first, free |-> left, pending |-> e.pending, stamp |-> e.stamp,
                mpp |-> e.mpp, packets |-> e.packets]
    <3>1. rest = [e EXCEPT !.free = left]
      OBVIOUS
    <3> HIDE DEF rest, in, slot, back, more, cap, st, x, left
    <3>. QED
      BY <3>1 DEF Encoder
  <2>3. rest.stamp = e.stamp
    BY <2>2
  <2> DEFINE s0 == [rest.stamp EXCEPT ![slot] = cap]
  <2>4. s0 = st
    BY <2>3
  <2>5. in = [rest EXCEPT !.stamp = s0]
    BY <2>1
  <2> HIDE DEF rest, st, s0, slot, left, cap, in
  <2>. QED
    BY <2>2, <2>4, <2>5
<1>11. CASE Len(e.mpp) < MppFrames
  <2> DEFINE next == Accepted(in, slot, f)
             mpp  == Append(e.mpp, x)
  <2>1. r.e = next /\ r.r = "ok"
    BY <1>11 DEF put_frame
  <2>2. /\ mpp \in Seq(Coded) /\ Len(mpp) = Len(e.mpp) + 1 /\ DOMAIN mpp = 1 .. Len(e.mpp) + 1
        /\ \A i \in 1 .. Len(e.mpp) : mpp[i] = e.mpp[i]
        /\ mpp[Len(e.mpp) + 1] = x
    <3> HIDE DEF x
    <3>. QED
      BY <1>1, <1>5, OneMore
  <2>3. next = [size |-> e.size, fps |-> e.fps, live |-> e.live, reopen_req |-> e.reopen_req,
                idr |-> FALSE, first |-> FALSE, free |-> left, pending |-> more, stamp |-> st,
                mpp |-> mpp, packets |-> e.packets]
    <3> HIDE DEF in, slot, left, st, cap
    <3>1. in.pending = e.pending /\ in.mpp = e.mpp /\ in.live = e.live /\ in.first = e.first
          /\ in.idr = e.idr
      BY <1>13
    <3>2. next = [in EXCEPT !.pending = more, !.first = FALSE, !.idr = FALSE, !.mpp = mpp]
      BY <3>1 DEF Accepted
    <3> HIDE DEF more, mpp, next
    <3>. QED
      BY <1>13, <3>2
  <2> HIDE DEF next, mpp, more, left, st, slot, cap, x, back, in
  <2>4. /\ next.free = left /\ next.pending = more /\ next.stamp = st /\ next.mpp = mpp
        /\ next.packets = e.packets /\ next.live = e.live /\ ~next.first
    BY <2>3
  <2>5. next \in Encoder
    BY <1>1, <1>2, <1>4, <1>7, <2>2, <2>3 DEF Encoder
  <2>6. ASSUME NEW i \in DOMAIN mpp
        PROVE  st[more[0 + i]] = <<mpp[i].src, mpp[i].n>> /\ mpp[i].size = e.live
    <3>1. CASE i = Len(e.mpp) + 1
      <4>1. 0 + i = Len(e.pending) + 1
        BY <1>8, <3>1
      <4>2. more[0 + i] = slot
        BY <1>4, <4>1
      <4>3. mpp[i] = x
        BY <2>2, <3>1
      <4>. QED
        BY <1>5, <1>7, <4>2, <4>3 DEF cap
    <3>2. CASE i # Len(e.mpp) + 1
      <4>1. i \in DOMAIN e.mpp /\ 0 + i = i /\ i \in 1 .. Len(e.pending) /\ mpp[i] = e.mpp[i]
        BY <1>8, <2>2, <3>2
      <4>2. more[0 + i] = e.pending[i]
        BY <1>4, <4>1
      <4>3. st[e.pending[i]] = e.stamp[e.pending[i]]
        BY <1>7, <1>9, <4>1
      <4>. QED
        BY <1>9, <1>10, <4>1, <4>2, <4>3 DEF OfSize
    <3>. QED
      BY <3>1, <3>2
  <2>7. EncInv(next)
    <3>1. Stamped(next, next.mpp, Len(next.packets)) /\ OfSize(next.mpp, next.live)
      BY <1>8, <2>4, <2>6 DEF Stamped, OfSize
    <3>2. Stamped(next, next.packets, 0) /\ OfSize(next.packets, next.live)
      BY <2>4 DEF Stamped, OfSize
    <3>3. Len(next.pending) = Len(next.packets) + Len(next.mpp)
      <4>1. Len(more) = Len(e.mpp) + 1 /\ Len(mpp) = Len(e.mpp) + 1
        BY <1>4, <1>8, <2>2
      <4>. QED
        BY <1>8, <2>4, <4>1
    <3>. QED
      BY <1>3, <1>10, <2>4, <3>1, <3>2, <3>3 DEF EncInv
  <2>8. Put(e, f, "ok", next)
    BY <2>4 DEF Put, mpp, x
  <2>. QED
    BY <2>1, <2>4, <2>5, <2>7, <2>8
<1>12. CASE ~(Len(e.mpp) < MppFrames)
  <2> DEFINE next == [in EXCEPT !.free = Append(@, slot), !.idr = FALSE]
  <2>1. r.e = next /\ r.r = "EAGAIN"
    BY <1>12 DEF put_frame
  <2>2. next = [size |-> e.size, fps |-> e.fps, live |-> e.live, reopen_req |-> e.reopen_req,
                idr |-> FALSE, first |-> e.first, free |-> back, pending |-> e.pending, stamp |-> st,
                mpp |-> e.mpp, packets |-> e.packets]
    <3> HIDE DEF in, slot, left, st
    <3>1. in.free = left
      BY <1>13
    <3>2. next = [in EXCEPT !.free = back, !.idr = FALSE]
      BY <3>1
    <3> HIDE DEF back, next
    <3>. QED
      BY <1>13, <3>2
  <2> HIDE DEF next, more, left, st, slot, cap, x, back, in
  <2>3. /\ next.free = back /\ next.pending = e.pending /\ next.stamp = st /\ next.mpp = e.mpp
        /\ next.packets = e.packets /\ next.live = e.live /\ next.first = e.first
    BY <2>2
  <2>4. next \in Encoder
    BY <1>1, <1>4, <1>7, <2>2 DEF Encoder
  <2>5. \A i \in DOMAIN e.mpp : st[e.pending[0 + i]] = <<e.mpp[i].src, e.mpp[i].n>>
    <3>1. ASSUME NEW i \in DOMAIN e.mpp PROVE 0 + i = i
      BY <1>8
    <3>. QED
      BY <1>7, <1>9, <3>1
  <2>6. EncInv(next)
    <3>1. Stamped(next, next.mpp, Len(next.packets)) /\ OfSize(next.mpp, next.live)
      BY <1>8, <1>10, <2>3, <2>5 DEF Stamped
    <3>2. Stamped(next, next.packets, 0) /\ OfSize(next.packets, next.live)
      BY <2>3 DEF Stamped, OfSize
    <3>. QED
      BY <1>3, <1>8, <1>10, <2>3, <3>1, <3>2 DEF EncInv
  <2>7. e.mpp # <<>>
    BY <1>8, <1>12, SlotsAre
  <2>8. Put(e, f, "EAGAIN", next)
    BY <2>3, <2>7 DEF Put
  <2>. QED
    BY <2>1, <2>3, <2>4, <2>6, <2>8
<1>. QED
  BY <1>11, <1>12


\* How a frame that is handed in changes what MPP holds, which was mpp.
Moved(mpp, first, f, r, next) ==
  \/ r # "ok" /\ next.mpp = mpp /\ next.first = first
  \/ /\ r = "ok"
     /\ \E key \in BOOLEAN : /\ first => key
                             /\ next.mpp = Append(mpp, [src |-> f.src, n |-> f.n,
                                                        size |-> next.live, key |-> key])

\* What an attempt to hand in f makes of e: the packets come out, or the encoder
\* is opened again.
Tried(e, f, r, next, aus) ==
  /\ next \in Encoder /\ EncInv(next) /\ next.packets = <<>>
  /\ \/ UnitsOf(aus, e) /\ next.live = e.live /\ Moved(e.mpp, e.first, f, r, next)
     \/ aus = <<>> /\ Moved(<<>>, TRUE, f, r, next)

LEMMA NoUnits ==
  ASSUME NEW e, e.packets = <<>>, NEW aus, UnitsOf(aus, e)
  PROVE  aus = <<>>
BY EmptySeq DEF UnitsOf

LEMMA PutMoves ==
  ASSUME NEW e \in Encoder, NEW f, NEW r, NEW next, Put(e, f, r, next), next.live = e.live
  PROVE  Moved(e.mpp, e.first, f, r, next)
<1>1. PICK key \in BOOLEAN : key <=> (e.first \/ e.idr)
  OBVIOUS
<1>2. e.first \in BOOLEAN /\ e.idr \in BOOLEAN
  BY DEF Encoder
<1>3. (e.first \/ e.idr) = key /\ (e.first => key)
  BY <1>1, <1>2
<1>4. CASE r = "ok"
  <2>1. next.mpp = Append(e.mpp, [src |-> f.src, n |-> f.n, size |-> e.live,
                                  key |-> e.first \/ e.idr])
    BY <1>4 DEF Put
  <2>2. next.mpp = Append(e.mpp, [src |-> f.src, n |-> f.n, size |-> next.live, key |-> key])
    BY <1>3, <2>1
  <2>. QED
    BY <1>3, <1>4, <2>2 DEF Moved
<1>5. CASE r # "ok"
  BY <1>5 DEF Put, Moved
<1>. QED
  BY <1>4, <1>5

\* put_nv12_frame, from an encoder with the frame's size.
LEMMA PutNv12OK ==
  ASSUME NEW e \in Encoder, EncInv(e), NEW f \in Picture, f.size = e.live,
         NEW in, in = put_nv12_frame(e, f)
  PROVE  /\ in.e \in Encoder /\ EncInv(in.e) /\ in.e.packets = <<>> /\ in.e.live = e.live
         /\ UnitsOf(in.aus, e) /\ Moved(e.mpp, e.first, f, in.r, in.e)
<1> DEFINE d == drain_packets(e)
           p == put_frame(d.e, f)
<1>1. /\ d.e \in Encoder /\ EncInv(d.e) /\ UnitsOf(d.aus, e)
      /\ d.e.packets = <<>> /\ d.e.mpp = e.mpp /\ d.e.live = e.live /\ d.e.first = e.first
  BY DrainOK
<1>2. CASE d.e.free = <<>>
  <2>1. in.r = "EAGAIN" /\ in.e = d.e /\ in.aus = d.aus
    BY <1>2 DEF put_nv12_frame
  <2> HIDE DEF d
  <2>. QED
    BY <1>1, <2>1 DEF Moved
<1>3. CASE d.e.free # <<>>
  <2>1. in.r = p.r /\ in.e = p.e /\ in.aus = d.aus
    BY <1>3 DEF put_nv12_frame
  <2> HIDE DEF d
  <2>2. /\ p.e \in Encoder /\ EncInv(p.e) /\ p.e.packets = <<>> /\ p.e.live = d.e.live
        /\ Put(d.e, f, p.r, p.e)
    BY <1>1, <1>3, PutOK
  <2> HIDE DEF p
  <2>3. Moved(d.e.mpp, d.e.first, f, p.r, p.e)
    BY <1>1, <2>2, PutMoves
  <2>. QED
    BY <1>1, <2>1, <2>2, <2>3
<1>. QED
  BY <1>2, <1>3

\* An attempt and the pulling after it.
LEMMA AttemptOK ==
  ASSUME NEW e \in Encoder, EncInv(e), NEW f \in Picture,
         NEW in, in = enc_input(e, f), NEW out, out = drain_packets(in.e)
  PROVE  Tried(e, f, in.r, out.e, in.aus \o out.aus)
<1> DEFINE o == reopen_if_needed(e)
<1>1. /\ o \in Encoder /\ EncInv(o)
      /\ o = e \/ (o.packets = <<>> /\ o.mpp = <<>> /\ o.first)
  BY ReopenOK
<1>2. o.first \in BOOLEAN
  BY <1>1 DEF Encoder
<1>3. ASSUME NEW aus, UnitsOf(aus, o), Moved(o.mpp, o.first, f, in.r, out.e),
             out.e.live = o.live, out.e \in Encoder, EncInv(out.e), out.e.packets = <<>>
      PROVE  Tried(e, f, in.r, out.e, aus)
  <2> HIDE DEF o
  <2>1. CASE o = e
    BY <1>3, <2>1 DEF Tried
  <2>2. CASE o.packets = <<>> /\ o.mpp = <<>> /\ o.first
    <3>1. aus = <<>> /\ o.first = TRUE
      BY <1>2, <1>3, <2>2, NoUnits
    <3>. QED
      BY <1>3, <2>2, <3>1 DEF Tried
  <2>. QED
    BY <1>1, <2>1, <2>2
<1>4. CASE f.size # o.live
  <2>1. in.r = "EINVAL" /\ in.e = o /\ in.aus = <<>>
    BY <1>4 DEF enc_input
  <2> HIDE DEF o
  <2>2. /\ out.e \in Encoder /\ EncInv(out.e) /\ UnitsOf(out.aus, o)
        /\ out.e.packets = <<>> /\ out.e.mpp = o.mpp /\ out.e.live = o.live
        /\ out.e.first = o.first
    BY <1>1, <2>1, DrainOK
  <2>3. in.aus \o out.aus = out.aus
    <3>1. out.aus \in Seq(Au)
      BY <2>2 DEF UnitsOf
    <3>. QED
      BY <2>1, <3>1, ConcatEmptySeq
  <2>4. Moved(o.mpp, o.first, f, in.r, out.e)
    BY <2>1, <2>2 DEF Moved
  <2>. QED
    BY <1>3, <2>2, <2>3, <2>4
<1>5. CASE f.size = o.live
  <2>1. in = put_nv12_frame(o, f)
    BY <1>5 DEF enc_input
  <2> HIDE DEF o
  <2>2. /\ in.e \in Encoder /\ EncInv(in.e) /\ in.e.packets = <<>> /\ in.e.live = o.live
        /\ UnitsOf(in.aus, o) /\ Moved(o.mpp, o.first, f, in.r, in.e)
    BY <1>1, <1>5, <2>1, PutNv12OK
  <2>3. /\ out.e \in Encoder /\ EncInv(out.e) /\ UnitsOf(out.aus, in.e)
        /\ out.e.packets = <<>> /\ out.e.mpp = in.e.mpp /\ out.e.live = in.e.live
        /\ out.e.first = in.e.first
    BY <2>2, DrainOK
  <2>4. in.aus \o out.aus = in.aus
    <3>1. in.aus \in Seq(Au) /\ out.aus = <<>>
      BY <2>2, <2>3, NoUnits DEF UnitsOf
    <3>. QED
      BY <3>1, ConcatEmptySeq
  <2>5. Moved(o.mpp, o.first, f, in.r, out.e)
    BY <2>2, <2>3 DEF Moved
  <2>. QED
    BY <1>3, <2>2, <2>3, <2>4, <2>5
<1>. QED
  BY <1>4, <1>5

\* MPP codes a frame.
LEMMA MppEncodeOK ==
  ASSUME NEW e \in Encoder, EncInv(e), e.mpp # <<>>, NEW next, next = mpp_encode(e)
  PROVE  /\ next \in Encoder /\ EncInv(next)
         /\ next.mpp = Tail(e.mpp) /\ next.packets = Append(e.packets, Head(e.mpp))
         /\ next.live = e.live /\ next.first = e.first
<1> DEFINE left == Tail(e.mpp)
           x    == Head(e.mpp)
           done == Append(e.packets, x)
           m    == Len(e.packets)
<1>1. /\ e.size \in Sizes /\ e.fps \in Rates /\ e.live \in Sizes \cup {0} /\ e.reopen_req \in BOOLEAN
      /\ e.idr \in BOOLEAN /\ e.first \in BOOLEAN
      /\ e.free \in Seq(Slot) /\ e.pending \in Seq(Slot) /\ e.stamp \in [Slot -> Stamp]
      /\ e.mpp \in Seq(Coded) /\ e.packets \in Seq(Coded)
  BY DEF Encoder
<1>2. next = [e EXCEPT !.mpp = left, !.packets = done]
  BY DEF mpp_encode
<1>3. /\ Len(e.mpp) \in Nat \ {0} /\ DOMAIN e.mpp = 1 .. Len(e.mpp)
      /\ x \in Coded /\ x = e.mpp[1]
      /\ left \in Seq(Coded) /\ DOMAIN left = 1 .. Len(e.mpp) - 1 /\ Len(left) = Len(e.mpp) - 1
      /\ \A i \in 1 .. Len(e.mpp) - 1 : left[i] = e.mpp[i + 1]
  BY <1>1, FirstFree
<1>4. /\ done \in Seq(Coded) /\ m \in Nat /\ DOMAIN e.packets = 1 .. m
      /\ Len(done) = m + 1 /\ DOMAIN done = 1 .. m + 1
      /\ \A i \in 1 .. m : done[i] = e.packets[i]
      /\ done[m + 1] = x
  <2>1. x \in Coded /\ e.packets \in Seq(Coded)
    BY <1>1, <1>3
  <2> HIDE DEF x
  <2>. QED
    BY <2>1, OneMore
<1> HIDE DEF left, x, done, m
<1>5. next = [size |-> e.size, fps |-> e.fps, live |-> e.live, reopen_req |-> e.reopen_req,
              idr |-> e.idr, first |-> e.first, free |-> e.free, pending |-> e.pending, stamp |-> e.stamp,
              mpp |-> left, packets |-> done]
  BY <1>2 DEF Encoder
<1>6. next \in Encoder
  BY <1>1, <1>3, <1>4, <1>5 DEF Encoder
<1>7. /\ next.live = e.live /\ next.free = e.free /\ next.pending = e.pending
      /\ next.stamp = e.stamp /\ next.mpp = left /\ next.packets = done /\ next.first = e.first
  BY <1>5
<1>8. /\ SlotsApart(e.free, e.pending) /\ Len(e.pending) = m + Len(e.mpp)
      /\ \A i \in DOMAIN e.packets : e.stamp[e.pending[0 + i]] = <<e.packets[i].src, e.packets[i].n>>
      /\ \A i \in DOMAIN e.mpp : e.stamp[e.pending[m + i]] = <<e.mpp[i].src, e.mpp[i].n>>
      /\ \A i \in DOMAIN e.packets : e.packets[i].size = e.live
      /\ \A i \in DOMAIN e.mpp : e.mpp[i].size = e.live
      /\ e.live \in Sizes
  BY DEF EncInv, Stamped, OfSize, m
<1>9. ASSUME NEW i \in DOMAIN done
      PROVE  e.stamp[e.pending[0 + i]] = <<done[i].src, done[i].n>> /\ done[i].size = e.live
  <2>1. CASE i = m + 1
    <3>1. 1 \in DOMAIN e.mpp /\ 0 + i = m + 1 /\ done[i] = e.mpp[1]
      BY <1>3, <1>4, <2>1
    <3>. QED
      BY <1>8, <3>1
  <2>2. CASE i # m + 1
    <3>1. i \in DOMAIN e.packets /\ done[i] = e.packets[i]
      BY <1>4, <2>2
    <3>. QED
      BY <1>8, <3>1
  <2>. QED
    BY <2>1, <2>2
<1>10. ASSUME NEW i \in DOMAIN left
       PROVE  e.stamp[e.pending[(m + 1) + i]] = <<left[i].src, left[i].n>> /\ left[i].size = e.live
  <2>1. i + 1 \in DOMAIN e.mpp /\ (m + 1) + i = m + (i + 1) /\ left[i] = e.mpp[i + 1]
    BY <1>3, <1>4
  <2>. QED
    BY <1>8, <2>1
<1>11. EncInv(next)
  <2>1. Stamped(next, next.packets, 0) /\ OfSize(next.packets, next.live)
    BY <1>7, <1>9 DEF Stamped, OfSize
  <2>2. Stamped(next, next.mpp, Len(next.packets)) /\ OfSize(next.mpp, next.live)
    BY <1>4, <1>7, <1>10 DEF Stamped, OfSize
  <2>3. Len(next.pending) = Len(next.packets) + Len(next.mpp)
    <3>1. /\ Len(e.pending) = m + Len(e.mpp) /\ Len(done) = m + 1 /\ Len(left) = Len(e.mpp) - 1
          /\ m \in Nat /\ Len(e.mpp) \in Nat
      BY <1>3, <1>4, <1>8
    <3>2. \A a, b \in Nat : a + b = (a + 1) + (b - 1)
      OBVIOUS
    <3>3. Len(e.pending) = Len(done) + Len(left)
      BY <3>1, <3>2, Zenon
    <3>. QED
      BY <1>7, <3>3
  <2>. QED
    BY <1>7, <1>8, <2>1, <2>2, <2>3 DEF EncInv
<1>. QED
  BY <1>6, <1>7, <1>11 DEF left, x, done


(* ------------------------------ the pipeline ----------------------------- *)

Switching == {"enc", "fps", "jdec", "idr", "probe"}
Job       == [f : Picture, st : {"queued", "taken", "decoding", "frame", "error"}]

AllCamera(q) == \A i \in DOMAIN q : q[i].src = "camera"

\* The source: a probed frame is held exactly while the switch back to the camera
\* goes on.
SourceInv ==
  /\ camera \in [on : BOOLEAN, open : BOOLEAN, pts : 0 .. MaxCamera]
  /\ noise_pts \in 0 .. MaxNoise
  /\ source \in [kind : Srcs, pc : Switching \cup {"poll", "noise", "done"},
                 probe : Seq(Picture)]
  /\ (source.probe # <<>>) <=> (source.kind = "camera" /\ source.pc \in Switching)
  /\ (source.pc = "probe") => (source.kind = "camera")
  /\ AllCamera(source.probe) /\ Len(source.probe) <= 1

\* The queues and the pool, which only frames of the camera go through; every job
\* of the pool is counted as in flight.
JpegInv ==
  /\ mjpeg_q \in Seq(Picture) /\ Len(mjpeg_q) <= PipeDepth /\ AllCamera(mjpeg_q)
  /\ nv12_q \in Seq(Picture) /\ Len(nv12_q) <= PipeDepth
  /\ jdec \in [size : Sizes, jobs : Seq(Job)]
  /\ jpeg \in [pc : {"drain", "fill", "done"}, inflight : 0 .. MaxInflight]
  /\ Len(jdec.jobs) <= jpeg.inflight
  /\ \A i \in DOMAIN jdec.jobs : jdec.jobs[i].f.src = "camera"

LEMMA BoundsAre ==
  /\ MaxCamera \in Nat /\ MaxNoise \in Nat /\ PipeDepth \in Nat \ {0}
  /\ MaxInflight \in Nat \ {0}
BY TxAssumption

LEMMA FramesArePictures ==
  ASSUME SourceInv
  PROVE  CameraFrame \in Picture /\ NoiseFrame \in Picture
BY BoundsAre DEF SourceInv, CameraFrame, NoiseFrame, Picture, Srcs, Sizes

\* What push makes of a queue.
Pushed(q, f, next) ==
  \/ next = q
  \/ next = Append(q, f)
  \/ q # <<>> /\ next = Append(Tail(q), f)

LEMMA PushOK ==
  ASSUME NEW q \in Seq(Picture), Len(q) <= PipeDepth, NEW f \in Picture
  PROVE  push(q, f) \in Seq(Picture) /\ Len(push(q, f)) <= PipeDepth /\ Pushed(q, f, push(q, f))
<1>1. Len(q) \in Nat /\ PipeDepth \in Nat \ {0}
  BY LenProperties, BoundsAre
<1>2. CASE ~g_run
  BY <1>2 DEF push, Pushed
<1>3. CASE g_run /\ Len(q) >= PipeDepth
  <2>1. push(q, f) = Append(Tail(q), f)
    BY <1>3 DEF push
  <2>2. q # <<>>
    BY <1>1, <1>3
  <2>3. Tail(q) \in Seq(Picture) /\ Len(Tail(q)) = Len(q) - 1
    BY <2>2, FirstFree
  <2>4. Append(Tail(q), f) \in Seq(Picture) /\ Len(Append(Tail(q), f)) = (Len(q) - 1) + 1
    BY <2>3, OneMore
  <2>5. Len(Append(Tail(q), f)) <= PipeDepth
    <3>1. (Len(q) - 1) + 1 = Len(q)
      BY <1>1
    <3>. QED
      BY <2>4, <3>1
  <2>. QED
    BY <2>1, <2>2, <2>4, <2>5 DEF Pushed
<1>4. CASE g_run /\ ~(Len(q) >= PipeDepth)
  <2>1. push(q, f) = Append(q, f)
    BY <1>4 DEF push
  <2>2. Append(q, f) \in Seq(Picture) /\ Len(Append(q, f)) = Len(q) + 1
    BY OneMore
  <2>. QED
    BY <1>1, <1>4, <2>1, <2>2 DEF Pushed
<1>. QED
  BY <1>2, <1>3, <1>4

\* What a queue holds after a push, it held before, but for the new frame.
LEMMA PushedHolds ==
  ASSUME NEW q \in Seq(Picture), NEW f \in Picture, NEW next, Pushed(q, f, next)
  PROVE  /\ \A i \in DOMAIN next : next[i] = f \/ \E j \in DOMAIN q : next[i] = q[j]
         /\ (AllCamera(q) /\ f.src = "camera") => AllCamera(next)
<1>1. ASSUME NEW i \in DOMAIN next
      PROVE  next[i] = f \/ \E j \in DOMAIN q : next[i] = q[j]
  <2>1. CASE next = q
    BY <2>1
  <2>2. CASE next = Append(q, f)
    <3>1. /\ Len(q) \in Nat /\ DOMAIN q = 1 .. Len(q) /\ DOMAIN next = 1 .. Len(q) + 1
          /\ \A k \in 1 .. Len(q) : next[k] = q[k]
          /\ next[Len(q) + 1] = f
      BY <2>2, OneMore
    <3>2. i \in 1 .. Len(q) \/ i = Len(q) + 1
      BY <3>1
    <3>. QED
      BY <3>1, <3>2
  <2>3. CASE q # <<>> /\ next = Append(Tail(q), f)
    <3>1. /\ Len(q) \in Nat \ {0} /\ DOMAIN q = 1 .. Len(q) /\ Tail(q) \in Seq(Picture)
          /\ Len(Tail(q)) = Len(q) - 1
          /\ \A k \in 1 .. Len(q) - 1 : Tail(q)[k] = q[k + 1]
      BY <2>3, FirstFree
    <3>2. /\ DOMAIN next = 1 .. Len(Tail(q)) + 1
          /\ \A k \in 1 .. Len(Tail(q)) : next[k] = Tail(q)[k]
          /\ next[Len(Tail(q)) + 1] = f
      BY <2>3, <3>1, OneMore
    <3>3. CASE i = Len(Tail(q)) + 1
      BY <3>2, <3>3
    <3>4. CASE i # Len(Tail(q)) + 1
      <4>1. i \in 1 .. Len(q) - 1 /\ i \in 1 .. Len(Tail(q)) /\ i + 1 \in DOMAIN q
        BY <3>1, <3>2, <3>4
      <4>. QED
        BY <3>1, <3>2, <4>1
    <3>. QED
      BY <3>3, <3>4
  <2>. QED
    BY <2>1, <2>2, <2>3 DEF Pushed
<1>. QED
  BY <1>1 DEF AllCamera

LEMMA NoFrames == <<>> \in Seq(Picture) /\ Len(<<>>) = 0 /\ AllCamera(<<>>)
BY EmptySeq DEF AllCamera

\* The source's threads and the camera.
LEMMA SourceInit == Init => SourceInv
<1> SUFFICES ASSUME Init PROVE SourceInv
  OBVIOUS
<1>1. PICK on \in BOOLEAN : camera = NewCamera(on)
  BY DEF Init
<1>2. camera \in [on : BOOLEAN, open : BOOLEAN, pts : 0 .. MaxCamera]
  BY <1>1, BoundsAre DEF NewCamera
<1>. QED
  BY <1>2, BoundsAre, NoFrames DEF Init, SourceInv, NewSource, Srcs, Switching

LEMMA SourceStep ==
  ASSUME SourceInv, [Next]_vars
  PROVE  SourceInv'
<1>0. /\ camera.on \in BOOLEAN /\ camera.open \in BOOLEAN /\ camera.pts \in 0 .. MaxCamera
      /\ camera = [on |-> camera.on, open |-> camera.open, pts |-> camera.pts]
      /\ source.kind \in Srcs /\ source.pc \in Switching \cup {"poll", "noise", "done"}
      /\ source.probe \in Seq(Picture)
      /\ source = [kind |-> source.kind, pc |-> source.pc, probe |-> source.probe]
      /\ MaxCamera \in Nat /\ MaxNoise \in Nat /\ noise_pts \in 0 .. MaxNoise
  BY BoundsAre DEF SourceInv
<1>1. CASE Flip
  BY <1>0, <1>1 DEF Flip, SourceInv
<1>2. CASE Capture
  <2>1. camera' = [camera EXCEPT !.pts = @ + 1] /\ camera.pts + 1 \in 0 .. MaxCamera
    BY <1>0, <1>2 DEF Capture, MayCapture, Capturing
  <2>2. camera' \in [on : BOOLEAN, open : BOOLEAN, pts : 0 .. MaxCamera]
    BY <1>0, <2>1
  <2>. QED
    BY <1>2, <2>2 DEF Capture, SourceInv
<1>3. CASE Retry
  <2>1. camera' = [on |-> camera.on, open |-> TRUE, pts |-> camera.pts]
    BY <1>0, <1>3 DEF Retry, capture_open
  <2>2. source' = [kind |-> source.kind,
                   pc |-> IF source.kind = "noise" THEN "noise" ELSE source.pc,
                   probe |-> source.probe]
    BY <1>0, <1>3 DEF Retry
  <2>3. source.pc = "poll"
    BY <1>3 DEF Retry, MayRetry, Polling
  <2>. QED
    BY <1>0, <1>3, <2>1, <2>2, <2>3 DEF Retry, SourceInv, Switching
<1>4. CASE Fail
  <2>1. source' = [kind |-> source.kind, pc |-> "done", probe |-> source.probe]
        /\ source.pc = "poll"
    BY <1>0, <1>4 DEF Fail, MayCapture, Polling
  <2>. QED
    BY <1>0, <1>4, <2>1 DEF Fail, SourceInv, Switching
<1>5. CASE Lose
  <2>1. camera' = [on |-> camera.on, open |-> FALSE, pts |-> camera.pts]
    BY <1>0, <1>5 DEF Lose, capture_close
  <2>2. source' \in {source, [kind |-> "noise", pc |-> "enc", probe |-> <<>>]}
    BY <1>5 DEF Lose
  <2>. QED
    BY <1>0, <1>5, <2>1, <2>2, NoFrames DEF Lose, SourceInv, Switching, Srcs
<1>6. CASE Probe
  <2>1. camera' \in [on : BOOLEAN, open : BOOLEAN, pts : 0 .. MaxCamera]
    <3>1. CASE Capturing
      <4>1. camera' = [camera EXCEPT !.pts = @ + 1] /\ camera.pts + 1 \in 0 .. MaxCamera
        BY <1>0, <1>6, <3>1 DEF Probe, Capturing
      <4>. QED
        BY <1>0, <4>1
    <3>2. CASE ~Capturing
      BY <1>0, <1>6, <3>2 DEF Probe, capture_close
    <3>. QED
      BY <3>1, <3>2
  <2>2. source.pc = "poll" /\ source.kind = "noise" /\ source.probe = <<>>
    BY <1>6 DEF Probe, MayProbe, Polling, SourceInv
  <2> DEFINE held == <<CameraFrame>>
  <2>3. held \in Seq(Picture) /\ held # <<>> /\ AllCamera(held) /\ Len(held) = 1
    BY FramesArePictures DEF CameraFrame, AllCamera
  <2>4. source' \in {[kind |-> "camera", pc |-> "enc", probe |-> held],
                     [kind |-> source.kind, pc |-> "noise", probe |-> source.probe]}
    BY <1>0, <1>6 DEF Probe
  <2> HIDE DEF held
  <2>5. CASE source' = [kind |-> "camera", pc |-> "enc", probe |-> held]
    BY <1>0, <1>6, <2>1, <2>3, <2>5 DEF Probe, SourceInv, Switching, Srcs
  <2>6. CASE source' = [kind |-> source.kind, pc |-> "noise", probe |-> source.probe]
    BY <1>0, <1>6, <2>1, <2>2, <2>6 DEF Probe, SourceInv, Switching, Srcs
  <2>. QED
    BY <2>4, <2>5, <2>6
<1>7. CASE SwitchEnc \/ SwitchFps
  <2>1. PICK pc \in {"fps", "jdec"} :
          source' = [kind |-> source.kind, pc |-> pc, probe |-> source.probe]
    BY <1>0, <1>7 DEF SwitchEnc, SwitchFps
  <2>2. UNCHANGED <<camera, noise_pts>> /\ source.pc \in {"enc", "fps"}
    BY <1>7 DEF SwitchEnc, SwitchFps
  <2>. QED
    BY <1>0, <2>1, <2>2 DEF SourceInv, Switching
<1>8. CASE SwitchJdec
  <2>1. source' = [kind |-> source.kind, pc |-> "idr", probe |-> source.probe]
    BY <1>0, <1>8 DEF SwitchJdec
  <2>. QED
    BY <1>0, <1>8, <2>1 DEF SwitchJdec, SourceInv, Switching
<1>9. CASE SwitchIdr
  <2>1. source' = [kind |-> source.kind,
                   pc |-> IF source.kind = "noise" THEN "noise" ELSE "probe",
                   probe |-> source.probe]
    BY <1>0, <1>9 DEF SwitchIdr
  <2>. QED
    BY <1>0, <1>9, <2>1 DEF SwitchIdr, SourceInv, Switching, Srcs
<1>10. CASE PushProbe
  <2>1. source' = [kind |-> source.kind, pc |-> "poll", probe |-> <<>>]
    BY <1>0, <1>10 DEF PushProbe
  <2>2. UNCHANGED <<camera, noise_pts>>
    BY <1>10 DEF PushProbe
  <2>3. source' \in [kind : Srcs, pc : Switching \cup {"poll", "noise", "done"},
                     probe : Seq(Picture)]
    BY <1>0, <2>1, NoFrames
  <2>. QED
    BY <2>1, <2>2, <2>3, NoFrames DEF SourceInv, Switching
<1>11. CASE MakeNoise
  <2>1. source' = [kind |-> source.kind, pc |-> "poll", probe |-> source.probe]
    BY <1>0, <1>11 DEF MakeNoise
  <2>2. source.pc \in {"noise", "poll"}
    BY <1>11 DEF MakeNoise, MayMakeNoise, Polling
  <2>3. noise_pts' \in 0 .. MaxNoise
    BY <1>0, <1>11 DEF MakeNoise
  <2>. QED
    BY <1>0, <1>11, <2>1, <2>2, <2>3 DEF MakeNoise, SourceInv, Switching
<1>12. CASE LeaveSource
  <2>1. source' = [kind |-> source.kind, pc |-> "done", probe |-> source.probe]
        /\ source.pc = "poll"
    BY <1>0, <1>12 DEF LeaveSource, MayLeaveSource
  <2>. QED
    BY <1>0, <1>12, <2>1 DEF LeaveSource, SourceInv, Switching
<1>13. CASE Close
  <2>1. camera' = [on |-> camera.on, open |-> FALSE, pts |-> camera.pts]
    BY <1>0, <1>13 DEF Close, capture_close
  <2>. QED
    BY <1>0, <1>13, <2>1 DEF Close, SourceInv
<1>14. CASE UNCHANGED <<camera, noise_pts, source>>
  BY <1>14 DEF SourceInv
<1>15. CASE \/ Settle \/ Pool \/ Jpeg \/ MppEncode \/ Encode \/ request_stop
            \/ apply_pending_console_encoder_cfg \/ UNCHANGED vars
  <2>1. UNCHANGED <<camera, noise_pts, source>>
    BY <1>15 DEF Settle, Pool, TakeJob, BeginDecode, Decode, Jpeg, Output, Fill, Turn, LeaveJpeg,
                 MppEncode, Encode, Take, Pull, Submit, LeaveEncode, request_stop,
                 apply_pending_console_encoder_cfg, vars, sources
  <2>. QED
    BY <1>14, <2>1
<1>. QED
  BY <1>1, <1>2, <1>3, <1>4, <1>5, <1>6, <1>7, <1>8, <1>9, <1>10, <1>11, <1>12, <1>13, <1>15
     DEF Next, Source


LEMMA JpegInit == Init => JpegInv
BY BoundsAre, EmptySeq, NoFrames DEF Init, JpegInv, NewPool, Sizes, Job

\* A frame of the source goes to the queue of its kind.
LEMMA EnqueueOK ==
  ASSUME JpegInv, NEW f \in Picture, enqueue_source_frame(f)
  PROVE  /\ mjpeg_q' \in Seq(Picture) /\ Len(mjpeg_q') <= PipeDepth /\ AllCamera(mjpeg_q')
         /\ nv12_q' \in Seq(Picture) /\ Len(nv12_q') <= PipeDepth
<1>1. /\ mjpeg_q \in Seq(Picture) /\ Len(mjpeg_q) <= PipeDepth /\ AllCamera(mjpeg_q)
      /\ nv12_q \in Seq(Picture) /\ Len(nv12_q) <= PipeDepth
  BY DEF JpegInv
<1>2. CASE f.src = "camera"
  <2>1. mjpeg_q' = push(mjpeg_q, f) /\ nv12_q' = nv12_q
    BY <1>2 DEF enqueue_source_frame
  <2>2. push(mjpeg_q, f) \in Seq(Picture) /\ Len(push(mjpeg_q, f)) <= PipeDepth
        /\ Pushed(mjpeg_q, f, push(mjpeg_q, f))
    BY <1>1, PushOK
  <2>3. AllCamera(push(mjpeg_q, f))
    BY <1>1, <1>2, <2>2, PushedHolds
  <2>. QED
    BY <1>1, <2>1, <2>2, <2>3
<1>3. CASE f.src # "camera"
  <2>1. nv12_q' = push(nv12_q, f) /\ mjpeg_q' = mjpeg_q
    BY <1>3 DEF enqueue_source_frame
  <2>2. push(nv12_q, f) \in Seq(Picture) /\ Len(push(nv12_q, f)) <= PipeDepth
    BY <1>1, PushOK
  <2>. QED
    BY <1>1, <2>1, <2>2
<1>. QED
  BY <1>2, <1>3

\* A step of the pool changes one job, and of its frame no more than the size.
LEMMA PoolOK ==
  ASSUME JpegInv, Pool
  PROVE  /\ \E i \in DOMAIN jdec.jobs, x \in Job :
              /\ jdec' = [jdec EXCEPT !.jobs[i] = x]
              /\ x.f.src = jdec.jobs[i].f.src /\ x.f.n = jdec.jobs[i].f.n
         /\ UNCHANGED <<sources, mjpeg_q, jpeg, nv12_q, encoder, control>>
<1>1. jdec.size \in Sizes /\ jdec.jobs \in Seq(Job)
  BY DEF JpegInv
<1>2. PICK i \in DOMAIN jdec.jobs :
        \/ \E st \in {"taken", "frame", "error"} : jdec' = [jdec EXCEPT !.jobs[i].st = st]
        \/ jdec' = [jdec EXCEPT !.jobs[i] = [f |-> [@.f EXCEPT !.size = jdec.size],
                                              st |-> "decoding"]]
  BY DEF Pool, TakeJob, BeginDecode, Decode, JobsIn
<1> DEFINE old   == jdec.jobs[i]
           sized == [f |-> [old.f EXCEPT !.size = jdec.size], st |-> "decoding"]
           now(st) == [old EXCEPT !.st = st]
<1>3. old \in Job
  BY <1>1, ElementOfSeq
<1>4. \/ jdec' = [jdec EXCEPT !.jobs[i] = sized]
      \/ \E st \in {"taken", "frame", "error"} : jdec' = [jdec EXCEPT !.jobs[i] = now(st)]
  BY <1>2
<1> HIDE DEF old
<1>5. sized \in Job /\ sized.f.src = old.f.src /\ sized.f.n = old.f.n
  BY <1>1, <1>3 DEF Job, Picture
<1>6. \A st \in {"taken", "frame", "error"} : now(st) \in Job /\ now(st).f = old.f
  BY <1>3 DEF Job
<1> HIDE DEF sized, now
<1>7. \E x \in Job : /\ jdec' = [jdec EXCEPT !.jobs[i] = x]
                     /\ x.f.src = old.f.src /\ x.f.n = old.f.n
  BY <1>4, <1>5, <1>6
<1>8. UNCHANGED <<sources, mjpeg_q, jpeg, nv12_q, encoder, control>>
  BY DEF Pool, TakeJob, BeginDecode, Decode
<1>. QED
  BY <1>7, <1>8 DEF old

LEMMA JpegStep ==
  ASSUME SourceInv, JpegInv, [Next]_vars
  PROVE  JpegInv'
<1>0. /\ mjpeg_q \in Seq(Picture) /\ Len(mjpeg_q) <= PipeDepth /\ AllCamera(mjpeg_q)
      /\ nv12_q \in Seq(Picture) /\ Len(nv12_q) <= PipeDepth
      /\ jdec.size \in Sizes /\ jdec.jobs \in Seq(Job)
      /\ jdec = [size |-> jdec.size, jobs |-> jdec.jobs]
      /\ jpeg.pc \in {"drain", "fill", "done"} /\ jpeg.inflight \in 0 .. MaxInflight
      /\ jpeg = [pc |-> jpeg.pc, inflight |-> jpeg.inflight]
      /\ Len(jdec.jobs) <= jpeg.inflight
      /\ \A i \in DOMAIN jdec.jobs : jdec.jobs[i].f.src = "camera"
      /\ MaxInflight \in Nat \ {0} /\ PipeDepth \in Nat \ {0}
      /\ Len(jdec.jobs) \in Nat /\ DOMAIN jdec.jobs = 1 .. Len(jdec.jobs)
  BY BoundsAre, LenProperties DEF JpegInv
<1>1. ASSUME NEW f \in Picture, enqueue_source_frame(f), UNCHANGED jpegs
      PROVE  JpegInv'
  <2>1. /\ mjpeg_q' \in Seq(Picture) /\ Len(mjpeg_q') <= PipeDepth /\ AllCamera(mjpeg_q')
        /\ nv12_q' \in Seq(Picture) /\ Len(nv12_q') <= PipeDepth
    BY <1>1, EnqueueOK
  <2>. QED
    BY <1>1, <2>1 DEF JpegInv, jpegs
<1>2. CASE UNCHANGED <<mjpeg_q, nv12_q, jdec, jpeg>>
  BY <1>2 DEF JpegInv
<1>3. CASE Capture
  BY <1>1, <1>3, FramesArePictures DEF Capture
<1>4. CASE PushProbe
  <2>1. source.probe[1] \in Picture
    <3>1. source.probe \in Seq(Picture) /\ source.probe # <<>>
      BY <1>4 DEF PushProbe, SourceInv, Switching
    <3>. QED
      BY <3>1, FirstFree
  <2>. QED
    BY <1>1, <1>4, <2>1 DEF PushProbe
<1>5. CASE MakeNoise
  BY <1>1, <1>2, <1>5, FramesArePictures DEF MakeNoise, jpegs
<1>6. CASE SwitchJdec
  <2>1. jdec' = [size |-> SourceSize, jobs |-> jdec.jobs] /\ SourceSize \in Sizes
    BY <1>0, <1>6 DEF SwitchJdec, SourceSize, Sizes
  <2>. QED
    BY <1>0, <1>6, <2>1 DEF SwitchJdec, JpegInv
<1>7. ASSUME NEW i \in DOMAIN jdec.jobs, NEW job \in Job, job.f.src = "camera",
             jdec' = [jdec EXCEPT !.jobs[i] = job], UNCHANGED <<mjpeg_q, nv12_q, jpeg>>
      PROVE  JpegInv'
  <2> DEFINE jobs == [jdec.jobs EXCEPT ![i] = job]
  <2>1. jobs \in Seq(Job) /\ Len(jobs) = Len(jdec.jobs) /\ DOMAIN jobs = DOMAIN jdec.jobs
        /\ \A k \in DOMAIN jobs : jobs[k] = IF k = i THEN job ELSE jdec.jobs[k]
    BY <1>0, <1>7, ExceptSeq
  <2>2. jdec' = [size |-> jdec.size, jobs |-> jobs]
    BY <1>0, <1>7
  <2> HIDE DEF jobs
  <2>3. jdec' \in [size : Sizes, jobs : Seq(Job)] /\ jdec'.jobs = jobs
    BY <1>0, <2>1, <2>2
  <2>4. \A k \in DOMAIN jobs : jobs[k].f.src = "camera"
    BY <1>0, <1>7, <2>1
  <2>5. Len(jobs) <= jpeg.inflight
    BY <1>0, <2>1
  <2>6. UNCHANGED <<mjpeg_q, nv12_q, jpeg>>
    BY <1>7
  <2>. QED
    BY <2>3, <2>4, <2>5, <2>6 DEF JpegInv
<1>8. CASE Pool
  <2>1. PICK i \in DOMAIN jdec.jobs, x \in Job :
          /\ jdec' = [jdec EXCEPT !.jobs[i] = x]
          /\ x.f.src = jdec.jobs[i].f.src
    BY <1>8, PoolOK
  <2>2. x.f.src = "camera"
    BY <1>0, <2>1
  <2>3. UNCHANGED <<mjpeg_q, nv12_q, jpeg>>
    BY <1>8, PoolOK
  <2>. QED
    BY <1>7, <2>1, <2>2, <2>3
<1>10. CASE Output
  <2> DEFINE left == Tail(jdec.jobs)
             x    == Head(jdec.jobs)
  <2>1. jdec.jobs # <<>>
    BY <1>10 DEF Output, MayOutput, ResultReady
  <2>2. /\ Len(jdec.jobs) \in Nat \ {0} /\ x \in Job
        /\ left \in Seq(Job) /\ DOMAIN left = 1 .. Len(jdec.jobs) - 1
        /\ Len(left) = Len(jdec.jobs) - 1
        /\ \A i \in 1 .. Len(jdec.jobs) - 1 : left[i] = jdec.jobs[i + 1]
    BY <1>0, <2>1, FirstFree
  <2>3. jdec' = [size |-> jdec.size, jobs |-> left]
    BY <1>0, <1>10 DEF Output
  <2>4. UNCHANGED mjpeg_q
    BY <1>10 DEF Output
  <2>5. \/ nv12_q' = push(nv12_q, x.f) /\ jpeg' = [pc |-> "drain", inflight |-> jpeg.inflight - 1]
        \/ /\ nv12_q' = nv12_q
           /\ jpeg' = [pc |-> IF jpeg.pc = "drain" THEN "fill" ELSE "drain",
                       inflight |-> jpeg.inflight]
    BY <1>0, <1>10 DEF Output
  <2> HIDE DEF left, x
  <2>6. \A i \in DOMAIN left : i + 1 \in DOMAIN jdec.jobs /\ left[i] = jdec.jobs[i + 1]
    BY <1>0, <2>2
  <2>7. jdec' \in [size : Sizes, jobs : Seq(Job)] /\ jdec'.jobs = left
        /\ \A i \in DOMAIN left : left[i].f.src = "camera"
    BY <1>0, <2>2, <2>3, <2>6
  <2>8. nv12_q' \in Seq(Picture) /\ Len(nv12_q') <= PipeDepth
    <3>1. x.f \in Picture
      BY <2>2 DEF Job
    <3>. QED
      BY <1>0, <2>5, <3>1, PushOK
  <2>9. jpeg' \in [pc : {"drain", "fill", "done"}, inflight : 0 .. MaxInflight]
        /\ Len(left) <= jpeg'.inflight
    BY <1>0, <2>2, <2>5
  <2>. QED
    BY <1>0, <2>4, <2>7, <2>8, <2>9 DEF JpegInv
<1>11. CASE Fill
  <2> DEFINE left == Tail(mjpeg_q)
             x    == Head(mjpeg_q)
             job  == [f |-> x, st |-> "queued"]
             jobs == Append(jdec.jobs, job)
  <2>1. mjpeg_q # <<>> /\ jpeg.inflight < MaxInflight
    BY <1>11 DEF Fill, MayFill
  <2>2. /\ Len(mjpeg_q) \in Nat \ {0} /\ DOMAIN mjpeg_q = 1 .. Len(mjpeg_q)
        /\ x \in Picture /\ x = mjpeg_q[1]
        /\ left \in Seq(Picture) /\ DOMAIN left = 1 .. Len(mjpeg_q) - 1
        /\ Len(left) = Len(mjpeg_q) - 1
        /\ \A i \in 1 .. Len(mjpeg_q) - 1 : left[i] = mjpeg_q[i + 1]
    BY <1>0, <2>1, FirstFree
  <2>3. jdec' = [size |-> jdec.size, jobs |-> jobs] /\ mjpeg_q' = left
        /\ jpeg' = [pc |-> "fill", inflight |-> jpeg.inflight + 1] /\ nv12_q' = nv12_q
    BY <1>0, <1>11 DEF Fill
  <2> HIDE DEF left, x
  <2>4. job \in Job /\ job.f = x
    BY <2>2 DEF Job
  <2>5. x.src = "camera"
    BY <1>0, <2>2 DEF AllCamera
  <2> HIDE DEF job
  <2>6. /\ jobs \in Seq(Job) /\ DOMAIN jobs = 1 .. Len(jdec.jobs) + 1
        /\ Len(jobs) = Len(jdec.jobs) + 1
        /\ \A i \in 1 .. Len(jdec.jobs) : jobs[i] = jdec.jobs[i]
        /\ jobs[Len(jdec.jobs) + 1] = job
    BY <1>0, <2>4, OneMore
  <2> HIDE DEF jobs
  <2>7. \A i \in DOMAIN jobs : jobs[i].f.src = "camera"
    <3>1. \A i \in DOMAIN jobs : i \in DOMAIN jdec.jobs \/ i = Len(jdec.jobs) + 1
      BY <1>0, <2>6
    <3>. QED
      BY <1>0, <2>4, <2>5, <2>6, <3>1
  <2>8. AllCamera(left) /\ Len(left) <= PipeDepth
    <3>1. \A i \in DOMAIN left : i + 1 \in DOMAIN mjpeg_q /\ left[i] = mjpeg_q[i + 1]
      BY <2>2
    <3>2. Len(left) <= PipeDepth
      BY <1>0, <2>2
    <3>. QED
      BY <1>0, <3>1, <3>2 DEF AllCamera
  <2>9. jpeg' \in [pc : {"drain", "fill", "done"}, inflight : 0 .. MaxInflight]
        /\ Len(jobs) <= jpeg'.inflight
    BY <1>0, <2>1, <2>3, <2>6
  <2>10. jdec' \in [size : Sizes, jobs : Seq(Job)] /\ jdec'.jobs = jobs
    BY <1>0, <2>3, <2>6
  <2>. QED
    BY <1>0, <2>2, <2>3, <2>7, <2>8, <2>9, <2>10 DEF JpegInv
<1>12. CASE Turn \/ LeaveJpeg
  <2>1. PICK pc \in {"drain", "done"} : jpeg' = [jpeg EXCEPT !.pc = pc]
    BY <1>12 DEF Turn, LeaveJpeg
  <2>2. jpeg' = [pc |-> pc, inflight |-> jpeg.inflight]
    BY <1>0, <2>1
  <2>. QED
    BY <1>0, <1>12, <2>2 DEF Turn, LeaveJpeg, JpegInv
<1>13. CASE Take
  <2>1. nv12_q # <<>> /\ nv12_q' = Tail(nv12_q) /\ UNCHANGED <<mjpeg_q, jdec, jpeg>>
    BY <1>13 DEF Take, MayTake, jpegs
  <2>2. Tail(nv12_q) \in Seq(Picture) /\ Len(Tail(nv12_q)) = Len(nv12_q) - 1
        /\ Len(nv12_q) \in Nat
    BY <1>0, <2>1, FirstFree
  <2>3. Len(nv12_q') <= PipeDepth
    BY <1>0, <2>1, <2>2
  <2>. QED
    BY <1>0, <2>1, <2>2, <2>3 DEF JpegInv
<1>14. CASE Close
  <2>1. jdec' = [size |-> jdec.size, jobs |-> <<>>] /\ UNCHANGED <<mjpeg_q, nv12_q, jpeg>>
    BY <1>14 DEF Close, NewPool
  <2>2. <<>> \in Seq(Job) /\ Len(<<>>) = 0
    BY EmptySeq
  <2>. QED
    BY <1>0, <2>1, <2>2 DEF JpegInv
<1>15. CASE \/ Flip \/ Settle \/ Retry \/ Fail \/ Lose \/ Probe \/ SwitchEnc \/ SwitchFps
            \/ SwitchIdr \/ LeaveSource \/ MppEncode \/ Pull \/ Submit \/ LeaveEncode
            \/ apply_pending_console_encoder_cfg \/ request_stop \/ UNCHANGED vars
  <2>1. UNCHANGED <<mjpeg_q, nv12_q, jdec, jpeg>>
    BY <1>15 DEF Flip, Settle, Retry, Fail, Lose, Probe, SwitchEnc, SwitchFps, SwitchIdr,
                 LeaveSource, MppEncode, Pull, Submit, LeaveEncode, request_stop,
                 apply_pending_console_encoder_cfg, vars, jpegs
  <2>. QED
    BY <1>2, <2>1
<1>. QED
  BY <1>3, <1>4, <1>5, <1>6, <1>8, <1>10, <1>11, <1>12, <1>13, <1>14, <1>15
     DEF Next, Source, Jpeg, Encode


\* The next access unit that comes out of e is an IDR.
KeyNext(e) ==
  /\ (e.packets # <<>>) => e.packets[1].key
  /\ (e.packets = <<>> /\ e.mpp # <<>>) => e.mpp[1].key
  /\ (e.packets = <<>> /\ e.mpp = <<>>) => e.first

KeyInv(e, s) == (s # <<>> /\ Last(s).size # e.live) => KeyNext(e)

Stamps(s) == \A i \in DOMAIN s : s[i].capture = <<s[i].src, s[i].n>>

\* The encoder while it is open, and the thread that drives it.
EncodeInv ==
  /\ enc \in Encoder
  /\ encode \in [pc : {"take", "submit", "done"}, holding : Seq(Picture)]
  /\ (encode.pc = "submit") <=> (encode.holding # <<>>)
  /\ Len(encode.holding) <= 1
  /\ sent \in Seq(Au) /\ Stamps(sent)
  /\ main \in {"running", "closed"}
  /\ (main = "running") => (EncInv(enc) /\ KeyInv(enc, sent))
  /\ (main = "closed") => (~g_run /\ enc.mpp = <<>>)

\* The packets that come out carry their own capture times, and their size is the
\* one that is open.
LEMMA UnitsStamped ==
  ASSUME NEW e \in Encoder, NEW aus, UnitsOf(aus, e), aus # <<>>
  PROVE  /\ aus \in Seq(Au) /\ Stamps(aus) /\ Last(aus).size = e.live
         /\ e.packets # <<>> /\ aus[1].key = e.packets[1].key /\ aus[1].size = e.live
<1>1. aus \in Seq(Au) /\ e.packets \in Seq(Coded) /\ Len(aus) = Len(e.packets)
  BY DEF Encoder, UnitsOf
<1>2. Len(aus) \in Nat \ {0} /\ DOMAIN aus = 1 .. Len(aus)
      /\ DOMAIN e.packets = 1 .. Len(aus)
  BY <1>1, EmptySeq, LenProperties
<1>3. Len(aus) \in DOMAIN e.packets /\ 1 \in DOMAIN e.packets
  BY <1>2
<1>4. e.packets # <<>>
  BY <1>1, <1>2, EmptySeq
<1>5. Stamps(aus)
  BY <1>2 DEF UnitsOf, Stamps
<1>. QED
  BY <1>1, <1>3, <1>4, <1>5 DEF UnitsOf, Last

\* What Last(aus) and the IDR that is due become in an attempt.
LEMMA TriedKeyed ==
  ASSUME NEW e \in Encoder, NEW f, NEW r, NEW next, NEW aus, Tried(e, f, r, next, aus),
         NEW s, KeyInv(e, s), NEW t, t = IF aus = <<>> THEN s ELSE aus
  PROVE  KeyInv(next, t)
<1>1. CASE aus # <<>>
  <2>1. UnitsOf(aus, e) /\ next.live = e.live
    BY <1>1 DEF Tried
  <2>2. Last(t).size = next.live
    BY <1>1, <2>1, UnitsStamped
  <2>. QED
    BY <2>2 DEF KeyInv
<1>2. CASE aus = <<>>
  <2>1. t = s /\ next.packets = <<>> /\ next \in Encoder
    BY <1>2 DEF Tried
  <2>2. ASSUME NEW mpp \in Seq(Coded), NEW first \in BOOLEAN, Moved(mpp, first, f, r, next),
               (mpp # <<>>) => mpp[1].key, (mpp = <<>>) => first
        PROVE  KeyNext(next)
    <3>1. CASE r # "ok"
      BY <2>1, <2>2, <3>1 DEF Moved, KeyNext
    <3>2. CASE r = "ok"
      <4> DEFINE x(key) == [src |-> f.src, n |-> f.n, size |-> next.live, key |-> key]
      <4>1. PICK key \in BOOLEAN : (first => key) /\ next.mpp = Append(mpp, x(key))
        BY <2>2, <3>2 DEF Moved
      <4>2. x(key).key = key
        OBVIOUS
      <4> HIDE DEF x
      <4>3. next.mpp \in Seq(Coded)
        BY <2>1 DEF Encoder
      <4>4. CASE mpp = <<>>
        <5>1. next.mpp = <<x(key)>>
          BY <4>1, <4>4
        <5>2. next.mpp # <<>> /\ next.mpp[1] = x(key)
          BY <5>1
        <5>. QED
          BY <2>1, <2>2, <4>1, <4>2, <4>4, <5>2 DEF KeyNext
      <4>5. CASE mpp # <<>>
        <5>1. Len(mpp) \in Nat \ {0}
          BY <4>5, EmptySeq, LenProperties
        <5>2. next.mpp # <<>> /\ next.mpp[1] = mpp[1]
          BY <4>1, <5>1
        <5>. QED
          BY <2>1, <2>2, <4>5, <5>2 DEF KeyNext
      <4>. QED
        BY <4>4, <4>5
    <3>. QED
      BY <3>1, <3>2
  <2>3. CASE UnitsOf(aus, e) /\ next.live = e.live /\ Moved(e.mpp, e.first, f, r, next)
    <3>1. e.packets \in Seq(Coded) /\ Len(e.packets) = Len(<<>>)
      BY <1>2, <2>3 DEF UnitsOf, Encoder
    <3>2. e.packets = <<>> /\ e.mpp \in Seq(Coded) /\ e.first \in BOOLEAN
      BY <3>1, EmptySeq DEF Encoder
    <3>3. KeyNext(e) => KeyNext(next)
      BY <2>2, <2>3, <3>2 DEF KeyNext
    <3>. QED
      BY <2>1, <2>3, <3>3 DEF KeyInv
  <2>4. CASE Moved(<<>>, TRUE, f, r, next)
    <3>1. KeyNext(next)
      BY <2>2, <2>4, EmptySeq
    <3>. QED
      BY <3>1 DEF KeyInv
  <2>. QED
    BY <2>3, <2>4 DEF Tried
<1>. QED
  BY <1>1, <1>2


LEMMA SettingsKeep ==
  ASSUME NEW e \in Encoder, NEW size \in Sizes, NEW fps \in Rates, NEW key, NEW s,
         NEW next \in {configure_size(e, size), configure_fps(e, fps), configure_live(e, key)}
  PROVE  KeyInv(e, s) => KeyInv(next, s)
<1>1. /\ next.live = e.live /\ next.packets = e.packets /\ next.mpp = e.mpp
      /\ next.first = e.first
  <2>1. CASE next = configure_size(e, size)
    BY <2>1 DEF configure_size, Encoder
  <2>2. CASE next = configure_live(e, key)
    BY <2>2 DEF configure_live, Encoder
  <2>3. CASE next = configure_fps(e, fps)
    BY <2>3 DEF configure_fps, Encoder
  <2>. QED
    BY <2>1, <2>2, <2>3
<1>. QED
  BY <1>1 DEF KeyInv, KeyNext

LEMMA MppKeyed ==
  ASSUME NEW e \in Encoder, EncInv(e), e.mpp # <<>>, NEW s, KeyInv(e, s)
  PROVE  KeyInv(mpp_encode(e), s)
<1> DEFINE next == mpp_encode(e)
<1>1. /\ next.mpp = Tail(e.mpp) /\ next.packets = Append(e.packets, Head(e.mpp))
      /\ next.live = e.live
  BY MppEncodeOK
<1>2. e.mpp \in Seq(Coded) /\ e.packets \in Seq(Coded)
  BY DEF Encoder
<1>3. Head(e.mpp) = e.mpp[1] /\ Head(e.mpp) \in Coded
  BY <1>2, FirstFree
<1> HIDE DEF next
<1>4. next.packets # <<>>
  BY <1>1, <1>2, <1>3, AppendProperties
<1>5. CASE e.packets = <<>>
  <2>1. next.packets[1] = e.mpp[1]
    BY <1>1, <1>3, <1>5
  <2>. QED
    BY <1>1, <1>4, <1>5, <2>1 DEF KeyInv, KeyNext, next
<1>6. CASE e.packets # <<>>
  <2>1. Len(e.packets) \in Nat \ {0}
    BY <1>2, <1>6, FirstFree
  <2>2. next.packets[1] = e.packets[1]
    BY <1>1, <1>2, <1>3, <2>1, AppendProperties
  <2>. QED
    BY <1>1, <1>4, <1>6, <2>2 DEF KeyInv, KeyNext, next
<1>. QED
  BY <1>5, <1>6

LEMMA EncodeInit == Init => EncodeInv
<1> SUFFICES ASSUME Init PROVE EncodeInv
  OBVIOUS
<1>1. CameraSize \in Sizes /\ CameraFps \in Rates
  BY DEF Sizes, Rates
<1>2. enc \in Encoder /\ EncInv(enc)
  BY <1>1, OpenOK DEF Init
<1>3. sent = <<>> /\ sent \in Seq(Au) /\ encode = [pc |-> "take", holding |-> <<>>]
      /\ main = "running"
  BY EmptySeq DEF Init
<1>. QED
  BY <1>2, <1>3, NoFrames DEF EncodeInv, KeyInv, Stamps

\* An attempt of the encode thread.
LEMMA AttemptTried ==
  ASSUME enc \in Encoder, EncInv(enc), encode.holding \in Seq(Picture), encode.holding # <<>>
  PROVE  Tried(enc, encode.holding[1], Attempt.r, Attempt.e, Attempt.aus)
<1> DEFINE f   == encode.holding[1]
           in  == enc_input(enc, f)
           out == drain_packets(in.e)
<1>1. f \in Picture
  BY FirstFree
<1>2. Attempt.r = in.r /\ Attempt.e = out.e /\ Attempt.aus = in.aus \o out.aus
  BY DEF Attempt
<1> HIDE DEF f
<1>3. Tried(enc, f, in.r, out.e, in.aus \o out.aus)
  BY <1>1, AttemptOK
<1>. QED
  BY <1>2, <1>3 DEF f

LEMMA EncodeStep ==
  ASSUME SourceInv, JpegInv, EncodeInv, [Next]_vars
  PROVE  EncodeInv'
<1>0. /\ enc \in Encoder /\ encode.pc \in {"take", "submit", "done"}
      /\ encode.holding \in Seq(Picture) /\ Len(encode.holding) <= 1
      /\ (encode.pc = "submit") <=> (encode.holding # <<>>)
      /\ sent \in Seq(Au) /\ Stamps(sent) /\ main \in {"running", "closed"}
      /\ (main = "running") => (EncInv(enc) /\ KeyInv(enc, sent))
      /\ (main = "closed") => (~g_run /\ enc.mpp = <<>>)
  BY DEF EncodeInv
<1>1. ASSUME enc' \in Encoder, EncInv(enc) => EncInv(enc)', enc.mpp = <<>> => enc.mpp' = <<>>,
             KeyInv(enc, sent) => KeyInv(enc, sent)',
             UNCHANGED <<encode, sent, main, g_run>>
      PROVE  EncodeInv'
  BY <1>0, <1>1 DEF EncodeInv, Stamps
<1>2. CASE UNCHANGED <<enc, encode, sent, main, g_run>>
  BY <1>0, <1>2 DEF EncodeInv, Stamps
<1>3. ASSUME NEW size \in Sizes, NEW fps \in Rates, NEW key,
             enc' \in {configure_size(enc, size), configure_fps(enc, fps),
                       configure_live(enc, key)}
      PROVE  /\ enc' \in Encoder /\ (EncInv(enc) => EncInv(enc'))
             /\ (enc.mpp = <<>> => enc'.mpp = <<>>)
             /\ \A s : KeyInv(enc, s) => KeyInv(enc', s)
  <2>1. enc' \in Encoder /\ (EncInv(enc) => EncInv(enc'))
    BY <1>0, <1>3, SettingsOK
  <2>2. \A s : KeyInv(enc, s) => KeyInv(enc', s)
    BY <1>0, <1>3, SettingsKeep
  <2>3. enc'.mpp = enc.mpp
    BY <1>0, <1>3 DEF configure_size, configure_fps, configure_live, Encoder
  <2>. QED
    BY <2>1, <2>2, <2>3
<1>4. CASE SwitchEnc \/ SwitchFps
  <2>1. /\ enc' \in {configure_size(enc, SourceSize), configure_fps(enc, SourceFps)}
        /\ SourceSize \in Sizes /\ SourceFps \in Rates
    BY <1>4 DEF SwitchEnc, SwitchFps, SourceSize, SourceFps, Sizes, Rates
  <2>2. UNCHANGED <<encode, sent, main, g_run>>
    BY <1>4 DEF SwitchEnc, SwitchFps, control
  <2>3. /\ enc' \in Encoder /\ (EncInv(enc) => EncInv(enc'))
        /\ (enc.mpp = <<>> => enc'.mpp = <<>>)
        /\ \A s : KeyInv(enc, s) => KeyInv(enc', s)
    BY <1>3, <2>1
  <2>. QED
    BY <1>1, <2>2, <2>3
<1>5. CASE SwitchIdr \/ apply_pending_console_encoder_cfg
  <2>1. PICK key : enc' = configure_live(enc, key)
    BY <1>5 DEF SwitchIdr, apply_pending_console_encoder_cfg
  <2>0. CameraSize \in Sizes /\ CameraFps \in Rates
    BY DEF Sizes, Rates
  <2>2. UNCHANGED <<encode, sent, main, g_run>>
    BY <1>5 DEF SwitchIdr, apply_pending_console_encoder_cfg, control
  <2>3. /\ enc' \in Encoder /\ (EncInv(enc) => EncInv(enc'))
        /\ (enc.mpp = <<>> => enc'.mpp = <<>>)
        /\ \A s : KeyInv(enc, s) => KeyInv(enc', s)
    BY <1>3, <2>0, <2>1
  <2>. QED
    BY <1>1, <2>2, <2>3
<1>6. CASE MppEncode
  <2>1. enc.mpp # <<>> /\ enc' = mpp_encode(enc) /\ UNCHANGED <<encode, sent, main, g_run>>
    BY <1>6 DEF MppEncode, control
  <2>2. main = "running" /\ EncInv(enc)
    BY <1>0, <2>1
  <2>3. enc' \in Encoder /\ EncInv(enc')
    BY <1>0, <2>1, <2>2, MppEncodeOK
  <2>4. \A s : KeyInv(enc, s) => KeyInv(enc', s)
    BY <1>0, <2>1, <2>2, MppKeyed
  <2>. QED
    BY <1>1, <2>1, <2>3, <2>4
<1>7. CASE Take
  <2>1. /\ nv12_q # <<>> /\ encode' = [pc |-> "submit", holding |-> <<Head(nv12_q)>>]
        /\ UNCHANGED <<enc, sent, main, g_run>>
    BY <1>7 DEF Take, MayTake, control
  <2>2. Head(nv12_q) \in Picture
    BY <2>1, FirstFree DEF JpegInv
  <2> DEFINE held == <<Head(nv12_q)>>
  <2>3. held \in Seq(Picture) /\ held # <<>> /\ Len(held) = 1
    BY <2>2
  <2> HIDE DEF held
  <2>4. encode' = [pc |-> "submit", holding |-> held]
    BY <2>1 DEF held
  <2>. QED
    BY <1>0, <2>1, <2>3, <2>4 DEF EncodeInv, Stamps
<1>8. CASE Pull
  <2> DEFINE d == drain_packets(enc)
  <2>1. /\ g_run /\ enc.packets # <<>> /\ enc' = d.e /\ sent' = d.aus
        /\ UNCHANGED <<encode, main, g_run>>
    BY <1>8 DEF Pull, MayPull, control
  <2>2. main = "running" /\ EncInv(enc)
    BY <1>0, <2>1
  <2>3. d.e \in Encoder /\ EncInv(d.e) /\ UnitsOf(d.aus, enc) /\ d.e.live = enc.live
    BY <1>0, <2>2, DrainOK
  <2> HIDE DEF d
  <2>4. d.aus # <<>>
    BY <1>0, <2>1, <2>3, EmptySeq, FirstFree DEF UnitsOf, Encoder
  <2>5. d.aus \in Seq(Au) /\ Stamps(d.aus) /\ Last(d.aus).size = enc.live
    BY <1>0, <2>3, <2>4, UnitsStamped
  <2>6. KeyInv(d.e, d.aus)
    BY <2>3, <2>5 DEF KeyInv
  <2>. QED
    BY <1>0, <2>1, <2>2, <2>3, <2>5, <2>6 DEF EncodeInv, Stamps
<1>9. CASE Submit
  <2> DEFINE a == Attempt
             f == encode.holding[1]
  <2>1. /\ encode.pc = "submit" /\ g_run /\ enc' = a.e
        /\ encode' = IF a.r = "ok" THEN [pc |-> "take", holding |-> <<>>] ELSE encode
        /\ sent' = IF a.aus = <<>> THEN sent ELSE a.aus
        /\ UNCHANGED <<main, g_run>>
    BY <1>9 DEF Submit, MaySubmit, control
  <2>2. main = "running" /\ EncInv(enc) /\ KeyInv(enc, sent)
    BY <1>0, <2>1
  <2>3. Tried(enc, f, a.r, a.e, a.aus)
    BY <1>0, <2>1, <2>2, AttemptTried
  <2> HIDE DEF a, f
  <2>4. a.e \in Encoder /\ EncInv(a.e)
    BY <2>3 DEF Tried
  <2>5. KeyInv(a.e, sent')
    BY <1>0, <2>1, <2>2, <2>3, TriedKeyed
  <2>6. sent' \in Seq(Au) /\ Stamps(sent')
    <3>1. CASE a.aus = <<>>
      BY <1>0, <2>1, <3>1
    <3>2. CASE a.aus # <<>>
      <4>1. UnitsOf(a.aus, enc)
        BY <2>3, <3>2 DEF Tried
      <4>. QED
        BY <1>0, <2>1, <3>2, <4>1, UnitsStamped
    <3>. QED
      BY <3>1, <3>2
  <2>7. /\ encode' \in [pc : {"take", "submit", "done"}, holding : Seq(Picture)]
        /\ (encode'.pc = "submit") <=> (encode'.holding # <<>>)
        /\ Len(encode'.holding) <= 1
    <3>1. CASE a.r = "ok"
      BY <2>1, <3>1, NoFrames
    <3>2. CASE a.r # "ok"
      BY <1>0, <2>1, <3>2 DEF EncodeInv
    <3>. QED
      BY <3>1, <3>2
  <2>. QED
    BY <2>1, <2>2, <2>4, <2>5, <2>6, <2>7 DEF EncodeInv, Stamps
<1>10. CASE LeaveEncode
  <2>1. encode' = [pc |-> "done", holding |-> <<>>] /\ UNCHANGED <<enc, sent, main, g_run>>
    BY <1>10 DEF LeaveEncode, control
  <2>. QED
    BY <1>0, <2>1, NoFrames DEF EncodeInv, Stamps
<1>11. CASE request_stop
  <2>1. g_run' = FALSE /\ UNCHANGED <<enc, encode, sent, main>>
    BY <1>11 DEF request_stop, encoder
  <2>. QED
    BY <1>0, <2>1 DEF EncodeInv, Stamps
<1>12. CASE Close
  <2>1. /\ ~g_run /\ main' = "closed" /\ enc' = encoder_close(enc)
        /\ UNCHANGED <<encode, sent, g_run>>
    BY <1>12 DEF Close, Joined
  <2>2. encoder_close(enc) \in Encoder /\ encoder_close(enc).mpp = <<>>
    <3>1. <<>> \in Seq(Slot) /\ <<>> \in Seq(Coded)
      BY EmptySeq
    <3>. QED
      BY <1>0, <3>1 DEF encoder_close, Encoder
  <2> HIDE DEF encoder_close
  <2>. QED
    BY <1>0, <2>1, <2>2 DEF EncodeInv, Stamps
<1>13. CASE \/ Flip \/ Settle \/ Capture \/ Retry \/ Fail \/ Lose \/ Probe \/ SwitchJdec
            \/ PushProbe \/ MakeNoise \/ LeaveSource \/ Pool \/ Jpeg \/ UNCHANGED vars
  <2>1. UNCHANGED <<enc, encode, sent, main, g_run>>
    BY <1>13 DEF Flip, Settle, Capture, Retry, Fail, Lose, Probe, SwitchJdec, PushProbe,
                 MakeNoise, LeaveSource, Pool, TakeJob, BeginDecode, Decode, Jpeg, Output, Fill,
                 Turn, LeaveJpeg, vars, encoder, control
  <2>. QED
    BY <1>2, <2>1
<1>. QED
  BY <1>4, <1>5, <1>6, <1>7, <1>8, <1>9, <1>10, <1>11, <1>12, <1>13 DEF Next, Source, Encode

\* The three together are inductive.
PipeInv == SourceInv /\ JpegInv /\ EncodeInv

LEMMA PipeAlways == Spec => []PipeInv
<1>1. Init => PipeInv
  BY SourceInit, JpegInit, EncodeInit DEF PipeInv
<1>2. PipeInv /\ [Next]_vars => PipeInv'
  BY SourceStep, JpegStep, EncodeStep DEF PipeInv
<1>. QED
  BY <1>1, <1>2, PTL DEF Spec

\* The queues, the counters and the threads stay within their types: no more
\* results are waited for than there are jobs in the pool.
THEOREM TxTyped == Spec => []TxTypeOK
<1>1. PipeInv => TxTypeOK
  BY DEF PipeInv, SourceInv, JpegInv, EncodeInv, TxTypeOK, Switching
<1>. QED
  BY <1>1, PipeAlways, PTL

\* Every slot is free or waits for the packet of a frame in MPP.
THEOREM NoSlotLost == Spec => []SlotsKept
<1>1. PipeInv => SlotsKept
  <2> SUFFICES ASSUME PipeInv, main = "running" PROVE
        /\ Len(enc.free) + Len(enc.pending) = EncSlots
        /\ Range(enc.free) \cup Range(enc.pending) = 1 .. EncSlots
        /\ Len(enc.pending) = Len(enc.mpp) + Len(enc.packets)
    BY DEF SlotsKept
  <2>1. EncInv(enc) /\ enc \in Encoder
    BY DEF PipeInv, EncodeInv
  <2>2. Len(enc.mpp) \in Nat /\ Len(enc.packets) \in Nat
        /\ Len(enc.pending) = Len(enc.packets) + Len(enc.mpp)
    BY <2>1, LenProperties DEF Encoder, EncInv
  <2>3. Len(enc.pending) = Len(enc.mpp) + Len(enc.packets)
    <3>1. \A a, b \in Nat : a + b = b + a
      OBVIOUS
    <3>. QED
      BY <2>2, <3>1, Zenon
  <2>. QED
    BY <2>1, <2>3 DEF EncInv, SlotsApart, Slot
<1>. QED
  BY <1>1, PipeAlways, PTL

\* docs/component-encoder.md:34: an access unit carries the capture time of its own
\* frame, over every refusal, retry and reopening.
THEOREM StampsAreOwn == Spec => []OwnStamp
<1>1. PipeInv => OwnStamp
  BY DEF PipeInv, EncodeInv, Stamps, OwnStamp
<1>. QED
  BY <1>1, PipeAlways, PTL

\* The first access unit of a new size is an IDR, wherever the encode thread comes
\* between the steps of the switch.
THEOREM SwitchBeginsWithIdr == Spec => NewSizeIsIdr
<1> DEFINE A == (sent' # sent /\ sent # <<>> /\ sent'[1].size # Last(sent).size) => sent'[1].key
<1>1. PipeInv /\ [Next]_vars => [A]_vars
  <2> SUFFICES ASSUME PipeInv, Next, sent' # sent, sent # <<>>,
                      sent'[1].size # Last(sent).size
               PROVE  sent'[1].key
    OBVIOUS
  <2>1. /\ enc \in Encoder /\ (encode.pc = "submit" <=> encode.holding # <<>>)
        /\ encode.holding \in Seq(Picture)
        /\ (main = "running") => (EncInv(enc) /\ KeyInv(enc, sent))
        /\ (main = "closed") => ~g_run
        /\ main \in {"running", "closed"}
    BY DEF PipeInv, EncodeInv
  <2>2. ASSUME UnitsOf(sent', enc), sent' # <<>>, KeyInv(enc, sent)
        PROVE  sent'[1].key
    <3>1. enc.packets # <<>> /\ sent'[1].key = enc.packets[1].key /\ sent'[1].size = enc.live
      BY <2>1, <2>2, UnitsStamped
    <3>2. KeyNext(enc)
      BY <2>2, <3>1 DEF KeyInv
    <3>. QED
      BY <3>1, <3>2 DEF KeyNext
  <2>3. CASE Pull
    <3> DEFINE d == drain_packets(enc)
    <3>1. g_run /\ enc.packets # <<>> /\ sent' = d.aus
      BY <2>3 DEF Pull, MayPull
    <3>2. EncInv(enc) /\ KeyInv(enc, sent)
      BY <2>1, <3>1
    <3>3. UnitsOf(d.aus, enc)
      BY <2>1, <3>2, DrainOK
    <3> HIDE DEF d
    <3>4. d.aus # <<>>
      BY <2>1, <3>1, <3>3, EmptySeq, FirstFree DEF UnitsOf, Encoder
    <3>. QED
      BY <2>2, <3>1, <3>2, <3>3, <3>4
  <2>4. CASE Submit
    <3> DEFINE a == Attempt
               f == encode.holding[1]
    <3>1. /\ encode.pc = "submit" /\ g_run
          /\ sent' = IF a.aus = <<>> THEN sent ELSE a.aus
      BY <2>4 DEF Submit, MaySubmit
    <3>2. EncInv(enc) /\ KeyInv(enc, sent)
      BY <2>1, <3>1
    <3>3. Tried(enc, f, a.r, a.e, a.aus)
      BY <2>1, <3>1, <3>2, AttemptTried
    <3> HIDE DEF a, f
    <3>4. a.aus # <<>> /\ sent' = a.aus
      BY <3>1
    <3>5. UnitsOf(a.aus, enc)
      BY <3>3, <3>4 DEF Tried
    <3>. QED
      BY <2>2, <3>2, <3>4, <3>5
  <2>5. ASSUME ~Pull, ~Submit PROVE FALSE
    BY <2>5 DEF Next, Flip, Settle, Source, Capture, Retry, Fail, Lose, Probe, SwitchEnc,
                SwitchFps, SwitchJdec, SwitchIdr, PushProbe, MakeNoise, LeaveSource, Pool,
                TakeJob, BeginDecode, Decode, Jpeg, Output, Fill, Turn, LeaveJpeg, MppEncode,
                Encode, Take, LeaveEncode, apply_pending_console_encoder_cfg, request_stop,
                Close, encoder
  <2>. QED
    BY <2>3, <2>4, <2>5
<1>. QED
  BY <1>1, PipeAlways, PTL DEF Spec, NewSizeIsIdr


(* ------------------------------- the order ------------------------------- *)

\* Within a part of the line, and from one part to those behind it, the frames of a
\* source come in the order they were captured.
Ord(q)    == \A i, j \in DOMAIN q : (i < j /\ q[i].src = q[j].src) => q[i].n < q[j].n
Bef(p, q) == \A i \in DOMAIN p, j \in DOMAIN q : p[i].src = q[j].src => p[i].n < q[j].n

LineOK(P) ==
  /\ \A k \in 1 .. 8 : Ord(P[k])
  /\ \A k, l \in 1 .. 8 : k < l => Bef(P[k], P[l])

\* x is a frame of q, or one made of it.
In(x, q) == \E j \in DOMAIN q : q[j].src = x.src /\ q[j].n = x.n

AllIn(p, q) == \A i \in DOMAIN p : In(p[i], q)

\* Where the frames of a queue come from after a push.
LEMMA PushedAt ==
  ASSUME NEW S, NEW q \in Seq(S), NEW f \in S, NEW next, Pushed(q, f, next)
  PROVE  \E d \in {0, 1} : \A i \in DOMAIN next :
           /\ i \in Nat
           /\ \/ i < Len(q) + 1 - d /\ i + d \in DOMAIN q /\ next[i] = q[i + d]
              \/ i = Len(q) + 1 - d /\ next[i] = f
<1>1. Len(q) \in Nat /\ DOMAIN q = 1 .. Len(q)
  BY LenProperties
<1>2. CASE next = q
  <2>1. \A i \in DOMAIN next : i \in Nat /\ i < Len(q) + 1 - 0 /\ i + 0 = i
    BY <1>1, <1>2
  <2>. QED
    BY <1>2, <2>1
<1>3. CASE next = Append(q, f)
  <2>1. /\ DOMAIN next = 1 .. Len(q) + 1
        /\ \A k \in 1 .. Len(q) : next[k] = q[k]
        /\ next[Len(q) + 1] = f
    BY <1>3, OneMore
  <2>2. \A i \in DOMAIN next :
          /\ i \in Nat
          /\ \/ i < Len(q) + 1 - 0 /\ i + 0 \in DOMAIN q /\ i + 0 = i /\ next[i] = q[i]
             \/ i = Len(q) + 1 - 0 /\ next[i] = f
    BY <1>1, <2>1
  <2>. QED
    BY <2>2
<1>4. CASE q # <<>> /\ next = Append(Tail(q), f)
  <2> DEFINE t == Tail(q)
  <2>1. /\ t \in Seq(S) /\ Len(t) = Len(q) - 1
        /\ \A k \in 1 .. Len(q) - 1 : t[k] = q[k + 1]
    BY <1>4, FirstFree
  <2>2. next = Append(t, f)
    BY <1>4
  <2> HIDE DEF t
  <2>3. /\ DOMAIN next = 1 .. Len(t) + 1
        /\ \A k \in 1 .. Len(t) : next[k] = t[k]
        /\ next[Len(t) + 1] = f
    BY <2>1, <2>2, OneMore
  <2>4. Len(t) + 1 = Len(q) + 1 - 1
    BY <1>1, <2>1
  <2>5. ASSUME NEW i \in DOMAIN next
        PROVE  /\ i \in Nat
               /\ \/ i < Len(q) + 1 - 1 /\ i + 1 \in DOMAIN q /\ next[i] = q[i + 1]
                  \/ i = Len(q) + 1 - 1 /\ next[i] = f
    <3>1. CASE i = Len(t) + 1
      BY <1>1, <2>1, <2>3, <2>4, <3>1
    <3>2. CASE i # Len(t) + 1
      <4>1. i \in 1 .. Len(t) /\ i \in 1 .. Len(q) - 1
        BY <1>1, <2>1, <2>3, <3>2
      <4>2. next[i] = q[i + 1]
        BY <2>1, <2>3, <4>1
      <4>. QED
        BY <1>1, <4>1, <4>2
    <3>. QED
      BY <3>1, <3>2
  <2>. QED
    BY <2>5
<1>. QED
  BY <1>2, <1>3, <1>4 DEF Pushed

\* The first frame of r goes to the end of q, the part before it.
Handed(q, r, q2, r2) ==
  /\ Ord(q2) /\ Ord(r2) /\ Bef(q2, r2)
  /\ \A i \in DOMAIN q2 : In(q2[i], q) \/ In(q2[i], r)
  /\ AllIn(r2, r)

LEMMA HandOver ==
  ASSUME NEW S, NEW q \in Seq(S), NEW T, NEW r \in Seq(T), r # <<>>,
         Ord(q), Ord(r), Bef(q, r),
         NEW x \in S, x.src = Head(r).src, x.n = Head(r).n,
         NEW q2, Pushed(q, x, q2)
  PROVE  Handed(q, r, q2, Tail(r))
<1>1. PICK d \in {0, 1} : \A i \in DOMAIN q2 :
           /\ i \in Nat
           /\ \/ i < Len(q) + 1 - d /\ i + d \in DOMAIN q /\ q2[i] = q[i + d]
              \/ i = Len(q) + 1 - d /\ q2[i] = x
  BY PushedAt
<1> DEFINE t == Tail(r)
<1>2. /\ Len(r) \in Nat \ {0} /\ DOMAIN r = 1 .. Len(r) /\ Head(r) = r[1]
      /\ DOMAIN t = 1 .. Len(r) - 1
      /\ \A i \in 1 .. Len(r) - 1 : t[i] = r[i + 1]
  BY FirstFree
<1> HIDE DEF t
<1>3. Len(q) \in Nat /\ DOMAIN q = 1 .. Len(q)
  BY LenProperties
<1>4. 1 \in DOMAIN r /\ x.src = r[1].src /\ x.n = r[1].n
  BY <1>2
<1>5. \A i \in DOMAIN t : i \in Nat /\ i + 1 \in DOMAIN r /\ 1 < i + 1 /\ t[i] = r[i + 1]
  BY <1>2
<1>6. ASSUME NEW i \in DOMAIN q2, NEW j \in DOMAIN q2, i < j, q2[i].src = q2[j].src
      PROVE  q2[i].n < q2[j].n
  <2>1. i < Len(q) + 1 - d /\ i + d \in DOMAIN q /\ q2[i] = q[i + d]
    BY <1>1, <1>3, <1>6
  <2>2. CASE j < Len(q) + 1 - d /\ j + d \in DOMAIN q /\ q2[j] = q[j + d]
    <3>1. i + d < j + d
      BY <1>1, <1>6
    <3>. QED
      BY <1>6, <2>1, <2>2, <3>1 DEF Ord
  <2>3. CASE q2[j] = x
    BY <1>4, <1>6, <2>1, <2>3 DEF Bef
  <2>. QED
    BY <1>1, <2>2, <2>3
<1>7. Ord(t)
  <2>1. \A i, j \in DOMAIN t : i < j => i + 1 < j + 1
    BY <1>5
  <2>. QED
    BY <1>5, <2>1 DEF Ord
<1>8. Bef(q2, t)
  <2>1. ASSUME NEW i \in DOMAIN q2, NEW j \in DOMAIN t, q2[i].src = t[j].src
        PROVE  q2[i].n < t[j].n
    <3>1. CASE i + d \in DOMAIN q /\ q2[i] = q[i + d]
      BY <1>5, <2>1, <3>1 DEF Bef
    <3>2. CASE q2[i] = x
      BY <1>4, <1>5, <2>1, <3>2 DEF Ord
    <3>. QED
      BY <1>1, <3>1, <3>2
  <2>. QED
    BY <2>1 DEF Bef
<1>9. \A i \in DOMAIN q2 : In(q2[i], q) \/ In(q2[i], r)
  BY <1>1, <1>4 DEF In
<1>10. AllIn(t, r)
  BY <1>5 DEF AllIn, In
<1>. QED
  BY <1>6, <1>7, <1>8, <1>9, <1>10 DEF Handed, Ord, t

\* Frames that go from one part to the one before it leave the line in order.
LEMMA LineMoved ==
  ASSUME NEW P, NEW Q, LineOK(P), NEW k \in 1 .. 7,
         \A l \in 1 .. 8 : l \notin {k, k + 1} => Q[l] = P[l],
         Handed(P[k], P[k + 1], Q[k], Q[k + 1])
  PROVE  LineOK(Q)
<1>1. k \in 1 .. 8 /\ k + 1 \in 1 .. 8 /\ k < k + 1 /\ k # k + 1
  OBVIOUS
<1>2. \A l \in 1 .. 8 : Ord(Q[l])
  BY DEF Handed, LineOK
<1>3. ASSUME NEW a \in 1 .. 8, NEW b \in 1 .. 8, a < b
      PROVE  Bef(Q[a], Q[b])
  <2>1. ASSUME NEW i \in DOMAIN Q[a], NEW j \in DOMAIN Q[b], Q[a][i].src = Q[b][j].src
        PROVE  Q[a][i].n < Q[b][j].n
    <3>1. CASE a = k /\ b = k + 1
      BY <2>1, <3>1 DEF Handed, Bef
    <3>2. CASE ~(a = k /\ b = k + 1)
      <4>1. PICK c \in 1 .. 8 : In(Q[a][i], P[c]) /\ (c = a \/ (a = k /\ c = k + 1))
        <5>1. CASE a \notin {k, k + 1}
          BY <5>1 DEF In
        <5>2. CASE a = k
          BY <1>1, <2>1, <5>2 DEF Handed
        <5>3. CASE a = k + 1
          BY <1>1, <2>1, <5>3 DEF Handed, AllIn
        <5>. QED
          BY <5>1, <5>2, <5>3
      <4>2. PICK e \in 1 .. 8 : In(Q[b][j], P[e]) /\ (e = b \/ (b = k /\ e = k + 1))
        <5>1. CASE b \notin {k, k + 1}
          BY <5>1 DEF In
        <5>2. CASE b = k
          BY <1>1, <2>1, <5>2 DEF Handed
        <5>3. CASE b = k + 1
          BY <1>1, <2>1, <5>3 DEF Handed, AllIn
        <5>. QED
          BY <5>1, <5>2, <5>3
      <4>3. c < e
        BY <1>3, <3>2, <4>1, <4>2
      <4>4. Bef(P[c], P[e])
        BY <4>3 DEF LineOK
      <4>5. PICK u \in DOMAIN P[c] : P[c][u].src = Q[a][i].src /\ P[c][u].n = Q[a][i].n
        BY <4>1 DEF In
      <4>6. PICK v \in DOMAIN P[e] : P[e][v].src = Q[b][j].src /\ P[e][v].n = Q[b][j].n
        BY <4>2 DEF In
      <4>7. P[c][u].n < P[e][v].n
        BY <2>1, <4>4, <4>5, <4>6 DEF Bef
      <4>. QED
        BY <4>5, <4>6, <4>7
    <3>. QED
      BY <3>1, <3>2
  <2>. QED
    BY <2>1 DEF Bef
<1>. QED
  BY <1>2, <1>3 DEF LineOK

\* Frames that are lost, or remade, change no order.
LEMMA LineThinned ==
  ASSUME NEW P, NEW Q, LineOK(P), \A k \in 1 .. 8 : Ord(Q[k]) /\ AllIn(Q[k], P[k])
  PROVE  LineOK(Q)
<1>1. ASSUME NEW a \in 1 .. 8, NEW b \in 1 .. 8, a < b,
             NEW i \in DOMAIN Q[a], NEW j \in DOMAIN Q[b], Q[a][i].src = Q[b][j].src
      PROVE  Q[a][i].n < Q[b][j].n
  <2>1. PICK u \in DOMAIN P[a] : P[a][u].src = Q[a][i].src /\ P[a][u].n = Q[a][i].n
    BY DEF AllIn, In
  <2>2. PICK v \in DOMAIN P[b] : P[b][v].src = Q[b][j].src /\ P[b][v].n = Q[b][j].n
    BY DEF AllIn, In
  <2>3. P[a][u].n < P[b][v].n
    BY <1>1, <2>1, <2>2 DEF LineOK, Bef
  <2>. QED
    BY <2>1, <2>2, <2>3
<1>. QED
  BY <1>1 DEF LineOK, Bef

\* A fresh frame joins the line, behind every frame of its source.
LEMMA LineJoined ==
  ASSUME NEW P, NEW Q, LineOK(P), NEW k \in 1 .. 8,
         \A l \in 1 .. 8 : l # k => Q[l] = P[l],
         NEW S, P[k] \in Seq(S), NEW f \in S, Pushed(P[k], f, Q[k]),
         \A l \in 1 .. 8 : \A i \in DOMAIN P[l] : P[l][i].src = f.src => P[l][i].n < f.n,
         \A l \in 1 .. 8 : k < l => \A i \in DOMAIN P[l] : P[l][i].src # f.src
  PROVE  LineOK(Q)
<1>1. PICK d \in {0, 1} : \A i \in DOMAIN Q[k] :
           /\ i \in Nat
           /\ \/ i < Len(P[k]) + 1 - d /\ i + d \in DOMAIN P[k] /\ Q[k][i] = P[k][i + d]
              \/ i = Len(P[k]) + 1 - d /\ Q[k][i] = f
  <2> DEFINE p == P[k]
             q == Q[k]
  <2>1. p \in Seq(S) /\ Pushed(p, f, q)
    OBVIOUS
  <2> HIDE DEF p, q
  <2>2. \E d \in {0, 1} : \A i \in DOMAIN q :
           /\ i \in Nat
           /\ \/ i < Len(p) + 1 - d /\ i + d \in DOMAIN p /\ q[i] = p[i + d]
              \/ i = Len(p) + 1 - d /\ q[i] = f
    BY <2>1, PushedAt
  <2>. QED
    BY <2>2 DEF p, q
<1>2. Len(P[k]) \in Nat
  BY LenProperties
<1>3. Ord(Q[k])
  <2>1. ASSUME NEW i \in DOMAIN Q[k], NEW j \in DOMAIN Q[k], i < j, Q[k][i].src = Q[k][j].src
        PROVE  Q[k][i].n < Q[k][j].n
    <3>1. i + d \in DOMAIN P[k] /\ Q[k][i] = P[k][i + d]
      BY <1>1, <1>2, <2>1
    <3>2. CASE j + d \in DOMAIN P[k] /\ Q[k][j] = P[k][j + d]
      <4>1. i + d < j + d
        BY <1>1, <2>1
      <4>. QED
        BY <2>1, <3>1, <3>2, <4>1 DEF LineOK, Ord
    <3>3. CASE Q[k][j] = f
      BY <2>1, <3>1, <3>3
    <3>. QED
      BY <1>1, <3>2, <3>3
  <2>. QED
    BY <2>1 DEF Ord
<1>4. \A i \in DOMAIN Q[k] : Q[k][i] = f \/ \E j \in DOMAIN P[k] : Q[k][i] = P[k][j]
  BY <1>1
<1>5. ASSUME NEW a \in 1 .. 8, NEW b \in 1 .. 8, a < b,
             NEW i \in DOMAIN Q[a], NEW j \in DOMAIN Q[b], Q[a][i].src = Q[b][j].src
      PROVE  Q[a][i].n < Q[b][j].n
  <2>1. CASE a # k /\ b # k
    BY <1>5, <2>1 DEF LineOK, Bef
  <2>2. CASE a = k
    <3>1. b # k /\ Q[b] = P[b] /\ k < b
      BY <1>5, <2>2
    <3>2. Q[a][i] # f
      BY <1>5, <3>1
    <3>3. PICK u \in DOMAIN P[a] : Q[a][i] = P[a][u]
      BY <1>4, <2>2, <3>2
    <3>. QED
      BY <1>5, <3>1, <3>3 DEF LineOK, Bef
  <2>3. CASE b = k
    <3>1. a # k /\ Q[a] = P[a]
      BY <1>5, <2>3
    <3>2. CASE Q[b][j] = f
      BY <1>5, <3>1, <3>2
    <3>3. CASE Q[b][j] # f
      <4>1. PICK v \in DOMAIN P[b] : Q[b][j] = P[b][v]
        BY <1>4, <2>3, <3>3
      <4>. QED
        BY <1>5, <3>1, <4>1 DEF LineOK, Bef
    <3>. QED
      BY <3>2, <3>3
  <2>. QED
    BY <2>1, <2>2, <2>3
<1>. QED
  BY <1>3, <1>5 DEF LineOK, Bef


FramesOf(jobs) == [i \in DOMAIN jobs |-> jobs[i].f]

\* The parts of the line, from the payloader back to the camera.
Parts ==
  <<sent, enc.packets, enc.mpp, encode.holding, nv12_q, FramesOf(jdec.jobs), mjpeg_q,
    source.probe>>

\* What is in the line was captured before the next frame of its source.
Known(P, c, n) ==
  \A l \in 1 .. 8 : \A i \in DOMAIN P[l] :
    /\ P[l][i].n \in Nat
    /\ \/ P[l][i].src = "camera" /\ P[l][i].n < c
       \/ P[l][i].src = "noise" /\ P[l][i].n < n

LineGood(P, c, n) == LineOK(P) /\ Known(P, c, n)

LineInv == LineGood(Parts, camera.pts, noise_pts)

LEMMA KnownKept ==
  ASSUME NEW P, NEW Q, NEW c, NEW n, Known(P, c, n),
         \A l \in 1 .. 8 : \A i \in DOMAIN Q[l] : \E m \in 1 .. 8 : In(Q[l][i], P[m])
  PROVE  Known(Q, c, n)
<1>1. ASSUME NEW l \in 1 .. 8, NEW i \in DOMAIN Q[l]
      PROVE  /\ Q[l][i].n \in Nat
             /\ \/ Q[l][i].src = "camera" /\ Q[l][i].n < c
                \/ Q[l][i].src = "noise" /\ Q[l][i].n < n
  <2>1. PICK m \in 1 .. 8 : In(Q[l][i], P[m])
    OBVIOUS
  <2>2. PICK j \in DOMAIN P[m] : P[m][j].src = Q[l][i].src /\ P[m][j].n = Q[l][i].n
    BY <2>1 DEF In
  <2>3. /\ P[m][j].n \in Nat
        /\ \/ P[m][j].src = "camera" /\ P[m][j].n < c
           \/ P[m][j].src = "noise" /\ P[m][j].n < n
    BY DEF Known
  <2>. QED
    BY <2>2, <2>3
<1>. QED
  BY <1>1 DEF Known

LEMMA GoodMoved ==
  ASSUME NEW P, NEW Q, NEW c, NEW n, LineGood(P, c, n), NEW k \in 1 .. 7,
         \A l \in 1 .. 8 : l \notin {k, k + 1} => Q[l] = P[l],
         Handed(P[k], P[k + 1], Q[k], Q[k + 1])
  PROVE  LineGood(Q, c, n)
<1>1. LineOK(Q)
  BY LineMoved DEF LineGood
<1>2. ASSUME NEW l \in 1 .. 8, NEW i \in DOMAIN Q[l]
      PROVE  \E m \in 1 .. 8 : In(Q[l][i], P[m])
  <2>1. k \in 1 .. 8 /\ k + 1 \in 1 .. 8
    OBVIOUS
  <2>2. CASE l = k
    BY <2>1, <2>2 DEF Handed
  <2>3. CASE l = k + 1
    BY <2>1, <2>3 DEF Handed, AllIn
  <2>4. CASE l \notin {k, k + 1}
    <3>1. In(Q[l][i], P[l])
      BY <2>4 DEF In
    <3>. QED
      BY <3>1
  <2>. QED
    BY <2>2, <2>3, <2>4
<1>3. Known(Q, c, n)
  <2>1. Known(P, c, n)
    BY DEF LineGood
  <2>. QED
    BY <1>2, <2>1, KnownKept
<1>. QED
  BY <1>1, <1>3 DEF LineGood

LEMMA GoodThinned ==
  ASSUME NEW P, NEW Q, NEW c, NEW n, LineGood(P, c, n),
         \A k \in 1 .. 8 : Ord(Q[k]) /\ AllIn(Q[k], P[k])
  PROVE  LineGood(Q, c, n)
<1>1. LineOK(Q)
  BY LineThinned DEF LineGood
<1>2. \A l \in 1 .. 8 : \A i \in DOMAIN Q[l] : In(Q[l][i], P[l])
  BY DEF AllIn
<1>3. Known(Q, c, n)
  <2>1. Known(P, c, n)
    BY DEF LineGood
  <2>. QED
    BY <1>2, <2>1, KnownKept
<1>. QED
  BY <1>1, <1>3 DEF LineGood

\* Only part k changes, and no frame of src is behind it.
Alone(P, Q, k)        == \A l \in 1 .. 8 : l # k => Q[l] = P[l]
NoneBehind(P, k, src) ==
  \A l \in 1 .. 8 : k < l => \A i \in DOMAIN P[l] : P[l][i].src # src

\* f is the next frame of its source, when c and n are those that are due.
Due(f, c, n, c2, n2) ==
  \/ f.src = "camera" /\ f.n = c /\ c2 = c + 1 /\ n2 = n
  \/ f.src = "noise" /\ f.n = n /\ n2 = n + 1 /\ c2 = c

\* The frame that is due joins the line at part k, with none of its source behind it.
LEMMA GoodJoined ==
  ASSUME NEW P, NEW Q, NEW c \in Nat, NEW n \in Nat, LineGood(P, c, n), NEW k \in 1 .. 8,
         Alone(P, Q, k), P[k] \in Seq(Picture), NEW f \in Picture, Pushed(P[k], f, Q[k]),
         NoneBehind(P, k, f.src), NEW c2, NEW n2, Due(f, c, n, c2, n2)
  PROVE  LineGood(Q, c2, n2)
<1>1. Known(P, c, n) /\ LineOK(P)
  BY DEF LineGood
<1>2. \A l \in 1 .. 8 : \A i \in DOMAIN P[l] : P[l][i].src = f.src => P[l][i].n < f.n
  BY <1>1 DEF Known, Due
<1>3. LineOK(Q)
  BY <1>1, <1>2, LineJoined DEF Alone, NoneBehind
<1>4. ASSUME NEW l \in 1 .. 8, NEW i \in DOMAIN Q[l]
      PROVE  /\ Q[l][i].n \in Nat
             /\ \/ Q[l][i].src = "camera" /\ Q[l][i].n < c2
                \/ Q[l][i].src = "noise" /\ Q[l][i].n < n2
  <2>1. CASE \E j \in DOMAIN P[l] : Q[l][i] = P[l][j]
    <3>1. PICK j \in DOMAIN P[l] : Q[l][i] = P[l][j]
      BY <2>1
    <3>2. /\ P[l][j].n \in Nat
          /\ \/ P[l][j].src = "camera" /\ P[l][j].n < c
             \/ P[l][j].src = "noise" /\ P[l][j].n < n
      BY <1>1 DEF Known
    <3>3. c \in Nat /\ n \in Nat /\ c2 \in {c, c + 1} /\ n2 \in {n, n + 1}
      BY DEF Due
    <3>. QED
      BY <3>1, <3>2, <3>3
  <2>2. CASE Q[l][i] = f
    <3>1. f.n \in Nat
      BY DEF Picture
    <3>. QED
      BY <2>2, <3>1 DEF Due
  <2>3. CASE l # k
    BY <2>1, <2>3 DEF Alone
  <2>4. CASE l = k
    <3> DEFINE p == P[k]
               q == Q[k]
    <3>1. p \in Seq(Picture) /\ Pushed(p, f, q)
      OBVIOUS
    <3> HIDE DEF p, q
    <3>2. \A j \in DOMAIN q : q[j] = f \/ \E m \in DOMAIN p : q[j] = p[m]
      BY <3>1, PushedHolds
    <3>. QED
      BY <2>1, <2>2, <2>4, <3>2 DEF p, q
  <2>. QED
    BY <2>3, <2>4
<1>. QED
  BY <1>3, <1>4 DEF LineGood, Known


\* Only parts k and k + 1 change.
Apart(P, Q, k) == \A l \in 1 .. 8 : l \notin {k, k + 1} => Q[l] = P[l]

\* The first frame of a part goes to the end of the part before it.
LEMMA GoodHanded ==
  ASSUME NEW P, NEW Q, NEW c, NEW n, LineGood(P, c, n), NEW k \in 1 .. 7, Apart(P, Q, k),
         NEW S, P[k] \in Seq(S), NEW T, P[k + 1] \in Seq(T), P[k + 1] # <<>>,
         NEW x \in S, x.src = Head(P[k + 1]).src, x.n = Head(P[k + 1]).n,
         Pushed(P[k], x, Q[k]), Q[k + 1] = Tail(P[k + 1])
  PROVE  LineGood(Q, c, n)
<1> DEFINE p  == P[k]
           p1 == P[k + 1]
           q  == Q[k]
<1>1. k \in 1 .. 8 /\ k + 1 \in 1 .. 8 /\ k < k + 1
  OBVIOUS
<1>2. Ord(p) /\ Ord(p1) /\ Bef(p, p1)
  BY <1>1 DEF LineGood, LineOK
<1>3. p \in Seq(S) /\ p1 \in Seq(T) /\ p1 # <<>> /\ x.src = Head(p1).src /\ x.n = Head(p1).n
      /\ Pushed(p, x, q) /\ Q[k + 1] = Tail(p1)
  OBVIOUS
<1> HIDE DEF p, p1, q
<1>4. Handed(p, p1, q, Tail(p1))
  BY <1>2, <1>3, HandOver
<1>5. Handed(P[k], P[k + 1], Q[k], Q[k + 1])
  BY <1>3, <1>4 DEF p, p1, q
<1>. QED
  BY <1>5, GoodMoved DEF Apart

\* The packets that come out take the place of what was sent before.
LEMMA GoodDrained ==
  ASSUME NEW P, NEW Q, NEW c, NEW n, LineGood(P, c, n), Apart(P, Q, 1),
         NEW e \in Encoder, P[2] = e.packets, UnitsOf(Q[1], e), Q[2] = <<>>
  PROVE  LineGood(Q, c, n)
<1> DEFINE aus == Q[1]
<1>1. aus \in Seq(Au) /\ e.packets \in Seq(Coded) /\ Len(aus) = Len(e.packets)
  BY DEF UnitsOf, Encoder
<1>2. DOMAIN aus = DOMAIN e.packets
  <2> HIDE DEF aus
  <2>. QED
    BY <1>1, LenProperties
<1>3. \A i \in DOMAIN aus : aus[i].src = e.packets[i].src /\ aus[i].n = e.packets[i].n
  BY <1>2 DEF UnitsOf
<1>4. Ord(e.packets)
  BY DEF LineGood, LineOK
<1> HIDE DEF aus
<1>5. Ord(aus) /\ Bef(aus, <<>>) /\ Ord(<<>>) /\ AllIn(<<>>, e.packets)
  BY <1>2, <1>3, <1>4 DEF Ord, Bef, AllIn
<1>6. \A i \in DOMAIN aus : In(aus[i], e.packets)
  BY <1>2, <1>3 DEF In
<1>7. Handed(P[1], P[2], Q[1], Q[2])
  BY <1>5, <1>6 DEF Handed, aus
<1>8. Handed(P[1], P[1 + 1], Q[1], Q[1 + 1])
  BY <1>7
<1>. QED
  BY <1>8, GoodMoved DEF Apart

LEMMA FramesAre ==
  ASSUME NEW jobs \in Seq(Job)
  PROVE  /\ FramesOf(jobs) \in Seq(Picture)
         /\ DOMAIN FramesOf(jobs) = DOMAIN jobs
         /\ \A i \in DOMAIN jobs : FramesOf(jobs)[i] = jobs[i].f
         /\ Len(FramesOf(jobs)) = Len(jobs)
<1>1. DOMAIN jobs = 1 .. Len(jobs) /\ Len(jobs) \in Nat
  BY LenProperties
<1>2. \A i \in DOMAIN jobs : jobs[i].f \in Picture
  <2>1. \A i \in DOMAIN jobs : jobs[i] \in Job
    BY ElementOfSeq
  <2>. QED
    BY <2>1 DEF Job
<1>3. FramesOf(jobs) \in [1 .. Len(jobs) -> Picture]
  BY <1>1, <1>2 DEF FramesOf
<1>4. FramesOf(jobs) \in Seq(Picture) /\ Len(FramesOf(jobs)) = Len(jobs)
  BY <1>1, <1>3, ASeq
<1>. QED
  BY <1>4 DEF FramesOf

LEMMA FramesMove ==
  ASSUME NEW jobs \in Seq(Job), NEW job \in Job
  PROVE  /\ FramesOf(Append(jobs, job)) = Append(FramesOf(jobs), job.f)
         /\ (jobs # <<>>) => /\ FramesOf(jobs) # <<>>
                             /\ Head(FramesOf(jobs)) = Head(jobs).f
                             /\ FramesOf(Tail(jobs)) = Tail(FramesOf(jobs))
<1> DEFINE fs   == FramesOf(jobs)
           more == Append(jobs, job)
<1>1. /\ fs \in Seq(Picture) /\ DOMAIN fs = DOMAIN jobs /\ Len(fs) = Len(jobs)
      /\ \A i \in DOMAIN jobs : fs[i] = jobs[i].f
  BY FramesAre
<1>2. job.f \in Picture
  BY DEF Job
<1>3. /\ more \in Seq(Job) /\ Len(jobs) \in Nat /\ DOMAIN jobs = 1 .. Len(jobs)
      /\ Len(more) = Len(jobs) + 1 /\ DOMAIN more = 1 .. Len(jobs) + 1
      /\ \A i \in 1 .. Len(jobs) : more[i] = jobs[i]
      /\ more[Len(jobs) + 1] = job
  BY OneMore
<1>4. FramesOf(more) = Append(fs, job.f)
  <2> DEFINE a == FramesOf(more)
             b == Append(fs, job.f)
  <2> HIDE DEF fs, more
  <2>1. /\ a \in Seq(Picture) /\ Len(a) = Len(jobs) + 1
        /\ \A i \in 1 .. Len(jobs) + 1 : a[i] = more[i].f
    BY <1>3, FramesAre
  <2>2. /\ b \in Seq(Picture) /\ Len(b) = Len(jobs) + 1
        /\ \A i \in 1 .. Len(jobs) : b[i] = fs[i]
        /\ b[Len(jobs) + 1] = job.f
    BY <1>1, <1>2, OneMore
  <2> HIDE DEF a, b
  <2>3. ASSUME NEW i \in 1 .. Len(a) PROVE a[i] = b[i]
    <3>1. CASE i = Len(jobs) + 1
      BY <1>3, <2>1, <2>2, <3>1
    <3>2. CASE i # Len(jobs) + 1
      <4>1. i \in 1 .. Len(jobs) /\ i \in DOMAIN jobs /\ i \in 1 .. Len(jobs) + 1
        BY <1>3, <2>1, <3>2
      <4>. QED
        BY <1>1, <1>3, <2>1, <2>2, <4>1
    <3>. QED
      BY <3>1, <3>2
  <2>4. a = b
    BY <2>1, <2>2, <2>3, SeqEqual
  <2>. QED
    BY <2>4 DEF a, b
<1>5. ASSUME jobs # <<>>
      PROVE  fs # <<>> /\ Head(fs) = Head(jobs).f /\ FramesOf(Tail(jobs)) = Tail(fs)
  <2> DEFINE t == Tail(jobs)
  <2>1. /\ Len(jobs) \in Nat \ {0} /\ Head(jobs) = jobs[1]
        /\ t \in Seq(Job) /\ DOMAIN t = 1 .. Len(jobs) - 1 /\ Len(t) = Len(jobs) - 1
        /\ \A i \in 1 .. Len(jobs) - 1 : t[i] = jobs[i + 1]
    BY <1>5, FirstFree
  <2>2. fs # <<>>
    BY <1>1, <2>1, EmptySeq
  <2> HIDE DEF fs, t
  <2>3. /\ Head(fs) = fs[1] /\ Tail(fs) \in Seq(Picture) /\ Len(Tail(fs)) = Len(jobs) - 1
        /\ \A i \in 1 .. Len(jobs) - 1 : Tail(fs)[i] = fs[i + 1]
    BY <1>1, <2>2, FirstFree
  <2>4. /\ FramesOf(t) \in Seq(Picture) /\ Len(FramesOf(t)) = Len(jobs) - 1
        /\ \A i \in 1 .. Len(jobs) - 1 : FramesOf(t)[i] = t[i].f
    BY <2>1, FramesAre
  <2>5. \A i \in 1 .. Len(jobs) - 1 : i + 1 \in DOMAIN jobs
    BY <1>3, <2>1
  <2>6. \A i \in 1 .. Len(jobs) - 1 : FramesOf(t)[i] = Tail(fs)[i]
    BY <1>1, <2>1, <2>3, <2>4, <2>5
  <2>7. FramesOf(t) = Tail(fs)
    <3> DEFINE a == FramesOf(t)
               b == Tail(fs)
    <3> HIDE DEF a, b
    <3>. QED
      BY <2>3, <2>4, <2>6, SeqEqual DEF a, b
  <2>8. Head(fs) = Head(jobs).f
    BY <1>1, <1>3, <2>1, <2>3
  <2>. QED
    BY <2>2, <2>7, <2>8 DEF t
<1>. QED
  BY <1>4, <1>5


LEMMA PartsAre ==
  /\ Parts[1] = sent /\ Parts[2] = enc.packets /\ Parts[3] = enc.mpp
  /\ Parts[4] = encode.holding /\ Parts[5] = nv12_q /\ Parts[6] = FramesOf(jdec.jobs)
  /\ Parts[7] = mjpeg_q /\ Parts[8] = source.probe
BY DEF Parts

LEMMA Eight == \A l \in 1 .. 8 : l \in {1, 2, 3, 4, 5, 6, 7, 8}
OBVIOUS

LEMMA LineInit == Init => LineInv
<1> SUFFICES ASSUME Init PROVE LineInv
  OBVIOUS
<1>1. enc.packets = <<>> /\ enc.mpp = <<>>
  BY DEF Init, encoder_open
<1>2. jdec.jobs = <<>>
  BY DEF Init, NewPool
<1>3. FramesOf(<<>>) = <<>>
  <2>1. <<>> \in Seq(Job)
    BY EmptySeq
  <2>2. FramesOf(<<>>) \in Seq(Picture) /\ Len(FramesOf(<<>>)) = 0
    BY <2>1, FramesAre, EmptySeq
  <2>. QED
    BY <2>2, EmptySeq
<1>4. \A l \in 1 .. 8 : Parts[l] = <<>>
  BY <1>1, <1>2, <1>3, PartsAre, Eight DEF Init, NewSource
<1>. QED
  BY <1>4 DEF LineInv, LineGood, LineOK, Known, Ord, Bef

\* The encoder when a frame has been tried: the packets are out, or all it held is
\* gone; then the frame is in MPP, or it is still held.
Trial(P, Q, e, held, r, next, aus) ==
  /\ P[2] = e.packets /\ P[3] = e.mpp /\ P[4] = held
  /\ Q[1] = (IF aus = <<>> THEN P[1] ELSE aus) /\ Q[2] = next.packets /\ Q[3] = next.mpp
  /\ Q[4] = (IF r = "ok" THEN <<>> ELSE held)
  /\ \A l \in 5 .. 8 : Q[l] = P[l]

LEMMA LineTried ==
  ASSUME NEW P, NEW c, NEW n, LineGood(P, c, n), NEW e \in Encoder,
         NEW held \in Seq(Picture), held # <<>>, Len(held) <= 1,
         NEW r, NEW next, NEW aus, Tried(e, held[1], r, next, aus),
         NEW Q, Trial(P, Q, e, held, r, next, aus)
  PROVE  LineGood(Q, c, n)
<1> DEFINE f       == held[1]
           M(s, m) == <<s, <<>>, m, held, P[5], P[6], P[7], P[8]>>
<1>0. /\ P[2] = e.packets /\ P[3] = e.mpp /\ P[4] = held
      /\ Q[1] = (IF aus = <<>> THEN P[1] ELSE aus) /\ Q[2] = next.packets /\ Q[3] = next.mpp
      /\ Q[4] = (IF r = "ok" THEN <<>> ELSE held)
      /\ \A l \in 5 .. 8 : Q[l] = P[l]
  BY DEF Trial
<1>1. /\ next \in Encoder /\ EncInv(next) /\ next.packets = <<>>
      /\ \/ UnitsOf(aus, e) /\ next.live = e.live /\ Moved(e.mpp, e.first, f, r, next)
         \/ aus = <<>> /\ Moved(<<>>, TRUE, f, r, next)
  BY DEF Tried
<1>2. ASSUME NEW s, NEW m
      PROVE  /\ M(s, m)[1] = s /\ M(s, m)[2] = <<>> /\ M(s, m)[3] = m /\ M(s, m)[4] = held
             /\ M(s, m)[5] = P[5] /\ M(s, m)[6] = P[6] /\ M(s, m)[7] = P[7]
             /\ M(s, m)[8] = P[8]
  OBVIOUS
<1> HIDE DEF M, f
<1>3. Head(held) = f /\ Tail(held) = <<>> /\ f \in Picture
  <2>1. /\ Len(held) \in Nat \ {0} /\ Head(held) \in Picture /\ Head(held) = held[1]
        /\ Tail(held) \in Seq(Picture) /\ Len(Tail(held)) = Len(held) - 1
    BY FirstFree
  <2>2. Len(held) = 1
    BY <2>1
  <2>3. Len(Tail(held)) = 0
    BY <2>1, <2>2
  <2>. QED
    BY <2>1, <2>3, EmptySeq DEF f
<1>4. ASSUME NEW s, NEW m \in Seq(Coded), NEW first, LineGood(M(s, m), c, n), Q[1] = s,
             Moved(m, first, f, r, next)
      PROVE  LineGood(Q, c, n)
  <2>1. CASE r # "ok"
    <3>1. Q[3] = m /\ Q[4] = held
      BY <1>0, <1>4, <2>1 DEF Moved
    <3>2. \A l \in 1 .. 8 : Q[l] = M(s, m)[l]
      BY <1>0, <1>1, <1>2, <1>4, <3>1, Eight
    <3>3. \A l \in 1 .. 8 : Ord(M(s, m)[l]) /\ AllIn(M(s, m)[l], M(s, m)[l])
      BY <1>4 DEF LineGood, LineOK, AllIn, In
    <3>. QED
      BY <1>4, <3>2, <3>3, GoodThinned
  <2>2. CASE r = "ok"
    <3> DEFINE x(key) == [src |-> f.src, n |-> f.n, size |-> next.live, key |-> key]
    <3>1. PICK key \in BOOLEAN : next.mpp = Append(m, x(key))
      BY <1>4, <2>2 DEF Moved
    <3>2. x(key) \in Coded /\ x(key).src = f.src /\ x(key).n = f.n
      BY <1>1, <1>3 DEF Coded, Picture, EncInv
    <3> HIDE DEF x
    <3>3. Apart(M(s, m), Q, 3)
      BY <1>0, <1>1, <1>2, <1>4, Eight DEF Apart
    <3>4. Pushed(M(s, m)[3], x(key), Q[3]) /\ Q[4] = Tail(M(s, m)[3 + 1])
      <4>1. 3 + 1 = 4 /\ M(s, m)[3] = m /\ M(s, m)[4] = held
        BY <1>2
      <4>2. Pushed(m, x(key), Q[3])
        BY <1>0, <3>1 DEF Pushed
      <4>3. Q[4] = Tail(held)
        BY <1>0, <1>3, <2>2
      <4>. QED
        BY <4>1, <4>2, <4>3
    <3>5. M(s, m)[3] \in Seq(Coded) /\ M(s, m)[3 + 1] \in Seq(Picture) /\ M(s, m)[3 + 1] # <<>>
          /\ Head(M(s, m)[3 + 1]) = f
      BY <1>2, <1>3, <1>4
    <3> HIDE DEF Apart
    <3>. QED
      BY <1>4, <3>2, <3>3, <3>4, <3>5, GoodHanded
  <2>. QED
    BY <2>1, <2>2
<1>5. e.mpp \in Seq(Coded) /\ <<>> \in Seq(Coded)
  BY EmptySeq DEF Encoder
<1>6. CASE UnitsOf(aus, e) /\ Moved(e.mpp, e.first, f, r, next) /\ aus # <<>>
  <2>1. Apart(P, M(aus, e.mpp), 1)
    BY <1>0, <1>2, Eight DEF Apart
  <2>2. UnitsOf(M(aus, e.mpp)[1], e) /\ M(aus, e.mpp)[2] = <<>>
    BY <1>2, <1>6
  <2>3. LineGood(M(aus, e.mpp), c, n)
    BY <1>0, <2>1, <2>2, GoodDrained
  <2>. QED
    BY <1>0, <1>4, <1>5, <1>6, <2>3
<1>7. ASSUME aus = <<>>, NEW m \in {e.mpp, <<>>}
      PROVE  LineGood(M(P[1], m), c, n)
  <2>1. \A l \in 1 .. 8 : Ord(P[l])
    BY DEF LineGood, LineOK
  <2>2. \A l \in 1 .. 8 : M(P[1], m)[l] \in {P[l], <<>>}
    BY <1>0, <1>2, <1>7, Eight
  <2>3. \A l \in 1 .. 8 : /\ Ord(P[l]) /\ AllIn(P[l], P[l])
                          /\ Ord(<<>>) /\ AllIn(<<>>, P[l])
    <3>1. Ord(<<>>) /\ \A q : AllIn(<<>>, q)
      BY DEF Ord, AllIn
    <3>2. \A q : AllIn(q, q)
      BY DEF AllIn, In
    <3>. QED
      BY <2>1, <3>1, <3>2
  <2>4. \A l \in 1 .. 8 : Ord(M(P[1], m)[l]) /\ AllIn(M(P[1], m)[l], P[l])
    BY <2>2, <2>3
  <2>. QED
    BY <2>4, GoodThinned
<1>8. CASE aus = <<>>
  <2>1. PICK m \in {e.mpp, <<>>}, first \in {e.first, TRUE} : Moved(m, first, f, r, next)
    BY <1>1
  <2>2. m \in Seq(Coded) /\ LineGood(M(P[1], m), c, n) /\ Q[1] = P[1]
    BY <1>0, <1>5, <1>7, <1>8
  <2>. QED
    BY <1>4, <2>1, <2>2
<1>. QED
  BY <1>1, <1>6, <1>8


LEMMA LineStep ==
  ASSUME PipeInv, LineInv, [Next]_vars
  PROVE  LineInv'
<1> DEFINE P == Parts
           Q == Parts'
<1>1. /\ P[1] = sent /\ P[2] = enc.packets /\ P[3] = enc.mpp
      /\ P[4] = encode.holding /\ P[5] = nv12_q /\ P[6] = FramesOf(jdec.jobs)
      /\ P[7] = mjpeg_q /\ P[8] = source.probe
  BY PartsAre
<1>2. /\ Q[1] = sent' /\ Q[2] = enc'.packets /\ Q[3] = enc'.mpp
      /\ Q[4] = encode'.holding /\ Q[5] = nv12_q' /\ Q[6] = FramesOf(jdec'.jobs)
      /\ Q[7] = mjpeg_q' /\ Q[8] = source'.probe
  BY DEF Parts
<1>3. LineGood(P, camera.pts, noise_pts)
  BY DEF LineInv
<1>4. LineInv' <=> LineGood(Q, camera'.pts, noise_pts')
  BY DEF LineInv
<1> HIDE DEF P, Q
<1>5. /\ enc \in Encoder /\ camera.pts \in Nat /\ noise_pts \in Nat
      /\ mjpeg_q \in Seq(Picture) /\ nv12_q \in Seq(Picture) /\ jdec.jobs \in Seq(Job)
      /\ source.probe \in Seq(Picture) /\ encode.holding \in Seq(Picture)
      /\ (source.probe # <<>>) <=> (source.kind = "camera" /\ source.pc \in Switching)
      /\ (source.pc = "probe") => (source.kind = "camera")
      /\ AllCamera(mjpeg_q) /\ AllCamera(source.probe) /\ Len(source.probe) <= 1
      /\ \A i \in DOMAIN jdec.jobs : jdec.jobs[i].f.src = "camera"
      /\ (encode.pc = "submit") <=> (encode.holding # <<>>)
      /\ Len(encode.holding) <= 1 /\ main \in {"running", "closed"}
      /\ (main = "running") => EncInv(enc)
      /\ (main = "closed") => (~g_run /\ enc.mpp = <<>>)
  BY DEF PipeInv, SourceInv, JpegInv, EncodeInv
<1>6. enc.packets \in Seq(Coded) /\ enc.mpp \in Seq(Coded)
  BY <1>5 DEF Encoder
<1>7. \A k \in 1 .. 8 : Ord(P[k])
  BY <1>3 DEF LineGood, LineOK
\* Steps that take frames away, or touch none.
<1>8. ASSUME \A k \in 1 .. 8 : Ord(Q[k]) /\ AllIn(Q[k], P[k]),
             camera'.pts = camera.pts, noise_pts' = noise_pts
      PROVE  LineInv'
  BY <1>3, <1>4, <1>8, GoodThinned
<1>9. ASSUME \A k \in 1 .. 8 : Q[k] = P[k] \/ Q[k] = <<>>,
             camera'.pts = camera.pts, noise_pts' = noise_pts
      PROVE  LineInv'
  <2>1. Ord(<<>>) /\ \A q : AllIn(<<>>, q)
    BY DEF Ord, AllIn
  <2>2. \A q : AllIn(q, q)
    BY DEF AllIn, In
  <2>. QED
    BY <1>7, <1>8, <1>9, <2>1, <2>2
<1>10. ASSUME NEW k \in 1 .. 7, NEW j, j = k + 1,
              Apart(P, Q, k), camera'.pts = camera.pts, noise_pts' = noise_pts,
              NEW S, P[k] \in Seq(S), NEW T, P[j] \in Seq(T), P[j] # <<>>,
              NEW x \in S, Head(P[j]) = x, Pushed(P[k], x, Q[k]), Q[j] = Tail(P[j])
       PROVE  LineInv'
  BY <1>3, <1>4, <1>10, GoodHanded
<1>32. ASSUME NEW k \in 1 .. 8, Alone(P, Q, k), P[k] \in Seq(Picture), NEW f \in Picture,
              Pushed(P[k], f, Q[k]), NoneBehind(P, k, f.src),
              Due(f, camera.pts, noise_pts, camera'.pts, noise_pts')
       PROVE  LineInv'
  <2> DEFINE c == camera'.pts
             n == noise_pts'
  <2>1. Due(f, camera.pts, noise_pts, c, n)
    BY <1>32
  <2> HIDE DEF c, n
  <2>2. LineGood(Q, c, n)
    BY <1>3, <1>5, <1>32, <2>1, GoodJoined
  <2>. QED
    BY <1>4, <2>2 DEF c, n
<1>11. FramesOf(jdec.jobs) \in Seq(Picture)
  BY <1>5, FramesAre
<1>12. CASE Capture
  <2>1. /\ source.pc = "poll" /\ enqueue_source_frame(CameraFrame)
        /\ camera' = [camera EXCEPT !.pts = @ + 1]
        /\ UNCHANGED <<noise_pts, source, sent, enc, encode, jdec>>
    BY <1>12 DEF Capture, MayCapture, Polling, encoder, jpegs
  <2>2. /\ CameraFrame.src = "camera" /\ CameraFrame.n = camera.pts /\ CameraFrame \in Picture
    BY FramesArePictures DEF CameraFrame, PipeInv
  <2>3. mjpeg_q' = push(mjpeg_q, CameraFrame) /\ nv12_q' = nv12_q
    BY <2>1, <2>2 DEF enqueue_source_frame
  <2>4. Pushed(mjpeg_q, CameraFrame, mjpeg_q')
    BY <2>2, <2>3, PushOK DEF PipeInv, JpegInv
  <2>5. P[8] = <<>>
    BY <1>1, <1>5, <2>1 DEF Switching
  <2>6. Alone(P, Q, 7)
    BY <1>1, <1>2, <2>1, <2>3, Eight DEF Alone
  <2>7. NoneBehind(P, 7, CameraFrame.src)
    <3>1. \A l \in 1 .. 8 : 7 < l => l = 8
      OBVIOUS
    <3>. QED
      BY <2>5, <3>1 DEF NoneBehind
  <2>8. camera'.pts = camera.pts + 1
    BY <2>1 DEF PipeInv, SourceInv
  <2>9. P[7] \in Seq(Picture) /\ Pushed(P[7], CameraFrame, Q[7]) /\ noise_pts' = noise_pts
    BY <1>1, <1>2, <1>5, <2>1, <2>4
  <2>10. Due(CameraFrame, camera.pts, noise_pts, camera'.pts, noise_pts')
    BY <2>2, <2>8, <2>9 DEF Due
  <2>. QED
    BY <1>32, <2>2, <2>6, <2>7, <2>9, <2>10
<1>13. CASE MakeNoise
  <2>1. /\ \/ /\ noise_pts' = noise_pts + 1 /\ enqueue_source_frame(NoiseFrame)
           \/ UNCHANGED <<noise_pts, mjpeg_q, nv12_q>>
        /\ source' = [source EXCEPT !.pc = "poll"]
        /\ UNCHANGED <<camera, sent, enc, encode, jdec>>
    BY <1>13 DEF MakeNoise, encoder, jpegs
  <2>2. source'.probe = source.probe
    BY <2>1 DEF PipeInv, SourceInv
  <2>3. CASE UNCHANGED <<noise_pts, mjpeg_q, nv12_q>>
    <3>1. \A k \in 1 .. 8 : Q[k] = P[k]
      BY <1>1, <1>2, <2>1, <2>2, <2>3, Eight
    <3>. QED
      BY <1>9, <2>1, <2>3, <3>1
  <2>4. CASE noise_pts' = noise_pts + 1 /\ enqueue_source_frame(NoiseFrame)
    <3>1. NoiseFrame.src = "noise" /\ NoiseFrame.n = noise_pts /\ NoiseFrame \in Picture
      BY FramesArePictures DEF NoiseFrame, PipeInv
    <3>2. nv12_q' = push(nv12_q, NoiseFrame) /\ mjpeg_q' = mjpeg_q
      BY <2>4, <3>1 DEF enqueue_source_frame
    <3>3. Pushed(nv12_q, NoiseFrame, nv12_q')
      BY <3>1, <3>2, PushOK DEF PipeInv, JpegInv
    <3>4. Alone(P, Q, 5)
      BY <1>1, <1>2, <2>1, <2>2, <3>2, Eight DEF Alone
    <3>5. \A i \in DOMAIN FramesOf(jdec.jobs) : FramesOf(jdec.jobs)[i].src = "camera"
      <4>1. /\ DOMAIN FramesOf(jdec.jobs) = DOMAIN jdec.jobs
            /\ \A i \in DOMAIN jdec.jobs : FramesOf(jdec.jobs)[i] = jdec.jobs[i].f
        BY <1>5, FramesAre
      <4>2. \A i \in DOMAIN jdec.jobs : jdec.jobs[i].f.src = "camera"
        BY <1>5
      <4>. QED
        BY <4>1, <4>2
    <3>6. NoneBehind(P, 5, NoiseFrame.src)
      <4>1. \A l \in 1 .. 8 : 5 < l => l \in {6, 7, 8}
        OBVIOUS
      <4>2. \A l \in {6, 7, 8} : \A i \in DOMAIN P[l] : P[l][i].src = "camera"
        BY <1>1, <1>5, <3>5 DEF AllCamera
      <4>. QED
        BY <3>1, <4>1, <4>2 DEF NoneBehind
    <3>7. P[5] \in Seq(Picture) /\ Pushed(P[5], NoiseFrame, Q[5]) /\ camera'.pts = camera.pts
      BY <1>1, <1>2, <1>5, <2>1, <3>3
    <3>8. Due(NoiseFrame, camera.pts, noise_pts, camera'.pts, noise_pts')
      BY <2>4, <3>1, <3>7 DEF Due
    <3>. QED
      BY <1>32, <3>1, <3>4, <3>6, <3>7, <3>8
  <2>. QED
    BY <2>1, <2>3, <2>4
<1>14. CASE Probe
  <2>1. /\ source.pc = "poll" /\ source.kind = "noise"
        /\ camera' = IF Capturing THEN [camera EXCEPT !.pts = @ + 1] ELSE capture_close
        /\ source' = IF Capturing /\ settled
                     THEN [kind |-> "camera", pc |-> "enc", probe |-> <<CameraFrame>>]
                     ELSE [source EXCEPT !.pc = "noise"]
        /\ UNCHANGED <<noise_pts, mjpeg_q, nv12_q, sent, enc, encode, jdec>>
    BY <1>14 DEF Probe, MayProbe, Polling, encoder, jpegs
  <2>2. source.probe = <<>> /\ P[8] = <<>>
    BY <1>1, <1>5, <2>1 DEF Switching
  <2>3. Alone(P, Q, 8)
    BY <1>1, <1>2, <2>1, Eight DEF Alone
  <2>4. CASE Capturing
    <3>1. camera'.pts = camera.pts + 1
      BY <2>1, <2>4 DEF PipeInv, SourceInv
    <3> DEFINE f == CameraFrame
    <3>2. f \in Picture /\ f.src = "camera" /\ f.n = camera.pts
      BY FramesArePictures DEF CameraFrame, PipeInv
    <3>3. source'.probe = <<f>> \/ source'.probe = source.probe
      BY <2>1 DEF PipeInv, SourceInv
    <3> HIDE DEF f
    <3>4. Pushed(<<>>, f, source'.probe)
      <4>1. Append(<<>>, f) = <<f>>
        OBVIOUS
      <4>. QED
        BY <2>2, <3>3, <4>1 DEF Pushed
    <3>5. P[8] \in Seq(Picture) /\ Pushed(P[8], f, Q[8])
      BY <1>2, <2>2, <3>4, NoFrames
    <3>6. NoneBehind(P, 8, f.src)
      BY DEF NoneBehind
    <3>7. Due(f, camera.pts, noise_pts, camera'.pts, noise_pts')
      BY <2>1, <3>1, <3>2 DEF Due
    <3>. QED
      BY <1>32, <2>3, <3>2, <3>5, <3>6, <3>7
  <2>5. CASE ~Capturing
    <3>1. camera'.pts = camera.pts /\ source'.probe = source.probe
      BY <2>1, <2>5 DEF PipeInv, SourceInv, capture_close
    <3>2. \A l \in 1 .. 8 : Q[l] = P[l]
      BY <1>1, <1>2, <2>3, <3>1 DEF Alone
    <3>. QED
      BY <1>9, <2>1, <3>1, <3>2
  <2>. QED
    BY <2>4, <2>5
<1>15. CASE PushProbe
  <2> DEFINE f == source.probe[1]
  <2>1. /\ source.pc = "probe" /\ enqueue_source_frame(f)
        /\ source' = [source EXCEPT !.pc = "poll", !.probe = <<>>]
        /\ UNCHANGED <<camera, noise_pts, sent, enc, encode, jdec>>
    BY <1>15 DEF PushProbe, encoder, jpegs
  <2>2. source.probe # <<>>
    BY <1>5, <2>1 DEF Switching
  <2>3. /\ Len(source.probe) \in Nat \ {0} /\ DOMAIN source.probe = 1 .. Len(source.probe)
        /\ Head(source.probe) = f /\ f \in Picture
        /\ Tail(source.probe) \in Seq(Picture)
        /\ Len(Tail(source.probe)) = Len(source.probe) - 1
    BY <1>5, <2>2, FirstFree
  <2>4. Tail(source.probe) = <<>>
    <3>1. Len(source.probe) = 1
      <4> DEFINE len == Len(source.probe)
      <4>1. len \in Nat \ {0} /\ len <= 1
        BY <1>5, <2>3
      <4> HIDE DEF len
      <4>2. len = 1
        BY <4>1
      <4>. QED
        BY <4>2 DEF len
    <3>2. Len(Tail(source.probe)) = 0
      BY <2>3, <3>1
    <3>. QED
      BY <2>3, <3>2, EmptySeq
  <2>5. f.src = "camera"
    BY <1>5, <2>3 DEF AllCamera
  <2> HIDE DEF f
  <2>6. mjpeg_q' = push(mjpeg_q, f) /\ nv12_q' = nv12_q
    BY <2>1, <2>5 DEF enqueue_source_frame
  <2>7. Pushed(mjpeg_q, f, mjpeg_q')
    BY <2>3, <2>6, PushOK DEF PipeInv, JpegInv
  <2>8. source'.probe = <<>>
    BY <2>1 DEF PipeInv, SourceInv
  <2>9. Apart(P, Q, 7)
    BY <1>1, <1>2, <2>1, <2>6, Eight DEF Apart
  <2>10. /\ P[7] \in Seq(Picture) /\ P[8] \in Seq(Picture) /\ P[8] # <<>>
         /\ Head(P[8]) = f /\ Pushed(P[7], f, Q[7]) /\ Q[8] = Tail(P[8])
    BY <1>1, <1>2, <1>5, <2>2, <2>3, <2>4, <2>7, <2>8
  <2>11. 7 \in 1 .. 7 /\ 8 = 7 + 1 /\ camera'.pts = camera.pts /\ noise_pts' = noise_pts
    BY <2>1
  <2>12. f \in Picture
    BY <2>3
  <2>. QED
    BY <1>10, <2>9, <2>10, <2>11, <2>12
<1>16. CASE Pool
  <2>1. UNCHANGED <<camera, noise_pts, source, mjpeg_q, nv12_q, sent, enc, encode>>
    BY <1>16, PoolOK DEF sources, encoder, PipeInv
  <2> DEFINE old == FramesOf(jdec.jobs)
             new == FramesOf(jdec'.jobs)
  <2>2. /\ jdec'.jobs \in Seq(Job) /\ DOMAIN jdec'.jobs = DOMAIN jdec.jobs
        /\ \A i \in DOMAIN jdec.jobs : jdec'.jobs[i].f.src = jdec.jobs[i].f.src
                                       /\ jdec'.jobs[i].f.n = jdec.jobs[i].f.n
    <3>1. PICK i \in DOMAIN jdec.jobs, x \in Job :
            /\ jdec' = [jdec EXCEPT !.jobs[i] = x]
            /\ x.f.src = jdec.jobs[i].f.src /\ x.f.n = jdec.jobs[i].f.n
      BY <1>16, PoolOK DEF PipeInv
    <3>2. jdec \in [size : Sizes, jobs : Seq(Job)]
      BY DEF PipeInv, JpegInv
    <3> DEFINE jobs == [jdec.jobs EXCEPT ![i] = x]
    <3>3. jdec'.jobs = jobs
      BY <3>1, <3>2
    <3>4. jobs \in Seq(Job) /\ DOMAIN jobs = DOMAIN jdec.jobs
          /\ \A k \in DOMAIN jobs : jobs[k] = IF k = i THEN x ELSE jdec.jobs[k]
      BY <1>5, <3>1, ExceptSeq
    <3> HIDE DEF jobs
    <3>. QED
      BY <3>1, <3>3, <3>4
  <2>3. /\ DOMAIN old = DOMAIN jdec.jobs /\ DOMAIN new = DOMAIN jdec.jobs
        /\ \A i \in DOMAIN jdec.jobs : new[i].src = old[i].src /\ new[i].n = old[i].n
    <3>1. /\ DOMAIN old = DOMAIN jdec.jobs
          /\ \A i \in DOMAIN jdec.jobs : old[i] = jdec.jobs[i].f
      BY <1>5, FramesAre
    <3>2. /\ DOMAIN new = DOMAIN jdec'.jobs
          /\ \A i \in DOMAIN jdec'.jobs : new[i] = jdec'.jobs[i].f
      BY <2>2, FramesAre
    <3> HIDE DEF old, new
    <3>. QED
      BY <2>2, <3>1, <3>2
  <2>4. Ord(old)
    BY <1>1, <1>7
  <2> HIDE DEF old, new
  <2>5. Ord(new) /\ AllIn(new, old)
    BY <2>3, <2>4 DEF Ord, AllIn, In
  <2>6. \A q : AllIn(q, q)
    BY DEF AllIn, In
  <2>7. \A k \in 1 .. 8 : k # 6 => Q[k] = P[k]
    BY <1>1, <1>2, <2>1, Eight
  <2>8. Q[6] = new /\ P[6] = old
    BY <1>1, <1>2 DEF old, new
  <2>. QED
    BY <1>7, <1>8, <2>1, <2>5, <2>6, <2>7, <2>8
<1>18. CASE Output
  <2> DEFINE fs == FramesOf(jdec.jobs)
             x  == Head(fs)
  <2>1. /\ jdec.jobs # <<>> /\ jdec' = [jdec EXCEPT !.jobs = Tail(@)]
        /\ nv12_q' = push(nv12_q, Head(jdec.jobs).f) \/ nv12_q' = nv12_q
        /\ UNCHANGED <<camera, noise_pts, source, mjpeg_q, sent, enc, encode>>
    BY <1>18 DEF Output, MayOutput, ResultReady, sources, encoder
  <2>2. jdec'.jobs = Tail(jdec.jobs)
    BY <2>1 DEF PipeInv, JpegInv
  <2>3. Head(jdec.jobs) \in Job
    BY <1>5, <2>1, FirstFree
  <2>4. fs # <<>> /\ x = Head(jdec.jobs).f /\ FramesOf(jdec'.jobs) = Tail(fs)
    BY <1>5, <2>1, <2>2, <2>3, FramesMove
  <2>5. x \in Picture
    BY <2>3, <2>4 DEF Job
  <2> HIDE DEF fs, x
  <2>6. Pushed(nv12_q, x, nv12_q')
    <3>1. nv12_q' = push(nv12_q, x) \/ nv12_q' = nv12_q
      BY <2>1, <2>4
    <3>2. Pushed(nv12_q, x, push(nv12_q, x))
      BY <2>5, PushOK DEF PipeInv, JpegInv
    <3>. QED
      BY <3>1, <3>2 DEF Pushed
  <2>7. Apart(P, Q, 5)
    BY <1>1, <1>2, <2>1, Eight DEF Apart
  <2>8. /\ P[5] \in Seq(Picture) /\ P[6] \in Seq(Picture) /\ P[6] # <<>>
        /\ Head(P[6]) = x /\ Pushed(P[5], x, Q[5]) /\ Q[6] = Tail(P[6])
    BY <1>1, <1>2, <1>5, <1>11, <2>4, <2>6 DEF fs, x
  <2>. QED
    BY <1>10, <2>1, <2>5, <2>7, <2>8
<1>19. CASE Fill
  <2> DEFINE fs  == FramesOf(jdec.jobs)
             x   == Head(mjpeg_q)
             job == [f |-> x, st |-> "queued"]
  <2>1. /\ mjpeg_q # <<>> /\ jdec' = [jdec EXCEPT !.jobs = Append(@, job)]
        /\ mjpeg_q' = Tail(mjpeg_q)
        /\ UNCHANGED <<camera, noise_pts, source, nv12_q, sent, enc, encode>>
    BY <1>19 DEF Fill, MayFill, sources, encoder
  <2>2. x \in Picture
    BY <1>5, <2>1, FirstFree
  <2> HIDE DEF x
  <2>3. job \in Job /\ job.f = x
    BY <2>2 DEF Job
  <2>4. jdec'.jobs = Append(jdec.jobs, job)
    BY <2>1 DEF PipeInv, JpegInv
  <2> HIDE DEF job
  <2>5. FramesOf(jdec'.jobs) = Append(fs, x)
    BY <1>5, <2>3, <2>4, FramesMove
  <2>6. Apart(P, Q, 6)
    BY <1>1, <1>2, <2>1, Eight DEF Apart
  <2>7. Pushed(fs, x, FramesOf(jdec'.jobs))
    BY <2>5 DEF Pushed
  <2>8. /\ P[6] \in Seq(Picture) /\ P[7] \in Seq(Picture) /\ P[7] # <<>>
        /\ Head(P[7]) = x /\ Pushed(P[6], x, Q[6]) /\ Q[7] = Tail(P[7])
    BY <1>1, <1>2, <1>5, <1>11, <2>1, <2>7 DEF x
  <2>9. 6 \in 1 .. 7 /\ 7 = 6 + 1 /\ camera'.pts = camera.pts /\ noise_pts' = noise_pts
    BY <2>1
  <2> HIDE DEF fs
  <2>. QED
    BY <1>10, <2>2, <2>6, <2>8, <2>9
<1>20. CASE MppEncode
  <2>1. /\ enc.mpp # <<>> /\ enc' = mpp_encode(enc)
        /\ UNCHANGED <<camera, noise_pts, source, mjpeg_q, nv12_q, jdec, sent, encode>>
    BY <1>20 DEF MppEncode, sources, jpegs
  <2>2. EncInv(enc)
    BY <1>5, <2>1
  <2>3. enc'.mpp = Tail(enc.mpp) /\ enc'.packets = Append(enc.packets, Head(enc.mpp))
    BY <1>5, <2>1, <2>2, MppEncodeOK
  <2> DEFINE x == Head(enc.mpp)
  <2>4. x \in Coded
    BY <1>6, <2>1, FirstFree
  <2>5. Pushed(enc.packets, x, enc'.packets)
    BY <2>3 DEF Pushed
  <2> HIDE DEF x
  <2>6. Apart(P, Q, 2)
    BY <1>1, <1>2, <2>1, Eight DEF Apart
  <2>7. /\ P[2] \in Seq(Coded) /\ P[3] \in Seq(Coded) /\ P[3] # <<>>
        /\ Head(P[3]) = x /\ Pushed(P[2], x, Q[2]) /\ Q[3] = Tail(P[3])
    BY <1>1, <1>2, <1>6, <2>1, <2>3, <2>5 DEF x
  <2>. QED
    BY <1>10, <2>1, <2>4, <2>6, <2>7
<1>21. CASE Take
  <2> DEFINE x == Head(nv12_q)
  <2>1. /\ encode.pc = "take" /\ nv12_q # <<>> /\ enc' = enc
        /\ encode' = [pc |-> "submit", holding |-> <<x>>] /\ nv12_q' = Tail(nv12_q)
        /\ UNCHANGED <<camera, noise_pts, source, mjpeg_q, jdec, sent>>
    BY <1>21 DEF Take, MayTake, sources, jpegs
  <2>2. x \in Picture
    BY <1>5, <2>1, FirstFree
  <2> HIDE DEF x
  <2>3. encode.holding = <<>> /\ encode'.holding = Append(<<>>, x)
    BY <1>5, <2>1
  <2>4. enc'.packets = enc.packets /\ enc'.mpp = enc.mpp
    BY <2>1
  <2>5. Pushed(encode.holding, x, encode'.holding)
    BY <2>3 DEF Pushed
  <2>6. Apart(P, Q, 4)
    BY <1>1, <1>2, <2>1, <2>4, Eight DEF Apart
  <2>7. /\ P[4] \in Seq(Picture) /\ P[5] \in Seq(Picture) /\ P[5] # <<>>
        /\ Head(P[5]) = x /\ Pushed(P[4], x, Q[4]) /\ Q[5] = Tail(P[5])
    BY <1>1, <1>2, <1>5, <2>1, <2>5 DEF x
  <2>8. 4 \in 1 .. 7 /\ 5 = 4 + 1 /\ camera'.pts = camera.pts /\ noise_pts' = noise_pts
    BY <2>1
  <2>. QED
    BY <1>10, <2>2, <2>6, <2>7, <2>8
<1>22. CASE Pull
  <2> DEFINE d == drain_packets(enc)
  <2>1. /\ g_run /\ enc' = d.e /\ sent' = d.aus
        /\ UNCHANGED <<camera, noise_pts, source, mjpeg_q, nv12_q, jdec, encode>>
    BY <1>22 DEF Pull, MayPull, sources, jpegs
  <2>2. EncInv(enc)
    BY <1>5, <2>1
  <2>3. UnitsOf(d.aus, enc) /\ d.e.packets = <<>> /\ d.e.mpp = enc.mpp
    BY <1>5, <2>2, DrainOK
  <2> HIDE DEF d
  <2>4. Apart(P, Q, 1)
    BY <1>1, <1>2, <2>1, <2>3, Eight DEF Apart
  <2>5. P[2] = enc.packets /\ UnitsOf(Q[1], enc) /\ Q[2] = <<>>
    BY <1>1, <1>2, <2>1, <2>3
  <2>6. enc \in Encoder
    BY <1>5
  <2>7. LineGood(Q, camera.pts, noise_pts)
    BY <1>3, <2>4, <2>5, <2>6, GoodDrained
  <2>. QED
    BY <1>4, <2>1, <2>7
<1>23. CASE Submit
  <2> DEFINE a    == Attempt
             held == encode.holding
  <2>1. /\ encode.pc = "submit" /\ g_run /\ enc' = a.e
        /\ encode' = IF a.r = "ok" THEN [pc |-> "take", holding |-> <<>>] ELSE encode
        /\ sent' = IF a.aus = <<>> THEN sent ELSE a.aus
        /\ UNCHANGED <<camera, noise_pts, source, mjpeg_q, nv12_q, jdec>>
    BY <1>23 DEF Submit, MaySubmit, sources, jpegs
  <2>2. EncInv(enc) /\ held \in Seq(Picture) /\ held # <<>> /\ Len(held) <= 1
    BY <1>5, <2>1
  <2>3. Tried(enc, held[1], a.r, a.e, a.aus)
    BY <1>5, <2>2, AttemptTried
  <2> HIDE DEF a
  <2>4. encode'.holding = IF a.r = "ok" THEN <<>> ELSE held
    BY <2>1
  <2> HIDE DEF held
  <2>5. /\ P[2] = enc.packets /\ P[3] = enc.mpp /\ P[4] = held
        /\ Q[1] = IF a.aus = <<>> THEN P[1] ELSE a.aus
        /\ Q[2] = a.e.packets /\ Q[3] = a.e.mpp
        /\ Q[4] = IF a.r = "ok" THEN <<>> ELSE held
    BY <1>1, <1>2, <2>1, <2>4 DEF held
  <2>6. \A l \in 5 .. 8 : Q[l] = P[l]
    <3>1. \A l \in 5 .. 8 : l \in {5, 6, 7, 8}
      OBVIOUS
    <3>. QED
      BY <1>1, <1>2, <2>1, <3>1
  <2>7. LineGood(Q, camera.pts, noise_pts)
    <3>1. enc \in Encoder
      BY <1>5
    <3> DEFINE r    == a.r
               next == a.e
               aus  == a.aus
    <3>2. /\ Tried(enc, held[1], r, next, aus)
          /\ Trial(P, Q, enc, held, r, next, aus)
      BY <2>3, <2>5, <2>6 DEF Trial
    <3> HIDE DEF r, next, aus
    <3>3. held \in Seq(Picture) /\ held # <<>> /\ Len(held) <= 1
      BY <2>2
    <3>. QED
      BY <1>3, <3>1, <3>2, <3>3, LineTried
  <2>. QED
    BY <1>4, <2>1, <2>7
<1>24. CASE LeaveEncode
  <2>1. /\ encode' = [pc |-> "done", holding |-> <<>>]
        /\ UNCHANGED <<camera, noise_pts, source, mjpeg_q, nv12_q, jdec, sent, enc>>
    BY <1>24 DEF LeaveEncode, sources, jpegs
  <2>2. \A k \in 1 .. 8 : Q[k] = P[k] \/ Q[k] = <<>>
    BY <1>1, <1>2, <2>1, Eight
  <2>. QED
    BY <1>9, <2>1, <2>2
<1>25. CASE Close
  <2>1. /\ camera' = capture_close /\ jdec' = NewPool(jdec.size) /\ enc' = encoder_close(enc)
        /\ UNCHANGED <<noise_pts, source, mjpeg_q, nv12_q, encode, sent>>
    BY <1>25 DEF Close
  <2>2. camera'.pts = camera.pts /\ enc'.packets = <<>> /\ enc'.mpp = <<>>
    BY <1>5, <2>1 DEF capture_close, encoder_close, Encoder, PipeInv, SourceInv
  <2>3. FramesOf(jdec'.jobs) = <<>>
    <3>1. jdec'.jobs = <<>> /\ <<>> \in Seq(Job) /\ Len(<<>>) = 0
      BY <2>1, EmptySeq DEF NewPool
    <3>2. FramesOf(<<>>) \in Seq(Picture) /\ Len(FramesOf(<<>>)) = 0
      BY <3>1, FramesAre
    <3>. QED
      BY <3>1, <3>2, EmptySeq
  <2>4. \A k \in 1 .. 8 : Q[k] = P[k] \/ Q[k] = <<>>
    BY <1>1, <1>2, <2>1, <2>2, <2>3, Eight
  <2>. QED
    BY <1>9, <2>1, <2>2, <2>4
<1>26. ASSUME UNCHANGED <<noise_pts, mjpeg_q, nv12_q, jdec, encode, sent>>,
              camera'.pts = camera.pts, source'.probe = source.probe,
              enc'.packets = enc.packets, enc'.mpp = enc.mpp, FramesOf(jdec'.jobs) = FramesOf(jdec.jobs)
       PROVE  LineInv'
  <2>1. \A k \in 1 .. 8 : Q[k] = P[k]
    BY <1>1, <1>2, <1>26, Eight
  <2>. QED
    BY <1>9, <1>26, <2>1
<1>27. CASE Flip \/ Retry \/ Fail \/ LeaveSource
  <2>1. camera'.pts = camera.pts /\ source'.probe = source.probe
    BY <1>27 DEF Flip, Retry, Fail, LeaveSource, capture_open, PipeInv, SourceInv
  <2>. QED
    BY <1>26, <1>27, <2>1 DEF Flip, Retry, Fail, LeaveSource, encoder, jpegs
<1>28. CASE Lose
  <2>1. /\ camera' = capture_close /\ source.pc = "poll"
        /\ source' = source \/ source'.probe = <<>>
        /\ UNCHANGED <<noise_pts, mjpeg_q, nv12_q, jdec, sent, enc, encode>>
    BY <1>28 DEF Lose, MayLose, Polling, encoder, jpegs
  <2>2. camera'.pts = camera.pts
    BY <2>1 DEF capture_close, PipeInv, SourceInv
  <2>3. source'.probe = source.probe
    BY <1>5, <2>1 DEF Switching
  <2>. QED
    BY <1>26, <2>1, <2>2, <2>3
<1>29. CASE SwitchEnc \/ SwitchFps \/ SwitchIdr \/ apply_pending_console_encoder_cfg
  <2>1. \/ enc' = configure_size(enc, SourceSize)
        \/ enc' = configure_fps(enc, SourceFps)
        \/ \E key : enc' = configure_live(enc, key)
    BY <1>29 DEF SwitchEnc, SwitchFps, SwitchIdr, apply_pending_console_encoder_cfg
  <2>2. enc'.packets = enc.packets /\ enc'.mpp = enc.mpp
    BY <1>5, <2>1 DEF configure_size, configure_fps, configure_live, Encoder
  <2>3. /\ source'.probe = source.probe
        /\ UNCHANGED <<camera, noise_pts, mjpeg_q, nv12_q, jdec, sent, encode>>
    BY <1>29 DEF SwitchEnc, SwitchFps, SwitchIdr, apply_pending_console_encoder_cfg, jpegs,
                 sources, PipeInv, SourceInv
  <2>. QED
    BY <1>26, <2>2, <2>3
<1>30. CASE SwitchJdec
  <2>1. jdec' = [jdec EXCEPT !.size = SourceSize] /\ source' = [source EXCEPT !.pc = "idr"]
        /\ UNCHANGED <<camera, noise_pts, mjpeg_q, nv12_q, sent, enc, encode>>
    BY <1>30 DEF SwitchJdec, encoder
  <2>2. jdec'.jobs = jdec.jobs /\ source'.probe = source.probe
    BY <2>1 DEF PipeInv, SourceInv, JpegInv
  <2>3. \A k \in 1 .. 8 : Q[k] = P[k]
    BY <1>1, <1>2, <2>1, <2>2, Eight
  <2>. QED
    BY <1>9, <2>1, <2>3
<1>31. CASE Settle \/ Turn \/ LeaveJpeg \/ request_stop \/ UNCHANGED vars
  <2>1. UNCHANGED <<camera, noise_pts, source, mjpeg_q, nv12_q, jdec, sent, enc, encode>>
    BY <1>31 DEF Settle, Turn, LeaveJpeg, request_stop, vars, sources, jpegs, encoder
  <2>. QED
    BY <1>26, <2>1
<1>. QED
  BY <1>12, <1>13, <1>14, <1>15, <1>16, <1>18, <1>19, <1>20, <1>21, <1>22, <1>23, <1>24,
     <1>25, <1>27, <1>28, <1>29, <1>30, <1>31
     DEF Next, Source, Jpeg, Encode


(* --------------------------- the line as a whole ------------------------- *)

LEMMA LineAlways == Spec => []LineInv
<1>1. Init => LineInv
  BY LineInit
<1>2. PipeInv /\ LineInv /\ [Next]_vars => LineInv'
  BY LineStep
<1>. QED
  BY <1>1, <1>2, PipeAlways, PTL DEF Spec

\* Where the frames of two queues are when one goes before the other.
LEMMA JoinedAt ==
  ASSUME NEW S, NEW p \in Seq(S), NEW q \in Seq(S)
  PROVE  /\ p \o q \in Seq(S)
         /\ \A i \in DOMAIN (p \o q) :
              \/ i \in DOMAIN p /\ (p \o q)[i] = p[i]
              \/ /\ i \in Nat /\ i > Len(p)
                 /\ i - Len(p) \in DOMAIN q /\ (p \o q)[i] = q[i - Len(p)]
<1> DEFINE r == p \o q
<1>1. /\ Len(p) \in Nat /\ Len(q) \in Nat /\ DOMAIN p = 1 .. Len(p) /\ DOMAIN q = 1 .. Len(q)
  BY LenProperties
<1>2. /\ r \in Seq(S) /\ Len(r) = Len(p) + Len(q)
      /\ \A i \in 1 .. Len(p) + Len(q) : r[i] = IF i <= Len(p) THEN p[i] ELSE q[i - Len(p)]
  BY ConcatProperties
<1> HIDE DEF r
<1>3. DOMAIN r = 1 .. Len(p) + Len(q)
  BY <1>2, LenProperties
<1>4. ASSUME NEW i \in DOMAIN r
      PROVE  \/ i \in DOMAIN p /\ r[i] = p[i]
             \/ i \in Nat /\ i > Len(p) /\ i - Len(p) \in DOMAIN q /\ r[i] = q[i - Len(p)]
  BY <1>1, <1>2, <1>3
<1>. QED
  BY <1>2, <1>4 DEF r

\* L holds the parts up to k: what is in it is in order, and before all that is behind.
InFront(L, P, k) == Ord(L) /\ \A l \in 1 .. 8 : k < l => Bef(L, P[l])

LEMMA FrontGrows ==
  ASSUME NEW P, LineOK(P), NEW S, NEW k \in 1 .. 7, NEW j \in 1 .. 8, j = k + 1,
         NEW L \in Seq(S), NEW q \in Seq(S), P[j] = q, InFront(L, P, k)
  PROVE  L \o q \in Seq(S) /\ InFront(L \o q, P, j)
<1> DEFINE M == L \o q
<1>1. /\ M \in Seq(S) /\ Len(L) \in Nat
      /\ \A i \in DOMAIN M : \/ i \in DOMAIN L /\ M[i] = L[i]
                             \/ /\ i \in Nat /\ i > Len(L)
                                /\ i - Len(L) \in DOMAIN q /\ M[i] = q[i - Len(L)]
  BY JoinedAt, LenProperties
<1>2. Ord(L) /\ Ord(q) /\ Bef(L, q)
  BY DEF InFront, LineOK
<1>3. DOMAIN L = 1 .. Len(L)
  BY LenProperties
<1> HIDE DEF M
<1>4. ASSUME NEW i \in DOMAIN M, NEW m \in DOMAIN M, i < m, M[i].src = M[m].src
      PROVE  M[i].n < M[m].n
  <2>1. CASE i \in DOMAIN L /\ M[i] = L[i] /\ m \in DOMAIN L /\ M[m] = L[m]
    BY <1>2, <1>4, <2>1 DEF Ord
  <2>2. CASE i \in DOMAIN L /\ M[i] = L[i] /\ m - Len(L) \in DOMAIN q /\ M[m] = q[m - Len(L)]
    BY <1>2, <1>4, <2>2 DEF Bef
  <2>3. CASE /\ i \in Nat /\ i > Len(L) /\ i - Len(L) \in DOMAIN q /\ M[i] = q[i - Len(L)]
             /\ m \in Nat /\ m - Len(L) \in DOMAIN q /\ M[m] = q[m - Len(L)]
    <3> DEFINE u == i - Len(L)
               v == m - Len(L)
    <3>1. u < v
      BY <1>1, <1>4, <2>3
    <3>2. u \in DOMAIN q /\ v \in DOMAIN q /\ M[i] = q[u] /\ M[m] = q[v]
      BY <2>3
    <3> HIDE DEF u, v
    <3>. QED
      BY <1>2, <1>4, <3>1, <3>2 DEF Ord
  <2>4. CASE i \in Nat /\ i > Len(L) /\ m \in DOMAIN L
    BY <1>1, <1>3, <1>4, <2>4
  <2>. QED
    BY <1>1, <2>1, <2>2, <2>3, <2>4
<1>5. ASSUME NEW l \in 1 .. 8, j < l PROVE Bef(M, P[l])
  <2>1. Bef(L, P[l])
    BY <1>5 DEF InFront
  <2>2. Bef(q, P[l])
    BY <1>5 DEF LineOK
  <2>. QED
    BY <1>1, <2>1, <2>2 DEF Bef
<1>6. InFront(M, P, j)
  BY <1>4, <1>5 DEF InFront, Ord
<1>. QED
  BY <1>1, <1>6 DEF M

\* The frames of a source go to the network in the order they were captured, each at
\* most once: over all that the workers, full queues, retries and reopenings do.
THEOREM FramesInOrder == Spec => []TxInLine
<1>1. ASSUME PipeInv, LineInv PROVE TxInLine
  <2> DEFINE P == Parts
             S == Au \cup Coded \cup Picture
             F == FramesOf(jdec.jobs)
  <2>1. LineOK(P)
    BY <1>1 DEF LineInv, LineGood
  <2>2. /\ P[1] = sent /\ P[2] = enc.packets /\ P[3] = enc.mpp /\ P[4] = encode.holding
        /\ P[5] = nv12_q /\ P[6] = F /\ P[7] = mjpeg_q /\ P[8] = source.probe
    BY PartsAre
  <2>3. /\ sent \in Seq(S) /\ enc.packets \in Seq(S) /\ enc.mpp \in Seq(S)
        /\ encode.holding \in Seq(S) /\ nv12_q \in Seq(S) /\ F \in Seq(S)
        /\ mjpeg_q \in Seq(S) /\ source.probe \in Seq(S)
    <3>1. ASSUME NEW A, A \subseteq S, NEW s \in Seq(A) PROVE s \in Seq(S)
      <4> HIDE DEF S
      <4>. QED
        BY <3>1
    <3>2. Au \subseteq S /\ Coded \subseteq S /\ Picture \subseteq S
      OBVIOUS
    <3> HIDE DEF S
    <3>3. jdec.jobs \in Seq(Job) /\ enc \in Encoder
      BY <1>1 DEF PipeInv, JpegInv, EncodeInv
    <3>4. F \in Seq(Picture)
      BY <3>3, FramesAre
    <3>5. /\ sent \in Seq(Au) /\ enc.packets \in Seq(Coded) /\ enc.mpp \in Seq(Coded)
          /\ encode.holding \in Seq(Picture) /\ nv12_q \in Seq(Picture)
          /\ mjpeg_q \in Seq(Picture) /\ source.probe \in Seq(Picture)
      BY <1>1, <3>3 DEF PipeInv, SourceInv, JpegInv, EncodeInv, Encoder
    <3>. QED
      BY <3>1, <3>2, <3>4, <3>5
  <2> DEFINE L2 == sent \o enc.packets
             L3 == L2 \o enc.mpp
             L4 == L3 \o encode.holding
             L5 == L4 \o nv12_q
             L6 == L5 \o F
             L7 == L6 \o mjpeg_q
             L8 == L7 \o source.probe
  <2>4. OnTheWay = L8
    BY DEF OnTheWay, FramesOf
  <2> HIDE DEF P, S, F
  <2>5. InFront(sent, P, 1)
    BY <2>1, <2>2 DEF InFront, LineOK
  <2>6. L2 \in Seq(S) /\ InFront(L2, P, 2)
    <3>1. P[2] = enc.packets /\ enc.packets \in Seq(S)
      BY <2>2, <2>3
    <3>. QED
      BY <2>1, <2>3, <2>5, <3>1, FrontGrows
  <2> HIDE DEF L2
  <2>7. L3 \in Seq(S) /\ InFront(L3, P, 3)
    <3>1. P[3] = enc.mpp /\ enc.mpp \in Seq(S)
      BY <2>2, <2>3
    <3>. QED
      BY <2>1, <2>6, <3>1, FrontGrows
  <2> HIDE DEF L3
  <2>8. L4 \in Seq(S) /\ InFront(L4, P, 4)
    <3>1. P[4] = encode.holding /\ encode.holding \in Seq(S)
      BY <2>2, <2>3
    <3>. QED
      BY <2>1, <2>7, <3>1, FrontGrows
  <2> HIDE DEF L4
  <2>9. L5 \in Seq(S) /\ InFront(L5, P, 5)
    <3>1. P[5] = nv12_q /\ nv12_q \in Seq(S)
      BY <2>2, <2>3
    <3>. QED
      BY <2>1, <2>8, <3>1, FrontGrows
  <2> HIDE DEF L5
  <2>10. L6 \in Seq(S) /\ InFront(L6, P, 6)
    <3>1. P[6] = F /\ F \in Seq(S)
      BY <2>2, <2>3
    <3>. QED
      BY <2>1, <2>9, <3>1, FrontGrows
  <2> HIDE DEF L6
  <2>11. L7 \in Seq(S) /\ InFront(L7, P, 7)
    <3>1. P[7] = mjpeg_q /\ mjpeg_q \in Seq(S)
      BY <2>2, <2>3
    <3>. QED
      BY <2>1, <2>10, <3>1, FrontGrows
  <2> HIDE DEF L7
  <2>12. InFront(L8, P, 8)
    <3>1. P[8] = source.probe /\ source.probe \in Seq(S)
      BY <2>2, <2>3
    <3>. QED
      BY <2>1, <2>11, <3>1, FrontGrows
  <2> HIDE DEF L8
  <2>13. Ord(OnTheWay)
    BY <2>4, <2>12 DEF InFront
  <2>. QED
    BY <2>13 DEF TxInLine, Ord
<1>. QED
  BY <1>1, PipeAlways, LineAlways, PTL
=============================================================================
