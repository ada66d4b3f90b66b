--------------------------- MODULE RxPipeline_proofs ---------------------------
(***************************************************************************)
(* Four results about the receive pipeline, for every depth of the queues, *)
(* every link and every decoder:                                           *)
(*                                                                         *)
(*   AllPresented   the present thread ends with its queue empty           *)
(*   RxTyped        every variable keeps its type and every queue its bound*)
(*   UnitsInLine    the access units are in order from the depayloader to  *)
(*                  the screen                                             *)
(*   TimesAreOwn    a frame is shown with its own capture time or none     *)
(*                                                                         *)
(* Each comes from an inductive invariant: LeftInv; TypeInv; OrderInv,     *)
(* which orders the datagrams on the wire (WireInv), the access unit in    *)
(* progress (BuildInv) and the line of queues behind it (LineInv); and     *)
(* OwnInv, which follows a capture time from the packer to the frame.      *)
(* First come lemmas on sequences, then what each operator of the packer,  *)
(* the depacketizer and the decoder returns, and the four in that order.   *)
(***************************************************************************)
EXTENDS RxPipeline, SequenceTheorems, WellFoundedInduction, NaturalsInduction, TLAPS

(********************* The queue of the present thread *********************)
\* NothingLeft alone is not inductive: the decode thread may still have frames to
\* push when the present thread has ended.  What keeps them out is that run is
\* false by then, and stays so.

\* The thread leaves only when run is false, and nobody sets it again.
LeftInv == display = "done" => ~g_run /\ present_q = <<>>

\* At first the thread runs.
LEMMA LeftInit == Init => LeftInv
BY DEF Init, LeftInv

\* The sender, the link, the network thread and MPP touch none of the three.
LEMMA LeftElsewhere ==
  ASSUME LeftInv,
         Sender \/ Net \/ MppDecode \/ Close
         \/ DecodeTake \/ DecodeFeed \/ DecodePull \/ DecodeLeave
  PROVE  LeftInv'
<1>1. UNCHANGED <<display, g_run, present_q>>
  <2>1. CASE Sender
    BY <2>1 DEF Sender, PayInput, Configure, Restart, NewPacker, Deliver, Lose, stages
  <2>2. CASE Net
    BY <2>2 DEF Net, NetReceive, NetForward, NetLeave
  <2>3. CASE MppDecode
    BY <2>3 DEF MppDecode, stages
  <2>4. CASE Close
    BY <2>4 DEF Close, CloseReceiver, CloseRest, stages
  <2>5. CASE DecodeTake \/ DecodeFeed \/ DecodePull \/ DecodeLeave
    BY <2>5 DEF DecodeTake, DecodeFeed, DecodePull, DecodeLeave
  <2> QED BY <2>1, <2>2, <2>3, <2>4, <2>5
<1> QED BY <1>1 DEF LeftInv

\* A push after the stop is refused, under the queue's lock.
LEMMA LeftPush == ASSUME LeftInv, DecodePush PROVE LeftInv'
BY DEF LeftInv, DecodePush

\* It presents while it runs, and leaves only as LeftInv says.
LEMMA LeftDisplay == ASSUME LeftInv, Display PROVE LeftInv'
<1>1. CASE Present
  BY <1>1 DEF Present, MayPresent, LeftInv, stages
<1>2. CASE PresentLeave
  BY <1>2 DEF PresentLeave, MayLeaveDisplay, LeftInv
<1> QED BY <1>1, <1>2 DEF Display

\* A stop makes run false.
LEMMA LeftStop == ASSUME LeftInv, request_stop PROVE LeftInv'
BY DEF LeftInv, request_stop, stages

\* Every frame pushed before the stop is presented: when the present thread has
\* ended, its queue is empty (present_thread_main, present_frame_queue::push).
THEOREM AllPresented == Spec => []NothingLeft
<1>1. LeftInv /\ [Next]_vars => LeftInv'
  <2> SUFFICES ASSUME LeftInv, [Next]_vars PROVE LeftInv'
    OBVIOUS
  <2>1. CASE Decode
    BY <2>1, LeftElsewhere, LeftPush DEF Decode
  <2>2. CASE UNCHANGED vars
    BY <2>2 DEF vars, stages, LeftInv
  <2> QED
    BY <2>1, <2>2, LeftElsewhere, LeftDisplay, LeftStop DEF Next
<1>2. LeftInv => NothingLeft
  BY DEF LeftInv, NothingLeft
<1> QED BY LeftInit, <1>1, <1>2, PTL DEF Spec

(******************************** The data *********************************)

\* A NAL unit, one of its pieces, the datagram of a piece, and the payloader.
NalUnit  == [unit : Nat, type : {"aud", "sps", "pps", "idr", "slice"}, parts : Nat \ {0}]
Piece    == [nal : NalUnit, at : Nat \ {0}]
Datagram == [seq : 0 .. SeqRange - 1, ts : Nat, capture : Nat, marker : BOOLEAN,
             payload : Piece, nth : Nat]
Packer   == [seq : 0 .. SeqRange - 1, sps : Seq(NalUnit), pps : Seq(NalUnit)]

\* The datagrams of a NAL unit, and an access unit in the depacketizer.
Group    == Seq(Piece) \ {<<>>}
Building == [nals : Seq(Group), ts : Nat \cup {-1}, capture : Nat, damaged : BOOLEAN]
Depack   == [have_seq : BOOLEAN, last_seq : 0 .. SeqRange - 1, fu_active : BOOLEAN,
             fu_buf : Seq(Piece), building : Building, completed : Seq(Building)]
Whole    == [nals : Seq(Group) \ {<<>>}, pts : Int, capture : Nat]

\* A unit on its way, a packet of MPP's and a frame of its.
Picture  == [unit : Nat, pts : Int, capture : Nat]
Packet   == [unit : Nat, pts : Int]
Decoded  == [unit : Nat, pts : Int, good : BOOLEAN]
Entry    == [pts : Int, capture : Nat]
Decoder  == [in : Seq(Packet), out : Seq(Decoded), ready : Seq(Picture),
             head : 0 .. RingSize - 1, ring : [0 .. RingSize - 1 -> Entry]]

\* The number of the unit a datagram is of.
UnitIn(g) == g.payload.nal.unit

(******************************** Sequences ********************************)

\* A function on 1 .. n is a sequence.
LEMMA SeqIs ==
  ASSUME NEW S, NEW n \in Nat, NEW q \in [1 .. n -> S]
  PROVE  q \in Seq(S) /\ Len(q) = n /\ DOMAIN q = 1 .. n
<1>1. q \in Seq(S)
  BY SeqDef
<1>. QED
  BY <1>1, LenProperties

\* A sequence that is not empty, its first entry and the others.
LEMMA TailIs ==
  ASSUME NEW S, NEW s \in Seq(S), s # <<>>
  PROVE  /\ Len(s) \in Nat /\ Len(s) >= 1 /\ Head(s) = s[1] /\ Head(s) \in S
         /\ Tail(s) \in Seq(S) /\ Len(Tail(s)) = Len(s) - 1
         /\ DOMAIN s = 1 .. Len(s) /\ DOMAIN Tail(s) = 1 .. Len(s) - 1
         /\ \A i \in 1 .. Len(s) - 1 : i + 1 \in 1 .. Len(s) /\ Tail(s)[i] = s[i + 1]
<1>1. Len(s) \in Nat /\ Len(s) # 0 /\ DOMAIN s = 1 .. Len(s)
  BY LenProperties, EmptySeq
<1>2. Tail(s) \in Seq(S) /\ Len(Tail(s)) = Len(s) - 1 /\ Head(s) \in S /\ Head(s) = s[1]
      /\ \A i \in 1 .. Len(Tail(s)) : Tail(s)[i] = s[i + 1]
  BY HeadTailProperties
<1>3. DOMAIN Tail(s) = 1 .. Len(s) - 1
  BY <1>2, LenProperties
<1>. QED
  BY <1>1, <1>2, <1>3

\* A sequence and one more entry.
LEMMA AppendIs ==
  ASSUME NEW S, NEW s \in Seq(S), NEW x \in S
  PROVE  /\ Len(s) \in Nat /\ Append(s, x) \in Seq(S) /\ Len(Append(s, x)) = Len(s) + 1
         /\ DOMAIN s = 1 .. Len(s) /\ DOMAIN Append(s, x) = 1 .. Len(s) + 1
         /\ Append(s, x) # <<>>
         /\ \A i \in 1 .. Len(s) : Append(s, x)[i] = s[i]
         /\ Append(s, x)[Len(s) + 1] = x
<1>1. Len(s) \in Nat /\ DOMAIN s = 1 .. Len(s)
  BY LenProperties
<1>2. Append(s, x) \in Seq(S) /\ Len(Append(s, x)) = Len(s) + 1
      /\ (\A i \in 1 .. Len(s) : Append(s, x)[i] = s[i]) /\ Append(s, x)[Len(s) + 1] = x
  BY AppendProperties
<1>3. DOMAIN Append(s, x) = 1 .. Len(s) + 1
  BY <1>2, LenProperties
<1>4. Append(s, x) # <<>>
  BY <1>1, <1>2, EmptySeq
<1>. QED
  BY <1>1, <1>2, <1>3, <1>4

\* t is s without its first c.
Without(t, s, c) ==
  /\ Len(t) = Len(s) - c /\ DOMAIN t = 1 .. Len(s) - c
  /\ \A i \in 1 .. Len(s) - c : c + i \in 1 .. Len(s) /\ t[i] = s[c + i]

\* The entries behind the first c.
LEMMA RestIs ==
  ASSUME NEW S, NEW s \in Seq(S), NEW c \in Nat, c <= Len(s)
  PROVE  SubSeq(s, c + 1, Len(s)) \in Seq(S) /\ Without(SubSeq(s, c + 1, Len(s)), s, c)
<1>1. Len(s) \in Nat
  BY LenProperties
<1> DEFINE t == SubSeq(s, c + 1, Len(s))
<1>2. t \in Seq(S) /\ Len(t) = Len(s) - c /\ \A i \in 1 .. Len(s) - c : t[i] = s[c + i]
  <2>1. \A i \in c + 1 .. Len(s) : s[i] \in S
    BY <1>1, ElementOfSeq
  <2>2. Len(t) = (IF c + 1 <= Len(s) THEN Len(s) - (c + 1) + 1 ELSE 0)
        /\ t \in Seq(S)
        /\ \A i \in 1 .. Len(s) - (c + 1) + 1 : t[i] = s[c + 1 + i - 1]
    BY <1>1, <2>1, SubSeqProperties
  <2>3. \A i \in 1 .. Len(s) - c : i \in 1 .. Len(s) - (c + 1) + 1 /\ c + 1 + i - 1 = c + i
    BY <1>1
  <2> HIDE DEF t
  <2>. QED
    BY <1>1, <2>2, <2>3
<1>3. DOMAIN t = 1 .. Len(s) - c
  BY <1>2, LenProperties
<1> HIDE DEF t
<1>4. t \in Seq(S) /\ Without(t, s, c)
  BY <1>1, <1>2, <1>3 DEF Without
<1>. QED
  BY <1>4 DEF t

\* Two sequences, one behind the other.
LEMMA CatIs ==
  ASSUME NEW S, NEW s \in Seq(S), NEW t \in Seq(S)
  PROVE  /\ s \o t \in Seq(S) /\ Len(s) \in Nat /\ Len(t) \in Nat
         /\ Len(s \o t) = Len(s) + Len(t)
         /\ DOMAIN s = 1 .. Len(s) /\ DOMAIN t = 1 .. Len(t)
         /\ DOMAIN (s \o t) = 1 .. Len(s) + Len(t)
         /\ \A i \in 1 .. Len(s) : (s \o t)[i] = s[i]
         /\ \A i \in Len(s) + 1 .. Len(s) + Len(t) :
              i - Len(s) \in 1 .. Len(t) /\ (s \o t)[i] = t[i - Len(s)]
<1>1. Len(s) \in Nat /\ Len(t) \in Nat /\ DOMAIN s = 1 .. Len(s) /\ DOMAIN t = 1 .. Len(t)
  BY LenProperties
<1>2. s \o t \in Seq(S) /\ Len(s \o t) = Len(s) + Len(t)
      /\ (\A i \in 1 .. Len(s) : (s \o t)[i] = s[i])
      /\ (\A i \in Len(s) + 1 .. Len(s) + Len(t) : (s \o t)[i] = t[i - Len(s)])
  BY ConcatProperties
<1>3. DOMAIN (s \o t) = 1 .. Len(s) + Len(t)
  BY <1>1, <1>2, LenProperties
<1>. QED
  BY <1>1, <1>2, <1>3

\* How many push_drop drops.
Spilt(q, cap) == IF Len(q) >= cap THEN 1 ELSE 0

\* A queue that may drop its oldest entry keeps its bound.
LEMMA PushIs ==
  ASSUME NEW S, NEW q \in Seq(S), NEW cap \in Nat \ {0}, Len(q) <= cap, NEW x \in S
  PROVE  LET c == Spilt(q, cap)
             t == push_drop(q, cap, x)
         IN  /\ c \in {0, 1} /\ c <= Len(q)
             /\ t \in Seq(S) /\ Len(t) <= cap /\ Len(t) = Len(q) - c + 1
             /\ DOMAIN t = 1 .. Len(q) - c + 1
             /\ \A i \in 1 .. Len(q) - c : i + c \in DOMAIN q /\ t[i] = q[i + c]
             /\ t[Len(q) - c + 1] = x
<1>1. Len(q) \in Nat /\ DOMAIN q = 1 .. Len(q)
  BY LenProperties
<1>2. CASE Len(q) >= cap
  <2>1. q # <<>>
    BY <1>2, EmptySeq
  <2>2. push_drop(q, cap, x) = Append(Tail(q), x) /\ Spilt(q, cap) = 1
    BY <1>2 DEF push_drop, Spilt
  <2>3. Tail(q) \in Seq(S) /\ Len(Tail(q)) = Len(q) - 1
        /\ \A i \in 1 .. Len(q) - 1 : i + 1 \in 1 .. Len(q) /\ Tail(q)[i] = q[i + 1]
    BY <2>1, TailIs
  <2> DEFINE u == Tail(q)
  <2> HIDE DEF u
  <2>4. /\ Append(u, x) \in Seq(S) /\ Len(Append(u, x)) = Len(u) + 1
        /\ DOMAIN Append(u, x) = 1 .. Len(u) + 1
        /\ (\A i \in 1 .. Len(u) : Append(u, x)[i] = u[i]) /\ Append(u, x)[Len(u) + 1] = x
    BY <2>3, AppendIs DEF u
  <2>. QED
    BY <1>1, <1>2, <2>1, <2>2, <2>3, <2>4 DEF u
<1>3. CASE ~(Len(q) >= cap)
  <2>1. push_drop(q, cap, x) = Append(q, x) /\ Spilt(q, cap) = 0
    BY <1>3 DEF push_drop, Spilt
  <2>2. /\ Append(q, x) \in Seq(S) /\ Len(Append(q, x)) = Len(q) + 1
        /\ DOMAIN Append(q, x) = 1 .. Len(q) + 1
        /\ (\A i \in 1 .. Len(q) : Append(q, x)[i] = q[i]) /\ Append(q, x)[Len(q) + 1] = x
    BY AppendIs
  <2>. QED
    BY <1>1, <1>3, <2>1, <2>2
<1>. QED
  BY <1>2, <1>3

\* The assumptions on the constants, one by one.
LEMMA BoundsAre ==
  /\ SeqRange \in Nat \ {0, 1} /\ Clock \in Nat \ {0} /\ Fps \in Nat \ {0}
  /\ Seqs \subseteq 0 .. SeqRange - 1 /\ MaxUnits \in Nat \ {0}
  /\ PendingCap \in Nat \ {0} /\ QueueDepth \in Nat \ {0} /\ DepayDepth \in Nat \ {0}
  /\ AuDepth \in Nat \ {0} /\ PresentDepth \in Nat \ {0} /\ MaxReady \in Nat \ {0}
  /\ RingSize \in Nat \ {0} /\ PullPasses \in Nat \ {0}
BY RtpAssumption, PipelineAssumption

(******************************* The packer ********************************)

\* A set of numbers that is not empty has a least one.
LEMMA NatMin ==
  ASSUME NEW T \in SUBSET Nat, T # {}
  PROVE  \E m \in T : \A l \in T : m <= l
<1>1. PICK m \in T : \A l \in T : ~ (<<l, m>> \in OpToRel(<, Nat))
  BY WFMin, NatLessThanWellFounded
<1>2. \A l \in T : ~ (l < m)
  BY <1>1 DEF OpToRel
<1>. QED
  BY <1>2

\* A set of positions that is not empty has a last one.
LEMMA LastOf ==
  ASSUME NEW n \in Nat, NEW T \in SUBSET (1 .. n), T # {}
  PROVE  \E m \in T : \A j \in T : j <= m
<1> DEFINE Left == {n - i : i \in T}
<1>1. Left \in SUBSET Nat /\ Left # {}
  <2>1. PICK i : i \in T
    OBVIOUS
  <2>2. n - i \in Left
    BY <2>1
  <2>. QED
    BY <2>2
<1>2. PICK k \in Left : \A l \in Left : k <= l
  <2> HIDE DEF Left
  <2>. QED
    BY <1>1, NatMin
<1>3. PICK m \in T : k = n - m
  OBVIOUS
<1>4. ASSUME NEW j \in T PROVE j <= m
  <2>1. n - m <= n - j
    BY <1>2, <1>3
  <2>2. m \in 1 .. n /\ j \in 1 .. n
    OBVIOUS
  <2> HIDE DEF Left
  <2>. QED
    BY <2>1, <2>2
<1>. QED
  BY <1>4

\* The parameter sets of an access unit are kept in the packer.
LEMMA CacheOK ==
  ASSUME NEW p \in Packer, NEW nals \in Seq(NalUnit)
  PROVE  cache_param(p, nals) \in Packer
<1> DEFINE At(type)     == {i \in DOMAIN nals : nals[i].type = type}
           The(type)    == CHOOSE i \in DOMAIN nals : /\ nals[i].type = type
                                                      /\ \A j \in DOMAIN nals :
                                                           nals[j].type = type => j <= i
           Kept(k, type) == IF Has(nals, type) THEN <<nals[The(type)]>> ELSE k
<1>1. Len(nals) \in Nat /\ DOMAIN nals = 1 .. Len(nals)
  BY LenProperties
<1>2. ASSUME NEW type, NEW k \in Seq(NalUnit) PROVE Kept(k, type) \in Seq(NalUnit)
  <2>1. CASE Has(nals, type)
    <3>1. At(type) \in SUBSET (1 .. Len(nals)) /\ At(type) # {}
      BY <1>1, <2>1 DEF Has
    <3>2. PICK m \in At(type) : \A j \in At(type) : j <= m
      <4> HIDE DEF At
      <4>. QED
        BY <1>1, <3>1, LastOf
    <3>3. The(type) \in DOMAIN nals
      BY <3>2
    <3>4. nals[The(type)] \in NalUnit
      <4> HIDE DEF The
      <4>. QED
        BY <1>1, <3>3, ElementOfSeq
    <3>. QED
      BY <2>1, <3>4
  <2>2. CASE ~Has(nals, type)
    BY <2>2
  <2>. QED
    BY <2>1, <2>2
<1>3. cache_param(p, nals) = [p EXCEPT !.sps = Kept(@, "sps"), !.pps = Kept(@, "pps")]
  BY DEF cache_param
<1> HIDE DEF Kept
<1>4. Kept(p.sps, "sps") \in Seq(NalUnit) /\ Kept(p.pps, "pps") \in Seq(NalUnit)
  BY <1>2 DEF Packer
<1>. QED
  BY <1>3, <1>4 DEF Packer

\* What a packer sends for a unit.
PieceOf(unit) == {x \in Piece : x.nal.unit = unit}

\* A NAL unit is cut into pieces of itself.
LEMMA SendOK ==
  ASSUME NEW nal \in NalUnit
  PROVE  send_nal(nal) \in Seq(PieceOf(nal.unit))
<1> DEFINE s == [at \in 1 .. nal.parts |-> [nal |-> nal, at |-> at]]
<1>1. nal.parts \in Nat /\ send_nal(nal) = s
  BY DEF NalUnit, send_nal
<1>2. \A at \in 1 .. nal.parts : [nal |-> nal, at |-> at] \in PieceOf(nal.unit)
  BY <1>1 DEF PieceOf, Piece
<1>3. s \in [1 .. nal.parts -> PieceOf(nal.unit)]
  BY <1>2
<1> HIDE DEF s
<1>. QED
  BY <1>1, <1>3, SeqIs

\* So are the parameter sets sent before it, which come from the unit or its cache.
LEMMA EmittedOK ==
  ASSUME NEW p \in Packer, NEW nals \in Seq(NalUnit), NEW unit \in Nat,
         \A i \in DOMAIN nals : nals[i].unit = unit, NEW i \in DOMAIN nals
  PROVE  emitted(p, nals, i) \in Seq(PieceOf(unit))
<1> DEFINE S == Seq(PieceOf(unit))
<1>1. 1 \in DOMAIN nals /\ nals[i] \in NalUnit /\ nals[1].unit = unit /\ nals[i].unit = unit
  <2>1. Len(nals) \in Nat /\ DOMAIN nals = 1 .. Len(nals)
    BY LenProperties
  <2>2. 1 \in DOMAIN nals
    BY <2>1
  <2>. QED
    BY <2>1, <2>2, ElementOfSeq
<1>2. ASSUME NEW kept \in Seq(NalUnit), NEW type \in {"sps", "pps"}
      PROVE  cached(kept, type, nals) \in S
  <2>1. CASE Has(nals, type) \/ kept = <<>>
    <3>1. <<>> \in S
      BY EmptySeq
    <3>. QED
      BY <2>1, <3>1 DEF cached
  <2>2. CASE ~(Has(nals, type) \/ kept = <<>>)
    <3>1. kept[1] \in NalUnit
      BY <2>2, TailIs
    <3>2. Nal(unit, type, kept[1].parts) \in NalUnit /\ Nal(unit, type, kept[1].parts).unit = unit
      BY <3>1 DEF Nal, NalUnit
    <3>3. send_nal(Nal(unit, type, kept[1].parts)) \in S
      BY <3>2, SendOK
    <3>. QED
      BY <1>1, <2>2, <3>3 DEF cached
  <2>. QED
    BY <2>1, <2>2
<1>3. send_nal(nals[i]) \in S /\ <<>> \in S
  BY <1>1, SendOK, EmptySeq
<1>4. cached(p.sps, "sps", nals) \in S /\ cached(p.pps, "pps", nals) \in S
  BY <1>2 DEF Packer
<1>5. cached(p.sps, "sps", nals) \o cached(p.pps, "pps", nals) \o send_nal(nals[i]) \in S
  BY <1>3, <1>4, ConcatProperties
<1> HIDE DEF S
<1>6. emitted(p, nals, i) \in S
  BY <1>3, <1>5, Zenon DEF emitted
<1>. QED
  BY <1>6 DEF S

\* f is what was sent up to each of the first n NAL units.
IsSent(p, nals, n, f) ==
  f = [i \in 0 .. n |-> IF i = 0 THEN <<>> ELSE f[i - 1] \o emitted(p, nals, i)]

\* The recursion over the NAL units has a solution.
LEMMA SentExists ==
  ASSUME NEW p, NEW nals, NEW n \in Nat
  PROVE  \E f : IsSent(p, nals, n, f)
<1> DEFINE T == {m \in 0 .. n : ~ \E f : IsSent(p, nals, m, f)}
<1>1. T = {}
  <2>. SUFFICES ASSUME T # {} PROVE FALSE
    OBVIOUS
  <2>1. PICK m \in T : \A l \in T : m <= l
    <3>1. T \in SUBSET Nat
      OBVIOUS
    <3>. HIDE DEF T
    <3>. QED
      BY <3>1, NatMin
  <2>2. m \in 0 .. n /\ ~ \E f : IsSent(p, nals, m, f)
    OBVIOUS
  <2>3. m # 0
    <3>. DEFINE f == [i \in {0} |-> <<>>]
    <3>1. f = [i \in 0 .. 0 |-> IF i = 0 THEN <<>> ELSE f[i - 1] \o emitted(p, nals, i)]
      OBVIOUS
    <3>. HIDE DEF f
    <3>2. IsSent(p, nals, 0, f)
      BY <3>1, Zenon DEF IsSent
    <3>. QED
      BY <2>2, <3>2
  <2>4. m - 1 \in 0 .. n /\ m - 1 \notin T
    <3>. HIDE DEF T
    <3>. QED
      BY <2>1, <2>2, <2>3
  <2>5. PICK f : IsSent(p, nals, m - 1, f)
    BY <2>4
  <2>. DEFINE Step(i, h) == IF i = 0 THEN <<>> ELSE h[i - 1] \o emitted(p, nals, i)
              g == [i \in 0 .. m |-> IF i = m THEN f[m - 1] \o emitted(p, nals, m) ELSE f[i]]
  <2>6. \A i \in 0 .. m - 1 : f[i] = Step(i, f)
    BY <2>5 DEF IsSent
  <2>7. \A i \in 0 .. m : g[i] = Step(i, g)
    <3>. TAKE i \in 0 .. m
    <3>1. CASE i = m
      <4>1. g[m - 1] = f[m - 1] /\ g[m] = f[m - 1] \o emitted(p, nals, m)
        BY <2>2, <2>3
      <4>. HIDE DEF g
      <4>. QED
        BY <2>3, <3>1, <4>1
    <3>2. CASE i # m
      <4>1. i \in 0 .. m - 1 /\ g[i] = f[i] /\ (i # 0 => i - 1 \in 0 .. m /\ i - 1 # m)
        BY <2>2, <2>3, <3>2
      <4>2. i # 0 => g[i - 1] = f[i - 1]
        BY <4>1
      <4>. HIDE DEF g
      <4>. QED
        BY <2>6, <4>1, <4>2
    <3>. QED
      BY <3>1, <3>2
  <2>8. g = [i \in 0 .. m |-> Step(i, g)]
    <3>1. g = [i \in 0 .. m |-> g[i]]
      OBVIOUS
    <3>. HIDE DEF g, Step
    <3>. QED
      BY <2>7, <3>1
  <2>9. IsSent(p, nals, m, g)
    <3>. HIDE DEF g
    <3>. QED
      BY <2>8, Zenon DEF IsSent
  <2>. QED
    BY <2>2, <2>9
<1>2. n \notin T
  <2>. HIDE DEF T
  <2>. QED
    BY <1>1
<1>. QED
  BY <1>2

\* What is sent for all the NAL units of a unit.
LEMMA PayloadsOK ==
  ASSUME NEW p \in Packer, NEW nals \in Seq(NalUnit), NEW unit \in Nat,
         \A i \in DOMAIN nals : nals[i].unit = unit
  PROVE  Payloads(p, nals)[Len(nals)] \in Seq(PieceOf(unit))
<1> DEFINE n == Len(nals)
           f == Payloads(p, nals)
           S == Seq(PieceOf(unit))
<1>1. n \in Nat /\ DOMAIN nals = 1 .. n
  BY LenProperties
<1>2. f = [i \in 0 .. n |-> IF i = 0 THEN <<>> ELSE f[i - 1] \o emitted(p, nals, i)]
  <2>1. \E h : IsSent(p, nals, n, h)
    <3>. HIDE DEF n
    <3>. QED
      BY <1>1, SentExists
  <2>2. f = CHOOSE h : IsSent(p, nals, n, h)
    BY Zenon DEF Payloads, IsSent
  <2>3. IsSent(p, nals, n, f)
    <3>. HIDE DEF f, n
    <3>. QED
      BY <2>1, <2>2
  <2>. QED
    BY <2>3, Zenon DEF IsSent
<1> HIDE DEF f, n
<1> DEFINE T == {i \in 0 .. n : f[i] \notin S}
<1>3. T = {}
  <2>. SUFFICES ASSUME T # {} PROVE FALSE
    OBVIOUS
  <2>1. PICK m \in T : \A l \in T : m <= l
    <3>1. T \in SUBSET Nat
      BY <1>1
    <3>. HIDE DEF T
    <3>. QED
      BY <3>1, NatMin
  <2>2. m \in 0 .. n /\ f[m] \notin S
    OBVIOUS
  <2>3. m # 0
    <3>1. f[0] = <<>> /\ <<>> \in S
      BY <1>1, <1>2, EmptySeq
    <3>. QED
      BY <2>2, <3>1
  <2>4. m - 1 \in 0 .. n /\ m - 1 \notin T
    <3>. HIDE DEF T
    <3>. QED
      BY <1>1, <2>1, <2>2, <2>3
  <2>5. f[m - 1] \in S
    BY <2>4
  <2>6. f[m] = f[m - 1] \o emitted(p, nals, m)
    BY <1>1, <1>2, <2>2, <2>3
  <2>7. emitted(p, nals, m) \in S
    BY <1>1, <2>2, <2>3, EmittedOK
  <2>8. f[m] \in S
    BY <2>5, <2>6, <2>7, ConcatProperties
  <2>. QED
    BY <2>2, <2>8
<1>4. f[n] \in S
  <2>1. n \in 0 .. n /\ n \notin T
    <3>. HIDE DEF T
    <3>. QED
      BY <1>1, <1>3
  <2>. QED
    BY <2>1
<1>. QED
  BY <1>4 DEF f, n

\* The datagrams of one access unit: the number and the time are the unit's, and
\* the last one has the marker.
PackOf(q, unit, pts) ==
  /\ q \in Seq(Datagram)
  /\ \A i \in DOMAIN q : /\ UnitIn(q[i]) = unit /\ q[i].ts = pts_to_rtp_ts(pts)
                         /\ q[i].capture = unit
                         /\ q[i].marker = (i = Len(q))

\* The NAL units the coder makes are of one unit.
LEMMA CodedOK ==
  ASSUME NEW unit \in Nat, NEW pts, NEW nals \in Coded(unit, pts)
  PROVE  nals \in Seq(NalUnit) /\ \A i \in DOMAIN nals : nals[i].unit = unit
<1>1. Nal(unit, "aud", 1) \in NalUnit /\ Nal(unit, "sps", 1) \in NalUnit
      /\ Nal(unit, "idr", 2) \in NalUnit /\ Nal(unit, "slice", 1) \in NalUnit
  BY DEF Nal, NalUnit
<1>2. \/ nals = <<Nal(unit, "aud", 1), Nal(unit, "sps", 1), Nal(unit, "idr", 2)>>
      \/ nals = <<Nal(unit, "aud", 1), Nal(unit, "idr", 2)>>
      \/ nals = <<Nal(unit, "aud", 1), Nal(unit, "slice", 1)>>
  BY DEF Coded
<1>3. nals \in Seq(NalUnit)
  <2>1. ASSUME NEW a \in NalUnit, NEW b \in NalUnit, NEW c \in NalUnit
        PROVE  <<a, b>> \in Seq(NalUnit) /\ <<a, b, c>> \in Seq(NalUnit)
    OBVIOUS
  <2>. QED
    BY <1>1, <1>2, <2>1
<1>4. \A i \in DOMAIN nals : nals[i].unit = unit
  BY <1>2 DEF Nal
<1>. QED
  BY <1>3, <1>4

\* The RTP time of a pts.
LEMMA TsIs == ASSUME NEW pts \in Nat PROVE pts_to_rtp_ts(pts) \in Nat
<1>1. pts * Clock \in Nat
  BY BoundsAre
<1> DEFINE a == pts * Clock
<1> HIDE DEF a
<1>2. a \div Fps \in Nat
  BY <1>1, BoundsAre DEF a
<1>. QED
  BY <1>2 DEF a, pts_to_rtp_ts

\* pack_annexb sends one unit with one time, and the marker last.
LEMMA PackOK ==
  ASSUME NEW p \in Packer, NEW unit \in Nat, NEW pts \in Nat, NEW nals \in Coded(unit, pts)
  PROVE  /\ pack_annexb(p, nals, pts, unit).packer \in Packer
         /\ PackOf(pack_annexb(p, nals, pts, unit).datagrams, unit, pts)
<1> DEFINE c  == cache_param(p, nals)
           ps == Payloads(c, nals)[Len(nals)]
           n  == Len(ps)
           D(i) == [seq |-> (c.seq + i - 1) % SeqRange, ts |-> pts_to_rtp_ts(pts),
                    capture |-> unit, marker |-> (i = n), payload |-> ps[i], nth |-> i]
           q  == [i \in 1 .. n |-> D(i)]
<1>1. c \in Packer
  BY CodedOK, CacheOK
<1>2. ps \in Seq(PieceOf(unit))
  <2> HIDE DEF c
  <2>. QED
    BY <1>1, CodedOK, PayloadsOK
<1> HIDE DEF ps
<1>3. n \in Nat /\ \A i \in 1 .. n : ps[i] \in PieceOf(unit)
  BY <1>2, LenProperties, ElementOfSeq
<1>4. pack_annexb(p, nals, pts, unit) =
        [packer |-> [c EXCEPT !.seq = (@ + n) % SeqRange], datagrams |-> q]
  BY DEF pack_annexb, ps
<1> HIDE DEF n, c
<1>5. ASSUME NEW i \in 1 .. n PROVE D(i) \in Datagram
  <2>1. (c.seq + i - 1) % SeqRange \in 0 .. SeqRange - 1
    BY <1>1, <1>3, BoundsAre DEF Packer
  <2>2. ps[i] \in Piece
    BY <1>3 DEF PieceOf
  <2>. QED
    BY <1>3, <2>1, <2>2, TsIs DEF Datagram
<1>6. q \in Seq(Datagram) /\ Len(q) = n /\ DOMAIN q = 1 .. n
  <2>1. q \in [1 .. n -> Datagram]
    BY <1>5
  <2> HIDE DEF q
  <2>. QED
    BY <1>3, <2>1, SeqIs
<1>7. \A i \in 1 .. n : /\ UnitIn(q[i]) = unit /\ q[i].ts = pts_to_rtp_ts(pts)
                        /\ q[i].capture = unit /\ q[i].marker = (i = n)
  BY <1>3 DEF UnitIn, PieceOf
<1> HIDE DEF q
<1>8. PackOf(q, unit, pts)
  BY <1>6, <1>7, Zenon DEF PackOf
<1>9. [c EXCEPT !.seq = (@ + n) % SeqRange] \in Packer
  <2>1. (c.seq + n) % SeqRange \in 0 .. SeqRange - 1
    BY <1>1, <1>3, BoundsAre DEF Packer
  <2>. QED
    BY <1>1, <2>1 DEF Packer
<1>. QED
  BY <1>4, <1>8, <1>9

(**************************** The depacketizer *****************************)

\* No unit in progress.
LEMMA NoAuOK == NoAu \in Building /\ NoAu.nals = <<>> /\ NoAu.ts = -1 /\ NoAu.capture = 0
<1>1. <<>> \in Seq(Group)
  BY EmptySeq
<1>. QED
  BY <1>1 DEF NoAu, Building

\* The same but for the NAL unit in progress and the sequence numbers.
SameUnits(d, e) ==
  e.completed = d.completed /\ e.building.nals = d.building.nals
  /\ e.building.ts = d.building.ts /\ e.building.capture = d.building.capture

\* Dropping a fragmented NAL unit leaves the finished units alone.
LEMMA AbortOK ==
  ASSUME NEW d \in Depack
  PROVE  abort_fu(d) \in Depack /\ SameUnits(d, abort_fu(d))
<1> DEFINE b == [d.building EXCEPT !.damaged = TRUE]
<1>1. abort_fu(d) = [d EXCEPT !.fu_active = FALSE, !.fu_buf = <<>>, !.building = b]
  BY DEF abort_fu
<1>2. d.building \in Building
  BY DEF Depack
<1>3. b \in Building /\ b.nals = d.building.nals /\ b.ts = d.building.ts
      /\ b.capture = d.building.capture
  BY <1>2 DEF Building
<1> HIDE DEF b
<1>4. <<>> \in Seq(Piece)
  BY EmptySeq
<1>5. abort_fu(d) \in Depack
  BY <1>1, <1>3, <1>4 DEF Depack
<1>. QED
  BY <1>1, <1>3, <1>5 DEF SameUnits, Depack

\* Noting a sequence number leaves the units alone.
LEMMA NoteOK ==
  ASSUME NEW d \in Depack, NEW seq \in 0 .. SeqRange - 1
  PROVE  note_sequence(d, seq) \in Depack /\ SameUnits(d, note_sequence(d, seq))
<1>1. PICK e \in {d, abort_fu(d)} : note_sequence(d, seq) =
                                     [e EXCEPT !.have_seq = TRUE, !.last_seq = seq]
  BY DEF note_sequence
<1>2. e \in Depack /\ SameUnits(d, e)
  BY <1>1, AbortOK DEF SameUnits
<1>. QED
  BY <1>1, <1>2 DEF Depack, SameUnits

\* The access unit e in progress, once p was processed in b.
Grown(b, e, p) ==
  /\ e \in Building /\ e.ts = b.ts /\ e.capture = b.capture
  /\ \/ e.nals = b.nals
     \/ e.nals # <<>> /\ Last(Last(e.nals)) = p

\* A NAL unit added to the access unit ends with p.
LEMMA Appended ==
  ASSUME NEW b \in Building, NEW s \in Group, NEW p, Last(s) = p
  PROVE  Grown(b, [b EXCEPT !.nals = Append(b.nals, s)], p)
<1>1. b.nals \in Seq(Group)
  BY DEF Building
<1> DEFINE n == Append(b.nals, s)
<1>2. n \in Seq(Group) /\ n # <<>> /\ Len(n) = Len(b.nals) + 1 /\ n[Len(b.nals) + 1] = s
  BY <1>1, AppendIs
<1> HIDE DEF n
<1>3. Last(n) = s
  BY <1>2 DEF Last
<1>4. [b EXCEPT !.nals = n] \in Building
  BY <1>2 DEF Building
<1>5. [b EXCEPT !.nals = n].nals = n /\ [b EXCEPT !.nals = n].ts = b.ts
      /\ [b EXCEPT !.nals = n].capture = b.capture
  BY DEF Building
<1> DEFINE e == [b EXCEPT !.nals = n]
<1> HIDE DEF e
<1>6. Grown(b, e, p)
  BY <1>2, <1>3, <1>4, <1>5 DEF Grown, e
<1>. QED
  BY <1>6 DEF e, n

\* And nothing may be added.
LEMMA Ungrown ==
  ASSUME NEW d \in Depack, NEW e \in Depack, SameUnits(d, e), NEW p
  PROVE  Grown(d.building, e.building, p)
BY DEF SameUnits, Grown, Depack

\* One payload finishes no unit, and adds at most a NAL unit that ends with it.
LEMMA ProcessOK ==
  ASSUME NEW d \in Depack, NEW p \in Piece
  PROVE  /\ process_payload(d, p) \in Depack
         /\ process_payload(d, p).completed = d.completed
         /\ Grown(d.building, process_payload(d, p).building, p)
<1> DEFINE r   == process_payload(d, p)
           buf == IF p.at = 1 THEN <<p>> ELSE Append(d.fu_buf, p)
           G(s) == [d.building EXCEPT !.nals = Append(d.building.nals, s)]
<1>1. d.fu_buf \in Seq(Piece) /\ d.building \in Building /\ <<>> \in Seq(Piece)
  BY EmptySeq DEF Depack
<1>2. buf \in Group /\ Last(buf) = p /\ <<p>> \in Group /\ Last(<<p>>) = p
  <2>1. <<p>> \in Group /\ Last(<<p>>) = p
    BY DEF Group, Last
  <2>2. Append(d.fu_buf, p) \in Group /\ Last(Append(d.fu_buf, p)) = p
    BY <1>1, AppendIs DEF Group, Last
  <2>. QED
    BY <2>1, <2>2
<1>3. \/ r = [d EXCEPT !.building = G(<<p>>)]
      \/ r = abort_fu(d)
      \/ r = [d EXCEPT !.building = G(buf), !.fu_active = FALSE, !.fu_buf = <<>>]
      \/ r = [d EXCEPT !.fu_active = TRUE, !.fu_buf = buf]
  BY DEF process_payload, append_annexb_nal
<1>4. Grown(d.building, G(<<p>>), p) /\ Grown(d.building, G(buf), p)
  <2> HIDE DEF buf
  <2>. QED
    BY <1>1, <1>2, Appended
<1>5. G(<<p>>) \in Building /\ G(buf) \in Building
  BY <1>4 DEF Grown
<1> HIDE DEF r, buf, G
<1>6. CASE r = [d EXCEPT !.building = G(<<p>>)]
  BY <1>4, <1>5, <1>6 DEF Depack, r
<1>7. CASE r = abort_fu(d)
  <2>1. r \in Depack /\ SameUnits(d, r)
    BY <1>7, AbortOK
  <2>. QED
    BY <2>1, Ungrown DEF SameUnits, r
<1>8. CASE r = [d EXCEPT !.building = G(buf), !.fu_active = FALSE, !.fu_buf = <<>>]
  BY <1>1, <1>4, <1>5, <1>8 DEF Depack, r
<1>9. CASE r = [d EXCEPT !.fu_active = TRUE, !.fu_buf = buf]
  <2>1. buf \in Seq(Piece)
    BY <1>2 DEF Group
  <2>2. r \in Depack /\ SameUnits(d, r)
    BY <1>9, <2>1 DEF Depack, SameUnits
  <2>. QED
    BY <2>2, Ungrown DEF SameUnits, r
<1>. QED
  BY <1>3, <1>6, <1>7, <1>8, <1>9 DEF r

\* The unit in progress is done when the timestamp changes; then the datagram is
\* for a new one.
Ended(b, g) == b.ts \notin {-1, g.ts}
Goes(b, g)  == IF Ended(b, g) THEN NoAu ELSE b
TimesOf(b, g) ==
  [b EXCEPT !.ts = g.ts, !.capture = IF g.capture > 0 THEN g.capture ELSE b.capture]
Outgoing(b, g, e) ==
  (IF Ended(b, g) /\ b.nals # <<>> THEN <<b>> ELSE <<>>)
  \o (IF g.marker /\ e.nals # <<>> THEN <<e>> ELSE <<>>)

\* r is d after the datagram g, which made the unit in progress e.
Fed(d, g, r, e) ==
  /\ Grown(TimesOf(Goes(d.building, g), g), e, g.payload)
  /\ r.building = IF g.marker THEN NoAu ELSE e
  /\ r.completed = Outgoing(d.building, g, e)

\* Finishing a unit appends it, unless it has no NAL units.
LEMMA FinishOK ==
  ASSUME NEW d \in Depack
  PROVE  /\ finish_building_au(d) \in Depack
         /\ finish_building_au(d).building = NoAu
         /\ finish_building_au(d).completed =
              d.completed \o (IF d.building.nals = <<>> THEN <<>> ELSE <<d.building>>)
<1> DEFINE c == IF d.building.nals = <<>> THEN d.completed ELSE Append(d.completed, d.building)
<1>1. finish_building_au(d) = [d EXCEPT !.completed = c, !.building = NoAu]
  BY DEF finish_building_au
<1>2. d.completed \in Seq(Building) /\ d.building \in Building
  BY DEF Depack
<1>3. c \in Seq(Building)
  BY <1>2, AppendProperties
<1>4. c = d.completed \o (IF d.building.nals = <<>> THEN <<>> ELSE <<d.building>>)
  BY <1>2, ConcatEmptySeq, AppendIsConcat
<1> HIDE DEF c
<1>. QED
  BY <1>1, <1>3, <1>4, NoAuOK DEF Depack

\* Is the fragmented NAL unit in progress still so when seq arrives?
Live(d, seq) == d.fu_active /\ ~(d.have_seq /\ Diff(seq, d.last_seq) > 1)

\* What noting a sequence number does.
LEMMA NoteIs ==
  ASSUME NEW d \in Depack, NEW seq \in 0 .. SeqRange - 1
  PROVE  LET f == note_sequence(d, seq) IN
         /\ f \in Depack /\ SameUnits(d, f) /\ f.have_seq /\ f.last_seq = seq
         /\ f.fu_active = Live(d, seq) /\ (f.fu_active => f.fu_buf = d.fu_buf)
<1> DEFINE gap == d.have_seq /\ Diff(seq, d.last_seq) > 1
           e   == IF gap /\ d.fu_active THEN abort_fu(d) ELSE d
           f   == note_sequence(d, seq)
<1>1. f = [e EXCEPT !.have_seq = TRUE, !.last_seq = seq]
  BY DEF note_sequence
<1>2. e \in Depack
  BY AbortOK
<1>3. e.fu_active = Live(d, seq) /\ (e.fu_active => e.fu_buf = d.fu_buf)
  <2>1. CASE gap /\ d.fu_active
    <3>1. e = abort_fu(d) /\ Live(d, seq) = FALSE
      BY <2>1 DEF Live
    <3>2. abort_fu(d).fu_active = FALSE
      BY DEF abort_fu, Depack
    <3> HIDE DEF e
    <3>3. e.fu_active = FALSE
      BY <3>1, <3>2
    <3>. QED
      BY <3>1, <3>3, Zenon
  <2>2. CASE ~(gap /\ d.fu_active)
    <3>1. e = d /\ d.fu_active = Live(d, seq)
      BY <2>2 DEF Live, Depack
    <3> HIDE DEF e
    <3>. QED
      BY <3>1
  <2>. QED
    BY <2>1, <2>2
<1> HIDE DEF e
<1>4. f.have_seq /\ f.last_seq = seq /\ f.fu_active = e.fu_active /\ f.fu_buf = e.fu_buf
  BY <1>1, <1>2 DEF Depack
<1>5. f \in Depack /\ SameUnits(d, f)
  BY NoteOK
<1> HIDE DEF f
<1>6. f.fu_active = Live(d, seq) /\ (f.fu_active => f.fu_buf = d.fu_buf)
  BY <1>3, <1>4
<1>. QED
  BY <1>4, <1>5, <1>6 DEF f

\* What a payload does to the NAL units before it (a), of which live says whether
\* buf is the beginning of the one in progress: the NAL units after it, and whether
\* one is in progress then, and its beginning.
Takes(a, live, buf, p, nals, active, fu) ==
  /\ p.nal.parts = 1 => /\ nals = Append(a, <<p>>) /\ active = live
                        /\ live => fu = buf
  /\ p.nal.parts = 2 /\ p.at = 1 => nals = a /\ active /\ fu = <<p>>
  /\ p.nal.parts = 2 /\ p.at = 2 =>
       /\ ~active
       /\ nals = IF live THEN Append(a, Append(buf, p)) ELSE a

\* What processing a payload does.
LEMMA ProcessIs ==
  ASSUME NEW d \in Depack, NEW p \in Piece
  PROVE  LET r == process_payload(d, p) IN
         /\ r.have_seq = d.have_seq /\ r.last_seq = d.last_seq
         /\ Takes(d.building.nals, d.fu_active, d.fu_buf, p, r.building.nals, r.fu_active,
                  r.fu_buf)
<1> DEFINE r   == process_payload(d, p)
           buf == IF p.at = 1 THEN <<p>> ELSE Append(d.fu_buf, p)
           G(s) == [d.building EXCEPT !.nals = Append(d.building.nals, s)]
<1>1. d.building \in Building /\ p.nal.parts \in Nat /\ p.at \in Nat
  BY DEF Depack, Piece, NalUnit
<1>2. \A s : G(s).nals = Append(d.building.nals, s)
  BY <1>1 DEF Building
<1> HIDE DEF G
<1>3. CASE p.nal.parts = 1
  <2>1. r = [d EXCEPT !.building = G(<<p>>)]
    BY <1>3 DEF process_payload, G
  <2> HIDE DEF r
  <2>2. r.building = G(<<p>>) /\ r.fu_active = d.fu_active /\ r.fu_buf = d.fu_buf
        /\ r.have_seq = d.have_seq /\ r.last_seq = d.last_seq
    BY <2>1 DEF Depack
  <2>3. r.building.nals = Append(d.building.nals, <<p>>)
    BY <1>2, <2>2
  <2>. QED
    BY <1>3, <2>2, <2>3 DEF Takes, r
<1>4. CASE p.nal.parts = 2 /\ p.at = 1
  <2>1. r = [d EXCEPT !.fu_active = TRUE, !.fu_buf = <<p>>]
    BY <1>4 DEF process_payload
  <2> HIDE DEF r
  <2>2. r.building = d.building /\ r.fu_active = TRUE /\ r.fu_buf = <<p>>
        /\ r.have_seq = d.have_seq /\ r.last_seq = d.last_seq
    BY <2>1 DEF Depack
  <2>. QED
    BY <1>4, <2>2 DEF Takes, r
<1>5. CASE p.nal.parts = 2 /\ p.at = 2 /\ d.fu_active
  <2> DEFINE s == Append(d.fu_buf, p)
  <2>1. r = [d EXCEPT !.building = G(s), !.fu_active = FALSE, !.fu_buf = <<>>]
    BY <1>5 DEF process_payload, append_annexb_nal, G
  <2> HIDE DEF r, s
  <2>2. r.building = G(s) /\ r.fu_active = FALSE
        /\ r.have_seq = d.have_seq /\ r.last_seq = d.last_seq
    BY <2>1 DEF Depack
  <2>3. r.building.nals = Append(d.building.nals, s)
    BY <1>2, <2>2
  <2>. QED
    BY <1>5, <2>2, <2>3 DEF Takes, r, s
<1>6. CASE p.nal.parts = 2 /\ p.at = 2 /\ ~d.fu_active
  <2>1. r = abort_fu(d)
    BY <1>6 DEF process_payload
  <2> HIDE DEF r
  <2>2. SameUnits(d, r) /\ r.fu_active = FALSE
        /\ r.have_seq = d.have_seq /\ r.last_seq = d.last_seq
    BY <2>1, AbortOK DEF abort_fu, Depack
  <2>. QED
    BY <1>6, <2>2 DEF Takes, r, SameUnits
<1>7. CASE ~(p.nal.parts = 1) /\ ~(p.nal.parts = 2 /\ p.at = 1) /\ ~(p.nal.parts = 2 /\ p.at = 2)
  <2>1. r.have_seq = d.have_seq /\ r.last_seq = d.last_seq
    <3>1. \/ r = abort_fu(d)
          \/ r = [d EXCEPT !.building = G(buf), !.fu_active = FALSE, !.fu_buf = <<>>]
          \/ r = [d EXCEPT !.fu_active = TRUE, !.fu_buf = buf]
      BY <1>7 DEF process_payload, append_annexb_nal, G
    <3> HIDE DEF r, buf
    <3>. QED
      BY <3>1 DEF abort_fu, Depack
  <2>. QED
    BY <1>7, <2>1 DEF Takes
<1>. QED
  BY <1>3, <1>4, <1>5, <1>6, <1>7

\* r is d after the datagram g, which d does not refuse; e is what it makes of the
\* unit in progress.
FedIs(d, g, r, e) ==
  /\ Fed(d, g, r, e) /\ e \in Building /\ e.ts = g.ts
  /\ r \in Depack /\ r.have_seq /\ r.last_seq = g.seq
  /\ Takes(Goes(d.building, g).nals, Live(d, g.seq), d.fu_buf, g.payload, e.nals,
           r.fu_active, r.fu_buf)

\* A datagram that is not refused is taken so.
LEMMA FeedIs ==
  ASSUME NEW d \in Depack, d.completed = <<>>, NEW g \in Datagram,
         ~(d.have_seq /\ Diff(g.seq, d.last_seq) <= 0)
  PROVE  \E e : FedIs(d, g, feed(d, g), e)
<1> DEFINE w == parse_rtp(g)
           r == accept(d, w)
<1>1. /\ w.seq = g.seq /\ w.ts = g.ts /\ w.marker = g.marker /\ w.capture = g.capture
      /\ w.payload = g.payload
      /\ g.seq \in 0 .. SeqRange - 1 /\ g.ts \in Nat /\ g.capture \in Nat /\ g.payload \in Piece
  BY DEF parse_rtp, Datagram
<1>2. feed(d, g) = r
  BY <1>1 DEF feed
<1> HIDE DEF w
<1> DEFINE e1 == IF d.building.ts \notin {-1, g.ts} THEN finish_building_au(d) ELSE d
           f  == note_sequence(e1, g.seq)
           t  == TimesOf(f.building, g)
           b  == [f EXCEPT !.building = t]
           p  == process_payload(b, g.payload)
<1>3. e1 \in Depack /\ e1.building = Goes(d.building, g)
      /\ e1.completed = IF Ended(d.building, g) /\ d.building.nals # <<>> THEN <<d.building>>
                        ELSE <<>>
  <2>1. CASE Ended(d.building, g)
    <3>1. e1 = finish_building_au(d)
      BY <2>1 DEF Ended
    <3>2. d.building \in Building
      BY DEF Depack
    <3>3. <<>> \o (IF d.building.nals = <<>> THEN <<>> ELSE <<d.building>>) =
            IF d.building.nals # <<>> THEN <<d.building>> ELSE <<>>
      BY <3>2
    <3> HIDE DEF e1
    <3>. QED
      BY <2>1, <3>1, <3>3, FinishOK DEF Goes
  <2>2. CASE ~Ended(d.building, g)
    BY <2>2 DEF Ended, Goes
  <2>. QED
    BY <2>1, <2>2
<1>4. e1.have_seq = d.have_seq /\ e1.last_seq = d.last_seq /\ e1.fu_active = d.fu_active
      /\ e1.fu_buf = d.fu_buf
  BY DEF finish_building_au, Depack
<1> HIDE DEF e1
<1>5. /\ f \in Depack /\ SameUnits(e1, f) /\ f.have_seq /\ f.last_seq = g.seq
      /\ f.fu_active = Live(d, g.seq) /\ (f.fu_active => f.fu_buf = d.fu_buf)
  <2>1. Live(e1, g.seq) = Live(d, g.seq)
    BY <1>4 DEF Live
  <2>. QED
    BY <1>1, <1>3, <1>4, <2>1, NoteIs
<1> HIDE DEF f
<1>6. t \in Building /\ t.nals = e1.building.nals /\ t.ts = g.ts
      /\ t.capture = IF g.capture > 0 THEN g.capture ELSE e1.building.capture
  <2>1. f.building \in Building
    BY <1>5 DEF Depack
  <2>. QED
    BY <1>1, <1>5, <2>1 DEF TimesOf, Building, SameUnits
<1>7. b \in Depack /\ b.building = t /\ b.completed = e1.completed
      /\ b.have_seq /\ b.last_seq = g.seq /\ b.fu_active = f.fu_active /\ b.fu_buf = f.fu_buf
  <2> HIDE DEF t
  <2>. QED
    BY <1>5, <1>6 DEF Depack, SameUnits
<1>8. r = IF g.marker THEN finish_building_au(p) ELSE p
  <2>1. [f EXCEPT !.building.ts = g.ts,
                  !.building.capture = IF g.capture > 0 THEN g.capture ELSE @] = b
    BY <1>5 DEF Depack, Building, TimesOf
  <2> DEFINE v == note_sequence(IF d.building.ts \notin {-1, w.ts} THEN finish_building_au(d)
                                ELSE d, w.seq)
             x == [v EXCEPT !.building.ts = w.ts,
                            !.building.capture = IF w.capture > 0 THEN w.capture ELSE @]
             y == process_payload(x, w.payload)
  <2>2. r = IF w.marker THEN finish_building_au(y) ELSE y
    BY DEF accept
  <2>3. v = f
    BY <1>1 DEF e1, f
  <2> HIDE DEF v, f
  <2>4. x = b
    BY <1>1, <2>1, <2>3
  <2> HIDE DEF x, b
  <2>. QED
    BY <1>1, <2>2, <2>4
<1> HIDE DEF b, r
<1>9. /\ p \in Depack /\ p.completed = e1.completed /\ Grown(t, p.building, g.payload)
      /\ p.have_seq /\ p.last_seq = g.seq
      /\ Takes(t.nals, f.fu_active, f.fu_buf, g.payload, p.building.nals, p.fu_active, p.fu_buf)
  <2>1. p.have_seq = b.have_seq /\ p.last_seq = b.last_seq
        /\ Takes(b.building.nals, b.fu_active, b.fu_buf, g.payload, p.building.nals,
                 p.fu_active, p.fu_buf)
    BY <1>1, <1>7, ProcessIs
  <2>2. p \in Depack /\ p.completed = b.completed
        /\ Grown(b.building, p.building, g.payload)
    BY <1>1, <1>7, ProcessOK
  <2> HIDE DEF p, t
  <2>. QED
    BY <1>7, <2>1, <2>2
<1> HIDE DEF p
<1> DEFINE e == p.building
<1>10. e \in Building /\ e.ts = g.ts
  <2>1. e.ts = t.ts
    BY <1>9 DEF Grown
  <2> HIDE DEF t
  <2>. QED
    BY <1>6, <1>9, <2>1 DEF Depack
<1>11. Takes(Goes(d.building, g).nals, Live(d, g.seq), d.fu_buf, g.payload, e.nals,
             p.fu_active, p.fu_buf)
  <2> HIDE DEF t
  <2>1. t.nals = Goes(d.building, g).nals /\ f.fu_active = Live(d, g.seq)
        /\ (f.fu_active => f.fu_buf = d.fu_buf)
    BY <1>3, <1>5, <1>6
  <2>2. Takes(Goes(d.building, g).nals, Live(d, g.seq), f.fu_buf, g.payload, e.nals,
             p.fu_active, p.fu_buf)
    BY <1>9, <2>1
  <2>. QED
    BY <2>1, <2>2 DEF Takes
<1>12. r \in Depack /\ r.building = (IF g.marker THEN NoAu ELSE e)
       /\ r.completed = Outgoing(d.building, g, e)
       /\ r.have_seq /\ r.last_seq = g.seq /\ r.fu_active = p.fu_active /\ r.fu_buf = p.fu_buf
  <2>1. CASE g.marker
    <3>1. r = finish_building_au(p)
      BY <1>8, <2>1
    <3>2. r.completed = e1.completed \o (IF e.nals = <<>> THEN <<>> ELSE <<e>>)
      BY <1>9, <3>1, FinishOK
    <3>3. (IF e.nals = <<>> THEN <<>> ELSE <<e>>) =
            IF g.marker /\ e.nals # <<>> THEN <<e>> ELSE <<>>
      BY <2>1
    <3>5. r.have_seq = p.have_seq /\ r.last_seq = p.last_seq /\ r.fu_active = p.fu_active
          /\ r.fu_buf = p.fu_buf
      BY <1>9, <3>1 DEF finish_building_au, Depack
    <3> HIDE DEF e
    <3>4. r.completed = Outgoing(d.building, g, e)
      BY <1>3, <3>2, <3>3, Zenon DEF Outgoing
    <3>6. r \in Depack /\ r.building = NoAu
      BY <1>9, <3>1, FinishOK
    <3>. QED
      BY <1>9, <2>1, <3>4, <3>5, <3>6
  <2>2. CASE ~g.marker
    <3>1. r = p
      BY <1>8, <2>2
    <3>2. e1.completed \o <<>> = e1.completed
      BY <1>3, ConcatEmptySeq DEF Depack
    <3> HIDE DEF e
    <3>3. (IF g.marker /\ e.nals # <<>> THEN <<e>> ELSE <<>>) = <<>>
      BY <2>2
    <3>4. r.completed = Outgoing(d.building, g, e)
      BY <1>3, <1>9, <3>1, <3>2, <3>3, Zenon DEF Outgoing
    <3>. QED
      BY <1>9, <2>2, <3>1, <3>4 DEF e
  <2>. QED
    BY <2>1, <2>2
<1> HIDE DEF e
<1>13. Grown(TimesOf(Goes(d.building, g), g), e, g.payload)
  <2>1. Goes(d.building, g) \in Building
    BY <1>3 DEF Depack
  <2>2. TimesOf(Goes(d.building, g), g).nals = t.nals
        /\ TimesOf(Goes(d.building, g), g).ts = t.ts
        /\ TimesOf(Goes(d.building, g), g).capture = t.capture
    BY <1>3, <1>6, <2>1 DEF TimesOf, Building
  <2>3. Grown(t, e, g.payload)
    BY <1>9 DEF e
  <2> HIDE DEF t
  <2>. QED
    BY <2>2, <2>3 DEF Grown
<1>14. FedIs(d, g, r, e)
  BY <1>10, <1>11, <1>12, <1>13 DEF FedIs, Fed
<1>. QED
  BY <1>2, <1>14

\* A datagram is refused, or finishes what Outgoing says.
LEMMA FeedOK ==
  ASSUME NEW d \in Depack, d.completed = <<>>, NEW g \in Datagram
  PROVE  /\ feed(d, g) \in Depack
         /\ feed(d, g) = d \/ \E e \in Building : Fed(d, g, feed(d, g), e)
<1>1. CASE d.have_seq /\ Diff(g.seq, d.last_seq) <= 0
  BY <1>1 DEF feed, parse_rtp
<1>2. CASE ~(d.have_seq /\ Diff(g.seq, d.last_seq) <= 0)
  <2>1. PICK e : FedIs(d, g, feed(d, g), e)
    BY <1>2, FeedIs
  <2>. QED
    BY <2>1 DEF FedIs
<1>. QED
  BY <1>1, <1>2

(*********************** Lines of increasing numbers ***********************)

\* The numbers in a part of the line, and those of it in order.
Units1(s)   == {s[i].unit : i \in DOMAIN s}
Below(a, b) == \A u \in a, v \in b : u < v
Rise(s)     == \A i, j \in DOMAIN s : i < j => s[i].unit < s[j].unit

\* Without its first entries a rising part still rises.
LEMMA RestRises ==
  ASSUME NEW S, NEW s \in Seq(S), NEW t, NEW c \in Nat, Without(t, s, c)
  PROVE  Units1(t) \subseteq Units1(s) /\ (Rise(s) => Rise(t))
<1>1. Len(s) \in Nat /\ DOMAIN s = 1 .. Len(s)
  BY LenProperties
<1>2. \A i \in DOMAIN t : c + i \in DOMAIN s /\ t[i] = s[c + i]
  BY <1>1 DEF Without
<1>3. Units1(t) \subseteq Units1(s)
  BY <1>2 DEF Units1
<1>4. ASSUME Rise(s), NEW i \in DOMAIN t, NEW j \in DOMAIN t, i < j PROVE t[i].unit < t[j].unit
  <2>1. c + i \in DOMAIN s /\ c + j \in DOMAIN s /\ t[i] = s[c + i] /\ t[j] = s[c + j]
    BY <1>2
  <2>2. c + i < c + j
    BY <1>4 DEF Without
  <2>. QED
    BY <1>4, <2>1, <2>2 DEF Rise
<1>5. Rise(s) => Rise(t)
  BY <1>4 DEF Rise
<1>. QED
  BY <1>3, <1>5

\* A tail is one of those.
LEMMA TailWithout ==
  ASSUME NEW S, NEW s \in Seq(S), s # <<>>
  PROVE  Without(Tail(s), s, 1)
<1>1. /\ Len(s) \in Nat /\ Len(Tail(s)) = Len(s) - 1 /\ DOMAIN Tail(s) = 1 .. Len(s) - 1
      /\ \A i \in 1 .. Len(s) - 1 : i + 1 \in 1 .. Len(s) /\ Tail(s)[i] = s[i + 1]
  BY TailIs
<1>2. \A i \in 1 .. Len(s) - 1 : i + 1 = 1 + i
  OBVIOUS
<1> DEFINE t == Tail(s)
<1> HIDE DEF t
<1>3. Without(t, s, 1)
  BY <1>1, <1>2 DEF Without, t
<1>. QED
  BY <1>3 DEF t

\* The first of a rising part, and what is behind it.
LEMMA HeadRises ==
  ASSUME NEW S, NEW s \in Seq(S), s # <<>>
  PROVE  /\ Units1(Tail(s)) \subseteq Units1(s) /\ Head(s).unit \in Units1(s)
         /\ Rise(s) => Rise(Tail(s)) /\ Below({Head(s).unit}, Units1(Tail(s)))
<1>1. /\ Len(s) \in Nat /\ Len(s) >= 1 /\ Head(s) = s[1] /\ DOMAIN s = 1 .. Len(s)
      /\ DOMAIN Tail(s) = 1 .. Len(s) - 1
      /\ \A i \in 1 .. Len(s) - 1 : i + 1 \in 1 .. Len(s) /\ Tail(s)[i] = s[i + 1]
  BY TailIs
<1>2. Units1(Tail(s)) \subseteq Units1(s) /\ (Rise(s) => Rise(Tail(s)))
  BY TailWithout, RestRises
<1>3. Head(s).unit \in Units1(s)
  BY <1>1 DEF Units1
<1>4. ASSUME Rise(s), NEW v \in Units1(Tail(s)) PROVE Head(s).unit < v
  <2>1. PICK i \in 1 .. Len(s) - 1 : v = Tail(s)[i].unit
    BY <1>1 DEF Units1
  <2>2. i + 1 \in DOMAIN s /\ 1 \in DOMAIN s /\ 1 < i + 1 /\ v = s[i + 1].unit
    BY <1>1, <2>1
  <2>. QED
    BY <1>1, <1>4, <2>2 DEF Rise
<1>. QED
  BY <1>2, <1>3, <1>4 DEF Below

\* Every element of a concatenation is one of the two.
LEMMA CatEach ==
  ASSUME NEW S, NEW s \in Seq(S), NEW t \in Seq(S)
  PROVE  \A i \in DOMAIN (s \o t) :
           \/ i \in DOMAIN s /\ (s \o t)[i] = s[i]
           \/ i - Len(s) \in DOMAIN t /\ (s \o t)[i] = t[i - Len(s)]
<1> DEFINE st == s \o t
<1>1. /\ Len(s) \in Nat /\ Len(t) \in Nat
      /\ DOMAIN s = 1 .. Len(s) /\ DOMAIN t = 1 .. Len(t)
      /\ DOMAIN st = 1 .. Len(s) + Len(t)
      /\ \A i \in 1 .. Len(s) : st[i] = s[i]
      /\ \A i \in Len(s) + 1 .. Len(s) + Len(t) :
           i - Len(s) \in 1 .. Len(t) /\ st[i] = t[i - Len(s)]
  BY CatIs
<1> HIDE DEF st
<1>2. \A i \in DOMAIN st : \/ i \in DOMAIN s /\ st[i] = s[i]
                           \/ i - Len(s) \in DOMAIN t /\ st[i] = t[i - Len(s)]
  BY <1>1
<1>. QED
  BY <1>2 DEF st

\* Two rising parts, the second behind the first.
LEMMA CatRises ==
  ASSUME NEW S, NEW s \in Seq(S), NEW t \in Seq(S)
  PROVE  /\ Units1(s \o t) = Units1(s) \cup Units1(t)
         /\ Rise(s) /\ Rise(t) /\ Below(Units1(s), Units1(t)) => Rise(s \o t)
<1> DEFINE st == s \o t
<1>1. /\ Len(s) \in Nat /\ Len(t) \in Nat
      /\ DOMAIN s = 1 .. Len(s) /\ DOMAIN t = 1 .. Len(t)
      /\ DOMAIN st = 1 .. Len(s) + Len(t)
      /\ \A i \in 1 .. Len(s) : st[i] = s[i]
      /\ \A i \in Len(s) + 1 .. Len(s) + Len(t) :
           i - Len(s) \in 1 .. Len(t) /\ st[i] = t[i - Len(s)]
  BY CatIs
<1> HIDE DEF st
<1>2. \A i \in DOMAIN st : \/ i \in DOMAIN s /\ st[i] = s[i]
                           \/ i > Len(s) /\ i - Len(s) \in DOMAIN t /\ st[i] = t[i - Len(s)]
  BY <1>1
<1>3. \A i \in DOMAIN s : i \in DOMAIN st /\ st[i] = s[i]
  BY <1>1
<1>4. \A i \in DOMAIN t : i + Len(s) \in DOMAIN st /\ st[i + Len(s)] = t[i]
  <2>. TAKE i \in DOMAIN t
  <2>1. i + Len(s) \in Len(s) + 1 .. Len(s) + Len(t) /\ (i + Len(s)) - Len(s) = i
    BY <1>1
  <2>. QED
    BY <1>1, <2>1
<1>5. Units1(st) = Units1(s) \cup Units1(t)
  <2>1. Units1(st) \subseteq Units1(s) \cup Units1(t)
    BY <1>2 DEF Units1
  <2>2. Units1(s) \subseteq Units1(st)
    BY <1>3 DEF Units1
  <2>3. Units1(t) \subseteq Units1(st)
    BY <1>4 DEF Units1
  <2>. QED
    BY <2>1, <2>2, <2>3
<1>6. ASSUME Rise(s), Rise(t), Below(Units1(s), Units1(t)),
             NEW i \in DOMAIN st, NEW j \in DOMAIN st, i < j
      PROVE  st[i].unit < st[j].unit
  <2>1. CASE i \in DOMAIN s /\ st[i] = s[i] /\ j \in DOMAIN s /\ st[j] = s[j]
    BY <1>6, <2>1 DEF Rise
  <2>2. CASE i \in DOMAIN s /\ st[i] = s[i] /\ j - Len(s) \in DOMAIN t /\ st[j] = t[j - Len(s)]
    BY <1>6, <2>2 DEF Below, Units1
  <2>3. CASE i - Len(s) \in DOMAIN t /\ st[i] = t[i - Len(s)]
             /\ j - Len(s) \in DOMAIN t /\ st[j] = t[j - Len(s)]
    <3>1. i - Len(s) < j - Len(s)
      BY <1>1, <1>6
    <3>. QED
      BY <1>6, <2>3, <3>1 DEF Rise
  <2>4. ~(i > Len(s) /\ j \in DOMAIN s)
    BY <1>1, <1>6
  <2>. QED
    BY <1>2, <2>1, <2>2, <2>3, <2>4
<1>7. Rise(s) /\ Rise(t) /\ Below(Units1(s), Units1(t)) => Rise(st)
  BY <1>6 DEF Rise
<1>. QED
  BY <1>5, <1>7 DEF st

\* A part of one entry, and the empty one.
LEMMA OneRises ==
  ASSUME NEW x
  PROVE  Units1(<<x>>) = {x.unit} /\ Rise(<<x>>) /\ Units1(<<>>) = {} /\ Rise(<<>>)
<1>1. DOMAIN <<x>> = {1} /\ <<x>>[1] = x
  OBVIOUS
<1>2. Units1(<<x>>) = {x.unit}
  BY <1>1 DEF Units1
<1>3. Rise(<<x>>)
  BY <1>1 DEF Rise
<1>4. Units1(<<>>) = {} /\ Rise(<<>>)
  BY DEF Units1, Rise
<1>. QED
  BY <1>2, <1>3, <1>4

\* One more entry, behind the others.
LEMMA AppendRises ==
  ASSUME NEW S, NEW s \in Seq(S), NEW x \in S
  PROVE  /\ Units1(Append(s, x)) = Units1(s) \cup {x.unit}
         /\ Rise(s) /\ Below(Units1(s), {x.unit}) => Rise(Append(s, x))
<1> DEFINE one == <<x>>
<1>1. Append(s, x) = s \o one /\ one \in Seq(S)
  BY AppendIsConcat
<1>2. Units1(one) = {x.unit} /\ Rise(one)
  BY OneRises
<1> HIDE DEF one
<1>3. /\ Units1(s \o one) = Units1(s) \cup {x.unit}
      /\ Rise(s) /\ Below(Units1(s), {x.unit}) => Rise(s \o one)
  <2>1. /\ Units1(s \o one) = Units1(s) \cup Units1(one)
        /\ Rise(s) /\ Rise(one) /\ Below(Units1(s), Units1(one)) => Rise(s \o one)
    BY <1>1, CatRises, Zenon
  <2>. QED
    BY <1>2, <2>1, Zenon
<1>. QED
  BY <1>1, <1>3, Zenon

\* A queue that may drop its oldest entry.
LEMMA PushRises ==
  ASSUME NEW S, NEW q \in Seq(S), NEW cap \in Nat \ {0}, Len(q) <= cap, NEW x \in S
  PROVE  /\ push_drop(q, cap, x) \in Seq(S) /\ Len(push_drop(q, cap, x)) <= cap
         /\ Units1(push_drop(q, cap, x)) \subseteq Units1(q) \cup {x.unit}
         /\ Rise(q) /\ Below(Units1(q), {x.unit}) => Rise(push_drop(q, cap, x))
<1>1. push_drop(q, cap, x) \in Seq(S) /\ Len(push_drop(q, cap, x)) <= cap
  BY PushIs
<1>2. CASE Len(q) >= cap
  <2>1. q # <<>>
    BY <1>2, EmptySeq
  <2> DEFINE u == Tail(q)
  <2>2. u \in Seq(S) /\ Units1(u) \subseteq Units1(q) /\ (Rise(q) => Rise(u))
    BY <2>1, TailIs, HeadRises
  <2> HIDE DEF u
  <2>3. Units1(Append(u, x)) = Units1(u) \cup {x.unit}
        /\ (Rise(u) /\ Below(Units1(u), {x.unit}) => Rise(Append(u, x)))
    BY <2>2, AppendRises
  <2>4. push_drop(q, cap, x) = Append(u, x)
    BY <1>2 DEF push_drop, u
  <2>5. Below(Units1(q), {x.unit}) => Below(Units1(u), {x.unit})
    BY <2>2 DEF Below
  <2>. QED
    BY <1>1, <2>2, <2>3, <2>4, <2>5
<1>3. CASE ~(Len(q) >= cap)
  <2>1. push_drop(q, cap, x) = Append(q, x)
    BY <1>3 DEF push_drop
  <2>. QED
    BY <1>1, <2>1, AppendRises
<1>. QED
  BY <1>2, <1>3

(******************************* The decoder *******************************)

\* A decoder of the right type, and one whose frames are in order.
DecOK(d)    == d \in Decoder /\ Len(d.ready) <= MaxReady
DecRises(d) == Rise(d.ready) /\ Rise(d.out) /\ Below(Units1(d.ready), Units1(d.out))

\* Every pts is the unit's, and every capture time too, or there is none.
OwnPts(s)   == \A i \in DOMAIN s : s[i].pts = s[i].unit - 1
OwnTimes(s) == \A i \in DOMAIN s : s[i].capture \in {0, s[i].unit}
OwnRing(r)  == \A i \in DOMAIN r : r[i].capture > 0 => r[i].pts = r[i].capture - 1
DecOwn(d)   == OwnPts(d.in) /\ OwnPts(d.out) /\ OwnTimes(d.ready) /\ OwnRing(d.ring)

\* The lists of a decoder.
LEMMA DecParts ==
  ASSUME NEW d, DecOK(d)
  PROVE  /\ d.in \in Seq(Packet) /\ d.out \in Seq(Decoded) /\ d.ready \in Seq(Picture)
         /\ d.head \in 0 .. RingSize - 1 /\ d.ring \in [0 .. RingSize - 1 -> Entry]
         /\ Len(d.ready) <= MaxReady /\ Len(d.ready) \in Nat /\ Len(d.out) \in Nat
BY LenProperties DEF DecOK, Decoder

\* As many as there is room for.
LEMMA FetchOK ==
  ASSUME NEW d, DecOK(d)
  PROVE  /\ fetch_one_mpp_frame(d) \in 0 .. Len(d.out)
         /\ Len(d.ready) + fetch_one_mpp_frame(d) <= MaxReady
<1> DEFINE full(n)  == Len(d.ready) + n >= MaxReady
           ended(n) == n = Len(d.out) \/ full(n) \/ (n > 0 /\ ~d.out[n].good)
           T        == {n \in 0 .. Len(d.out) : ended(n)}
           F(n)     == ended(n) /\ \A l \in 0 .. n - 1 : ~ended(l)
           f        == CHOOSE n \in 0 .. Len(d.out) : F(n)
<1>1. Len(d.ready) <= MaxReady /\ Len(d.ready) \in Nat /\ Len(d.out) \in Nat /\ MaxReady \in Nat
  BY DecParts, BoundsAre
<1>2. T \in SUBSET Nat /\ T # {}
  <2>1. Len(d.out) \in T
    BY <1>1
  <2>. QED
    BY <1>1, <2>1
<1>3. PICK m \in T : \A l \in T : m <= l
  <2> HIDE DEF T
  <2>. QED
    BY <1>2, NatMin
<1>4. m \in 0 .. Len(d.out) /\ ended(m)
  OBVIOUS
<1>5. ASSUME NEW l \in 0 .. m - 1 PROVE ~ended(l)
  <2>1. l \in 0 .. Len(d.out) /\ ~(m <= l)
    BY <1>1, <1>4
  <2> HIDE DEF ended
  <2>. QED
    BY <1>3, <2>1
<1>6. F(m)
  BY <1>4, <1>5
<1>7. f \in 0 .. Len(d.out) /\ F(f)
  <2> HIDE DEF F
  <2>. QED
    BY <1>4, <1>6
<1>8. fetch_one_mpp_frame(d) = f
  BY DEF fetch_one_mpp_frame
<1> HIDE DEF f
<1>9. Len(d.ready) + f <= MaxReady
  <2>1. CASE f = 0
    BY <1>1, <2>1
  <2>2. CASE f # 0
    <3>1. f - 1 \in 0 .. f - 1
      BY <1>1, <1>7, <2>2
    <3>2. ~full(f - 1)
      BY <1>7, <3>1
    <3>. QED
      BY <1>1, <1>7, <3>2
  <2>. QED
    BY <2>1, <2>2
<1>. QED
  BY <1>7, <1>8, <1>9

\* The capture time found for a pts is that of its own picture, or none.
LEMMA LookupOK ==
  ASSUME NEW d, DecOK(d), NEW pts \in Int
  PROVE  /\ lookup_capture_pts(d, pts) \in Nat
         /\ OwnRing(d.ring) => lookup_capture_pts(d, pts) \in {0, pts + 1}
<1> DEFINE found == {i \in DOMAIN d.ring : d.ring[i].pts = pts /\ d.ring[i].capture > 0}
           k == CHOOSE i \in found : \A j \in found : i <= j
<1>1. DOMAIN d.ring = 0 .. RingSize - 1 /\ \A i \in DOMAIN d.ring : d.ring[i] \in Entry
  BY DecParts
<1>2. CASE found = {}
  BY <1>2 DEF lookup_capture_pts
<1>3. CASE found # {}
  <2>1. found \in SUBSET Nat
    BY <1>1, BoundsAre
  <2>2. \E i \in found : \A j \in found : i <= j
    <3> HIDE DEF found
    <3>. QED
      BY <1>3, <2>1, NatMin
  <2>3. k \in found
    <3> HIDE DEF found
    <3>. QED
      BY <2>2
  <2>4. lookup_capture_pts(d, pts) = d.ring[k].capture
    BY <1>3 DEF lookup_capture_pts
  <2> HIDE DEF k
  <2>5. k \in DOMAIN d.ring /\ d.ring[k].pts = pts /\ d.ring[k].capture > 0
        /\ d.ring[k].capture \in Nat
    BY <1>1, <2>3 DEF Entry
  <2>6. OwnRing(d.ring) => d.ring[k].capture = pts + 1
    BY <2>5 DEF OwnRing
  <2>. QED
    BY <2>4, <2>5, <2>6
<1>. QED
  BY <1>2, <1>3

\* The numbers in the two lists of the decoder a drain works on.
Inside(d) == Units1(d.ready) \cup Units1(d.out)

\* A drain moves frames from MPP to the ready list, in order, and may drop some.
LEMMA DrainOK ==
  ASSUME NEW d, DecOK(d)
  PROVE  LET r == drain_mpp_to_ready(d) IN
         /\ DecOK(r) /\ r.in = d.in /\ r.ring = d.ring /\ r.head = d.head
         /\ Inside(r) \subseteq Inside(d)
         /\ DecRises(d) => DecRises(r)
         /\ DecOwn(d) => DecOwn(r)
<1> DEFINE n      == fetch_one_mpp_frame(d)
           packed == IF n > 0 /\ ~d.out[n].good THEN n - 1 ELSE n
           new    == [i \in 1 .. packed |-> pack_mpp_to_ready(d, d.out[i])]
           left   == SubSeq(d.out, n + 1, Len(d.out))
           ready  == d.ready \o new
           r      == drain_mpp_to_ready(d)
<1>1. /\ d.in \in Seq(Packet) /\ d.out \in Seq(Decoded) /\ d.ready \in Seq(Picture)
      /\ d.ring \in [0 .. RingSize - 1 -> Entry]
      /\ Len(d.ready) <= MaxReady /\ Len(d.ready) \in Nat /\ Len(d.out) \in Nat
      /\ DOMAIN d.out = 1 .. Len(d.out) /\ MaxReady \in Nat
  BY DecParts, LenProperties, BoundsAre
<1>2. n \in 0 .. Len(d.out) /\ Len(d.ready) + n <= MaxReady
  BY FetchOK
<1>3. r = [d EXCEPT !.out = left, !.ready = ready]
  BY DEF drain_mpp_to_ready
<1> HIDE DEF n, r
<1>4. packed \in Nat /\ packed <= n
  BY <1>1, <1>2
<1> HIDE DEF packed
<1>5. ASSUME NEW i \in 1 .. packed
      PROVE  /\ i \in DOMAIN d.out /\ i <= n
             /\ d.out[i].unit \in Nat /\ d.out[i].pts \in Int
             /\ pack_mpp_to_ready(d, d.out[i]) \in Picture
             /\ pack_mpp_to_ready(d, d.out[i]).unit = d.out[i].unit
             /\ DecOwn(d) => pack_mpp_to_ready(d, d.out[i]).capture \in {0, d.out[i].unit}
  <2>1. i \in DOMAIN d.out /\ i <= n
    BY <1>1, <1>2, <1>4
  <2>2. d.out[i].unit \in Nat /\ d.out[i].pts \in Int
    <3>1. d.out \in Seq(Decoded) /\ i \in 1 .. Len(d.out)
      BY <1>1, <2>1
    <3>2. d.out[i] \in Decoded
      BY <3>1, ElementOfSeq, Zenon
    <3>. QED
      BY <3>2 DEF Decoded
  <2>3. /\ lookup_capture_pts(d, d.out[i].pts) \in Nat
        /\ OwnRing(d.ring) => lookup_capture_pts(d, d.out[i].pts) \in {0, d.out[i].pts + 1}
    BY <2>2, LookupOK
  <2>4. DecOwn(d) => d.out[i].pts + 1 = d.out[i].unit
    BY <2>1, <2>2 DEF DecOwn, OwnPts
  <2>5. DecOwn(d) => lookup_capture_pts(d, d.out[i].pts) \in {0, d.out[i].unit}
    BY <2>3, <2>4 DEF DecOwn
  <2>. QED
    BY <2>1, <2>2, <2>3, <2>5 DEF pack_mpp_to_ready, Picture
<1>6. /\ new \in Seq(Picture) /\ Len(new) = packed /\ DOMAIN new = 1 .. packed
      /\ \A i \in 1 .. packed : /\ new[i].unit = d.out[i].unit
                                /\ DecOwn(d) => new[i].capture \in {0, new[i].unit}
  <2>1. new \in [1 .. packed -> Picture]
    BY <1>5
  <2>2. \A i \in 1 .. packed : new[i] = pack_mpp_to_ready(d, d.out[i])
    OBVIOUS
  <2> HIDE DEF new
  <2>3. new \in Seq(Picture) /\ Len(new) = packed /\ DOMAIN new = 1 .. packed
    BY <1>4, <2>1, SeqIs
  <2>. QED
    BY <1>5, <2>2, <2>3
<1> HIDE DEF new
<1>7. left \in Seq(Decoded) /\ Without(left, d.out, n)
  BY <1>1, <1>2, RestIs
<1> HIDE DEF left
<1>8. /\ ready \in Seq(Picture) /\ Len(ready) = Len(d.ready) + packed
      /\ Units1(ready) = Units1(d.ready) \cup Units1(new)
      /\ Rise(d.ready) /\ Rise(new) /\ Below(Units1(d.ready), Units1(new)) => Rise(ready)
  <2>1. d.ready \in Seq(Picture) /\ new \in Seq(Picture) /\ Len(new) = packed
    BY <1>1, <1>6
  <2>2. ready \in Seq(Picture) /\ Len(ready) = Len(d.ready) + Len(new)
    BY <2>1, CatIs, Zenon
  <2>3. /\ Units1(ready) = Units1(d.ready) \cup Units1(new)
        /\ Rise(d.ready) /\ Rise(new) /\ Below(Units1(d.ready), Units1(new)) => Rise(ready)
    BY <2>1, CatRises, Zenon
  <2>. QED
    BY <2>1, <2>2, <2>3, Zenon
<1>9. DecOwn(d) => OwnTimes(ready)
  <2>0. d.ready \in Seq(Picture) /\ new \in Seq(Picture)
    BY <1>1, <1>6
  <2>1. \A i \in DOMAIN ready : \/ i \in DOMAIN d.ready /\ ready[i] = d.ready[i]
                                \/ i - Len(d.ready) \in DOMAIN new
                                   /\ ready[i] = new[i - Len(d.ready)]
    BY <2>0, CatEach, Zenon
  <2> HIDE DEF ready
  <2>2. OwnTimes(d.ready) /\ OwnTimes(new) => OwnTimes(ready)
    BY <2>1 DEF OwnTimes
  <2>3. DecOwn(d) => OwnTimes(new)
    BY <1>6 DEF OwnTimes
  <2>. QED
    BY <2>2, <2>3 DEF DecOwn
<1> HIDE DEF ready
<1>10. Units1(new) \subseteq Units1(d.out)
  BY <1>5, <1>6 DEF Units1
<1>11. Units1(left) \subseteq Units1(d.out) /\ (Rise(d.out) => Rise(left))
  BY <1>1, <1>2, <1>7, RestRises
<1>12. ASSUME Rise(d.out) PROVE Rise(new) /\ Below(Units1(new), Units1(left))
  <2>1. Rise(new)
    BY <1>5, <1>6, <1>12 DEF Rise
  <2>2. ASSUME NEW i \in 1 .. packed, NEW j \in DOMAIN left PROVE new[i].unit < left[j].unit
    <3>1. n + j \in DOMAIN d.out /\ left[j] = d.out[n + j] /\ i < n + j
      BY <1>1, <1>2, <1>4, <1>7 DEF Without
    <3>2. i \in DOMAIN d.out /\ new[i].unit = d.out[i].unit
      BY <1>5, <1>6
    <3>. QED
      BY <1>12, <3>1, <3>2 DEF Rise
  <2>3. Below(Units1(new), Units1(left))
    BY <1>6, <2>2 DEF Below, Units1
  <2>. QED
    BY <2>1, <2>3
<1>13. r.in = d.in /\ r.ring = d.ring /\ r.head = d.head /\ r.out = left /\ r.ready = ready
  BY <1>3 DEF DecOK, Decoder
<1>14. DecOK(r)
  <2>1. r \in Decoder
    BY <1>3, <1>7, <1>8 DEF DecOK, Decoder
  <2>2. Len(ready) <= MaxReady
    BY <1>1, <1>2, <1>4, <1>8
  <2>. QED
    BY <1>13, <2>1, <2>2 DEF DecOK
<1>15. Inside(r) \subseteq Inside(d)
  BY <1>8, <1>10, <1>11, <1>13 DEF Inside
<1>16. DecRises(d) => DecRises(r)
  BY <1>8, <1>10, <1>11, <1>12, <1>13 DEF DecRises, Below
<1>17. DecOwn(d) => DecOwn(r)
  <2>1. OwnPts(d.out) => OwnPts(left)
    <3>1. \A j \in DOMAIN left : n + j \in DOMAIN d.out /\ left[j] = d.out[n + j]
      BY <1>1, <1>2, <1>7 DEF Without
    <3>. QED
      BY <3>1 DEF OwnPts
  <2>. QED
    BY <1>9, <1>13, <2>1 DEF DecOwn
<1>. QED
  BY <1>13, <1>14, <1>15, <1>16, <1>17 DEF r

\* r is d after some drains that gave the frames fr.
Moved(d, fr, r) ==
  /\ DecOK(r) /\ fr \in Seq(Picture)
  /\ r.in = d.in /\ r.ring = d.ring /\ r.head = d.head
  /\ Units1(fr) \cup Inside(r) \subseteq Inside(d)
  /\ DecRises(d) => Rise(fr) /\ DecRises(r) /\ Below(Units1(fr), Inside(r))
  /\ DecOwn(d) => OwnTimes(fr) /\ DecOwn(r)

\* No drain.
LEMMA Unmoved ==
  ASSUME NEW d, DecOK(d)
  PROVE  Moved(d, <<>>, d)
<1>1. <<>> \in Seq(Picture) /\ Units1(<<>>) = {} /\ Rise(<<>>)
  BY EmptySeq, OneRises
<1>2. OwnTimes(<<>>) /\ Below({}, Inside(d))
  BY DEF OwnTimes, Below
<1>. QED
  BY <1>1, <1>2 DEF Moved

\* One more drain.
LEMMA MovedDrain ==
  ASSUME NEW d, NEW fr, NEW r, Moved(d, fr, r)
  PROVE  Moved(d, fr, drain_mpp_to_ready(r))
<1> DEFINE q == drain_mpp_to_ready(r)
<1>1. DecOK(r)
  BY DEF Moved
<1>2. /\ DecOK(q) /\ q.in = r.in /\ q.ring = r.ring /\ q.head = r.head
      /\ Inside(q) \subseteq Inside(r)
      /\ DecRises(r) => DecRises(q)
      /\ DecOwn(r) => DecOwn(q)
  BY <1>1, DrainOK
<1> HIDE DEF q
<1>3. Below(Units1(fr), Inside(r)) => Below(Units1(fr), Inside(q))
  BY <1>2 DEF Below
<1>4. Moved(d, fr, q)
  BY <1>2, <1>3 DEF Moved
<1>. QED
  BY <1>4 DEF q

\* The frame that leaves the list of ready ones.
LEMMA MovedOut ==
  ASSUME NEW d, NEW fr, NEW r, Moved(d, fr, r), r.ready # <<>>
  PROVE  Moved(d, Append(fr, Head(r.ready)), [r EXCEPT !.ready = Tail(r.ready)])
<1> DEFINE x == Head(r.ready)
           t == Tail(r.ready)
           q == [r EXCEPT !.ready = t]
           f == Append(fr, x)
<1>1. DecOK(r) /\ r.ready \in Seq(Picture) /\ fr \in Seq(Picture)
      /\ Len(r.ready) <= MaxReady /\ Len(r.ready) \in Nat /\ MaxReady \in Nat
  BY DecParts, BoundsAre DEF Moved
<1>2. /\ x \in Picture /\ t \in Seq(Picture) /\ Len(t) = Len(r.ready) - 1 /\ x = r.ready[1]
      /\ DOMAIN r.ready = 1 .. Len(r.ready) /\ DOMAIN t = 1 .. Len(r.ready) - 1
      /\ 1 \in DOMAIN r.ready
      /\ \A i \in 1 .. Len(r.ready) - 1 : i + 1 \in 1 .. Len(r.ready) /\ t[i] = r.ready[i + 1]
  BY <1>1, TailIs
<1>3. /\ Units1(t) \subseteq Units1(r.ready) /\ x.unit \in Units1(r.ready)
      /\ Rise(r.ready) => Rise(t) /\ Below({x.unit}, Units1(t))
  BY <1>1, HeadRises
<1> HIDE DEF x, t
<1>4. /\ f \in Seq(Picture) /\ Units1(f) = Units1(fr) \cup {x.unit}
      /\ Rise(fr) /\ Below(Units1(fr), {x.unit}) => Rise(f)
  <2>1. fr \in Seq(Picture) /\ x \in Picture
    BY <1>1, <1>2
  <2>2. f \in Seq(Picture)
    BY <2>1, AppendIs, Zenon
  <2>3. /\ Units1(f) = Units1(fr) \cup {x.unit}
        /\ Rise(fr) /\ Below(Units1(fr), {x.unit}) => Rise(f)
    BY <2>1, AppendRises, Zenon
  <2>. QED
    BY <2>2, <2>3, Zenon
<1>5. OwnTimes(r.ready) => OwnTimes(t) /\ x.capture \in {0, x.unit}
  BY <1>2 DEF OwnTimes
<1>6. OwnTimes(fr) /\ x.capture \in {0, x.unit} => OwnTimes(f)
  <2>1. /\ DOMAIN f = 1 .. Len(fr) + 1 /\ DOMAIN fr = 1 .. Len(fr) /\ Len(fr) \in Nat
        /\ \A i \in 1 .. Len(fr) : f[i] = fr[i]
        /\ f[Len(fr) + 1] = x
    BY <1>1, <1>2, AppendIs
  <2> HIDE DEF f
  <2>2. \A i \in DOMAIN f : (i \in DOMAIN fr /\ f[i] = fr[i]) \/ f[i] = x
    BY <2>1
  <2>. QED
    BY <2>2 DEF OwnTimes
<1> HIDE DEF f
<1>7. q.in = r.in /\ q.ring = r.ring /\ q.head = r.head /\ q.out = r.out /\ q.ready = t
  BY <1>1 DEF DecOK, Decoder
<1>8. DecOK(q)
  <2>1. q \in Decoder
    BY <1>1, <1>2 DEF DecOK, Decoder
  <2>2. Len(t) <= MaxReady
    BY <1>1, <1>2
  <2>. QED
    BY <1>7, <2>1, <2>2 DEF DecOK
<1> HIDE DEF q
<1>9. Units1(f) \cup Inside(q) \subseteq Inside(d)
  BY <1>3, <1>4, <1>7 DEF Moved, Inside
<1>10. ASSUME DecRises(d) PROVE Rise(f) /\ DecRises(q) /\ Below(Units1(f), Inside(q))
  <2>1. Rise(fr) /\ DecRises(r) /\ Below(Units1(fr), Inside(r))
    BY <1>10 DEF Moved
  <2>2. Rise(f)
    BY <1>3, <1>4, <2>1 DEF Below, Inside
  <2>3. DecRises(q)
    BY <1>3, <1>7, <2>1 DEF DecRises, Below
  <2>4. Below(Units1(f), Inside(q))
    BY <1>3, <1>4, <1>7, <2>1 DEF DecRises, Below, Inside
  <2>. QED
    BY <2>2, <2>3, <2>4
<1>11. DecOwn(d) => OwnTimes(f) /\ DecOwn(q)
  BY <1>5, <1>6, <1>7 DEF Moved, DecOwn
<1>12. Moved(d, f, q)
  BY <1>4, <1>7, <1>8, <1>9, <1>10, <1>11 DEF Moved
<1>. QED
  BY <1>12 DEF f, q, x, t

\* The decoder and the frames pulled from it after some passes.
PullState == [d : Decoder, frames : Seq(Picture), ended : BOOLEAN]
PullOK(d, s) == s \in PullState /\ Moved(d, s.frames, s.d)

\* One pass of the pull.
LEMMA OutputOK ==
  ASSUME NEW d, NEW s, PullOK(d, s)
  PROVE  PullOK(d, dec_output(s))
<1> DEFINE q == IF s.d.ready = <<>> THEN drain_mpp_to_ready(s.d) ELSE s.d
           p == [q EXCEPT !.ready = Tail(q.ready)]
           f == Append(s.frames, Head(q.ready))
<1>1. s \in PullState /\ Moved(d, s.frames, s.d)
  BY DEF PullOK
<1>2. Moved(d, s.frames, q)
  BY <1>1, MovedDrain
<1>3. dec_output(s) = IF q.ready = <<>> THEN [s EXCEPT !.d = q, !.ended = TRUE]
                      ELSE [s EXCEPT !.d = p, !.frames = f]
  BY <1>1 DEF dec_output, PullState
<1> HIDE DEF q
<1>4. q \in Decoder
  BY <1>2 DEF Moved, DecOK
<1>5. CASE q.ready = <<>>
  <2>1. dec_output(s) = [s EXCEPT !.d = q, !.ended = TRUE]
    BY <1>3, <1>5
  <2>. QED
    BY <1>1, <1>2, <1>4, <2>1 DEF PullOK, PullState
<1>6. CASE q.ready # <<>>
  <2>1. dec_output(s) = [s EXCEPT !.d = p, !.frames = f]
    BY <1>3, <1>6
  <2>2. Moved(d, f, p)
    BY <1>2, <1>6, MovedOut
  <2> HIDE DEF f, p
  <2>3. p \in Decoder /\ f \in Seq(Picture)
    BY <2>2 DEF Moved, DecOK
  <2>. QED
    BY <1>1, <2>1, <2>2, <2>3 DEF PullOK, PullState
<1>. QED
  BY <1>5, <1>6

\* h is the state after each of the first n passes.
Start(d)   == [d |-> d, frames |-> <<>>, ended |-> FALSE]
OnePass(s) == IF s.ended THEN s ELSE dec_output(s)
IsPass(d, n, h) == h = [i \in 0 .. n |-> IF i = 0 THEN Start(d) ELSE OnePass(h[i - 1])]

\* The recursion over the passes has a solution.
LEMMA PassExists ==
  ASSUME NEW d, NEW n \in Nat
  PROVE  \E h : IsPass(d, n, h)
<1> DEFINE T == {m \in 0 .. n : ~ \E h : IsPass(d, m, h)}
<1>1. T = {}
  <2>. SUFFICES ASSUME T # {} PROVE FALSE
    OBVIOUS
  <2>1. PICK m \in T : \A l \in T : m <= l
    <3>1. T \in SUBSET Nat
      OBVIOUS
    <3>. HIDE DEF T
    <3>. QED
      BY <3>1, NatMin
  <2>2. m \in 0 .. n /\ ~ \E h : IsPass(d, m, h)
    OBVIOUS
  <2>3. m # 0
    <3>. DEFINE h == [i \in {0} |-> Start(d)]
    <3>1. h = [i \in 0 .. 0 |-> IF i = 0 THEN Start(d) ELSE OnePass(h[i - 1])]
      OBVIOUS
    <3>. HIDE DEF h
    <3>2. IsPass(d, 0, h)
      BY <3>1, Zenon DEF IsPass
    <3>. QED
      BY <2>2, <3>2
  <2>4. m - 1 \in 0 .. n /\ m - 1 \notin T
    <3>. HIDE DEF T
    <3>. QED
      BY <2>1, <2>2, <2>3
  <2>5. PICK h : IsPass(d, m - 1, h)
    BY <2>4
  <2>. DEFINE Step(i, k) == IF i = 0 THEN Start(d) ELSE OnePass(k[i - 1])
              g == [i \in 0 .. m |-> IF i = m THEN OnePass(h[m - 1]) ELSE h[i]]
  <2>6. \A i \in 0 .. m - 1 : h[i] = Step(i, h)
    BY <2>5 DEF IsPass
  <2>7. \A i \in 0 .. m : g[i] = Step(i, g)
    <3>. TAKE i \in 0 .. m
    <3>1. CASE i = m
      <4>1. g[m - 1] = h[m - 1] /\ g[m] = OnePass(h[m - 1])
        BY <2>2, <2>3
      <4>. HIDE DEF g
      <4>. QED
        BY <2>3, <3>1, <4>1
    <3>2. CASE i # m
      <4>1. i \in 0 .. m - 1 /\ g[i] = h[i] /\ (i # 0 => i - 1 \in 0 .. m /\ i - 1 # m)
        BY <2>2, <2>3, <3>2
      <4>2. i # 0 => g[i - 1] = h[i - 1]
        BY <4>1
      <4>. HIDE DEF g
      <4>. QED
        BY <2>6, <4>1, <4>2
    <3>. QED
      BY <3>1, <3>2
  <2>8. g = [i \in 0 .. m |-> Step(i, g)]
    <3>1. g = [i \in 0 .. m |-> g[i]]
      OBVIOUS
    <3>. HIDE DEF g, Step
    <3>. QED
      BY <2>7, <3>1
  <2>9. IsPass(d, m, g)
    <3>. HIDE DEF g
    <3>. QED
      BY <2>8, Zenon DEF IsPass
  <2>. QED
    BY <2>2, <2>9
<1>2. n \notin T
  <2>. HIDE DEF T
  <2>. QED
    BY <1>1
<1>. QED
  BY <1>2

\* What the decode thread pulls, and what stays.
LEMMA PullIs ==
  ASSUME NEW d, DecOK(d)
  PROVE  Moved(d, pull_decoder_frames(d).frames, pull_decoder_frames(d).d)
<1> DEFINE n == PullPasses
           h == Passes(d)
<1>1. n \in Nat
  BY BoundsAre
<1>2. h = [i \in 0 .. n |-> IF i = 0 THEN Start(d) ELSE OnePass(h[i - 1])]
  <2>1. \E g : IsPass(d, n, g)
    BY <1>1, PassExists
  <2>2. h = CHOOSE g : IsPass(d, n, g)
    BY Zenon DEF Passes, IsPass, Start, OnePass
  <2>3. IsPass(d, n, h)
    <3>. HIDE DEF h
    <3>. QED
      BY <2>1, <2>2
  <2>. QED
    BY <2>3, Zenon DEF IsPass
<1> HIDE DEF h, n
<1> DEFINE T == {i \in 0 .. n : ~ PullOK(d, h[i])}
<1>3. T = {}
  <2>. SUFFICES ASSUME T # {} PROVE FALSE
    OBVIOUS
  <2>1. PICK m \in T : \A l \in T : m <= l
    <3>1. T \in SUBSET Nat
      BY <1>1
    <3>. HIDE DEF T
    <3>. QED
      BY <3>1, NatMin
  <2>2. m \in 0 .. n /\ ~ PullOK(d, h[m])
    OBVIOUS
  <2>3. m # 0
    <3>1. h[0] = Start(d)
      BY <1>1, <1>2
    <3>2. Start(d) \in PullState /\ Start(d).frames = <<>> /\ Start(d).d = d
      BY EmptySeq DEF Start, PullState, DecOK
    <3>3. PullOK(d, Start(d))
      BY <3>2, Unmoved DEF PullOK
    <3>. QED
      BY <2>2, <3>1, <3>3
  <2>4. m - 1 \in 0 .. n /\ m - 1 \notin T
    <3>. HIDE DEF T
    <3>. QED
      BY <1>1, <2>1, <2>2, <2>3
  <2>5. PullOK(d, h[m - 1])
    BY <2>4
  <2>6. h[m] = OnePass(h[m - 1])
    BY <1>1, <1>2, <2>2, <2>3
  <2>7. PullOK(d, h[m])
    BY <2>5, <2>6, OutputOK DEF OnePass
  <2>. QED
    BY <2>2, <2>7
<1>4. PullOK(d, h[n])
  <2>1. n \in 0 .. n /\ n \notin T
    <3>. HIDE DEF T
    <3>. QED
      BY <1>1, <1>3
  <2>. QED
    BY <2>1
<1>. QED
  BY <1>4 DEF pull_decoder_frames, PullOK, h, n

\* A capture time that is remembered belongs to its pts.
LEMMA RememberOK ==
  ASSUME NEW d, DecOK(d), NEW f \in Picture
  PROVE  LET r == remember_capture_pts(d, f) IN
         /\ DecOK(r) /\ r.in = d.in /\ r.out = d.out /\ r.ready = d.ready
         /\ DecOwn(d) /\ f.capture = f.unit /\ f.pts = f.unit - 1 => DecOwn(r)
<1> DEFINE r == remember_capture_pts(d, f)
           e == [pts |-> f.pts, capture |-> f.capture]
           ring == [d.ring EXCEPT ![d.head] = e]
           head == (d.head + 1) % RingSize
<1>1. /\ d.head \in 0 .. RingSize - 1 /\ d.ring \in [0 .. RingSize - 1 -> Entry]
      /\ RingSize \in Nat \ {0} /\ e \in Entry
      /\ f.unit \in Nat /\ f.pts \in Int /\ f.capture \in Nat
  BY DecParts, BoundsAre DEF Picture, Entry
<1>2. ring \in [0 .. RingSize - 1 -> Entry] /\ head \in 0 .. RingSize - 1
  BY <1>1
<1>3. r = [d EXCEPT !.ring = ring, !.head = head]
  BY DEF remember_capture_pts, DecOK, Decoder
<1>4. OwnRing(d.ring) /\ f.capture = f.unit /\ f.pts = f.unit - 1 => OwnRing(ring)
  BY <1>1 DEF OwnRing
<1> HIDE DEF ring, head, r
<1>5. r.in = d.in /\ r.out = d.out /\ r.ready = d.ready /\ r.ring = ring /\ r \in Decoder
  BY <1>2, <1>3 DEF DecOK, Decoder
<1>6. DecOK(r)
  BY <1>5 DEF DecOK
<1>. QED
  BY <1>4, <1>5, <1>6 DEF DecOwn, r

\* One attempt to feed au to d gives x.
FedDec(d, au, x) ==
  /\ x.r \in {"ok", "EIO", "EAGAIN"} /\ DecOK(x.d)
  /\ Inside(x.d) \subseteq Inside(d)
  /\ DecRises(d) => DecRises(x.d)
  /\ x.d.in = IF x.r = "ok" THEN Append(d.in, [unit |-> au.unit, pts |-> au.pts]) ELSE d.in
  /\ DecOwn(d) /\ au.capture = au.unit /\ au.pts = au.unit - 1 => DecOwn(x.d)

\* The results of a feed.
LEMMA InputOK ==
  ASSUME NEW d, DecOK(d), NEW au \in Picture, NEW x \in dec_input(d, au)
  PROVE  FedDec(d, au, x)
<1> DEFINE noted   == remember_capture_pts(d, au)
           drained == drain_mpp_to_ready(noted)
           pk      == [unit |-> au.unit, pts |-> au.pts]
           put     == [drained EXCEPT !.in = Append(drained.in, pk)]
           Own     == DecOwn(d) /\ au.capture = au.unit /\ au.pts = au.unit - 1
<1>1. /\ DecOK(noted) /\ noted.in = d.in /\ noted.out = d.out /\ noted.ready = d.ready
      /\ Own => DecOwn(noted)
  BY RememberOK
<1>2. DecOK(drained) /\ drained.in = noted.in /\ Inside(drained) \subseteq Inside(noted)
      /\ (DecRises(noted) => DecRises(drained)) /\ (DecOwn(noted) => DecOwn(drained))
  <2> HIDE DEF noted
  <2>. QED
    BY <1>1, DrainOK
<1>3. \/ x = [r |-> "EAGAIN", d |-> d]
      \/ x = [r |-> "EAGAIN", d |-> drained]
      \/ x = [r |-> "ok", d |-> put]
      \/ x = [r |-> "EIO", d |-> drained]
      \/ x = [r |-> "EIO", d |-> d]
  <2> DEFINE early == {[r |-> "EIO", d |-> d]}
             busy  == {[r |-> "EAGAIN", d |-> d]}
             later == {[r |-> "EAGAIN", d |-> drained]}
             taken == {[r |-> "ok", d |-> put], [r |-> "EIO", d |-> drained]}
  <2>1. dec_input(d, au) \in {early \cup busy, early \cup later, early \cup taken}
    <3>1. put = [drained EXCEPT !.in = Append(@, pk)]
      BY <1>2 DEF DecOK, Decoder
    <3> HIDE DEF put
    <3>. QED
      BY <3>1, Zenon DEF dec_input
  <2> HIDE DEF put, drained
  <2>. QED
    BY <2>1
<1> HIDE DEF noted, drained
<1>4. DecOK(drained) /\ drained.in = d.in /\ Inside(drained) \subseteq Inside(d)
      /\ (DecRises(d) => DecRises(drained)) /\ (Own => DecOwn(drained))
  BY <1>1, <1>2 DEF Inside, DecRises
<1>5. pk \in Packet /\ au.unit \in Nat /\ au.pts \in Int
  BY DEF Picture, Packet
<1> DEFINE in == Append(drained.in, pk)
<1>6. d.in \in Seq(Packet) /\ in \in Seq(Packet)
  BY <1>4, <1>5, DecParts, AppendIs
<1>7. OwnPts(d.in) /\ au.pts = au.unit - 1 => OwnPts(in)
  <2>1. /\ DOMAIN in = 1 .. Len(d.in) + 1 /\ DOMAIN d.in = 1 .. Len(d.in) /\ Len(d.in) \in Nat
        /\ \A i \in 1 .. Len(d.in) : in[i] = d.in[i]
        /\ in[Len(d.in) + 1] = pk
    BY <1>4, <1>5, <1>6, AppendIs
  <2> HIDE DEF in
  <2>2. \A i \in DOMAIN in : (i \in DOMAIN d.in /\ in[i] = d.in[i]) \/ in[i] = pk
    BY <2>1
  <2>. QED
    BY <2>2 DEF OwnPts
<1> HIDE DEF in
<1>8. put.ready = drained.ready /\ put.out = drained.out /\ put.in = in
      /\ put.ring = drained.ring /\ put \in Decoder
  <2>1. put = [drained EXCEPT !.in = in]
    BY DEF in
  <2> HIDE DEF put
  <2>. QED
    BY <1>4, <1>6, <2>1 DEF DecOK, Decoder
<1> HIDE DEF put
<1>9. DecOK(put) /\ Inside(put) \subseteq Inside(d) /\ (DecRises(d) => DecRises(put))
      /\ (Own => DecOwn(put))
  BY <1>4, <1>7, <1>8 DEF DecOK, Inside, DecRises, DecOwn
<1> HIDE DEF Own
<1>10. CASE x = [r |-> "EAGAIN", d |-> d] \/ x = [r |-> "EIO", d |-> d]
  BY <1>10 DEF FedDec
<1>11. CASE x = [r |-> "EAGAIN", d |-> drained] \/ x = [r |-> "EIO", d |-> drained]
  BY <1>4, <1>11 DEF FedDec, Own
<1>12. CASE x = [r |-> "ok", d |-> put]
  <2>1. put.in = Append(d.in, pk)
    BY <1>4, <1>8 DEF in
  <2>. QED
    BY <1>9, <1>12, <2>1 DEF FedDec, Own
<1>. QED
  BY <1>3, <1>10, <1>11, <1>12

(********************** The queue of the depayloader ***********************)

\* The frames of access units, and the unit one in progress is known by.
Frames(s) == [i \in DOMAIN s |-> Frame(s[i])]
UnitOf(b) == Last(Last(b.nals)).nal.unit
Items(aus) == [i \in DOMAIN aus |-> au_item(aus[i])]

\* The last piece of an access unit.
LEMMA LastIs ==
  ASSUME NEW nals \in Seq(Group), nals # <<>>
  PROVE  Last(Last(nals)) \in Piece /\ Last(Last(nals)).nal.unit \in Nat
<1>1. Len(nals) \in 1 .. Len(nals)
  BY TailIs
<1>2. Last(nals) \in Group
  BY <1>1, ElementOfSeq DEF Last
<1> DEFINE s == Last(nals)
<1> HIDE DEF s
<1>3. s \in Seq(Piece) /\ s # <<>>
  BY <1>2 DEF Group, s
<1>4. Len(s) \in 1 .. Len(s)
  BY <1>3, TailIs
<1>5. Last(s) \in Piece
  BY <1>3, <1>4, ElementOfSeq DEF Last
<1>. QED
  BY <1>5 DEF Piece, NalUnit, s

\* An access unit seen as a frame.
LEMMA FrameOK ==
  ASSUME NEW au \in Whole
  PROVE  Frame(au) \in Picture
<1>1. au.nals \in Seq(Group) /\ au.nals # <<>> /\ au.pts \in Int /\ au.capture \in Nat
  BY DEF Whole
<1>2. Last(Last(au.nals)).nal.unit \in Nat
  BY <1>1, LastIs
<1>. QED
  BY <1>1, <1>2 DEF Frame, Picture

\* The pts of an access unit.
LEMMA AuPtsInt == ASSUME NEW ts \in Int PROVE au_pts(ts) \in Int
<1>1. ts * Fps \in Int
  BY BoundsAre
<1> DEFINE a == ts * Fps
<1> HIDE DEF a
<1>2. a \div Clock \in Int
  BY <1>1, BoundsAre DEF a
<1>. QED
  BY <1>2 DEF a, au_pts

\* What is queued for a finished unit is known by the same number.
LEMMA ItemOK ==
  ASSUME NEW b \in Building, b.nals # <<>>
  PROVE  au_item(b) \in Whole /\ Frame(au_item(b)).unit = UnitOf(b)
<1>1. b.nals \in Seq(Group) /\ b.ts \in Int /\ b.capture \in Nat
  BY DEF Building
<1>2. au_pts(b.ts) \in Int
  BY <1>1, AuPtsInt
<1>. QED
  BY <1>1, <1>2 DEF au_item, Whole, Frame, UnitOf

\* The frames of a queue of access units.
LEMMA FramesOK ==
  ASSUME NEW s \in Seq(Whole)
  PROVE  Frames(s) \in Seq(Picture) /\ Len(Frames(s)) = Len(s) /\ DOMAIN Frames(s) = DOMAIN s
<1>1. Len(s) \in Nat /\ DOMAIN s = 1 .. Len(s)
  BY LenProperties
<1>2. \A i \in 1 .. Len(s) : Frame(s[i]) \in Picture
  BY <1>1, ElementOfSeq, FrameOK
<1> DEFINE t == Frames(s)
<1>3. t \in [1 .. Len(s) -> Picture]
  BY <1>1, <1>2 DEF Frames
<1> HIDE DEF t
<1>4. t \in Seq(Picture) /\ Len(t) = Len(s) /\ DOMAIN t = 1 .. Len(s)
  BY <1>1, <1>3, SeqIs
<1>. QED
  BY <1>1, <1>4 DEF t

\* The frames of two queues, one behind the other.
LEMMA FramesCat ==
  ASSUME NEW s \in Seq(Whole), NEW t \in Seq(Whole)
  PROVE  Frames(s \o t) = Frames(s) \o Frames(t)
<1> DEFINE st == s \o t
           l  == Frames(st)
           fs == Frames(s)
           ft == Frames(t)
           r  == fs \o ft
<1>1. /\ st \in Seq(Whole) /\ Len(s) \in Nat /\ Len(t) \in Nat
      /\ Len(st) = Len(s) + Len(t)
      /\ DOMAIN s = 1 .. Len(s) /\ DOMAIN t = 1 .. Len(t) /\ DOMAIN st = 1 .. Len(s) + Len(t)
      /\ \A i \in 1 .. Len(s) : st[i] = s[i]
      /\ \A i \in Len(s) + 1 .. Len(s) + Len(t) :
           i - Len(s) \in 1 .. Len(t) /\ st[i] = t[i - Len(s)]
  BY CatIs
<1> HIDE DEF st
<1>2. /\ l \in Seq(Picture) /\ fs \in Seq(Picture) /\ ft \in Seq(Picture)
      /\ Len(l) = Len(st) /\ Len(fs) = Len(s) /\ Len(ft) = Len(t)
  BY <1>1, FramesOK
<1>3. /\ \A i \in 1 .. Len(st) : l[i] = Frame(st[i])
      /\ \A i \in 1 .. Len(s) : fs[i] = Frame(s[i])
      /\ \A i \in 1 .. Len(t) : ft[i] = Frame(t[i])
  BY <1>1 DEF Frames
<1> HIDE DEF l, fs, ft
<1>4. /\ r \in Seq(Picture) /\ Len(r) = Len(fs) + Len(ft)
      /\ \A i \in 1 .. Len(fs) : r[i] = fs[i]
      /\ \A i \in Len(fs) + 1 .. Len(fs) + Len(ft) :
           i - Len(fs) \in 1 .. Len(ft) /\ r[i] = ft[i - Len(fs)]
  <2>1. fs \in Seq(Picture) /\ ft \in Seq(Picture)
    BY <1>2
  <2>. QED
    BY <2>1, CatIs, Zenon
<1> HIDE DEF r
<1>5. ASSUME NEW i \in 1 .. Len(l) PROVE l[i] = r[i]
  <2>1. CASE i \in 1 .. Len(s)
    BY <1>1, <1>2, <1>3, <1>4, <1>5, <2>1
  <2>2. CASE i \in Len(s) + 1 .. Len(s) + Len(t)
    BY <1>1, <1>2, <1>3, <1>4, <1>5, <2>2
  <2>. QED
    BY <1>1, <1>2, <2>1, <2>2
<1>6. Len(l) = Len(r)
  BY <1>1, <1>2, <1>4
<1>7. l = r
  BY <1>2, <1>4, <1>5, <1>6, SeqEqual
<1>. QED
  BY <1>7 DEF l, r, fs, ft, st

\* The queue entries of finished units.
LEMMA ItemsOK ==
  ASSUME NEW aus \in Seq(Building), \A i \in DOMAIN aus : aus[i].nals # <<>>
  PROVE  /\ Items(aus) \in Seq(Whole) /\ DOMAIN Items(aus) = DOMAIN aus
         /\ \A i \in DOMAIN aus : /\ Items(aus)[i] = au_item(aus[i])
                                  /\ Frames(Items(aus))[i].unit = UnitOf(aus[i])
<1>1. Len(aus) \in Nat /\ DOMAIN aus = 1 .. Len(aus)
  BY LenProperties
<1>2. \A i \in 1 .. Len(aus) : au_item(aus[i]) \in Whole
                               /\ Frame(au_item(aus[i])).unit = UnitOf(aus[i])
  BY <1>1, ElementOfSeq, ItemOK
<1> DEFINE t == Items(aus)
<1>3. t \in [1 .. Len(aus) -> Whole] /\ \A i \in DOMAIN aus : t[i] = au_item(aus[i])
  BY <1>1, <1>2 DEF Items
<1> HIDE DEF t
<1>4. t \in Seq(Whole) /\ DOMAIN t = 1 .. Len(aus)
  BY <1>1, <1>3, SeqIs
<1>5. \A i \in DOMAIN aus : Frames(t)[i].unit = UnitOf(aus[i])
  BY <1>1, <1>2, <1>3, <1>4 DEF Frames
<1>. QED
  BY <1>1, <1>3, <1>4, <1>5 DEF t

\* The units that were finished, in the queue that drops the oldest.
LEMMA PushAuOK ==
  ASSUME NEW q \in Seq(Whole), NEW aus \in Seq(Building),
         \A i \in DOMAIN aus : aus[i].nals # <<>>
  PROVE  LET r == push_au(q, aus) IN
         /\ r \in Seq(Whole) /\ Len(r) <= DepayDepth
         /\ Units1(Frames(r)) \subseteq Units1(Frames(q)) \cup Units1(Frames(Items(aus)))
         /\ Rise(Frames(q)) /\ Rise(Frames(Items(aus)))
              /\ Below(Units1(Frames(q)), Units1(Frames(Items(aus)))) => Rise(Frames(r))
         /\ \A i \in DOMAIN r : \/ \E j \in DOMAIN q : r[i] = q[j]
                                \/ \E j \in DOMAIN aus : r[i] = au_item(aus[j])
<1> DEFINE items == Items(aus)
           all   == q \o items
           over  == Len(all) - DepayDepth
           cut   == SubSeq(all, over + 1, Len(all))
           r     == IF over > 0 THEN cut ELSE all
           fq    == Frames(q)
           fi    == Frames(items)
           fa    == Frames(all)
<1>1. /\ items \in Seq(Whole) /\ DOMAIN items = DOMAIN aus
      /\ \A i \in DOMAIN aus : items[i] = au_item(aus[i])
  BY ItemsOK
<1>2. push_au(q, aus) = r
  BY DEF push_au, Items
<1> HIDE DEF items
<1>3. all \in Seq(Whole) /\ Len(all) \in Nat /\ DepayDepth \in Nat \ {0}
      /\ DOMAIN all = 1 .. Len(all)
  BY <1>1, CatIs, LenProperties, BoundsAre
<1>4. \A i \in DOMAIN all : \/ \E j \in DOMAIN q : all[i] = q[j]
                            \/ \E j \in DOMAIN items : all[i] = items[j]
  <2>1. \A i \in DOMAIN all : \/ i \in DOMAIN q /\ all[i] = q[i]
                              \/ i - Len(q) \in DOMAIN items /\ all[i] = items[i - Len(q)]
    BY <1>1, CatEach, Zenon
  <2> HIDE DEF all
  <2>. QED
    BY <2>1
<1>5. fa = fq \o fi /\ fq \in Seq(Picture) /\ fi \in Seq(Picture)
  BY <1>1, FramesCat, FramesOK
<1>6. fa \in Seq(Picture) /\ Len(fa) = Len(all) /\ DOMAIN fa = DOMAIN all
      /\ \A i \in DOMAIN all : fa[i] = Frame(all[i])
  <2> HIDE DEF all
  <2>1. \A i \in DOMAIN all : fa[i] = Frame(all[i])
    BY DEF Frames
  <2>. QED
    BY <1>3, <2>1, FramesOK
<1> HIDE DEF all, fa, fq, fi
<1>7. /\ Units1(fa) = Units1(fq) \cup Units1(fi)
      /\ Rise(fq) /\ Rise(fi) /\ Below(Units1(fq), Units1(fi)) => Rise(fa)
  <2>1. /\ Units1(fq \o fi) = Units1(fq) \cup Units1(fi)
        /\ Rise(fq) /\ Rise(fi) /\ Below(Units1(fq), Units1(fi)) => Rise(fq \o fi)
    BY <1>5, CatRises, Zenon
  <2>. QED
    BY <1>5, <2>1, Zenon
<1>8. PICK c \in Nat : c <= Len(all) /\ r \in Seq(Whole) /\ Len(r) <= DepayDepth
                       /\ Without(r, all, c)
  <2>1. CASE over > 0
    <3>1. over \in Nat /\ over <= Len(all) /\ Len(all) - over = DepayDepth
      BY <1>3, <2>1
    <3> HIDE DEF over
    <3>2. cut \in Seq(Whole) /\ Without(cut, all, over)
      BY <1>3, <3>1, RestIs
    <3> HIDE DEF cut
    <3>3. r = cut /\ Len(cut) = DepayDepth
      BY <1>3, <2>1, <3>1, <3>2 DEF Without
    <3>. QED
      BY <1>3, <3>1, <3>2, <3>3
  <2>2. CASE ~(over > 0)
    <3>1. r = all /\ Len(all) <= DepayDepth /\ 0 \in Nat
      BY <1>3, <2>2
    <3>2. Without(all, all, 0)
      BY <1>3 DEF Without
    <3> HIDE DEF r
    <3>. QED
      BY <1>3, <3>1, <3>2
  <2>. QED
    BY <2>1, <2>2
<1> HIDE DEF r
<1>9. \A i \in DOMAIN r : c + i \in DOMAIN all /\ r[i] = all[c + i]
  BY <1>3, <1>8 DEF Without
<1>10. Without(Frames(r), fa, c)
  <2>1. DOMAIN r = 1 .. Len(all) - c /\ Len(r) = Len(all) - c
    BY <1>8 DEF Without
  <2>2. Len(Frames(r)) = Len(r) /\ DOMAIN Frames(r) = DOMAIN r
    BY <1>8, FramesOK
  <2>3. \A i \in DOMAIN r : c + i \in 1 .. Len(all) /\ Frames(r)[i] = fa[c + i]
    BY <1>3, <1>6, <1>9 DEF Frames
  <2>. QED
    BY <1>6, <2>1, <2>2, <2>3 DEF Without
<1>11. Units1(Frames(r)) \subseteq Units1(fa) /\ (Rise(fa) => Rise(Frames(r)))
  BY <1>6, <1>8, <1>10, RestRises
<1>12. Units1(Frames(r)) \subseteq Units1(fq) \cup Units1(fi)
       /\ (Rise(fq) /\ Rise(fi) /\ Below(Units1(fq), Units1(fi)) => Rise(Frames(r)))
  BY <1>7, <1>11, Zenon
<1>13. \A i \in DOMAIN r : \/ \E j \in DOMAIN q : r[i] = q[j]
                           \/ \E j \in DOMAIN aus : r[i] = au_item(aus[j])
  BY <1>1, <1>4, <1>9
<1>14. Rise(Frames(q)) /\ Rise(Frames(Items(aus)))
         /\ Below(Units1(Frames(q)), Units1(Frames(Items(aus)))) => Rise(Frames(r))
  BY <1>12, Zenon DEF fq, fi, items
<1>15. Units1(Frames(r)) \subseteq Units1(Frames(q)) \cup Units1(Frames(Items(aus)))
  BY <1>12, Zenon DEF fq, fi, items
<1>. QED
  BY <1>2, <1>8, <1>13, <1>14, <1>15, Zenon

(********************************** Types **********************************)

\* The types, part by part.
SenderT ==
  /\ coder \in [unit : 0 .. MaxUnits, pts : Nat] /\ packer \in Packer /\ packers \in Nat
  /\ pending \in Seq(Datagram) /\ Len(pending) <= PendingCap
LinkT == payload_queue \in Seq(Datagram) /\ Len(payload_queue) <= QueueDepth
NetT ==
  /\ depay \in [rtp : Depack, au_queue : Seq(Whole)]
  /\ depay.rtp.completed = <<>> /\ Len(depay.au_queue) <= DepayDepth
QueueT == au_q \in Seq(Picture) /\ Len(au_q) <= AuDepth
ShowT ==
  present_q \in Seq(Picture) /\ Len(present_q) <= PresentDepth /\ shown \in Picture

\* An access unit is held only while it is fed, and frames only while they are
\* pushed.
DecodeT ==
  /\ decode \in [pc : {"take", "feed", "pull", "push", "done"},
                 holding : Seq(Picture), pulled : Seq(Picture)]
  /\ decode.pc = "feed" => decode.holding # <<>>
  /\ decode.pc = "take" => decode.holding = <<>>
  /\ decode.pc = "push" <=> decode.pulled # <<>>

\* The inductive invariant of the types.
TypeInv == SenderT /\ LinkT /\ NetT /\ QueueT /\ ShowT /\ DecodeT /\ DecOK(dec)

\* A new decoder.
LEMMA NewDecoderOK == DecOK(NewDecoder)
<1>1. 0 \in 0 .. RingSize - 1 /\ MaxReady \in Nat
  BY BoundsAre
<1>2. [pts |-> 0, capture |-> 0] \in Entry
  BY DEF Entry
<1>3. [i \in 0 .. RingSize - 1 |-> [pts |-> 0, capture |-> 0]] \in [0 .. RingSize - 1 -> Entry]
  BY <1>2
<1>4. <<>> \in Seq(Packet) /\ <<>> \in Seq(Decoded) /\ <<>> \in Seq(Picture) /\ Len(<<>>) = 0
  BY EmptySeq
<1>. QED
  BY <1>1, <1>3, <1>4 DEF NewDecoder, DecOK, Decoder

\* A new depacketizer.
LEMMA NewDepackOK == rtp_h264_depacketizer \in Depack /\ rtp_h264_depacketizer.completed = <<>>
<1>1. <<>> \in Seq(Piece) /\ <<>> \in Seq(Building) /\ 0 \in 0 .. SeqRange - 1
  BY EmptySeq, BoundsAre
<1>. QED
  BY <1>1, NoAuOK DEF rtp_h264_depacketizer, Depack

\* A new packer.
LEMMA NewPackerOK == ASSUME NEW seq \in Seqs PROVE rtp_h264_packer(seq) \in Packer
<1>1. <<>> \in Seq(NalUnit) /\ seq \in 0 .. SeqRange - 1
  BY EmptySeq, BoundsAre
<1>. QED
  BY <1>1 DEF rtp_h264_packer, Packer

\* At first everything has its type.
LEMMA TypeInit == Init => TypeInv
<1> SUFFICES ASSUME Init PROVE TypeInv
  OBVIOUS
<1>1. /\ <<>> \in Seq(Datagram) /\ <<>> \in Seq(Whole) /\ <<>> \in Seq(Picture)
      /\ Len(<<>>) = 0
  BY EmptySeq
<1>2. packer \in Packer
  BY NewPackerOK DEF Init
<1>3. NoFrame \in Picture
  BY DEF NoFrame, Picture
<1>4. SenderT
  BY <1>1, <1>2, BoundsAre DEF Init, SenderT
<1>5. LinkT /\ QueueT /\ ShowT
  BY <1>1, <1>3, BoundsAre DEF Init, LinkT, QueueT, ShowT
<1>6. NetT
  BY <1>1, NewDepackOK, BoundsAre DEF Init, NetT
<1>7. DecodeT
  BY <1>1 DEF Init, DecodeT
<1>8. DecOK(dec)
  BY NewDecoderOK DEF Init
<1>. QED
  BY <1>4, <1>5, <1>6, <1>7, <1>8 DEF TypeInv

\* The payloader keeps the types.
LEMMA TypePay ==
  ASSUME TypeInv, PayInput
  PROVE  SenderT'
<1>1. /\ coder \in [unit : 0 .. MaxUnits, pts : Nat] /\ packer \in Packer /\ packers \in Nat
      /\ pending \in Seq(Datagram)
  BY DEF TypeInv, SenderT
<1> DEFINE unit == coder.unit + 1
<1>2. PICK nals \in Coded(unit, coder.pts) :
        LET packed == pack_annexb(packer, nals, coder.pts, unit)
            all    == pending \o packed.datagrams
            over   == Len(all) - PendingCap
        IN  /\ packer' = packed.packer
            /\ pending' = IF over > 0 THEN SubSeq(all, over + 1, Len(all)) ELSE all
  BY DEF PayInput
<1> DEFINE packed == pack_annexb(packer, nals, coder.pts, unit)
           all    == pending \o packed.datagrams
           over   == Len(all) - PendingCap
<1>3. unit \in 0 .. MaxUnits /\ coder.pts \in Nat /\ packers' = packers
      /\ coder' = [unit |-> unit, pts |-> coder.pts + 1]
  BY <1>1, BoundsAre DEF PayInput
<1> HIDE DEF unit
<1>4. packed.packer \in Packer /\ packed.datagrams \in Seq(Datagram)
  <2>1. packer \in Packer /\ unit \in Nat /\ coder.pts \in Nat
    BY <1>1, <1>3, BoundsAre
  <2>2. packed.packer \in Packer /\ PackOf(packed.datagrams, unit, coder.pts)
    BY <2>1, PackOK
  <2> HIDE DEF packed
  <2>. QED
    BY <2>2 DEF PackOf
<1>5. packer' = packed.packer
      /\ pending' = IF over > 0 THEN SubSeq(all, over + 1, Len(all)) ELSE all
  BY <1>2
<1> HIDE DEF packed
<1>6. all \in Seq(Datagram) /\ Len(all) \in Nat /\ PendingCap \in Nat
  BY <1>1, <1>4, CatIs, LenProperties, BoundsAre
<1> HIDE DEF all
<1>7. pending' \in Seq(Datagram) /\ Len(pending') <= PendingCap
  <2>1. CASE over > 0
    <3>1. over \in Nat /\ over <= Len(all) /\ Len(all) - over = PendingCap
      BY <1>6, <2>1
    <3>2. pending' = SubSeq(all, over + 1, Len(all))
      BY <1>5, <2>1
    <3> HIDE DEF over
    <3>3. pending' \in Seq(Datagram) /\ Without(pending', all, over)
      BY <1>6, <3>1, <3>2, RestIs
    <3>. QED
      BY <1>6, <3>1, <3>3 DEF Without
  <2>2. CASE ~(over > 0)
    BY <1>5, <1>6, <2>2
  <2>. QED
    BY <2>1, <2>2
<1>. QED
  BY <1>1, <1>3, <1>4, <1>5, <1>7 DEF SenderT

\* So do the other steps on the sender and the link.
LEMMA TypeSender ==
  ASSUME TypeInv, Sender
  PROVE  TypeInv'
<1>0. SenderT /\ LinkT
  BY DEF TypeInv
<1>1. CASE PayInput
  <2>1. SenderT'
    BY <1>1, TypePay
  <2>2. UNCHANGED <<payload_queue, depay, au_q, present_q, dec, decode, shown>>
    BY <1>1 DEF PayInput, stages, screen
  <2>. QED
    BY <2>1, <2>2 DEF TypeInv, LinkT, NetT, QueueT, ShowT, DecodeT
<1>2. CASE Configure \/ Restart
  <2>1. UNCHANGED <<payload_queue, depay, au_q, present_q, dec, decode, shown>>
    BY <1>2 DEF Configure, Restart, NewPacker, stages, screen
  <2>2. PICK seq \in Seqs : packer' = rtp_h264_packer(seq) /\ packers' = packers + 1
    BY <1>2 DEF Configure, Restart, NewPacker
  <2>3. packer' \in Packer /\ packers' \in Nat
    BY <1>0, <2>2, NewPackerOK DEF SenderT
  <2>4. /\ coder' \in [unit : 0 .. MaxUnits, pts : Nat]
        /\ pending' \in Seq(Datagram) /\ Len(pending') <= PendingCap
    <3>1. CASE Configure
      BY <1>0, <3>1 DEF Configure, SenderT
    <3>2. CASE Restart
      <4>1. coder' = [coder EXCEPT !.pts = 0] /\ pending' = <<>>
        BY <3>2 DEF Restart
      <4>2. <<>> \in Seq(Datagram) /\ Len(<<>>) = 0 /\ PendingCap \in Nat
        BY EmptySeq, BoundsAre
      <4>. QED
        BY <1>0, <4>1, <4>2 DEF SenderT
    <3>. QED
      BY <1>2, <3>1, <3>2
  <2>5. SenderT'
    BY <2>3, <2>4 DEF SenderT
  <2>. QED
    BY <2>1, <2>5 DEF TypeInv, LinkT, NetT, QueueT, ShowT, DecodeT
<1>3. CASE Deliver \/ Lose
  <2>1. UNCHANGED <<coder, packer, packers, depay, au_q, present_q, dec, decode, shown>>
    BY <1>3 DEF Deliver, Lose, stages, screen
  <2>2. pending # <<>> /\ pending' = Tail(pending)
    BY <1>3 DEF Deliver, Lose
  <2>3. pending \in Seq(Datagram) /\ Len(pending) <= PendingCap /\ PendingCap \in Nat
    BY <1>0, BoundsAre DEF SenderT
  <2>4. /\ Len(pending) \in Nat /\ Tail(pending) \in Seq(Datagram)
        /\ Len(Tail(pending)) = Len(pending) - 1 /\ Head(pending) \in Datagram
    BY <2>2, <2>3, TailIs
  <2>5. SenderT'
    BY <1>0, <2>1, <2>2, <2>3, <2>4 DEF SenderT
  <2>6. LinkT'
    <3>1. CASE Deliver
      <4>1. payload_queue' = push_drop(payload_queue, QueueDepth, Head(pending))
        BY <3>1 DEF Deliver, enqueue_payload_buffer
      <4>2. payload_queue \in Seq(Datagram) /\ Len(payload_queue) <= QueueDepth
        BY <1>0 DEF LinkT
      <4>. QED
        BY <2>4, <4>1, <4>2, PushRises, BoundsAre DEF LinkT
    <3>2. CASE Lose
      BY <1>0, <3>2 DEF Lose, LinkT
    <3>. QED
      BY <1>3, <3>1, <3>2
  <2>. QED
    BY <2>1, <2>5, <2>6 DEF TypeInv, NetT, QueueT, ShowT, DecodeT
<1>. QED
  BY <1>1, <1>2, <1>3 DEF Sender

\* The units a datagram finishes.
LEMMA OutgoingOK ==
  ASSUME NEW b \in Building, NEW g, NEW e \in Building
  PROVE  /\ Outgoing(b, g, e) \in Seq(Building)
         /\ \A i \in DOMAIN Outgoing(b, g, e) : Outgoing(b, g, e)[i].nals # <<>>
<1>1. ASSUME NEW x \in Building, NEW p \in BOOLEAN
      PROVE  /\ (IF p /\ x.nals # <<>> THEN <<x>> ELSE <<>>) \in Seq(Building)
             /\ \A i \in DOMAIN (IF p /\ x.nals # <<>> THEN <<x>> ELSE <<>>) :
                  (IF p /\ x.nals # <<>> THEN <<x>> ELSE <<>>)[i].nals # <<>>
  <2>1. CASE p /\ x.nals # <<>>
    <3>1. <<x>> \in Seq(Building) /\ DOMAIN <<x>> = {1} /\ <<x>>[1] = x
      OBVIOUS
    <3>. QED
      BY <2>1, <3>1
  <2>2. CASE ~(p /\ x.nals # <<>>)
    <3>1. <<>> \in Seq(Building) /\ DOMAIN <<>> = {}
      BY EmptySeq
    <3>. QED
      BY <2>2, <3>1
  <2>. QED
    BY <2>1, <2>2
<1> DEFINE s == IF Ended(b, g) /\ b.nals # <<>> THEN <<b>> ELSE <<>>
           t == IF g.marker /\ e.nals # <<>> THEN <<e>> ELSE <<>>
<1>2. s \in Seq(Building) /\ (\A i \in DOMAIN s : s[i].nals # <<>>)
  <2>1. CASE Ended(b, g)
    BY <1>1, <2>1
  <2>2. CASE ~Ended(b, g)
    <3>1. <<>> \in Seq(Building) /\ DOMAIN <<>> = {}
      BY EmptySeq
    <3>. QED
      BY <2>2, <3>1
  <2>. QED
    BY <2>1, <2>2
<1>3. t \in Seq(Building) /\ (\A i \in DOMAIN t : t[i].nals # <<>>)
  <2>1. CASE g.marker
    BY <1>1, <2>1
  <2>2. CASE ~g.marker
    <3>1. <<>> \in Seq(Building) /\ DOMAIN <<>> = {}
      BY EmptySeq
    <3>. QED
      BY <2>2, <3>1
  <2>. QED
    BY <2>1, <2>2
<1>4. Outgoing(b, g, e) = s \o t
  BY DEF Outgoing
<1> HIDE DEF s, t
<1> DEFINE o == s \o t
<1>5. o \in Seq(Building)
  BY <1>2, <1>3, CatIs
<1>6. \A i \in DOMAIN o : \/ i \in DOMAIN s /\ o[i] = s[i]
                          \/ i - Len(s) \in DOMAIN t /\ o[i] = t[i - Len(s)]
  BY <1>2, <1>3, CatEach, Zenon
<1> HIDE DEF o
<1>7. \A i \in DOMAIN o : o[i].nals # <<>>
  BY <1>2, <1>3, <1>6
<1>8. Outgoing(b, g, e) = o
  BY <1>4 DEF o
<1>. QED
  BY <1>5, <1>7, <1>8, Zenon

\* The units a datagram finishes have NAL units.
LEMMA FedCompleted ==
  ASSUME NEW d \in Depack, d.completed = <<>>, NEW g \in Datagram
  PROVE  /\ feed(d, g) \in Depack /\ feed(d, g).completed \in Seq(Building)
         /\ \A i \in DOMAIN feed(d, g).completed : feed(d, g).completed[i].nals # <<>>
<1> DEFINE r == feed(d, g)
<1>1. r \in Depack /\ (r = d \/ \E e \in Building : Fed(d, g, r, e))
  BY FeedOK
<1> HIDE DEF r
<1>2. ASSUME r = d PROVE \A i \in DOMAIN r.completed : r.completed[i].nals # <<>>
  <2>1. r.completed = <<>> /\ DOMAIN <<>> = {}
    BY <1>2
  <2>. QED
    BY <2>1
<1>3. ASSUME NEW e \in Building, Fed(d, g, r, e)
      PROVE  \A i \in DOMAIN r.completed : r.completed[i].nals # <<>>
  <2>1. r.completed = Outgoing(d.building, g, e) /\ d.building \in Building
    BY <1>3 DEF Fed, Depack
  <2>. QED
    BY <2>1, OutgoingOK
<1>4. r.completed \in Seq(Building)
  BY <1>1 DEF Depack
<1>. QED
  BY <1>1, <1>2, <1>3, <1>4 DEF r

\* The network thread takes a datagram.
LEMMA TypeReceive ==
  ASSUME TypeInv, NetReceive
  PROVE  TypeInv'
<1> DEFINE g == Head(payload_queue)
           r == feed(depay.rtp, g)
           q == push_au(depay.au_queue, r.completed)
<1>1. /\ payload_queue # <<>> /\ payload_queue' = Tail(payload_queue)
      /\ depay' = [rtp |-> [r EXCEPT !.completed = <<>>], au_queue |-> q]
      /\ UNCHANGED <<coder, packer, packers, pending, au_q, present_q, dec, decode, shown>>
  BY DEF NetReceive, MayReceive, sender, screen
<1>2. /\ payload_queue \in Seq(Datagram) /\ Len(payload_queue) <= QueueDepth
      /\ QueueDepth \in Nat
  BY BoundsAre DEF TypeInv, LinkT
<1>3. /\ Len(payload_queue) \in Nat /\ g \in Datagram /\ Tail(payload_queue) \in Seq(Datagram)
      /\ Len(Tail(payload_queue)) = Len(payload_queue) - 1
  BY <1>1, <1>2, TailIs
<1>4. depay.rtp \in Depack /\ depay.rtp.completed = <<>> /\ depay.au_queue \in Seq(Whole)
  BY DEF TypeInv, NetT
<1> HIDE DEF g
<1>5. r \in Depack /\ r.completed \in Seq(Building)
      /\ \A i \in DOMAIN r.completed : r.completed[i].nals # <<>>
  BY <1>3, <1>4, FedCompleted
<1> HIDE DEF r
<1>6. q \in Seq(Whole) /\ Len(q) <= DepayDepth
  <2> DEFINE c == r.completed
  <2>1. c \in Seq(Building) /\ \A i \in DOMAIN c : c[i].nals # <<>>
    BY <1>5
  <2>2. q = push_au(depay.au_queue, c)
    OBVIOUS
  <2> HIDE DEF c, q
  <2>. QED
    BY <1>4, <2>1, <2>2, PushAuOK
<1> HIDE DEF q
<1>7. NetT'
  <2>1. <<>> \in Seq(Building)
    BY EmptySeq
  <2>2. [r EXCEPT !.completed = <<>>] \in Depack
        /\ [r EXCEPT !.completed = <<>>].completed = <<>>
    BY <1>5, <2>1 DEF Depack
  <2>. QED
    BY <1>1, <1>6, <2>2 DEF NetT
<1>8. LinkT'
  BY <1>1, <1>2, <1>3 DEF LinkT
<1>. QED
  BY <1>1, <1>7, <1>8 DEF TypeInv, SenderT, QueueT, ShowT, DecodeT

\* Its other steps.
LEMMA TypeNet ==
  ASSUME TypeInv, Net
  PROVE  TypeInv'
<1>1. CASE NetReceive
  BY <1>1, TypeReceive
<1>2. CASE NetForward
  <2>0. /\ depay \in [rtp : Depack, au_queue : Seq(Whole)] /\ depay.rtp.completed = <<>>
        /\ Len(depay.au_queue) <= DepayDepth
        /\ au_q \in Seq(Picture) /\ Len(au_q) <= AuDepth
        /\ DepayDepth \in Nat /\ AuDepth \in Nat \ {0}
    BY BoundsAre DEF TypeInv, NetT, QueueT
  <2>1. UNCHANGED <<coder, packer, packers, pending, payload_queue, present_q, dec, decode,
                    shown>>
    BY <1>2 DEF NetForward, sender, screen
  <2>2. NetT' /\ QueueT'
    <3>1. CASE g_run /\ depay.au_queue # <<>>
      <4> DEFINE x == Frame(Head(depay.au_queue))
                 t == Tail(depay.au_queue)
      <4>1. au_q' = push_drop(au_q, AuDepth, x) /\ depay' = [depay EXCEPT !.au_queue = t]
        BY <1>2, <3>1 DEF NetForward, push_rx_au
      <4>2. Head(depay.au_queue) \in Whole /\ t \in Seq(Whole) /\ Len(t) = Len(depay.au_queue) - 1
            /\ Len(depay.au_queue) \in Nat
        BY <2>0, <3>1, TailIs
      <4>3. x \in Picture
        BY <4>2, FrameOK
      <4> HIDE DEF x, t
      <4>4. QueueT'
        BY <2>0, <4>1, <4>3, PushRises DEF QueueT
      <4>5. NetT'
        BY <2>0, <4>1, <4>2 DEF NetT
      <4>. QED
        BY <4>4, <4>5
    <3>2. CASE ~(g_run /\ depay.au_queue # <<>>)
      BY <1>2, <2>0, <3>2 DEF NetForward, NetT, QueueT
    <3>. QED
      BY <3>1, <3>2
  <2>. QED
    BY <2>1, <2>2 DEF TypeInv, SenderT, LinkT, ShowT, DecodeT
<1>3. CASE NetLeave
  BY <1>3 DEF NetLeave, sender, screen, TypeInv, SenderT, LinkT, NetT, QueueT, ShowT, DecodeT
<1>. QED
  BY <1>1, <1>2, <1>3 DEF Net

\* The decode thread after a pull or a push that left the frames f.
LEMMA DecodeAgain ==
  ASSUME DecodeT, NEW f \in Seq(Picture),
         decode' = [decode EXCEPT !.pulled = f,
                                  !.pc = IF f = <<>> THEN Resume(decode.holding) ELSE "push"]
  PROVE  DecodeT'
<1>1. Resume(decode.holding) \in {"take", "feed"}
      /\ (Resume(decode.holding) = "feed" <=> decode.holding # <<>>)
  BY DEF Resume
<1> DEFINE pc == IF f = <<>> THEN Resume(decode.holding) ELSE "push"
<1>2. pc \in {"take", "feed", "push"} /\ (pc = "push" <=> f # <<>>)
      /\ (pc = "feed" => decode.holding # <<>>) /\ (pc = "take" => decode.holding = <<>>)
  BY <1>1
<1> HIDE DEF pc
<1>3. decode' = [decode EXCEPT !.pulled = f, !.pc = pc]
  BY DEF pc
<1>. QED
  BY <1>2, <1>3 DEF DecodeT

\* The decode thread feeds an access unit.
LEMMA TypeFeed ==
  ASSUME TypeInv, DecodeFeed
  PROVE  DecodeT' /\ DecOK(dec)'
<1>1. decode.pc = "feed" /\ DecodeT /\ DecOK(dec)
  BY DEF TypeInv, DecodeFeed, MayFeed
<1>2. PICK in \in dec_input(dec, decode.holding[1]) :
        /\ dec' = in.d
        /\ decode' = [decode EXCEPT !.pc = IF in.r = "EIO" THEN "take" ELSE "pull",
                                    !.holding = IF in.r = "EAGAIN" THEN @ ELSE <<>>]
  BY DEF DecodeFeed
<1>3. decode.holding[1] \in Picture
  BY <1>1, TailIs DEF DecodeT
<1>4. DecOK(in.d) /\ in.r \in {"ok", "EIO", "EAGAIN"}
  BY <1>1, <1>3, InputOK DEF FedDec
<1>5. <<>> \in Seq(Picture)
  BY EmptySeq
<1>6. DecodeT'
  BY <1>1, <1>2, <1>4, <1>5 DEF DecodeT
<1>. QED
  BY <1>2, <1>4, <1>6

\* It pulls frames.
LEMMA TypePull ==
  ASSUME TypeInv, DecodePull
  PROVE  DecodeT' /\ DecOK(dec)'
<1> DEFINE p == pull_decoder_frames(dec)
<1>1. dec' = p.d /\ decode' = [decode EXCEPT
            !.pulled = p.frames,
            !.pc = IF p.frames = <<>> THEN Resume(decode.holding) ELSE "push"]
  BY DEF DecodePull
<1>2. DecodeT /\ DecOK(dec)
  BY DEF TypeInv
<1>3. Moved(dec, p.frames, p.d)
  BY <1>2, PullIs
<1> HIDE DEF p
<1>4. p.frames \in Seq(Picture) /\ DecOK(p.d)
  BY <1>3 DEF Moved
<1>. QED
  BY <1>1, <1>2, <1>4, DecodeAgain

\* What a push leaves to push.
LEMMA PushPulled ==
  ASSUME DecodeT, DecodePush
  PROVE  /\ decode.pulled \in Seq(Picture) /\ decode.pulled # <<>>
         /\ Tail(decode.pulled) \in Seq(Picture)
         /\ decode' = [decode EXCEPT
              !.pulled = Tail(decode.pulled),
              !.pc = IF Tail(decode.pulled) = <<>> THEN Resume(decode.holding) ELSE "push"]
<1>1. decode.pc = "push" /\ decode.pulled \in Seq(Picture) /\ decode.pulled # <<>>
  BY DEF DecodeT, DecodePush, MayPush
<1>2. Tail(decode.pulled) \in Seq(Picture) /\ Len(decode.pulled) \in Nat
      /\ Len(Tail(decode.pulled)) = Len(decode.pulled) - 1
  BY <1>1, TailIs
<1>3. (Tail(decode.pulled) = <<>>) <=> (Len(decode.pulled) = 1)
  <2>1. (Tail(decode.pulled) = <<>>) <=> (Len(Tail(decode.pulled)) = 0)
    BY <1>2, EmptySeq, Zenon
  <2>2. (Len(Tail(decode.pulled)) = 0) <=> (Len(decode.pulled) = 1)
    BY <1>2
  <2>. QED
    BY <2>1, <2>2, Zenon
<1>4. decode' = [decode EXCEPT !.pulled = Tail(@),
                   !.pc = IF Len(decode.pulled) = 1 THEN Resume(decode.holding) ELSE @]
  BY DEF DecodePush
<1>5. decode' = [decode EXCEPT !.pulled = Tail(decode.pulled),
                   !.pc = IF Len(decode.pulled) = 1 THEN Resume(decode.holding) ELSE "push"]
  BY <1>1, <1>4 DEF DecodeT
<1> DEFINE t == Tail(decode.pulled)
<1>6. /\ t \in Seq(Picture)
      /\ (t = <<>>) <=> (Len(decode.pulled) = 1)
      /\ decode' = [decode EXCEPT !.pulled = t,
                      !.pc = IF Len(decode.pulled) = 1 THEN Resume(decode.holding) ELSE "push"]
  BY <1>2, <1>3, <1>5, Zenon
<1> HIDE DEF t
<1>7. decode' = [decode EXCEPT !.pulled = t,
                   !.pc = IF t = <<>> THEN Resume(decode.holding) ELSE "push"]
  BY <1>6
<1>. QED
  BY <1>1, <1>6, <1>7, Zenon DEF t

\* Its other steps.
LEMMA TypeDecode ==
  ASSUME TypeInv, Decode
  PROVE  TypeInv'
<1>0. SenderT /\ LinkT /\ NetT /\ QueueT /\ ShowT /\ DecodeT /\ DecOK(dec)
  BY DEF TypeInv
<1>1. CASE DecodeTake
  <2>1. UNCHANGED <<coder, packer, packers, pending, payload_queue, depay, present_q, dec,
                    shown>>
    BY <1>1 DEF DecodeTake, sender, screen
  <2>2. /\ decode.pc = "take" /\ au_q # <<>> /\ au_q' = Tail(au_q)
        /\ decode' = [decode EXCEPT !.pc = "feed", !.holding = <<Head(au_q)>>]
    BY <1>1 DEF DecodeTake, MayTake
  <2>3. /\ au_q \in Seq(Picture) /\ Len(au_q) <= AuDepth /\ Len(au_q) \in Nat
        /\ AuDepth \in Nat /\ Head(au_q) \in Picture /\ Tail(au_q) \in Seq(Picture)
        /\ Len(Tail(au_q)) = Len(au_q) - 1
    BY <1>0, <2>2, TailIs, BoundsAre DEF QueueT
  <2>4. QueueT'
    BY <2>2, <2>3 DEF QueueT
  <2>5. DecodeT'
    <3> DEFINE x == Head(au_q)
    <3> HIDE DEF x
    <3>1. <<x>> \in Seq(Picture) /\ <<x>> # <<>>
      BY <2>3 DEF x
    <3>2. decode' = [decode EXCEPT !.pc = "feed", !.holding = <<x>>]
      BY <2>2 DEF x
    <3>. QED
      BY <1>0, <2>2, <3>1, <3>2 DEF DecodeT
  <2>. QED
    BY <2>1, <2>4, <2>5 DEF TypeInv, SenderT, LinkT, NetT, ShowT
<1>2. CASE DecodeFeed
  <2>1. UNCHANGED <<coder, packer, packers, pending, payload_queue, depay, au_q, present_q,
                    shown>>
    BY <1>2 DEF DecodeFeed, sender, screen
  <2>. QED
    BY <1>2, <2>1, TypeFeed DEF TypeInv, SenderT, LinkT, NetT, QueueT, ShowT
<1>3. CASE DecodePull
  <2>1. UNCHANGED <<coder, packer, packers, pending, payload_queue, depay, au_q, present_q,
                    shown>>
    BY <1>3 DEF DecodePull, sender, screen
  <2>. QED
    BY <1>3, <2>1, TypePull DEF TypeInv, SenderT, LinkT, NetT, QueueT, ShowT
<1>4. CASE DecodePush
  <2>1. UNCHANGED <<coder, packer, packers, pending, payload_queue, depay, au_q, dec, shown>>
    BY <1>4 DEF DecodePush, sender, screen
  <2>2. /\ decode.pulled \in Seq(Picture) /\ decode.pulled # <<>>
        /\ Tail(decode.pulled) \in Seq(Picture)
        /\ decode' = [decode EXCEPT
             !.pulled = Tail(decode.pulled),
             !.pc = IF Tail(decode.pulled) = <<>> THEN Resume(decode.holding) ELSE "push"]
    BY <1>0, <1>4, PushPulled
  <2>3. DecodeT'
    BY <1>0, <2>2, DecodeAgain
  <2>4. Head(decode.pulled) \in Picture
    BY <2>2, TailIs
  <2>5. present_q' \in {present_q, push_drop(present_q, PresentDepth, Head(decode.pulled))}
    BY <1>4 DEF DecodePush
  <2>6. ShowT'
    <3> DEFINE x == Head(decode.pulled)
               q == push_drop(present_q, PresentDepth, x)
    <3> HIDE DEF x
    <3>1. present_q \in Seq(Picture) /\ Len(present_q) <= PresentDepth /\ x \in Picture
      BY <1>0, <2>4 DEF ShowT, x
    <3>2. q \in Seq(Picture) /\ Len(q) <= PresentDepth
      BY <3>1, PushRises, BoundsAre
    <3>3. present_q' \in {present_q, q}
      BY <2>5 DEF x
    <3> HIDE DEF q
    <3>. QED
      BY <1>0, <2>1, <3>1, <3>2, <3>3 DEF ShowT
  <2>. QED
    BY <2>1, <2>3, <2>6 DEF TypeInv, SenderT, LinkT, NetT, QueueT
<1>5. CASE DecodeLeave
  <2>1. UNCHANGED <<coder, packer, packers, pending, payload_queue, depay, au_q, present_q,
                    shown>>
    BY <1>5 DEF DecodeLeave, sender, screen
  <2>2. /\ decode.pc \in {"take", "feed"}
        /\ decode' = [decode EXCEPT !.pc = "done", !.holding = <<>>]
        /\ dec' = pull_decoder_frames(dec).d
    BY <1>5 DEF DecodeLeave, MayLeave
  <2>3. DecOK(dec)'
    BY <1>0, <2>2, PullIs DEF Moved
  <2>4. <<>> \in Seq(Picture)
    BY EmptySeq
  <2>5. DecodeT'
    BY <1>0, <2>2, <2>4 DEF DecodeT
  <2>. QED
    BY <2>1, <2>3, <2>5 DEF TypeInv, SenderT, LinkT, NetT, QueueT, ShowT
<1>. QED
  BY <1>1, <1>2, <1>3, <1>4, <1>5 DEF Decode

\* MPP decodes a packet.
LEMMA TypeMpp ==
  ASSUME TypeInv, MppDecode
  PROVE  TypeInv'
<1>1. UNCHANGED <<coder, packer, packers, pending, payload_queue, depay, au_q, present_q,
                  decode, shown>>
  BY DEF MppDecode, sender, stages, screen
<1>2. PICK good \in BOOLEAN :
        dec' = [dec EXCEPT !.in = Tail(@),
                           !.out = Append(@, [unit |-> Head(dec.in).unit,
                                              pts |-> Head(dec.in).pts, good |-> good])]
  BY DEF MppDecode
<1>3. dec.in # <<>> /\ DecOK(dec)
  BY DEF MppDecode, TypeInv
<1> DEFINE f   == [unit |-> Head(dec.in).unit, pts |-> Head(dec.in).pts, good |-> good]
           in  == Tail(dec.in)
           out == Append(dec.out, f)
<1>4. dec.in \in Seq(Packet) /\ dec.out \in Seq(Decoded)
  BY <1>3, DecParts
<1>5. Head(dec.in) \in Packet /\ in \in Seq(Packet)
  BY <1>3, <1>4, TailIs
<1>6. f \in Decoded
  BY <1>5 DEF Packet, Decoded
<1>7. dec' = [dec EXCEPT !.in = in, !.out = out]
  BY <1>2, <1>3 DEF DecOK, Decoder
<1> HIDE DEF f
<1>8. out \in Seq(Decoded)
  BY <1>4, <1>6, AppendIs
<1> HIDE DEF in, out
<1>9. DecOK(dec)'
  BY <1>3, <1>5, <1>7, <1>8 DEF DecOK, Decoder
<1>. QED
  BY <1>1, <1>9 DEF TypeInv, SenderT, LinkT, NetT, QueueT, ShowT, DecodeT

\* What is on the screen after a frame is one that was, or the frame.
LEMMA Presented ==
  ASSUME ShowT, Present
  PROVE  /\ present_q # <<>> /\ present_q' = Tail(present_q)
         /\ shown' \in {shown, Head(present_q)}
         /\ UNCHANGED <<coder, packer, packers, pending, payload_queue, depay, au_q, dec,
                        decode>>
<1>1. PICK s \in sink_input(Head(present_q)) : shown' = s[2]
  BY DEF Present
<1>2. s[2] \in {shown, Head(present_q)}
  BY DEF sink_input, present_nv12, ensure_video_fails, screen
<1>. QED
  BY <1>1, <1>2 DEF Present, MayPresent, sender, stages

\* The present thread, the stop and the close.
LEMMA TypeRest ==
  ASSUME TypeInv, Display \/ request_stop \/ Close
  PROVE  TypeInv'
<1>0. SenderT /\ LinkT /\ NetT /\ QueueT /\ ShowT /\ DecodeT /\ DecOK(dec)
  BY DEF TypeInv
<1>1. CASE Present
  <2>1. /\ present_q # <<>> /\ present_q' = Tail(present_q)
        /\ shown' \in {shown, Head(present_q)}
        /\ UNCHANGED <<coder, packer, packers, pending, payload_queue, depay, au_q, dec,
                       decode>>
    BY <1>0, <1>1, Presented
  <2>2. /\ present_q \in Seq(Picture) /\ Len(present_q) <= PresentDepth
        /\ Len(present_q) \in Nat /\ PresentDepth \in Nat
        /\ Head(present_q) \in Picture /\ Tail(present_q) \in Seq(Picture)
        /\ Len(Tail(present_q)) = Len(present_q) - 1 /\ shown \in Picture
    BY <1>0, <2>1, TailIs, BoundsAre DEF ShowT
  <2>3. ShowT'
    BY <2>1, <2>2 DEF ShowT
  <2>. QED
    BY <2>1, <2>3 DEF TypeInv, SenderT, LinkT, NetT, QueueT, DecodeT
<1>2. CASE PresentLeave \/ request_stop
  <2>1. UNCHANGED <<coder, packer, packers, pending, payload_queue, depay, au_q, present_q,
                    dec, decode, shown>>
    BY <1>2 DEF PresentLeave, request_stop, sender, stages, screen
  <2>. QED
    BY <2>1 DEF TypeInv, SenderT, LinkT, NetT, QueueT, ShowT, DecodeT
<1>3. CASE CloseReceiver
  <2>1. UNCHANGED <<coder, packer, packers, pending, depay, au_q, present_q,
                    dec, decode, shown>>
    BY <1>3 DEF CloseReceiver, sender, stages, screen
  <2>2. LinkT'
    <3>1. payload_queue' = <<>> /\ <<>> \in Seq(Datagram) /\ Len(<<>>) = 0 /\ QueueDepth \in Nat
      BY <1>3, EmptySeq, BoundsAre DEF CloseReceiver
    <3>. QED
      BY <3>1 DEF LinkT
  <2>. QED
    BY <2>1, <2>2 DEF TypeInv, SenderT, NetT, QueueT, ShowT, DecodeT
<1>4. CASE CloseRest
  <2>1. UNCHANGED <<coder, packer, packers, pending, payload_queue, au_q, present_q,
                    decode, shown>>
    BY <1>4 DEF CloseRest, sender, stages, screen
  <2>2. /\ depay' = [rtp |-> rtp_h264_depacketizer, au_queue |-> <<>>] /\ dec' = NewDecoder
        /\ <<>> \in Seq(Whole) /\ Len(<<>>) = 0 /\ DepayDepth \in Nat
    BY <1>4, EmptySeq, BoundsAre DEF CloseRest
  <2>3. NetT'
    BY <2>2, NewDepackOK DEF NetT
  <2>4. DecOK(dec)'
    BY <2>2, NewDecoderOK
  <2>. QED
    BY <2>1, <2>3, <2>4 DEF TypeInv, SenderT, LinkT, QueueT, ShowT, DecodeT
<1>. QED
  BY <1>1, <1>2, <1>3, <1>4 DEF Display, Close

\* TypeInv is inductive.
LEMMA TypeStep == TypeInv /\ [Next]_vars => TypeInv'
<1> SUFFICES ASSUME TypeInv, [Next]_vars PROVE TypeInv'
  OBVIOUS
<1>1. CASE UNCHANGED vars
  BY <1>1 DEF vars, sender, stages, screen, TypeInv, SenderT, LinkT, NetT, QueueT, ShowT,
              DecodeT
<1>. QED
  BY <1>1, TypeSender, TypeNet, TypeDecode, TypeMpp, TypeRest DEF Next

\* And an invariant.
LEMMA TypesAlways == Spec => []TypeInv
BY TypeInit, TypeStep, PTL DEF Spec

\* Every queue keeps its bound, the decode thread never feeds without an access
\* unit, and the numbers stay in their ranges.
THEOREM RxTyped == Spec => []RxTypeOK
<1>1. TypeInv => RxTypeOK
  BY DEF TypeInv, SenderT, LinkT, NetT, QueueT, ShowT, DecodeT, DecOK, Packer, RxTypeOK
<1>. QED
  BY <1>1, TypesAlways, PTL

(***************************** Order: the line *****************************)

\* The line: from the screen back to the depayloader.
Parts ==
  <<<<shown>>, present_q, decode.pulled, dec.ready, dec.out, dec.in, decode.holding, au_q,
    Frames(depay.au_queue)>>

\* Each part of it rises, and is before the parts that follow.
LineOK(P) ==
  /\ \A k \in 1 .. 9 : Rise(P[k])
  /\ \A k, l \in 1 .. 9 : k < l => Below(Units1(P[k]), Units1(P[l]))

\* The numbers in all of it.
UnitsIn(P) == UNION {Units1(P[k]) : k \in 1 .. 9}

\* The datagrams that are still to be fed, and the order they are in.
Wire        == Range(payload_queue) \cup Range(pending)
After(g, h) == UnitIn(g) <= UnitIn(h) /\ (UnitIn(g) = UnitIn(h) => g.ts = h.ts /\ ~g.marker)
Run(s)      == \A i, j \in DOMAIN s : i < j => After(s[i], s[j])
WireInv ==
  /\ Run(payload_queue) /\ Run(pending)
  /\ \A g \in Range(payload_queue), h \in Range(pending) : After(g, h)
  /\ \A g \in Wire : UnitIn(g) <= coder.unit

\* The access unit in progress comes before what is still to be fed, or goes on
\* with it.
Before(b, g) == UnitOf(b) <= UnitIn(g) /\ (UnitOf(b) = UnitIn(g) => b.ts = g.ts)
BuildInv ==
  LET b == depay.rtp.building IN
  b.nals # <<>> => UnitOf(b) <= coder.unit /\ \A g \in Wire : Before(b, g)

\* And the line comes before both.
LineInv ==
  /\ LineOK(Parts)
  /\ \A u \in UnitsIn(Parts) :
       /\ u <= coder.unit
       /\ depay.rtp.building.nals # <<>> => u < UnitOf(depay.rtp.building)
       /\ \A g \in Wire : u < UnitIn(g)

\* The inductive invariant of the order.
OrderInv == LineInv /\ WireInv /\ BuildInv

\* The nine parts of the line, now and next.
LEMMA PartsAre ==
  /\ Parts[1] = <<shown>> /\ Parts[2] = present_q /\ Parts[3] = decode.pulled
  /\ Parts[4] = dec.ready /\ Parts[5] = dec.out /\ Parts[6] = dec.in
  /\ Parts[7] = decode.holding /\ Parts[8] = au_q /\ Parts[9] = Frames(depay.au_queue)
  /\ Parts'[1] = <<shown'>> /\ Parts'[2] = present_q' /\ Parts'[3] = decode'.pulled
  /\ Parts'[4] = dec'.ready /\ Parts'[5] = dec'.out /\ Parts'[6] = dec'.in
  /\ Parts'[7] = decode'.holding /\ Parts'[8] = au_q' /\ Parts'[9] = Frames(depay'.au_queue)
BY DEF Parts, Frames

\* There are no others.
LEMMA Nine == \A k \in 1 .. 9 : k \in {1, 2, 3, 4, 5, 6, 7, 8, 9}
OBVIOUS

\* Some parts next to each other have changed: among them they are in order, and
\* nothing new is in them.
LEMMA LineMoved ==
  ASSUME NEW P, NEW Q, LineOK(P), NEW D \in SUBSET (1 .. 9),
         \A k, m \in D : \A l \in 1 .. 9 : k < l /\ l < m => l \in D,
         \A k \in (1 .. 9) \ D : Q[k] = P[k],
         \A k \in D : Rise(Q[k]) /\ Units1(Q[k]) \subseteq UNION {Units1(P[l]) : l \in D},
         \A k, l \in D : k < l => Below(Units1(Q[k]), Units1(Q[l]))
  PROVE  LineOK(Q) /\ UnitsIn(Q) \subseteq UnitsIn(P)
<1>1. \A k \in 1 .. 9 : Rise(Q[k])
  BY DEF LineOK
<1>2. ASSUME NEW k \in 1 .. 9, NEW l \in 1 .. 9, k < l, NEW u \in Units1(Q[k]),
             NEW v \in Units1(Q[l])
      PROVE  u < v
  <2>1. CASE k \in D /\ l \in D
    BY <1>2, <2>1 DEF Below
  <2>2. CASE k \in D /\ l \notin D
    <3>1. PICK m \in D : u \in Units1(P[m])
      BY <1>2, <2>2
    <3>2. m < l
      BY <1>2, <2>2, <3>1
    <3>3. v \in Units1(P[l])
      BY <1>2, <2>2
    <3>. QED
      BY <1>2, <3>1, <3>2, <3>3 DEF LineOK, Below
  <2>3. CASE k \notin D /\ l \in D
    <3>1. PICK m \in D : v \in Units1(P[m])
      BY <1>2, <2>3
    <3>2. k < m
      BY <1>2, <2>3, <3>1
    <3>3. u \in Units1(P[k])
      BY <1>2, <2>3
    <3>. QED
      BY <1>2, <3>1, <3>2, <3>3 DEF LineOK, Below
  <2>4. CASE k \notin D /\ l \notin D
    BY <1>2, <2>4 DEF LineOK, Below
  <2>. QED
    BY <2>1, <2>2, <2>3, <2>4
<1>3. LineOK(Q)
  BY <1>1, <1>2 DEF LineOK, Below
<1>4. ASSUME NEW u \in UnitsIn(Q) PROVE u \in UnitsIn(P)
  <2>1. PICK k \in 1 .. 9 : u \in Units1(Q[k])
    BY <1>4 DEF UnitsIn
  <2>2. CASE k \in D
    <3>1. PICK m \in D : u \in Units1(P[m])
      BY <2>1, <2>2
    <3>. QED
      BY <3>1 DEF UnitsIn
  <2>3. CASE k \notin D
    BY <2>1, <2>3 DEF UnitsIn
  <2>. QED
    BY <2>2, <2>3
<1>. QED
  BY <1>3, <1>4

\* Two parts next to each other.
LEMMA LineTwo ==
  ASSUME NEW P, NEW Q, LineOK(P), NEW a \in 1 .. 9, NEW b \in 1 .. 9, b = a + 1,
         \A k \in 1 .. 9 : k # a /\ k # b => Q[k] = P[k],
         Rise(Q[a]), Rise(Q[b]), Below(Units1(Q[a]), Units1(Q[b])),
         Units1(Q[a]) \cup Units1(Q[b]) \subseteq Units1(P[a]) \cup Units1(P[b])
  PROVE  LineOK(Q) /\ UnitsIn(Q) \subseteq UnitsIn(P)
<1> DEFINE D == {a, b}
<1>1. UNION {Units1(P[l]) : l \in D} = Units1(P[a]) \cup Units1(P[b])
  OBVIOUS
<1>2. \A k \in D : k = a \/ k = b
  OBVIOUS
<1>3. D \in SUBSET (1 .. 9) /\ \A k \in (1 .. 9) \ D : Q[k] = P[k]
  OBVIOUS
<1> HIDE DEF D
<1>4. \A k, m \in D : \A l \in 1 .. 9 : k < l /\ l < m => l \in D
  BY <1>2
<1>5. \A k \in D : Rise(Q[k]) /\ Units1(Q[k]) \subseteq UNION {Units1(P[l]) : l \in D}
  BY <1>1, <1>2
<1>6. \A k, l \in D : k < l => Below(Units1(Q[k]), Units1(Q[l]))
  BY <1>2
<1>. QED
  BY <1>3, <1>4, <1>5, <1>6, LineMoved

\* Parts only lose frames.
LEMMA LineThinned ==
  ASSUME NEW P, NEW Q, LineOK(P),
         \A k \in 1 .. 9 : Rise(Q[k]) /\ Units1(Q[k]) \subseteq Units1(P[k])
  PROVE  LineOK(Q) /\ UnitsIn(Q) \subseteq UnitsIn(P)
<1>1. LineOK(Q)
  BY DEF LineOK, Below
<1>2. UnitsIn(Q) \subseteq UnitsIn(P)
  BY DEF UnitsIn
<1>. QED
  BY <1>1, <1>2

\* The sender's side, the wire and the depacketizer have not moved.
LEMMA OrderKept ==
  ASSUME OrderInv, LineOK(Parts'), UnitsIn(Parts') \subseteq UnitsIn(Parts),
         UNCHANGED <<coder, pending, payload_queue>>,
         depay'.rtp.building = depay.rtp.building
  PROVE  OrderInv'
<1>1. Wire' = Wire
  BY DEF Wire, Range
<1>2. WireInv'
  BY <1>1 DEF OrderInv, WireInv, Range, Run
<1>3. BuildInv'
  BY <1>1 DEF OrderInv, BuildInv
<1>4. LineInv'
  BY <1>1 DEF OrderInv, LineInv
<1>. QED
  BY <1>2, <1>3, <1>4 DEF OrderInv

\* Parts that stay as they are.
LEMMA SamePart ==
  ASSUME NEW P, LineOK(P), NEW k \in 1 .. 9
  PROVE  Rise(P[k]) /\ \A l \in 1 .. 9 : k < l => Below(Units1(P[k]), Units1(P[l]))
BY DEF LineOK

\* The decode thread takes an access unit from its queue.
LEMMA LineTake ==
  ASSUME TypeInv, OrderInv, DecodeTake
  PROVE  OrderInv'
<1> DEFINE P == Parts
           Q == Parts'
           x == Head(au_q)
<1>1. /\ decode.pc = "take" /\ au_q # <<>> /\ au_q' = Tail(au_q)
      /\ decode' = [decode EXCEPT !.pc = "feed", !.holding = <<x>>]
      /\ UNCHANGED <<coder, pending, payload_queue, depay, present_q, dec, shown>>
  BY DEF DecodeTake, MayTake, sender, screen
<1>2. decode'.pulled = decode.pulled /\ decode'.holding = <<x>> /\ au_q \in Seq(Picture)
  BY <1>1 DEF TypeInv, DecodeT, QueueT
<1>3. LineOK(P)
  BY DEF OrderInv, LineInv
<1>4. Rise(au_q)
  BY <1>3, PartsAre, SamePart
<1>5. Units1(Tail(au_q)) \subseteq Units1(au_q) /\ x.unit \in Units1(au_q)
      /\ Rise(Tail(au_q)) /\ Below({x.unit}, Units1(Tail(au_q)))
  BY <1>1, <1>2, <1>4, HeadRises
<1> HIDE DEF x
<1>6. Units1(<<x>>) = {x.unit} /\ Rise(<<x>>)
  BY OneRises
<1>7. Q[7] = <<x>> /\ Q[8] = Tail(au_q) /\ P[8] = au_q
  BY <1>1, <1>2, PartsAre
<1>8. \A k \in 1 .. 9 : k # 7 /\ k # 8 => Q[k] = P[k]
  BY <1>1, <1>2, PartsAre, Nine
<1> HIDE DEF P, Q
<1>9. LineOK(Q) /\ UnitsIn(Q) \subseteq UnitsIn(P)
  <2>1. Rise(Q[7]) /\ Rise(Q[8]) /\ Below(Units1(Q[7]), Units1(Q[8]))
    BY <1>5, <1>6, <1>7, Zenon
  <2>2. Units1(Q[7]) \cup Units1(Q[8]) \subseteq Units1(P[7]) \cup Units1(P[8])
    <3>1. Units1(Q[7]) = {x.unit} /\ Units1(Q[8]) = Units1(Tail(au_q))
          /\ Units1(P[8]) = Units1(au_q)
      BY <1>6, <1>7, Zenon
    <3>. QED
      BY <1>5, <3>1
  <2>. QED
    BY <1>3, <1>8, <2>1, <2>2, LineTwo
<1>. QED
  BY <1>1, <1>9, OrderKept DEF P, Q

\* It pushes a frame to the present thread.
LEMMA LinePush ==
  ASSUME TypeInv, OrderInv, DecodePush
  PROVE  OrderInv'
<1> DEFINE P == Parts
           Q == Parts'
           x == Head(decode.pulled)
           t == Tail(decode.pulled)
           q == push_drop(present_q, PresentDepth, x)
<1>1. /\ decode.pulled \in Seq(Picture) /\ decode.pulled # <<>>
      /\ decode'.pulled = t /\ decode'.holding = decode.holding
  BY PushPulled DEF TypeInv, DecodeT
<1>2. /\ present_q' \in {present_q, q}
      /\ UNCHANGED <<coder, pending, payload_queue, depay, au_q, dec, shown>>
  BY DEF DecodePush, sender, screen
<1>3. LineOK(P)
  BY DEF OrderInv, LineInv
<1>4. P[2] = present_q /\ P[3] = decode.pulled /\ Q[2] = present_q' /\ Q[3] = t
  BY <1>1, PartsAre
<1>5. Rise(present_q) /\ Rise(decode.pulled) /\ Below(Units1(present_q), Units1(decode.pulled))
  BY <1>3, <1>4, SamePart
<1>6. /\ Units1(t) \subseteq Units1(decode.pulled) /\ x.unit \in Units1(decode.pulled)
      /\ Rise(t) /\ Below({x.unit}, Units1(t)) /\ x \in Picture
  BY <1>1, <1>5, HeadRises, TailIs
<1> HIDE DEF x, t
<1>7. Below(Units1(present_q), {x.unit})
  BY <1>5, <1>6 DEF Below
<1>8. Rise(q) /\ Units1(q) \subseteq Units1(present_q) \cup {x.unit}
  <2>1. present_q \in Seq(Picture) /\ Len(present_q) <= PresentDepth /\ PresentDepth \in Nat \ {0}
    BY BoundsAre DEF TypeInv, ShowT
  <2>. QED
    BY <1>5, <1>6, <1>7, <2>1, PushRises
<1> HIDE DEF q
<1>9. Rise(present_q') /\ Units1(present_q') \subseteq Units1(present_q) \cup {x.unit}
  BY <1>2, <1>5, <1>8
<1>10. Below(Units1(present_q'), Units1(t))
  BY <1>5, <1>6, <1>9 DEF Below
<1>11. \A k \in 1 .. 9 : k # 2 /\ k # 3 => Q[k] = P[k]
  BY <1>1, <1>2, PartsAre, Nine
<1> HIDE DEF P, Q
<1>12. LineOK(Q) /\ UnitsIn(Q) \subseteq UnitsIn(P)
  BY <1>3, <1>4, <1>6, <1>9, <1>10, <1>11, LineTwo
<1>. QED
  BY <1>2, <1>12, OrderKept DEF P, Q

\* The network thread hands an access unit to the decode thread.
LEMMA LineForward ==
  ASSUME TypeInv, OrderInv, NetForward
  PROVE  OrderInv'
<1>0. UNCHANGED <<coder, pending, payload_queue, present_q, dec, decode, shown>>
  BY DEF NetForward, sender, screen
<1>1. CASE ~(g_run /\ depay.au_queue # <<>>)
  <2>1. UNCHANGED <<au_q, depay>>
    BY <1>1 DEF NetForward
  <2>2. Parts' = Parts
    BY <1>0, <2>1 DEF Parts, Frames
  <2>. QED
    BY <1>0, <2>1, <2>2, OrderKept DEF OrderInv, LineInv
<1>2. CASE g_run /\ depay.au_queue # <<>>
  <2> DEFINE P == Parts
             Q == Parts'
             s == depay.au_queue
             f == Frames(s)
             x == Frame(Head(s))
             t == Frames(Tail(s))
             q == push_drop(au_q, AuDepth, x)
  <2>1. au_q' = q /\ depay' = [depay EXCEPT !.au_queue = Tail(s)]
    BY <1>2 DEF NetForward, push_rx_au
  <2>2. s \in Seq(Whole) /\ depay'.au_queue = Tail(s) /\ depay'.rtp = depay.rtp
    BY <2>1 DEF TypeInv, NetT
  <2>3. /\ Len(s) \in Nat /\ Len(s) >= 1 /\ Head(s) = s[1] /\ Head(s) \in Whole
        /\ Tail(s) \in Seq(Whole) /\ Len(Tail(s)) = Len(s) - 1
        /\ DOMAIN s = 1 .. Len(s) /\ DOMAIN Tail(s) = 1 .. Len(s) - 1
        /\ \A i \in 1 .. Len(s) - 1 : i + 1 \in 1 .. Len(s) /\ Tail(s)[i] = s[i + 1]
    BY <1>2, <2>2, TailIs
  <2>4. f \in Seq(Picture) /\ Len(f) = Len(s) /\ f # <<>>
    BY <2>2, <2>3, FramesOK, EmptySeq
  <2>5. x = f[1] /\ x \in Picture /\ 1 \in DOMAIN f
    <3>1. 1 \in DOMAIN s
      BY <2>3
    <3>. QED
      BY <2>3, <3>1, FrameOK DEF Frames
  <2>6. Without(t, f, 1)
    <3>1. DOMAIN t = 1 .. Len(s) - 1 /\ Len(t) = Len(s) - 1
      BY <2>3, FramesOK
    <3>2. \A i \in 1 .. Len(s) - 1 : 1 + i \in 1 .. Len(s) /\ t[i] = f[1 + i]
      BY <2>3 DEF Frames
    <3> HIDE DEF t, f
    <3>. QED
      BY <2>4, <3>1, <3>2 DEF Without
  <2>7. LineOK(P)
    BY DEF OrderInv, LineInv
  <2>8. P[8] = au_q /\ P[9] = f /\ Q[8] = q /\ Q[9] = t
    BY <2>1, <2>2, PartsAre
  <2>9. Rise(au_q) /\ Rise(f) /\ Below(Units1(au_q), Units1(f))
    BY <2>7, <2>8, SamePart
  <2> HIDE DEF f, t
  <2>10. Units1(t) \subseteq Units1(f) /\ Rise(t)
    BY <2>4, <2>6, <2>9, RestRises
  <2>11. x.unit \in Units1(f) /\ Below({x.unit}, Units1(t))
    <3>1. x.unit \in Units1(f)
      BY <2>5 DEF Units1
    <3>2. ASSUME NEW i \in DOMAIN t PROVE x.unit < t[i].unit
      <4>1. 1 + i \in DOMAIN f /\ t[i] = f[1 + i] /\ 1 < 1 + i
        <5>1. Len(f) \in Nat /\ DOMAIN f = 1 .. Len(f)
          BY <2>4, LenProperties
        <5>. QED
          BY <2>6, <5>1 DEF Without
      <4>. QED
        BY <2>5, <2>9, <4>1 DEF Rise
    <3>. QED
      BY <3>1, <3>2 DEF Below, Units1
  <2>12. Below(Units1(au_q), {x.unit})
    BY <2>9, <2>11 DEF Below
  <2> HIDE DEF x
  <2>13. Rise(q) /\ Units1(q) \subseteq Units1(au_q) \cup {x.unit}
    <3>1. au_q \in Seq(Picture) /\ Len(au_q) <= AuDepth /\ AuDepth \in Nat \ {0}
      BY BoundsAre DEF TypeInv, QueueT
    <3>. QED
      BY <2>5, <2>9, <2>12, <3>1, PushRises
  <2> HIDE DEF q
  <2>14. Below(Units1(q), Units1(t))
    BY <2>9, <2>10, <2>11, <2>13 DEF Below
  <2>15. \A k \in 1 .. 9 : k # 8 /\ k # 9 => Q[k] = P[k]
    BY <1>0, PartsAre, Nine
  <2> HIDE DEF P, Q
  <2>16. LineOK(Q) /\ UnitsIn(Q) \subseteq UnitsIn(P)
    BY <2>7, <2>8, <2>10, <2>11, <2>13, <2>14, <2>15, LineTwo
  <2>. QED
    BY <1>0, <2>2, <2>16, OrderKept DEF P, Q
<1>. QED
  BY <1>1, <1>2

\* MPP moves a unit from its input to its output.
LEMMA LineMpp ==
  ASSUME TypeInv, OrderInv, MppDecode
  PROVE  OrderInv'
<1>1. UNCHANGED <<coder, pending, payload_queue, depay, au_q, present_q, decode, shown>>
  BY DEF MppDecode, sender, stages, screen
<1>2. PICK good \in BOOLEAN :
        dec' = [dec EXCEPT !.in = Tail(@),
                           !.out = Append(@, [unit |-> Head(dec.in).unit,
                                              pts |-> Head(dec.in).pts, good |-> good])]
  BY DEF MppDecode
<1>3. dec.in # <<>> /\ DecOK(dec)
  BY DEF MppDecode, TypeInv
<1> DEFINE P   == Parts
           Q   == Parts'
           f   == [unit |-> Head(dec.in).unit, pts |-> Head(dec.in).pts, good |-> good]
           in  == Tail(dec.in)
           out == Append(dec.out, f)
<1>4. dec.in \in Seq(Packet) /\ dec.out \in Seq(Decoded)
  BY <1>3, DecParts
<1>5. Head(dec.in) \in Packet
  BY <1>3, <1>4, TailIs
<1>6. f \in Decoded /\ f.unit = Head(dec.in).unit
  BY <1>5 DEF Packet, Decoded
<1>7. dec'.in = in /\ dec'.out = out /\ dec'.ready = dec.ready
  BY <1>2, <1>3 DEF DecOK, Decoder
<1>8. LineOK(P)
  BY DEF OrderInv, LineInv
<1>9. P[5] = dec.out /\ P[6] = dec.in /\ Q[5] = out /\ Q[6] = in
  BY <1>7, PartsAre
<1>10. Rise(dec.out) /\ Rise(dec.in) /\ Below(Units1(dec.out), Units1(dec.in))
  BY <1>8, <1>9, SamePart
<1> HIDE DEF f
<1>11. /\ Units1(in) \subseteq Units1(dec.in) /\ f.unit \in Units1(dec.in) /\ Rise(in)
       /\ Below({f.unit}, Units1(in))
  BY <1>3, <1>4, <1>6, <1>10, HeadRises
<1>12. Below(Units1(dec.out), {f.unit})
  BY <1>10, <1>11 DEF Below
<1>13. Units1(out) = Units1(dec.out) \cup {f.unit} /\ Rise(out)
  <2>1. /\ Units1(out) = Units1(dec.out) \cup {f.unit}
        /\ Rise(dec.out) /\ Below(Units1(dec.out), {f.unit}) => Rise(out)
    BY <1>4, <1>6, AppendRises, Zenon
  <2>. QED
    BY <1>10, <1>12, <2>1
<1> HIDE DEF in, out
<1>14. Below(Units1(out), Units1(in))
  BY <1>10, <1>11, <1>13 DEF Below
<1>15. \A k \in 1 .. 9 : k # 5 /\ k # 6 => Q[k] = P[k]
  BY <1>1, <1>7, PartsAre, Nine
<1> HIDE DEF P, Q
<1>16. LineOK(Q) /\ UnitsIn(Q) \subseteq UnitsIn(P)
  BY <1>8, <1>9, <1>11, <1>13, <1>14, <1>15, LineTwo
<1>. QED
  BY <1>1, <1>16, OrderKept DEF P, Q

\* A frame is shown.
LEMMA LinePresent ==
  ASSUME TypeInv, OrderInv, Present
  PROVE  OrderInv'
<1> DEFINE P == Parts
           Q == Parts'
           x == Head(present_q)
           t == Tail(present_q)
<1>1. /\ present_q # <<>> /\ present_q' = t /\ shown' \in {shown, x}
      /\ UNCHANGED <<coder, packer, packers, pending, payload_queue, depay, au_q, dec,
                     decode>>
  BY Presented DEF TypeInv
<1>2. LineOK(P)
  BY DEF OrderInv, LineInv
<1>3. P[1] = <<shown>> /\ P[2] = present_q /\ Q[1] = <<shown'>> /\ Q[2] = t
  BY <1>1, PartsAre
<1>4. Rise(present_q) /\ Below(Units1(<<shown>>), Units1(present_q))
  BY <1>2, <1>3, SamePart
<1>5. /\ Units1(t) \subseteq Units1(present_q) /\ x.unit \in Units1(present_q) /\ Rise(t)
      /\ Below({x.unit}, Units1(t))
  <2>1. present_q \in Seq(Picture)
    BY DEF TypeInv, ShowT
  <2>. QED
    BY <1>1, <1>4, <2>1, HeadRises
<1> HIDE DEF x, t
<1>6. /\ Units1(<<shown>>) = {shown.unit} /\ Rise(<<shown'>>)
      /\ Units1(<<shown'>>) = {shown'.unit}
  BY OneRises
<1>7. shown'.unit \in {shown.unit, x.unit}
  BY <1>1
<1>8. Below(Units1(<<shown'>>), Units1(t))
  BY <1>4, <1>5, <1>6, <1>7 DEF Below
<1>9. \A k \in 1 .. 9 : k # 1 /\ k # 2 => Q[k] = P[k]
  BY <1>1, PartsAre, Nine
<1>10. Units1(<<shown'>>) \cup Units1(t) \subseteq Units1(<<shown>>) \cup Units1(present_q)
  BY <1>5, <1>6, <1>7
<1> HIDE DEF P, Q
<1>11. LineOK(Q) /\ UnitsIn(Q) \subseteq UnitsIn(P)
  BY <1>2, <1>3, <1>5, <1>6, <1>8, <1>9, <1>10, LineTwo
<1>. QED
  BY <1>1, <1>11, OrderKept DEF P, Q

\* The decoder is two parts of the line.
LEMMA DecodersRise ==
  ASSUME LineOK(Parts)
  PROVE  DecRises(dec) /\ Inside(dec) = Units1(Parts[4]) \cup Units1(Parts[5])
<1> DEFINE P == Parts
<1>1. P[4] = dec.ready /\ P[5] = dec.out
  BY PartsAre
<1> HIDE DEF P
<1>2. Rise(P[4]) /\ Rise(P[5]) /\ Below(Units1(P[4]), Units1(P[5]))
  BY SamePart DEF P
<1>3. DecRises(dec) /\ Inside(dec) = Units1(P[4]) \cup Units1(P[5])
  BY <1>1, <1>2 DEF DecRises, Inside
<1>. QED
  BY <1>3 DEF P

\* The decode thread pulls frames.
LEMMA LinePull ==
  ASSUME TypeInv, OrderInv, DecodePull
  PROVE  OrderInv'
<1> DEFINE P == Parts
           Q == Parts'
           p == pull_decoder_frames(dec)
           f == p.frames
           r == p.d
<1>1. /\ dec' = r
      /\ decode' = [decode EXCEPT
            !.pulled = f, !.pc = IF f = <<>> THEN Resume(decode.holding) ELSE "push"]
      /\ UNCHANGED <<coder, pending, payload_queue, depay, au_q, present_q, shown>>
  BY DEF DecodePull, sender, screen
<1>2. Moved(dec, f, r)
  BY PullIs DEF TypeInv
<1> HIDE DEF p, f, r
<1>3. decode'.pulled = f /\ decode'.holding = decode.holding /\ r.in = dec.in
  BY <1>1, <1>2 DEF TypeInv, DecodeT, Moved
<1>4. LineOK(P)
  BY DEF OrderInv, LineInv
<1>5. DecRises(dec) /\ Inside(dec) = Units1(P[4]) \cup Units1(P[5])
  BY <1>4, DecodersRise
<1>6. /\ Rise(f) /\ DecRises(r) /\ Below(Units1(f), Inside(r))
      /\ Units1(f) \cup Inside(r) \subseteq Units1(P[4]) \cup Units1(P[5])
  BY <1>2, <1>5 DEF Moved
<1>7. Q[3] = f /\ Q[4] = r.ready /\ Q[5] = r.out
  BY <1>1, <1>3, PartsAre
<1>8. \A k \in 1 .. 9 : k \notin {3, 4, 5} => Q[k] = P[k]
  BY <1>1, <1>3, PartsAre, Nine
<1> HIDE DEF P, Q
<1> DEFINE D == {3, 4, 5}
<1>9. /\ Rise(Q[3]) /\ Rise(Q[4]) /\ Rise(Q[5])
      /\ Below(Units1(Q[3]), Units1(Q[4])) /\ Below(Units1(Q[3]), Units1(Q[5]))
      /\ Below(Units1(Q[4]), Units1(Q[5]))
  BY <1>6, <1>7 DEF DecRises, Inside, Below
<1>10. \A k \in D : Units1(Q[k]) \subseteq UNION {Units1(P[l]) : l \in D}
  <2>1. Units1(P[4]) \cup Units1(P[5]) \subseteq UNION {Units1(P[l]) : l \in D}
    OBVIOUS
  <2>2. /\ Units1(Q[3]) \subseteq Units1(P[4]) \cup Units1(P[5])
        /\ Units1(Q[4]) \subseteq Units1(P[4]) \cup Units1(P[5])
        /\ Units1(Q[5]) \subseteq Units1(P[4]) \cup Units1(P[5])
    BY <1>6, <1>7 DEF Inside
  <2>. QED
    BY <2>1, <2>2
<1>11. \A k \in D : Rise(Q[k])
  BY <1>9
<1>12. \A k, l \in D : k < l => Below(Units1(Q[k]), Units1(Q[l]))
  BY <1>9
<1>13. D \in SUBSET (1 .. 9) /\ \A k, m \in D : \A l \in 1 .. 9 : k < l /\ l < m => l \in D
  OBVIOUS
<1>14. \A k \in (1 .. 9) \ D : Q[k] = P[k]
  BY <1>8
<1> HIDE DEF D
<1>15. LineOK(Q) /\ UnitsIn(Q) \subseteq UnitsIn(P)
  BY <1>4, <1>10, <1>11, <1>12, <1>13, <1>14, LineMoved
<1>. QED
  BY <1>1, <1>15, OrderKept DEF P, Q

\* It feeds an access unit to the decoder.
LEMMA LineFeed ==
  ASSUME TypeInv, OrderInv, DecodeFeed
  PROVE  OrderInv'
<1> DEFINE P == Parts
           Q == Parts'
           h == decode.holding
           x == h[1]
           pk == [unit |-> x.unit, pts |-> x.pts]
<1>1. decode.pc = "feed" /\ DecodeT /\ DecOK(dec)
  BY DEF TypeInv, DecodeFeed, MayFeed
<1>2. PICK in \in dec_input(dec, x) :
        /\ dec' = in.d
        /\ decode' = [decode EXCEPT !.pc = IF in.r = "EIO" THEN "take" ELSE "pull",
                                    !.holding = IF in.r = "EAGAIN" THEN h ELSE <<>>]
  BY <1>1 DEF DecodeFeed, DecodeT
<1>3. h \in Seq(Picture) /\ h # <<>> /\ x \in Picture /\ Head(h) = x
  BY <1>1, TailIs DEF DecodeT
<1>4. FedDec(dec, x, in)
  BY <1>1, <1>2, <1>3, InputOK
<1>5. UNCHANGED <<coder, pending, payload_queue, depay, au_q, present_q, shown>>
  BY DEF DecodeFeed, sender, screen
<1>6. LineOK(P)
  BY DEF OrderInv, LineInv
<1>7. decode'.pulled = decode.pulled
      /\ decode'.holding = IF in.r = "EAGAIN" THEN h ELSE <<>>
  BY <1>1, <1>2 DEF DecodeT
<1>8. /\ Q[4] = in.d.ready /\ Q[5] = in.d.out /\ Q[6] = in.d.in /\ Q[7] = decode'.holding
      /\ P[6] = dec.in /\ P[7] = h
  BY <1>2, PartsAre
<1>9. \A k \in 1 .. 9 : k \notin {4, 5, 6, 7} => Q[k] = P[k]
  BY <1>5, <1>7, PartsAre, Nine
<1>10. /\ DecRises(dec) /\ Inside(dec) = Units1(P[4]) \cup Units1(P[5])
       /\ Rise(P[6]) /\ Rise(P[7]) /\ Below(Units1(P[6]), Units1(P[7]))
       /\ Below(Units1(P[4]), Units1(P[6])) /\ Below(Units1(P[4]), Units1(P[7]))
       /\ Below(Units1(P[5]), Units1(P[6])) /\ Below(Units1(P[5]), Units1(P[7]))
  <2> HIDE DEF P
  <2>1. DecRises(dec) /\ Inside(dec) = Units1(P[4]) \cup Units1(P[5])
    BY <1>6, DecodersRise DEF P
  <2>2. /\ Rise(P[6]) /\ Rise(P[7]) /\ Below(Units1(P[6]), Units1(P[7]))
        /\ Below(Units1(P[4]), Units1(P[6])) /\ Below(Units1(P[4]), Units1(P[7]))
        /\ Below(Units1(P[5]), Units1(P[6])) /\ Below(Units1(P[5]), Units1(P[7]))
    BY <1>6 DEF LineOK
  <2>. QED
    BY <2>1, <2>2
<1> HIDE DEF P, Q
<1>11. x.unit \in Units1(P[7])
  BY <1>3, <1>8, HeadRises
<1>12. pk \in Packet /\ pk.unit = x.unit /\ dec.in \in Seq(Packet)
  <2>1. dec.in \in Seq(Packet)
    BY <1>1, DecParts
  <2>. QED
    BY <1>3, <2>1 DEF Picture, Packet
<1> HIDE DEF pk, x
<1>13. Units1(Append(dec.in, pk)) = Units1(P[6]) \cup {x.unit} /\ Rise(Append(dec.in, pk))
  <2>1. /\ Units1(Append(dec.in, pk)) = Units1(dec.in) \cup {pk.unit}
        /\ Rise(dec.in) /\ Below(Units1(dec.in), {pk.unit}) => Rise(Append(dec.in, pk))
    BY <1>12, AppendRises, Zenon
  <2>2. Below(Units1(P[6]), {x.unit})
    BY <1>10, <1>11 DEF Below
  <2>. QED
    BY <1>8, <1>10, <1>12, <2>1, <2>2
<1> HIDE DEF h
<1>14. /\ Rise(Q[6]) /\ Rise(Q[7]) /\ Below(Units1(Q[6]), Units1(Q[7]))
       /\ Units1(Q[6]) \subseteq Units1(P[6]) \cup Units1(P[7])
       /\ Units1(Q[7]) \subseteq Units1(P[7])
  <2>1. Rise(<<>>) /\ Units1(<<>>) = {}
    BY OneRises
  <2>2. CASE in.r = "ok"
    <3>1. Q[6] = Append(dec.in, pk) /\ Q[7] = <<>>
      BY <1>4, <1>7, <1>8, <2>2 DEF FedDec, pk
    <3>2. Below(Units1(Q[6]), {})
      BY DEF Below
    <3>3. Units1(Q[6]) = Units1(P[6]) \cup {x.unit} /\ Units1(Q[7]) = {}
      BY <1>13, <2>1, <3>1
    <3>. QED
      BY <1>11, <1>13, <2>1, <3>1, <3>2, <3>3
  <2>3. CASE in.r = "EIO"
    <3>1. Q[6] = P[6] /\ Q[7] = <<>>
      BY <1>4, <1>7, <1>8, <2>3 DEF FedDec
    <3>2. Below(Units1(Q[6]), {})
      BY DEF Below
    <3>. QED
      BY <1>10, <2>1, <3>1, <3>2
  <2>4. CASE in.r = "EAGAIN"
    <3>1. Q[6] = P[6] /\ Q[7] = P[7]
      BY <1>4, <1>7, <1>8, <2>4 DEF FedDec
    <3>. QED
      BY <1>10, <3>1
  <2>. QED
    BY <1>4, <2>2, <2>3, <2>4 DEF FedDec
<1>15. /\ Rise(Q[4]) /\ Rise(Q[5]) /\ Below(Units1(Q[4]), Units1(Q[5]))
       /\ Units1(Q[4]) \subseteq Units1(P[4]) \cup Units1(P[5])
       /\ Units1(Q[5]) \subseteq Units1(P[4]) \cup Units1(P[5])
  BY <1>4, <1>8, <1>10 DEF FedDec, DecRises, Inside
<1>16. /\ Below(Units1(Q[4]), Units1(Q[6])) /\ Below(Units1(Q[4]), Units1(Q[7]))
       /\ Below(Units1(Q[5]), Units1(Q[6])) /\ Below(Units1(Q[5]), Units1(Q[7]))
  BY <1>10, <1>14, <1>15 DEF Below
<1> DEFINE D == {4, 5, 6, 7}
<1>17. \A k \in D : Units1(Q[k]) \subseteq UNION {Units1(P[l]) : l \in D}
  <2>1. Units1(P[4]) \cup Units1(P[5]) \cup Units1(P[6]) \cup Units1(P[7])
          \subseteq UNION {Units1(P[l]) : l \in D}
    OBVIOUS
  <2>. QED
    BY <1>14, <1>15, <2>1
<1>18. \A k \in D : Rise(Q[k])
  BY <1>14, <1>15
<1>19. \A k, l \in D : k < l => Below(Units1(Q[k]), Units1(Q[l]))
  BY <1>14, <1>15, <1>16
<1>20. D \in SUBSET (1 .. 9) /\ \A k, m \in D : \A l \in 1 .. 9 : k < l /\ l < m => l \in D
  OBVIOUS
<1>21. \A k \in (1 .. 9) \ D : Q[k] = P[k]
  BY <1>9
<1> HIDE DEF D
<1>22. LineOK(Q) /\ UnitsIn(Q) \subseteq UnitsIn(P)
  BY <1>6, <1>17, <1>18, <1>19, <1>20, <1>21, LineMoved
<1>. QED
  BY <1>5, <1>22, OrderKept DEF P, Q

\* It leaves.
LEMMA LineLeave ==
  ASSUME TypeInv, OrderInv, DecodeLeave
  PROVE  OrderInv'
<1> DEFINE P == Parts
           Q == Parts'
           p == pull_decoder_frames(dec)
           r == p.d
<1>1. /\ dec' = r /\ decode' = [decode EXCEPT !.pc = "done", !.holding = <<>>]
      /\ UNCHANGED <<coder, pending, payload_queue, depay, au_q, present_q, shown>>
  BY DEF DecodeLeave, sender, screen
<1>2. Moved(dec, p.frames, r)
  BY PullIs DEF TypeInv
<1> HIDE DEF p, r
<1>3. decode'.pulled = decode.pulled /\ decode'.holding = <<>> /\ r.in = dec.in
  BY <1>1, <1>2 DEF TypeInv, DecodeT, Moved
<1>4. LineOK(P)
  BY DEF OrderInv, LineInv
<1>5. DecRises(dec) /\ Inside(dec) = Units1(P[4]) \cup Units1(P[5])
  BY <1>4, DecodersRise
<1>6. DecRises(r) /\ Inside(r) \subseteq Units1(P[4]) \cup Units1(P[5])
  BY <1>2, <1>5 DEF Moved
<1>7. Q[4] = r.ready /\ Q[5] = r.out /\ Q[7] = <<>>
  BY <1>1, <1>3, PartsAre
<1>8. \A k \in 1 .. 9 : k \notin {4, 5, 7} => Q[k] = P[k]
  BY <1>1, <1>3, PartsAre, Nine
<1> HIDE DEF P, Q
<1> DEFINE R == [k \in 1 .. 9 |-> IF k = 7 THEN P[7] ELSE Q[k]]
<1>9. R[4] = Q[4] /\ R[5] = Q[5] /\ R[7] = P[7] /\ \A k \in 1 .. 9 : k # 7 => R[k] = Q[k]
  OBVIOUS
<1>10. \A k \in 1 .. 9 : k # 4 /\ k # 5 => R[k] = P[k]
  BY <1>8
<1> HIDE DEF R
<1>11. /\ Rise(R[4]) /\ Rise(R[5]) /\ Below(Units1(R[4]), Units1(R[5]))
       /\ Units1(R[4]) \cup Units1(R[5]) \subseteq Units1(P[4]) \cup Units1(P[5])
  BY <1>6, <1>7, <1>9 DEF DecRises, Inside
<1>12. LineOK(R) /\ UnitsIn(R) \subseteq UnitsIn(P)
  BY <1>4, <1>10, <1>11, LineTwo
<1>13. \A k \in 1 .. 9 : Rise(Q[k]) /\ Units1(Q[k]) \subseteq Units1(R[k])
  <2>1. Rise(Q[7]) /\ Units1(Q[7]) = {}
    BY <1>7, OneRises
  <2>2. \A k \in 1 .. 9 : Rise(R[k])
    BY <1>12, SamePart
  <2>. QED
    BY <1>9, <2>1, <2>2
<1>14. LineOK(Q) /\ UnitsIn(Q) \subseteq UnitsIn(R)
  BY <1>12, <1>13, LineThinned
<1>15. UnitsIn(Q) \subseteq UnitsIn(P)
  BY <1>12, <1>14
<1>. QED
  BY <1>1, <1>14, <1>15, OrderKept DEF P, Q

\* Nothing of the line or the wire moves.
LEMMA LineSame ==
  ASSUME OrderInv,
         UNCHANGED <<coder, pending, payload_queue, depay, au_q, present_q, dec, shown>>,
         decode'.pulled = decode.pulled, decode'.holding = decode.holding
  PROVE  OrderInv'
<1>1. Parts' = Parts
  BY DEF Parts, Frames
<1>. QED
  BY <1>1, OrderKept DEF OrderInv, LineInv

\* The components are closed.
LEMMA LineClose ==
  ASSUME TypeInv, OrderInv, Close
  PROVE  OrderInv'
<1>1. CASE CloseReceiver
  <2>1. /\ payload_queue' = <<>>
        /\ UNCHANGED <<coder, pending, depay, au_q, present_q, dec, decode, shown>>
    BY <1>1 DEF CloseReceiver, sender, stages, screen
  <2>2. Parts' = Parts
    BY <2>1 DEF Parts, Frames
  <2>3. Range(payload_queue') = {} /\ Wire' \subseteq Wire /\ Range(pending') = Range(pending)
    BY <2>1 DEF Wire, Range
  <2>4. WireInv'
    BY <2>1, <2>3 DEF OrderInv, WireInv, Run, Range
  <2>5. BuildInv'
    BY <2>1, <2>3 DEF OrderInv, BuildInv
  <2>6. LineInv'
    BY <2>1, <2>2, <2>3 DEF OrderInv, LineInv
  <2>. QED
    BY <2>4, <2>5, <2>6 DEF OrderInv
<1>2. CASE CloseRest
  <2> DEFINE P == Parts
             Q == Parts'
  <2>1. /\ depay' = [rtp |-> rtp_h264_depacketizer, au_queue |-> <<>>] /\ dec' = NewDecoder
        /\ UNCHANGED <<coder, pending, payload_queue, au_q, present_q, decode, shown>>
    BY <1>2 DEF CloseRest, sender, stages, screen
  <2>2. LineOK(P)
    BY DEF OrderInv, LineInv
  <2>3. dec'.in = <<>> /\ dec'.out = <<>> /\ dec'.ready = <<>>
    BY <2>1 DEF NewDecoder
  <2>4. Frames(depay'.au_queue) = <<>>
    BY <2>1 DEF Frames
  <2>5. Q[4] = <<>> /\ Q[5] = <<>> /\ Q[6] = <<>> /\ Q[9] = <<>>
    BY <2>3, <2>4, PartsAre
  <2>6. \A k \in 1 .. 9 : Q[k] = <<>> \/ Q[k] = P[k]
    BY <2>1, <2>5, PartsAre, Nine
  <2> HIDE DEF P, Q
  <2>7. Rise(<<>>) /\ Units1(<<>>) = {} /\ \A k \in 1 .. 9 : Rise(P[k])
    BY <2>2, OneRises, SamePart
  <2>8. \A k \in 1 .. 9 : Rise(Q[k]) /\ Units1(Q[k]) \subseteq Units1(P[k])
    BY <2>6, <2>7
  <2>9. LineOK(Q) /\ UnitsIn(Q) \subseteq UnitsIn(P)
    BY <2>2, <2>8, LineThinned
  <2>10. depay'.rtp.building.nals = <<>>
    BY <2>1, NoAuOK DEF rtp_h264_depacketizer
  <2>11. Wire' = Wire
    BY <2>1 DEF Wire, Range
  <2>12. WireInv'
    BY <2>1, <2>11 DEF OrderInv, WireInv, Range, Run
  <2>13. BuildInv'
    BY <2>10 DEF BuildInv
  <2>14. LineInv'
    BY <2>1, <2>9, <2>10, <2>11 DEF OrderInv, LineInv, P, Q
  <2>. QED
    BY <2>12, <2>13, <2>14 DEF OrderInv
<1>. QED
  BY <1>1, <1>2 DEF Close

(********************* Order: the sender and the wire **********************)

\* At first nothing is under way.
LEMMA OrderInit == Init => OrderInv
<1> SUFFICES ASSUME Init PROVE OrderInv
  OBVIOUS
<1> DEFINE P == Parts
<1>1. /\ coder.unit = 0 /\ pending = <<>> /\ payload_queue = <<>>
      /\ depay.rtp.building.nals = <<>> /\ shown.unit = 0
  BY DEF Init, NoFrame, rtp_h264_depacketizer, NoAu
<1>2. P[1] = <<shown>> /\ \A k \in 1 .. 9 : k # 1 => P[k] = <<>>
  <2>1. Frames(<<>>) = <<>>
    BY DEF Frames
  <2>. QED
    BY <2>1, PartsAre, Nine DEF Init, NewDecoder
<1> HIDE DEF P
<1>3. Rise(<<shown>>) /\ Units1(<<shown>>) = {0} /\ Rise(<<>>) /\ Units1(<<>>) = {}
  BY <1>1, OneRises
<1>4. \A k \in 1 .. 9 : Rise(P[k]) /\ (k # 1 => Units1(P[k]) = {})
  BY <1>2, <1>3
<1>5. LineOK(P)
  <2>1. ASSUME NEW k \in 1 .. 9, NEW l \in 1 .. 9, k < l PROVE Below(Units1(P[k]), Units1(P[l]))
    <3>1. Units1(P[l]) = {}
      BY <1>4, <2>1
    <3>. QED
      BY <3>1 DEF Below
  <2>. QED
    BY <1>4, <2>1 DEF LineOK
<1>6. UnitsIn(P) \subseteq {0}
  <2>1. Units1(P[1]) = {0}
    BY <1>2, <1>3
  <2>. QED
    BY <1>4, <2>1 DEF UnitsIn
<1>7. Wire = {}
  BY <1>1 DEF Wire, Range
<1>8. LineInv
  BY <1>1, <1>5, <1>6, <1>7 DEF LineInv, P
<1>9. WireInv
  <2>1. Run(<<>>) /\ Range(<<>>) = {}
    BY DEF Run, Range
  <2>. QED
    BY <1>1, <1>7, <2>1 DEF WireInv
<1>10. BuildInv
  BY <1>1 DEF BuildInv
<1>. QED
  BY <1>8, <1>9, <1>10 DEF OrderInv

\* Without its first datagrams a part of the wire is still in order.
LEMMA RestRuns ==
  ASSUME NEW S, NEW s \in Seq(S), NEW t, NEW c \in Nat, Without(t, s, c)
  PROVE  Range(t) \subseteq Range(s) /\ (Run(s) => Run(t))
<1>1. Len(s) \in Nat /\ DOMAIN s = 1 .. Len(s)
  BY LenProperties
<1>2. \A i \in DOMAIN t : c + i \in DOMAIN s /\ t[i] = s[c + i] /\ i \in Int
  BY <1>1 DEF Without
<1>3. Range(t) \subseteq Range(s)
  BY <1>2 DEF Range
<1>4. ASSUME Run(s), NEW i \in DOMAIN t, NEW j \in DOMAIN t, i < j PROVE After(t[i], t[j])
  <2>1. c + i \in DOMAIN s /\ c + j \in DOMAIN s /\ t[i] = s[c + i] /\ t[j] = s[c + j]
        /\ c + i < c + j
    BY <1>2, <1>4
  <2>. QED
    BY <1>4, <2>1 DEF Run
<1>. QED
  BY <1>3, <1>4 DEF Run

\* The next datagram, and those behind it.
LEMMA HeadRuns ==
  ASSUME NEW S, NEW s \in Seq(S), s # <<>>
  PROVE  /\ Head(s) \in Range(s) /\ Range(Tail(s)) \subseteq Range(s)
         /\ Run(s) => Run(Tail(s)) /\ \A h \in Range(Tail(s)) : After(Head(s), h)
<1>1. /\ Len(s) \in Nat /\ Len(s) >= 1 /\ Head(s) = s[1] /\ DOMAIN s = 1 .. Len(s)
      /\ DOMAIN Tail(s) = 1 .. Len(s) - 1
      /\ \A i \in 1 .. Len(s) - 1 : i + 1 \in 1 .. Len(s) /\ Tail(s)[i] = s[i + 1]
  BY TailIs
<1>2. Range(Tail(s)) \subseteq Range(s) /\ (Run(s) => Run(Tail(s)))
  BY TailWithout, RestRuns
<1>3. Head(s) \in Range(s)
  BY <1>1 DEF Range
<1>4. ASSUME Run(s), NEW h \in Range(Tail(s)) PROVE After(Head(s), h)
  <2>1. PICK i \in 1 .. Len(s) - 1 : h = Tail(s)[i]
    BY <1>1 DEF Range
  <2>2. i + 1 \in DOMAIN s /\ 1 \in DOMAIN s /\ 1 < i + 1 /\ h = s[i + 1]
    BY <1>1, <2>1
  <2>. QED
    BY <1>1, <1>4, <2>2 DEF Run
<1>. QED
  BY <1>2, <1>3, <1>4

\* Two parts of the wire, the second after the first.
LEMMA CatRuns ==
  ASSUME NEW S, NEW s \in Seq(S), NEW t \in Seq(S), Run(s), Run(t),
         \A g \in Range(s), h \in Range(t) : After(g, h)
  PROVE  Run(s \o t) /\ Range(s \o t) \subseteq Range(s) \cup Range(t)
<1> DEFINE st == s \o t
<1>1. /\ Len(s) \in Nat /\ Len(t) \in Nat
      /\ DOMAIN s = 1 .. Len(s) /\ DOMAIN t = 1 .. Len(t)
      /\ DOMAIN st = 1 .. Len(s) + Len(t)
      /\ \A i \in 1 .. Len(s) : st[i] = s[i]
      /\ \A i \in Len(s) + 1 .. Len(s) + Len(t) :
           i - Len(s) \in 1 .. Len(t) /\ st[i] = t[i - Len(s)]
  BY CatIs
<1> HIDE DEF st
<1>2. \A i \in DOMAIN st : \/ i \in DOMAIN s /\ st[i] = s[i]
                           \/ i > Len(s) /\ i - Len(s) \in DOMAIN t /\ st[i] = t[i - Len(s)]
  BY <1>1
<1>3. Range(st) \subseteq Range(s) \cup Range(t)
  BY <1>2 DEF Range
<1>4. ASSUME NEW i \in DOMAIN st, NEW j \in DOMAIN st, i < j PROVE After(st[i], st[j])
  <2>1. CASE i \in DOMAIN s /\ st[i] = s[i] /\ j \in DOMAIN s /\ st[j] = s[j]
    BY <1>4, <2>1 DEF Run
  <2>2. CASE i \in DOMAIN s /\ st[i] = s[i] /\ j - Len(s) \in DOMAIN t /\ st[j] = t[j - Len(s)]
    BY <2>2 DEF Range
  <2>3. CASE i - Len(s) \in DOMAIN t /\ st[i] = t[i - Len(s)]
             /\ j - Len(s) \in DOMAIN t /\ st[j] = t[j - Len(s)]
    <3>1. i - Len(s) < j - Len(s)
      BY <1>1, <1>4
    <3>. QED
      BY <2>3, <3>1 DEF Run
  <2>4. ~(i > Len(s) /\ j \in DOMAIN s)
    BY <1>1, <1>4
  <2>. QED
    BY <1>2, <2>1, <2>2, <2>3, <2>4
<1>5. Run(st)
  BY <1>4 DEF Run
<1>. QED
  BY <1>3, <1>5 DEF st

\* A queue that may drop its oldest datagram.
LEMMA PushRuns ==
  ASSUME NEW S, NEW q \in Seq(S), NEW cap \in Nat \ {0}, NEW x \in S, Run(q),
         \A g \in Range(q) : After(g, x)
  PROVE  /\ Run(push_drop(q, cap, x))
         /\ Range(push_drop(q, cap, x)) \subseteq Range(q) \cup {x}
<1> DEFINE one == <<x>>
<1>1. one \in Seq(S) /\ Run(one) /\ Range(one) = {x}
  BY DEF Run, Range
<1>2. \A u \in Seq(S) : Append(u, x) = u \o one
  BY AppendIsConcat
<1> HIDE DEF one
<1>3. CASE Len(q) >= cap
  <2>1. q # <<>>
    BY <1>3, EmptySeq
  <2> DEFINE u == Tail(q)
  <2>2. u \in Seq(S) /\ Run(u) /\ Range(u) \subseteq Range(q)
    BY <2>1, TailIs, HeadRuns
  <2>3. push_drop(q, cap, x) = Append(u, x)
    BY <1>3 DEF push_drop
  <2> HIDE DEF u
  <2>4. Run(u \o one) /\ Range(u \o one) \subseteq Range(u) \cup Range(one)
    BY <1>1, <2>2, CatRuns
  <2>. QED
    BY <1>1, <1>2, <2>2, <2>3, <2>4
<1>4. CASE ~(Len(q) >= cap)
  <2>1. push_drop(q, cap, x) = Append(q, x)
    BY <1>4 DEF push_drop
  <2>2. Run(q \o one) /\ Range(q \o one) \subseteq Range(q) \cup Range(one)
    BY <1>1, CatRuns
  <2>. QED
    BY <1>1, <1>2, <2>1, <2>2
<1>. QED
  BY <1>3, <1>4

\* The entries of a sequence are of its set.
LEMMA ElemsIn == ASSUME NEW S, NEW s \in Seq(S) PROVE Range(s) \subseteq S
<1>1. \A i \in DOMAIN s : s[i] \in S
  BY LenProperties, ElementOfSeq
<1>. QED
  BY <1>1 DEF Range

\* The numbers of a part are numbers.
LEMMA UnitsNat ==
  ASSUME NEW S, NEW s \in Seq(S), \A x \in S : x.unit \in Nat
  PROVE  Units1(s) \subseteq Nat
<1>1. \A i \in DOMAIN s : s[i] \in S
  BY LenProperties, ElementOfSeq
<1>. QED
  BY <1>1 DEF Units1

\* Every number is one.
LEMMA Numbered ==
  ASSUME TypeInv
  PROVE  /\ coder.unit \in Nat /\ UnitsIn(Parts) \subseteq Nat
         /\ depay.rtp.building.nals # <<>> => UnitOf(depay.rtp.building) \in Nat
         /\ \A g \in Wire : g \in Datagram /\ UnitIn(g) \in Nat
<1> DEFINE P == Parts
<1>1. coder.unit \in Nat
  BY DEF TypeInv, SenderT
<1>2. /\ \A x \in Picture : x.unit \in Nat
      /\ \A x \in Packet : x.unit \in Nat
      /\ \A x \in Decoded : x.unit \in Nat
  BY DEF Picture, Packet, Decoded
<1>3. P[1] \in Seq(Picture) /\ P[2] \in Seq(Picture) /\ P[3] \in Seq(Picture)
      /\ P[4] \in Seq(Picture) /\ P[5] \in Seq(Decoded) /\ P[6] \in Seq(Packet)
      /\ P[7] \in Seq(Picture) /\ P[8] \in Seq(Picture) /\ P[9] \in Seq(Picture)
  <2>1. dec.in \in Seq(Packet) /\ dec.out \in Seq(Decoded) /\ dec.ready \in Seq(Picture)
    BY DecParts DEF TypeInv
  <2>2. Frames(depay.au_queue) \in Seq(Picture)
    BY FramesOK DEF TypeInv, NetT
  <2>3. <<shown>> \in Seq(Picture) /\ present_q \in Seq(Picture) /\ au_q \in Seq(Picture)
    BY DEF TypeInv, ShowT, QueueT
  <2>4. decode.pulled \in Seq(Picture) /\ decode.holding \in Seq(Picture)
    BY DEF TypeInv, DecodeT
  <2>. QED
    BY <2>1, <2>2, <2>3, <2>4, PartsAre
<1> HIDE DEF P
<1>4. /\ \A s \in Seq(Picture) : Units1(s) \subseteq Nat
      /\ \A s \in Seq(Packet) : Units1(s) \subseteq Nat
      /\ \A s \in Seq(Decoded) : Units1(s) \subseteq Nat
  BY <1>2, UnitsNat
<1>5. \A k \in 1 .. 9 : Units1(P[k]) \subseteq Nat
  BY <1>3, <1>4, Nine
<1>6. UnitsIn(P) \subseteq Nat
  BY <1>5 DEF UnitsIn
<1>7. depay.rtp.building.nals # <<>> => UnitOf(depay.rtp.building) \in Nat
  BY LastIs DEF TypeInv, NetT, Depack, Building, UnitOf
<1>8. \A g \in Wire : g \in Datagram
  BY ElemsIn DEF TypeInv, SenderT, LinkT, Wire
<1>9. \A g \in Wire : UnitIn(g) \in Nat
  BY <1>8 DEF Datagram, Piece, NalUnit, UnitIn
<1>. QED
  BY <1>1, <1>6, <1>7, <1>8, <1>9 DEF P

\* The wire has moved, or what is behind all of it has joined it.
LEMMA WireMoved ==
  ASSUME TypeInv, OrderInv, WireInv', coder'.unit \in Nat, coder.unit <= coder'.unit,
         \A g \in Wire' : g \in Wire \/ UnitIn(g) = coder.unit + 1,
         UNCHANGED <<depay, au_q, present_q, dec, decode, shown>>
  PROVE  OrderInv'
<1> DEFINE b == depay.rtp.building
<1>1. Parts' = Parts /\ depay'.rtp.building = b
  BY DEF Parts, Frames
<1>2. /\ coder.unit \in Nat /\ UnitsIn(Parts) \subseteq Nat
      /\ b.nals # <<>> => UnitOf(b) \in Nat
  BY Numbered
<1> HIDE DEF b
<1>3. BuildInv'
  <2>1. ASSUME b.nals # <<>>
        PROVE  UnitOf(b) <= coder'.unit /\ \A g \in Wire' : Before(b, g)
    <3>1. UnitOf(b) <= coder.unit /\ (\A g \in Wire : Before(b, g)) /\ UnitOf(b) \in Nat
      BY <1>2, <2>1 DEF OrderInv, BuildInv, b
    <3>2. \A g \in Wire' : UnitIn(g) = coder.unit + 1 => Before(b, g)
      BY <1>2, <3>1 DEF Before
    <3>. QED
      BY <1>2, <3>1, <3>2
  <2>. QED
    BY <1>1, <2>1 DEF BuildInv
<1>4. LineInv'
  <2>1. LineOK(Parts)
    BY DEF OrderInv, LineInv
  <2>2. ASSUME NEW u \in UnitsIn(Parts)
        PROVE  /\ u <= coder'.unit /\ (b.nals # <<>> => u < UnitOf(b))
               /\ \A g \in Wire' : u < UnitIn(g)
    <3>1. /\ u <= coder.unit /\ (b.nals # <<>> => u < UnitOf(b))
          /\ (\A g \in Wire : u < UnitIn(g)) /\ u \in Nat
      BY <1>2, <2>2 DEF OrderInv, LineInv, b
    <3>2. \A g \in Wire' : UnitIn(g) = coder.unit + 1 => u < UnitIn(g)
      BY <1>2, <3>1
    <3>. QED
      BY <1>2, <3>1, <3>2
  <2>. QED
    BY <1>1, <2>1, <2>2 DEF LineInv
<1>. QED
  BY <1>3, <1>4 DEF OrderInv

\* What the payloader adds: the datagrams of one unit, behind the others, of
\* which the oldest may go.
Paid(new, unit) ==
  /\ PackOf(new, unit, coder.pts)
  /\ pending \in Seq(Datagram) /\ new \in Seq(Datagram)
  /\ \E c \in Nat : c <= Len(pending \o new) /\ Without(pending', pending \o new, c)

\* The payloader sends one unit, one above those before it.
LEMMA PayIs ==
  ASSUME TypeInv, PayInput
  PROVE  \E new : Paid(new, coder.unit + 1)
<1>1. /\ coder \in [unit : 0 .. MaxUnits, pts : Nat] /\ packer \in Packer
      /\ pending \in Seq(Datagram)
  BY DEF TypeInv, SenderT
<1> DEFINE unit == coder.unit + 1
<1>2. PICK nals \in Coded(unit, coder.pts) :
        LET packed == pack_annexb(packer, nals, coder.pts, unit)
            all    == pending \o packed.datagrams
            over   == Len(all) - PendingCap
        IN  pending' = IF over > 0 THEN SubSeq(all, over + 1, Len(all)) ELSE all
  BY DEF PayInput
<1> DEFINE new  == pack_annexb(packer, nals, coder.pts, unit).datagrams
           all  == pending \o new
           over == Len(all) - PendingCap
<1>3. pending' = IF over > 0 THEN SubSeq(all, over + 1, Len(all)) ELSE all
  BY <1>2
<1>4. unit \in Nat /\ coder.pts \in Nat
  BY <1>1
<1> HIDE DEF unit
<1>5. PackOf(new, unit, coder.pts)
  BY <1>1, <1>4, PackOK
<1> HIDE DEF new
<1>6. new \in Seq(Datagram)
  BY <1>5 DEF PackOf
<1>7. all \in Seq(Datagram)
  BY <1>1, <1>6, CatIs
<1> HIDE DEF all
<1>8. \E c \in Nat : c <= Len(all) /\ Without(pending', all, c)
  <2>1. Len(all) \in Nat /\ DOMAIN all = 1 .. Len(all)
    BY <1>7, LenProperties
  <2>2. CASE over > 0
    <3>1. over \in Nat /\ over <= Len(all)
      BY <2>1, <2>2, BoundsAre
    <3>2. pending' = SubSeq(all, over + 1, Len(all))
      BY <1>3, <2>2
    <3> HIDE DEF over
    <3>3. Without(pending', all, over)
      BY <1>7, <3>1, <3>2, RestIs
    <3>. QED
      BY <3>1, <3>3
  <2>3. CASE ~(over > 0)
    <3>1. pending' = all /\ 0 <= Len(all)
      BY <1>3, <2>1, <2>3
    <3>2. Without(all, all, 0)
      BY <2>1 DEF Without
    <3>. QED
      BY <3>1, <3>2
  <2>. QED
    BY <2>2, <2>3
<1>9. Paid(new, unit)
  BY <1>1, <1>5, <1>6, <1>8 DEF Paid, all
<1>. QED
  BY <1>9 DEF unit

\* So its datagrams are after all others.
LEMMA OrderPay ==
  ASSUME TypeInv, OrderInv, PayInput
  PROVE  OrderInv'
<1>1. /\ coder.unit \in Nat /\ coder'.unit = coder.unit + 1 /\ payload_queue' = payload_queue
      /\ UNCHANGED <<depay, au_q, present_q, dec, decode, shown>>
  BY Numbered DEF PayInput, stages, screen
<1> DEFINE unit == coder.unit + 1
<1>2. PICK new : Paid(new, unit)
  BY PayIs
<1> DEFINE all == pending \o new
<1>3. PICK c \in Nat : c <= Len(all) /\ Without(pending', all, c)
  BY <1>2 DEF Paid
<1>4. unit \in Nat /\ unit = coder.unit + 1
  BY <1>1
<1> HIDE DEF unit
<1>5. PackOf(new, unit, coder.pts) /\ pending \in Seq(Datagram)
  BY <1>2 DEF Paid
<1>6. new \in Seq(Datagram) /\ Run(new) /\ \A h \in Range(new) : UnitIn(h) = unit
  <2>1. new \in Seq(Datagram) /\ DOMAIN new = 1 .. Len(new) /\ Len(new) \in Nat
    BY <1>5, LenProperties DEF PackOf
  <2>2. \A i \in DOMAIN new : /\ UnitIn(new[i]) = unit /\ new[i].ts = pts_to_rtp_ts(coder.pts)
                              /\ new[i].marker = (i = Len(new))
    BY <1>5 DEF PackOf
  <2>3. ASSUME NEW i \in DOMAIN new, NEW j \in DOMAIN new, i < j PROVE After(new[i], new[j])
    <3>1. i # Len(new)
      BY <2>1, <2>3
    <3>2. ~new[i].marker
      BY <2>2, <3>1
    <3>. QED
      BY <1>4, <2>2, <3>2 DEF After
  <2>4. Run(new)
    BY <2>3 DEF Run
  <2>. QED
    BY <2>1, <2>2, <2>4 DEF Range
<1>7. \A g \in Wire : UnitIn(g) \in Nat /\ UnitIn(g) <= coder.unit
  BY Numbered DEF OrderInv, WireInv
<1>8. \A g \in Wire, h \in Range(new) : After(g, h)
  BY <1>1, <1>4, <1>6, <1>7 DEF After
<1>9. all \in Seq(Datagram) /\ Run(all) /\ Range(all) \subseteq Range(pending) \cup Range(new)
  <2>1. Run(pending) /\ \A g \in Range(pending), h \in Range(new) : After(g, h)
    BY <1>8 DEF OrderInv, WireInv, Wire
  <2>. QED
    BY <1>5, <1>6, <2>1, CatRuns, CatIs
<1> HIDE DEF all
<1>10. Run(pending') /\ Range(pending') \subseteq Range(all)
  BY <1>3, <1>9, RestRuns
<1>11. \A g \in Wire' : g \in Wire \/ UnitIn(g) = unit
  BY <1>1, <1>6, <1>9, <1>10 DEF Wire
<1>12. WireInv'
  <2>1. Run(payload_queue')
    BY <1>1 DEF OrderInv, WireInv
  <2>2. \A g \in Range(payload_queue'), h \in Range(pending') : After(g, h)
    <3>1. \A g \in Range(payload_queue), h \in Range(pending) : After(g, h)
      BY DEF OrderInv, WireInv
    <3>2. \A g \in Range(payload_queue), h \in Range(new) : After(g, h)
      BY <1>8 DEF Wire
    <3>3. Range(payload_queue') = Range(payload_queue)
      BY <1>1
    <3>. QED
      BY <1>9, <1>10, <3>1, <3>2, <3>3
  <2>3. \A g \in Wire' : UnitIn(g) <= coder'.unit
    BY <1>1, <1>4, <1>7, <1>11
  <2>. QED
    BY <1>10, <2>1, <2>2, <2>3 DEF WireInv
<1>. QED
  BY <1>1, <1>4, <1>11, <1>12, WireMoved

\* The link delivers or loses the first, and a restart keeps the coder.
LEMMA OrderLink ==
  ASSUME TypeInv, OrderInv, Configure \/ Restart \/ Deliver \/ Lose
  PROVE  OrderInv'
<1>0. coder.unit \in Nat /\ coder \in [unit : 0 .. MaxUnits, pts : Nat]
      /\ pending \in Seq(Datagram) /\ payload_queue \in Seq(Datagram)
      /\ Len(payload_queue) <= QueueDepth
  BY DEF TypeInv, SenderT, LinkT
<1>1. /\ Run(payload_queue) /\ Run(pending)
      /\ \A g \in Range(payload_queue), h \in Range(pending) : After(g, h)
      /\ \A g \in Wire : UnitIn(g) <= coder.unit
  BY DEF OrderInv, WireInv
<1>2. coder'.unit = coder.unit /\ UNCHANGED <<depay, au_q, present_q, dec, decode, shown>>
  BY <1>0 DEF Configure, Restart, NewPacker, Deliver, Lose, stages, screen
<1>3. /\ Run(payload_queue') /\ Run(pending')
      /\ \A g \in Range(payload_queue'), h \in Range(pending') : After(g, h)
      /\ Wire' \subseteq Wire
  <2>1. CASE Configure
    <3>1. UNCHANGED <<pending, payload_queue>>
      BY <2>1 DEF Configure, NewPacker
    <3>. QED
      BY <1>1, <3>1 DEF Run, Range, Wire
  <2>2. CASE Restart
    <3>1. pending' = <<>> /\ payload_queue' = payload_queue
      BY <2>2 DEF Restart, NewPacker
    <3>2. Run(<<>>) /\ Range(<<>>) = {}
      BY DEF Run, Range
    <3>3. Range(pending') = {} /\ Range(payload_queue') = Range(payload_queue)
      BY <3>1, <3>2
    <3>. QED
      BY <1>1, <3>1, <3>2, <3>3 DEF Wire
  <2>3. CASE Deliver
    <3> DEFINE x == Head(pending)
               t == Tail(pending)
               q == push_drop(payload_queue, QueueDepth, x)
    <3>1. pending # <<>> /\ pending' = t /\ payload_queue' = q
      BY <2>3 DEF Deliver, enqueue_payload_buffer
    <3>2. /\ x \in Range(pending) /\ Range(t) \subseteq Range(pending) /\ Run(t)
          /\ (\A h \in Range(t) : After(x, h)) /\ x \in Datagram
      BY <1>0, <1>1, <3>1, HeadRuns, TailIs
    <3> HIDE DEF x, t
    <3>3. Run(q) /\ Range(q) \subseteq Range(payload_queue) \cup {x}
      BY <1>0, <1>1, <3>2, PushRuns, BoundsAre
    <3> HIDE DEF q
    <3>4. \A g \in Range(q), h \in Range(t) : After(g, h)
      BY <1>1, <3>2, <3>3
    <3>5. Range(pending') = Range(t) /\ Range(payload_queue') = Range(q)
      BY <3>1
    <3>. QED
      BY <3>1, <3>2, <3>3, <3>4, <3>5 DEF Wire
  <2>4. CASE Lose
    <3> DEFINE t == Tail(pending)
    <3>1. pending # <<>> /\ pending' = t /\ payload_queue' = payload_queue
      BY <2>4 DEF Lose
    <3>2. Range(t) \subseteq Range(pending) /\ Run(t)
      BY <1>0, <1>1, <3>1, HeadRuns
    <3> HIDE DEF t
    <3>3. Range(pending') = Range(t) /\ Range(payload_queue') = Range(payload_queue)
      BY <3>1
    <3>. QED
      BY <1>1, <3>1, <3>2, <3>3 DEF Wire
  <2>. QED
    BY <2>1, <2>2, <2>3, <2>4
<1>4. WireInv'
  BY <1>1, <1>2, <1>3 DEF WireInv
<1>. QED
  BY <1>0, <1>2, <1>3, <1>4, WireMoved

(************************* Order: the depacketizer *************************)

\* What a datagram finishes, and what it goes on with.
LEMMA OneItem ==
  ASSUME NEW b \in Building, b.nals # <<>>
  PROVE  Frames(Items(<<b>>)) \in Seq(Picture) /\ Units1(Frames(Items(<<b>>))) = {UnitOf(b)}
         /\ Rise(Frames(Items(<<b>>)))
<1> DEFINE s == <<b>>
           f == Frames(Items(s))
<1>1. s \in Seq(Building) /\ DOMAIN s = {1} /\ s[1] = b
  OBVIOUS
<1> HIDE DEF s
<1>2. /\ Items(s) \in Seq(Whole) /\ DOMAIN Items(s) = DOMAIN s
      /\ \A i \in DOMAIN s : Frames(Items(s))[i].unit = UnitOf(s[i])
  BY <1>1, ItemsOK
<1>3. f \in Seq(Picture) /\ DOMAIN f = {1} /\ f[1].unit = UnitOf(b)
  BY <1>1, <1>2, FramesOK
<1> HIDE DEF f
<1>4. Units1(f) = {UnitOf(b)} /\ Rise(f)
  BY <1>3 DEF Units1, Rise
<1>. QED
  BY <1>3, <1>4 DEF f, s

\* The queue entries of two lists of finished units.
LEMMA ItemsCat ==
  ASSUME NEW s \in Seq(Building), NEW t \in Seq(Building),
         \A i \in DOMAIN s : s[i].nals # <<>>, \A i \in DOMAIN t : t[i].nals # <<>>
  PROVE  Items(s \o t) = Items(s) \o Items(t)
<1> DEFINE st == s \o t
           l  == Items(st)
           fs == Items(s)
           ft == Items(t)
           r  == fs \o ft
<1>1. /\ st \in Seq(Building) /\ Len(s) \in Nat /\ Len(t) \in Nat
      /\ Len(st) = Len(s) + Len(t)
      /\ DOMAIN s = 1 .. Len(s) /\ DOMAIN t = 1 .. Len(t) /\ DOMAIN st = 1 .. Len(s) + Len(t)
      /\ \A i \in 1 .. Len(s) : st[i] = s[i]
      /\ \A i \in Len(s) + 1 .. Len(s) + Len(t) :
           i - Len(s) \in 1 .. Len(t) /\ st[i] = t[i - Len(s)]
  BY CatIs
<1> HIDE DEF st
<1>2. \A i \in DOMAIN st : st[i].nals # <<>>
  <2>1. \A i \in DOMAIN st : i \in 1 .. Len(s) \/ i \in Len(s) + 1 .. Len(s) + Len(t)
    BY <1>1
  <2>. QED
    BY <1>1, <2>1
<1>3. l \in Seq(Whole) /\ fs \in Seq(Whole) /\ ft \in Seq(Whole)
      /\ DOMAIN l = DOMAIN st /\ DOMAIN fs = DOMAIN s /\ DOMAIN ft = DOMAIN t
  BY <1>1, <1>2, ItemsOK
<1>4. /\ \A i \in 1 .. Len(st) : l[i] = au_item(st[i])
      /\ \A i \in 1 .. Len(s) : fs[i] = au_item(s[i])
      /\ \A i \in 1 .. Len(t) : ft[i] = au_item(t[i])
  BY <1>1 DEF Items
<1> HIDE DEF l, fs, ft
<1>5. Len(l) = Len(st) /\ Len(fs) = Len(s) /\ Len(ft) = Len(t)
  BY <1>1, <1>3, LenProperties
<1>6. /\ r \in Seq(Whole) /\ Len(r) = Len(fs) + Len(ft)
      /\ \A i \in 1 .. Len(fs) : r[i] = fs[i]
      /\ \A i \in Len(fs) + 1 .. Len(fs) + Len(ft) :
           i - Len(fs) \in 1 .. Len(ft) /\ r[i] = ft[i - Len(fs)]
  <2>1. fs \in Seq(Whole) /\ ft \in Seq(Whole)
    BY <1>3
  <2>. QED
    BY <2>1, CatIs, Zenon
<1> HIDE DEF r
<1>7. ASSUME NEW i \in 1 .. Len(l) PROVE l[i] = r[i]
  <2>1. CASE i \in 1 .. Len(s)
    BY <1>1, <1>4, <1>5, <1>6, <1>7, <2>1
  <2>2. CASE i \in Len(s) + 1 .. Len(s) + Len(t)
    BY <1>1, <1>4, <1>5, <1>6, <1>7, <2>2
  <2>. QED
    BY <1>1, <1>5, <2>1, <2>2
<1>8. Len(l) = Len(r)
  BY <1>1, <1>5, <1>6
<1>9. l = r
  BY <1>3, <1>6, <1>7, <1>8, SeqEqual
<1>. QED
  BY <1>9 DEF l, r, fs, ft, st

\* No finished unit, no frame.
LEMMA ItemNone == Frames(Items(<<>>)) = <<>>
BY DEF Frames, Items

\* The frames of what is finished.
LEMMA OutgoingRises ==
  ASSUME NEW b \in Building, NEW g, NEW e \in Building,
         Ended(b, g) /\ b.nals # <<>> /\ g.marker /\ e.nals # <<>> => UnitOf(b) < UnitOf(e)
  PROVE  LET f == Frames(Items(Outgoing(b, g, e))) IN
         /\ Rise(f)
         /\ \A u \in Units1(f) : \/ Ended(b, g) /\ b.nals # <<>> /\ u = UnitOf(b)
                                 \/ g.marker /\ e.nals # <<>> /\ u = UnitOf(e)
<1> DEFINE f == Frames(Items(Outgoing(b, g, e)))
           A == Ended(b, g) /\ b.nals # <<>>
           B == g.marker /\ e.nals # <<>>
           sb == <<b>>
           se == <<e>>
           fb == Frames(Items(sb))
           fe == Frames(Items(se))
<1>1. <<>> \o <<>> = <<>>
      /\ <<b>> \o <<>> = <<b>> /\ <<>> \o <<e>> = <<e>>
  OBVIOUS
<1>2. Rise(<<>>) /\ Units1(<<>>) = {}
  BY OneRises
<1>3. A => /\ fb \in Seq(Picture) /\ Units1(fb) = {UnitOf(b)} /\ Rise(fb)
  BY OneItem
<1>4. B => /\ fe \in Seq(Picture) /\ Units1(fe) = {UnitOf(e)} /\ Rise(fe)
  BY OneItem
<1>5. CASE A /\ B
  <2>1. Outgoing(b, g, e) = sb \o se
    BY <1>5 DEF Outgoing
  <2>2. sb \in Seq(Building) /\ DOMAIN sb = {1} /\ sb[1] = b
        /\ se \in Seq(Building) /\ DOMAIN se = {1} /\ se[1] = e
    OBVIOUS
  <2> HIDE DEF sb, se
  <2>3. Items(sb \o se) = Items(sb) \o Items(se)
        /\ Items(sb) \in Seq(Whole) /\ Items(se) \in Seq(Whole)
    BY <1>5, <2>2, ItemsCat, ItemsOK
  <2>4. f = fb \o fe
    BY <2>1, <2>3, FramesCat
  <2>5. fb \in Seq(Picture) /\ fe \in Seq(Picture)
    BY <1>3, <1>4, <1>5
  <2> HIDE DEF f, fb, fe
  <2>6. /\ Units1(fb \o fe) = Units1(fb) \cup Units1(fe)
        /\ Rise(fb) /\ Rise(fe) /\ Below(Units1(fb), Units1(fe)) => Rise(fb \o fe)
    BY <2>5, CatRises, Zenon
  <2>7. Below(Units1(fb), Units1(fe))
    BY <1>3, <1>4, <1>5 DEF Below
  <2>8. Rise(f) /\ Units1(f) = {UnitOf(b)} \cup {UnitOf(e)}
    BY <1>3, <1>4, <1>5, <2>4, <2>6, <2>7
  <2>. QED
    BY <1>5, <2>8 DEF f
<1>6. CASE A /\ ~B
  <2>1. Outgoing(b, g, e) = sb
    BY <1>1, <1>6 DEF Outgoing
  <2>2. f = fb
    BY <2>1
  <2> HIDE DEF f, fb
  <2>. QED
    BY <1>3, <1>6, <2>2 DEF f
<1>7. CASE ~A /\ B
  <2>1. Outgoing(b, g, e) = se
    BY <1>1, <1>7 DEF Outgoing
  <2>2. f = fe
    BY <2>1
  <2> HIDE DEF f, fe
  <2>. QED
    BY <1>4, <1>7, <2>2 DEF f
<1>8. CASE ~A /\ ~B
  <2>1. Outgoing(b, g, e) = <<>>
    BY <1>1, <1>8 DEF Outgoing
  <2>2. f = <<>>
    BY <2>1, ItemNone
  <2> HIDE DEF f
  <2>. QED
    BY <1>2, <2>2 DEF f
<1>. QED
  BY <1>5, <1>6, <1>7, <1>8

\* The numbers of what is finished are the old unit's or the datagram's, which
\* is then its last; what goes on is after them.
LEMMA FedRises ==
  ASSUME NEW d \in Depack, NEW g \in Datagram, NEW r, NEW e \in Building, Fed(d, g, r, e),
         d.building.nals # <<>> => Before(d.building, g)
  PROVE  LET b == d.building
             c == r.building
             f == Frames(Items(r.completed))
         IN  /\ Rise(f)
             /\ \A u \in Units1(f) : /\ u \in Nat /\ u <= UnitIn(g) /\ (u = UnitIn(g) => g.marker)
                                     /\ u = UnitIn(g) \/ (b.nals # <<>> /\ u = UnitOf(b))
             /\ c.nals # <<>> =>
                  /\ UnitOf(c) \in Nat /\ UnitOf(c) <= UnitIn(g) /\ c.ts = g.ts
                  /\ UnitOf(c) = UnitIn(g) \/ (b.nals # <<>> /\ UnitOf(c) = UnitOf(b))
                  /\ \A u \in Units1(f) : u < UnitOf(c)
<1> DEFINE b == d.building
           c == r.building
           f == Frames(Items(r.completed))
           o == Goes(b, g)
<1>1. b \in Building /\ o \in Building /\ (Ended(b, g) => o.nals = <<>>) /\ (~Ended(b, g) => o = b)
  BY NoAuOK DEF Goes, Depack
<1>2. UnitIn(g) \in Nat
  BY DEF UnitIn, Datagram, Piece, NalUnit
<1>3. /\ e.ts = g.ts
      /\ e.nals = o.nals \/ (e.nals # <<>> /\ UnitOf(e) = UnitIn(g))
  <2>1. TimesOf(o, g).ts = g.ts /\ TimesOf(o, g).nals = o.nals
    BY <1>1 DEF TimesOf, Building
  <2> HIDE DEF o
  <2>2. Grown(TimesOf(o, g), e, g.payload)
    BY DEF Fed, o
  <2>. QED
    BY <2>1, <2>2 DEF Grown, UnitOf, UnitIn
<1>4. /\ b.nals # <<>> => UnitOf(b) \in Nat
      /\ e.nals # <<>> => UnitOf(e) \in Nat
  BY <1>1, LastIs DEF Building, UnitOf
<1>5. e.nals # <<>> => \/ UnitOf(e) = UnitIn(g)
                       \/ ~Ended(b, g) /\ b.nals # <<>> /\ UnitOf(e) = UnitOf(b)
  BY <1>1, <1>3 DEF UnitOf
<1>6. b.nals # <<>> => UnitOf(b) <= UnitIn(g) /\ (UnitOf(b) = UnitIn(g) => b.ts = g.ts)
  BY DEF Before
<1>7. Ended(b, g) /\ b.nals # <<>> => UnitOf(b) < UnitIn(g)
  BY <1>2, <1>4, <1>6 DEF Ended
<1>8. r.completed = Outgoing(b, g, e) /\ c = IF g.marker THEN NoAu ELSE e
  BY DEF Fed
<1> HIDE DEF b, c, o
<1>9. /\ Rise(f)
      /\ \A u \in Units1(f) : \/ Ended(b, g) /\ b.nals # <<>> /\ u = UnitOf(b)
                              \/ g.marker /\ e.nals # <<>> /\ u = UnitOf(e)
  <2>1. Ended(b, g) /\ b.nals # <<>> /\ g.marker /\ e.nals # <<>> => UnitOf(b) < UnitOf(e)
    BY <1>5, <1>7
  <2>. QED
    BY <1>1, <1>8, <2>1, OutgoingRises
<1> HIDE DEF f
<1>10. \A u \in Units1(f) : /\ u \in Nat /\ u <= UnitIn(g) /\ (u = UnitIn(g) => g.marker)
                            /\ u = UnitIn(g) \/ (b.nals # <<>> /\ u = UnitOf(b))
  BY <1>2, <1>4, <1>5, <1>6, <1>7, <1>9
<1>11. ASSUME c.nals # <<>>
       PROVE  /\ UnitOf(c) \in Nat /\ UnitOf(c) <= UnitIn(g) /\ c.ts = g.ts
              /\ UnitOf(c) = UnitIn(g) \/ (b.nals # <<>> /\ UnitOf(c) = UnitOf(b))
              /\ \A u \in Units1(f) : u < UnitOf(c)
  <2>1. ~g.marker /\ c = e
    BY <1>8, <1>11, NoAuOK
  <2>2. \A u \in Units1(f) : Ended(b, g) /\ b.nals # <<>> /\ u = UnitOf(b)
    BY <1>9, <2>1
  <2>3. \A u \in Units1(f) : u < UnitOf(c)
    BY <1>5, <1>7, <1>11, <2>1, <2>2
  <2>. QED
    BY <1>2, <1>3, <1>4, <1>5, <1>6, <1>11, <2>1, <2>3
<1>. QED
  BY <1>9, <1>10, <1>11 DEF b, c, f

\* What the next datagram does: the queue and the unit in progress, on terms of
\* the datagrams behind it.
LEMMA Received ==
  ASSUME TypeInv, NetReceive
  PROVE  LET g == Head(payload_queue)
             r == feed(depay.rtp, g)
             b == depay.rtp.building
             c == depay'.rtp.building
             a == Frames(Items(r.completed))
         IN  /\ g \in Datagram /\ g \in Wire /\ UnitIn(g) \in Nat
             /\ payload_queue # <<>> /\ payload_queue' = Tail(payload_queue)
             /\ UNCHANGED <<coder, packer, packers, pending, au_q, present_q, dec, decode,
                            shown>>
             /\ depay.rtp \in Depack /\ depay.rtp.completed = <<>>
             /\ r \in Depack /\ r.completed \in Seq(Building)
             /\ \A i \in DOMAIN r.completed : r.completed[i].nals # <<>>
             /\ depay'.au_queue = push_au(depay.au_queue, r.completed)
             /\ c = r.building
             /\ \/ c = b /\ a = <<>> /\ r.completed = <<>>
                \/ \E e \in Building : Fed(depay.rtp, g, r, e)
<1> DEFINE g == Head(payload_queue)
           r == feed(depay.rtp, g)
<1>1. /\ payload_queue # <<>> /\ payload_queue' = Tail(payload_queue)
      /\ depay' = [rtp |-> [r EXCEPT !.completed = <<>>],
                   au_queue |-> push_au(depay.au_queue, r.completed)]
      /\ UNCHANGED <<coder, packer, packers, pending, au_q, present_q, dec, decode, shown>>
  BY DEF NetReceive, MayReceive, sender, screen
<1>2. depay.rtp \in Depack /\ depay.rtp.completed = <<>> /\ payload_queue \in Seq(Datagram)
  BY DEF TypeInv, NetT, LinkT
<1>3. g \in Datagram /\ g \in Wire /\ UnitIn(g) \in Nat
  <2>1. g \in Datagram /\ g \in Range(payload_queue)
    BY <1>1, <1>2, TailIs, HeadRuns
  <2>. QED
    BY <2>1, Numbered DEF Wire
<1> HIDE DEF g
<1>4. /\ r \in Depack /\ r.completed \in Seq(Building)
      /\ \A i \in DOMAIN r.completed : r.completed[i].nals # <<>>
      /\ r = depay.rtp \/ \E e \in Building : Fed(depay.rtp, g, r, e)
  BY <1>2, <1>3, FedCompleted, FeedOK
<1> HIDE DEF r
<1>5. depay'.rtp.building = r.building
      /\ depay'.au_queue = push_au(depay.au_queue, r.completed)
  BY <1>1, <1>4 DEF Depack
<1>6. r = depay.rtp => /\ r.completed = <<>> /\ Frames(Items(r.completed)) = <<>>
                       /\ depay'.rtp.building = depay.rtp.building
  BY <1>2, <1>5, ItemNone
<1>. QED
  BY <1>1, <1>2, <1>3, <1>4, <1>5, <1>6 DEF g, r

\* The new units of the queue are behind the line and before what is to come.
LEMMA LineGrows ==
  ASSUME NEW P, NEW Q, LineOK(P), NEW a, Rise(Q[9]), Below(UnitsIn(P), Units1(a)),
         Units1(Q[9]) \subseteq Units1(P[9]) \cup Units1(a),
         \A k \in 1 .. 9 : k # 9 => Q[k] = P[k]
  PROVE  LineOK(Q) /\ UnitsIn(Q) \subseteq UnitsIn(P) \cup Units1(a)
<1>1. \A k \in 1 .. 9 : Rise(Q[k]) /\ Units1(P[k]) \subseteq UnitsIn(P)
  BY DEF LineOK, UnitsIn
<1>2. ASSUME NEW k \in 1 .. 9, NEW l \in 1 .. 9, k < l
      PROVE  Below(Units1(Q[k]), Units1(Q[l]))
  <2>1. k # 9 /\ Q[k] = P[k]
    BY <1>2
  <2>2. Below(Units1(P[k]), Units1(P[l])) /\ Below(Units1(P[k]), Units1(a))
    BY <1>1, <1>2 DEF LineOK, Below
  <2>3. Units1(Q[l]) \subseteq Units1(P[l]) \cup Units1(a)
    <3>1. CASE l = 9
      BY <3>1
    <3>2. CASE l # 9
      BY <3>2
    <3>. QED
      BY <3>1, <3>2
  <2>. QED
    BY <2>1, <2>2, <2>3 DEF Below
<1>3. LineOK(Q)
  BY <1>1, <1>2 DEF LineOK
<1>4. UnitsIn(Q) \subseteq UnitsIn(P) \cup Units1(a)
  <2>1. \A k \in 1 .. 9 : Units1(Q[k]) \subseteq UnitsIn(P) \cup Units1(a)
    BY <1>1
  <2>. QED
    BY <2>1 DEF UnitsIn
<1>. QED
  BY <1>3, <1>4

\* The network thread takes a datagram.
LEMMA OrderReceive ==
  ASSUME TypeInv, OrderInv, NetReceive
  PROVE  OrderInv'
<1> DEFINE g == Head(payload_queue)
           r == feed(depay.rtp, g)
           s == r.completed
           a == Frames(Items(s))
           b == depay.rtp.building
           c == depay'.rtp.building
           P == Parts
           Q == Parts'
<1>1. /\ g \in Datagram /\ g \in Wire /\ UnitIn(g) \in Nat
      /\ payload_queue # <<>> /\ payload_queue' = Tail(payload_queue)
      /\ UNCHANGED <<coder, packer, packers, pending, au_q, present_q, dec, decode, shown>>
  BY Received
<1>2. depay.rtp \in Depack /\ s \in Seq(Building) /\ \A i \in DOMAIN s : s[i].nals # <<>>
  BY Received
<1>3. depay'.au_queue = push_au(depay.au_queue, s) /\ c = r.building
  BY Received
<1>4. (c = b /\ a = <<>>) \/ \E e \in Building : Fed(depay.rtp, g, r, e)
  BY Received
<1>5. /\ \A h \in Wire' : h \in Wire /\ After(g, h) /\ UnitIn(h) \in Nat
      /\ WireInv'
  <2>1. payload_queue \in Seq(Datagram)
    BY DEF TypeInv, LinkT
  <2>2. /\ Run(payload_queue) /\ Run(pending)
        /\ \A x \in Range(payload_queue), h \in Range(pending) : After(x, h)
        /\ \A x \in Wire : UnitIn(x) <= coder.unit
    BY DEF OrderInv, WireInv
  <2> DEFINE t == Tail(payload_queue)
  <2>3. /\ g \in Range(payload_queue) /\ Range(t) \subseteq Range(payload_queue)
        /\ Run(t) /\ \A h \in Range(t) : After(g, h)
    BY <1>1, <2>1, <2>2, HeadRuns
  <2> HIDE DEF t, g
  <2>4. Range(payload_queue') = Range(t) /\ Range(pending') = Range(pending) /\ Run(payload_queue')
        /\ Run(pending') /\ coder'.unit = coder.unit
    BY <1>1, <2>2, <2>3 DEF t
  <2>5. \A h \in Wire' : h \in Wire /\ After(g, h)
    BY <2>2, <2>3, <2>4 DEF Wire
  <2>6. WireInv'
    BY <2>2, <2>3, <2>4, <2>5 DEF WireInv
  <2>. QED
    BY <2>5, <2>6, Numbered
<1>6. /\ LineOK(P) /\ UnitsIn(P) \subseteq Nat /\ coder.unit \in Nat /\ UnitIn(g) <= coder.unit
      /\ \A u \in UnitsIn(P) : /\ u <= coder.unit /\ u < UnitIn(g)
                               /\ b.nals # <<>> => u < UnitOf(b)
      /\ b.nals # <<>> => Before(b, g) /\ UnitOf(b) \in Nat
      /\ b.nals # <<>> => \A h \in Wire : Before(b, h)
      /\ b.nals # <<>> => UnitOf(b) <= coder.unit
  BY <1>1, Numbered DEF OrderInv, LineInv, BuildInv, WireInv
<1>7. Q[9] = Frames(push_au(depay.au_queue, s)) /\ P[9] = Frames(depay.au_queue)
      /\ \A k \in 1 .. 9 : k # 9 => Q[k] = P[k]
  BY <1>1, <1>3, PartsAre, Nine
<1> HIDE DEF P, Q
<1>8. /\ Rise(a)
      /\ \A u \in Units1(a) : /\ u \in Nat /\ u <= UnitIn(g) /\ (u = UnitIn(g) => g.marker)
                              /\ u = UnitIn(g) \/ (b.nals # <<>> /\ u = UnitOf(b))
      /\ c.nals # <<>> =>
           /\ UnitOf(c) \in Nat /\ (c = b \/ (UnitOf(c) <= UnitIn(g) /\ c.ts = g.ts))
           /\ UnitOf(c) = UnitIn(g) \/ (b.nals # <<>> /\ UnitOf(c) = UnitOf(b))
           /\ \A u \in Units1(a) : u < UnitOf(c)
  <2>1. ASSUME NEW e \in Building, Fed(depay.rtp, g, r, e)
        PROVE  /\ Rise(a)
               /\ \A u \in Units1(a) : /\ u \in Nat /\ u <= UnitIn(g) /\ (u = UnitIn(g) => g.marker)
                                       /\ u = UnitIn(g) \/ (b.nals # <<>> /\ u = UnitOf(b))
               /\ c.nals # <<>> =>
                    /\ UnitOf(c) \in Nat /\ UnitOf(c) <= UnitIn(g) /\ c.ts = g.ts
                    /\ UnitOf(c) = UnitIn(g) \/ (b.nals # <<>> /\ UnitOf(c) = UnitOf(b))
                    /\ \A u \in Units1(a) : u < UnitOf(c)
    <3> HIDE DEF g, r
    <3>1. b.nals # <<>> => Before(b, g)
      BY <1>6
    <3> DEFINE k == r.building
    <3>2. /\ Rise(a)
          /\ \A u \in Units1(a) : /\ u \in Nat /\ u <= UnitIn(g) /\ (u = UnitIn(g) => g.marker)
                                  /\ u = UnitIn(g) \/ (b.nals # <<>> /\ u = UnitOf(b))
          /\ k.nals # <<>> =>
               /\ UnitOf(k) \in Nat /\ UnitOf(k) <= UnitIn(g) /\ k.ts = g.ts
               /\ UnitOf(k) = UnitIn(g) \/ (b.nals # <<>> /\ UnitOf(k) = UnitOf(b))
               /\ \A u \in Units1(a) : u < UnitOf(k)
      BY <1>1, <1>2, <2>1, <3>1, FedRises
    <3>3. c = k
      BY <1>3
    <3> HIDE DEF k, c, a, b
    <3>. QED
      BY <3>2, <3>3
  <2> HIDE DEF a, b, c, g, r
  <2>2. CASE c = b /\ a = <<>>
    <3>1. Rise(a) /\ Units1(a) = {}
      BY <2>2, OneRises
    <3>. QED
      BY <1>6, <2>2, <3>1
  <2>. QED
    BY <1>4, <2>1, <2>2
<1>9. Rise(Q[9]) /\ Units1(Q[9]) \subseteq Units1(P[9]) \cup Units1(a)
      /\ Below(UnitsIn(P), Units1(a))
  <2>1. Below(UnitsIn(P), Units1(a))
    BY <1>6, <1>8 DEF Below
  <2>2. Rise(P[9]) /\ Below(Units1(P[9]), Units1(a))
    BY <1>6, <2>1 DEF LineOK, UnitsIn, Below
  <2>3. depay.au_queue \in Seq(Whole)
    BY DEF TypeInv, NetT
  <2> HIDE DEF s
  <2> DEFINE q == push_au(depay.au_queue, s)
  <2>4. /\ Units1(Frames(q)) \subseteq Units1(Frames(depay.au_queue)) \cup Units1(a)
        /\ Rise(Frames(depay.au_queue)) /\ Rise(a)
              /\ Below(Units1(Frames(depay.au_queue)), Units1(a)) => Rise(Frames(q))
    BY <1>2, <2>3, PushAuOK
  <2> HIDE DEF a, q
  <2>. QED
    BY <1>7, <1>8, <2>1, <2>2, <2>4 DEF q
<1> HIDE DEF a, b, c, g, s
<1>10. LineOK(Q) /\ UnitsIn(Q) \subseteq UnitsIn(P) \cup Units1(a)
  BY <1>6, <1>7, <1>9, LineGrows
<1>11. BuildInv'
  <2>1. ASSUME c.nals # <<>> PROVE UnitOf(c) <= coder.unit /\ \A h \in Wire' : Before(c, h)
    <3>1. UnitOf(c) \in Nat /\ UnitOf(c) <= coder.unit
      BY <1>6, <1>8, <1>1, <2>1
    <3>2. ASSUME NEW h \in Wire' PROVE Before(c, h)
      <4>1. CASE c = b
        BY <1>5, <1>6, <2>1, <4>1
      <4>2. CASE UnitOf(c) <= UnitIn(g) /\ c.ts = g.ts
        BY <1>1, <1>5, <3>1, <4>2 DEF After, Before
      <4>. QED
        BY <1>8, <2>1, <4>1, <4>2
    <3>. QED
      BY <3>1, <3>2
  <2>. QED
    BY <1>1, <2>1 DEF BuildInv, c
<1>12. LineInv'
  <2>1. ASSUME NEW u \in UnitsIn(P) \cup Units1(a)
        PROVE  /\ u <= coder.unit /\ (c.nals # <<>> => u < UnitOf(c))
               /\ \A h \in Wire' : u < UnitIn(h)
    <3>1. CASE u \in UnitsIn(P)
      <4>1. \A h \in Wire' : u < UnitIn(h)
        BY <1>5, <3>1 DEF OrderInv, LineInv, P
      <4>. QED
        BY <1>6, <1>8, <3>1, <4>1
    <3>2. CASE u \in Units1(a)
      <4>1. \A h \in Wire' : /\ UnitIn(g) <= UnitIn(h) /\ UnitIn(h) \in Nat
                             /\ UnitIn(g) = UnitIn(h) => ~g.marker
        BY <1>5 DEF After
      <4>. QED
        BY <1>1, <1>6, <1>8, <3>2, <4>1
    <3>. QED
      BY <3>1, <3>2
  <2>. QED
    BY <1>1, <1>10, <2>1 DEF LineInv, Q, c
<1>. QED
  BY <1>5, <1>11, <1>12 DEF OrderInv

\* OrderInv is inductive, where the types are right.
LEMMA OrderStep == TypeInv /\ OrderInv /\ [Next]_vars => OrderInv'
<1> SUFFICES ASSUME TypeInv, OrderInv, [Next]_vars PROVE OrderInv'
  OBVIOUS
<1>1. CASE Sender
  BY <1>1, OrderPay, OrderLink DEF Sender
<1>2. CASE Net
  <2>1. CASE NetLeave
    BY <2>1, LineSame DEF NetLeave, sender, screen
  <2>. QED
    BY <1>2, <2>1, OrderReceive, LineForward DEF Net
<1>3. CASE Decode
  BY <1>3, LineTake, LineFeed, LinePull, LinePush, LineLeave DEF Decode
<1>4. CASE MppDecode
  BY <1>4, LineMpp
<1>5. CASE Display
  <2>1. CASE PresentLeave
    BY <2>1, LineSame DEF PresentLeave, sender, screen
  <2>. QED
    BY <1>5, <2>1, LinePresent DEF Display
<1>6. CASE request_stop
  BY <1>6, LineSame DEF request_stop, sender, stages, screen
<1>7. CASE Close
  BY <1>7, LineClose
<1>8. CASE UNCHANGED vars
  BY <1>8, LineSame DEF vars, sender, stages, screen
<1>. QED
  BY <1>1, <1>2, <1>3, <1>4, <1>5, <1>6, <1>7, <1>8 DEF Next

\* And an invariant.
LEMMA OrderAlways == Spec => []OrderInv
BY OrderInit, OrderStep, TypesAlways, PTL DEF Spec

(******************** Order: one line, from end to end *********************)

\* The numbers of a part, and a list of them that increases.
Nums(s) == [i \in DOMAIN s |-> s[i].unit]
Inc(s)  == \A i, j \in DOMAIN s : i < j => s[i] < s[j]

\* The numbers of the first k parts, and those of one part.
UpTo(P, k, s) ==
  s \in Seq(Nat) /\ Inc(s) /\ \A x \in Range(s) : \E l \in 1 .. k : x \in Units1(P[l])
PartIs(P, k, s) == s \in Seq(Nat) /\ Inc(s) /\ Range(s) \subseteq Units1(P[k])

\* Two increasing lists, the second above the first.
LEMMA IncCat ==
  ASSUME NEW s \in Seq(Nat), NEW t \in Seq(Nat), Inc(s), Inc(t),
         \A x \in Range(s), y \in Range(t) : x < y
  PROVE  s \o t \in Seq(Nat) /\ Inc(s \o t) /\ Range(s \o t) \subseteq Range(s) \cup Range(t)
<1> DEFINE st == s \o t
<1>1. /\ st \in Seq(Nat) /\ Len(s) \in Nat /\ Len(t) \in Nat
      /\ DOMAIN s = 1 .. Len(s) /\ DOMAIN t = 1 .. Len(t)
      /\ DOMAIN st = 1 .. Len(s) + Len(t)
      /\ \A i \in 1 .. Len(s) : st[i] = s[i]
      /\ \A i \in Len(s) + 1 .. Len(s) + Len(t) :
           i - Len(s) \in 1 .. Len(t) /\ st[i] = t[i - Len(s)]
  BY CatIs
<1> HIDE DEF st
<1>2. \A i \in DOMAIN st : \/ i \in DOMAIN s /\ st[i] = s[i]
                           \/ i > Len(s) /\ i - Len(s) \in DOMAIN t /\ st[i] = t[i - Len(s)]
  <2> TAKE i \in DOMAIN st
  <2>1. CASE i \in 1 .. Len(s)
    BY <1>1, <2>1
  <2>2. CASE i \notin 1 .. Len(s)
    <3>1. i \in Len(s) + 1 .. Len(s) + Len(t)
      BY <1>1, <2>2
    <3>2. i - Len(s) \in 1 .. Len(t) /\ st[i] = t[i - Len(s)]
      BY <1>1, <3>1
    <3>3. i > Len(s) /\ i - Len(s) \in DOMAIN t
      BY <1>1, <3>1, <3>2
    <3>. QED
      BY <3>2, <3>3
  <2>. QED
    BY <2>1, <2>2
<1>3. Range(st) \subseteq Range(s) \cup Range(t)
  BY <1>2 DEF Range
<1>4. ASSUME NEW i \in DOMAIN st, NEW j \in DOMAIN st, i < j PROVE st[i] < st[j]
  <2>1. CASE i \in DOMAIN s /\ st[i] = s[i] /\ j \in DOMAIN s /\ st[j] = s[j]
    BY <1>4, <2>1 DEF Inc
  <2>2. CASE i \in DOMAIN s /\ st[i] = s[i] /\ j - Len(s) \in DOMAIN t /\ st[j] = t[j - Len(s)]
    BY <2>2 DEF Range
  <2>3. CASE i - Len(s) \in DOMAIN t /\ st[i] = t[i - Len(s)]
             /\ j - Len(s) \in DOMAIN t /\ st[j] = t[j - Len(s)]
    <3>1. i - Len(s) < j - Len(s)
      BY <1>1, <1>4
    <3>. QED
      BY <2>3, <3>1 DEF Inc
  <2>4. ~(i > Len(s) /\ j \in DOMAIN s)
    BY <1>1, <1>4
  <2>. QED
    BY <1>2, <2>1, <2>2, <2>3, <2>4
<1>5. Inc(st)
  BY <1>4 DEF Inc
<1>. QED
  BY <1>1, <1>3, <1>5 DEF st

\* A longer part of the line is in order.
LEMMA LineJoin ==
  ASSUME NEW P, LineOK(P), NEW k \in 1 .. 9, NEW m \in 1 .. 9, k < m, NEW s, NEW t,
         UpTo(P, k, s), PartIs(P, m, t)
  PROVE  UpTo(P, m, s \o t)
<1>1. s \in Seq(Nat) /\ t \in Seq(Nat) /\ Inc(s) /\ Inc(t)
  BY DEF UpTo, PartIs
<1>2. ASSUME NEW x \in Range(s), NEW y \in Range(t) PROVE x < y
  <2>1. PICK l \in 1 .. k : x \in Units1(P[l])
    BY <1>2 DEF UpTo
  <2>2. y \in Units1(P[m]) /\ l \in 1 .. 9 /\ l < m
    BY <1>2 DEF PartIs
  <2>. QED
    BY <2>1, <2>2 DEF LineOK, Below
<1> DEFINE st == s \o t
<1>3. st \in Seq(Nat) /\ Inc(st) /\ Range(st) \subseteq Range(s) \cup Range(t)
  BY <1>1, <1>2, IncCat
<1> HIDE DEF st
<1>4. \A x \in Range(st) : \E l \in 1 .. m : x \in Units1(P[l])
  <2>1. \A x \in Range(s) : \E l \in 1 .. m : x \in Units1(P[l])
    <3>1. 1 .. k \subseteq 1 .. m
      OBVIOUS
    <3>. QED
      BY <3>1 DEF UpTo
  <2>2. \A x \in Range(t) : x \in Units1(P[m])
    BY DEF PartIs
  <2>3. m \in 1 .. m
    OBVIOUS
  <2>. QED
    BY <1>3, <2>1, <2>2, <2>3
<1>5. UpTo(P, m, st)
  BY <1>3, <1>4 DEF UpTo
<1>. QED
  BY <1>5 DEF st

\* The numbers of a rising part increase.
LEMMA NumsOK ==
  ASSUME NEW S, NEW s \in Seq(S), \A x \in S : x.unit \in Nat, Rise(s)
  PROVE  Nums(s) \in Seq(Nat) /\ Inc(Nums(s)) /\ Range(Nums(s)) \subseteq Units1(s)
<1>1. Len(s) \in Nat /\ DOMAIN s = 1 .. Len(s) /\ \A i \in 1 .. Len(s) : s[i].unit \in Nat
  BY LenProperties, ElementOfSeq
<1> DEFINE t == Nums(s)
<1>2. t \in [1 .. Len(s) -> Nat] /\ \A i \in DOMAIN s : t[i] = s[i].unit
  BY <1>1 DEF Nums
<1> HIDE DEF t
<1>3. t \in Seq(Nat) /\ DOMAIN t = DOMAIN s
  BY <1>1, <1>2, SeqIs
<1>4. Inc(t) /\ Range(t) \subseteq Units1(s)
  BY <1>2, <1>3 DEF Inc, Range, Units1, Rise
<1>. QED
  BY <1>3, <1>4 DEF t

\* The line in order is what InLine states of all its entries.
LEMMA LineOrdered ==
  ASSUME TypeInv, LineOK(Parts)
  PROVE  InLine
<1> DEFINE P  == Parts
           t2 == Nums(present_q)
           t3 == Nums(decode.pulled)
           t4 == Nums(dec.ready)
           t5 == Nums(dec.out)
           t6 == Nums(dec.in)
           t7 == Nums(decode.holding)
           t8 == Nums(au_q)
           t9 == Nums(Frames(depay.au_queue))
           s1 == <<shown.unit>>
           s2 == s1 \o t2
           s3 == s2 \o t3
           s4 == s3 \o t4
           s5 == s4 \o t5
           s6 == s5 \o t6
           s7 == s6 \o t7
           s8 == s7 \o t8
           s9 == s8 \o t9
<1>1. Line = s9
  <2>1. t9 = [i \in DOMAIN depay.au_queue |-> Frame(depay.au_queue[i]).unit]
    BY DEF Nums, Frames
  <2> HIDE DEF t9
  <2>. QED
    BY <2>1, Zenon DEF Line, Nums
<1>2. /\ \A x \in Picture : x.unit \in Nat
      /\ \A x \in Packet : x.unit \in Nat
      /\ \A x \in Decoded : x.unit \in Nat
  BY DEF Picture, Packet, Decoded
<1>3. /\ P[2] = present_q /\ P[3] = decode.pulled /\ P[4] = dec.ready /\ P[5] = dec.out
      /\ P[6] = dec.in /\ P[7] = decode.holding /\ P[8] = au_q /\ P[9] = Frames(depay.au_queue)
      /\ P[1] = <<shown>>
  BY PartsAre
<1>4. /\ P[2] \in Seq(Picture) /\ P[3] \in Seq(Picture) /\ P[4] \in Seq(Picture)
      /\ P[5] \in Seq(Decoded) /\ P[6] \in Seq(Packet) /\ P[7] \in Seq(Picture)
      /\ P[8] \in Seq(Picture) /\ P[9] \in Seq(Picture) /\ shown.unit \in Nat
  <2>1. dec.in \in Seq(Packet) /\ dec.out \in Seq(Decoded) /\ dec.ready \in Seq(Picture)
    BY DecParts DEF TypeInv
  <2>2. Frames(depay.au_queue) \in Seq(Picture)
    BY FramesOK DEF TypeInv, NetT
  <2>3. present_q \in Seq(Picture) /\ au_q \in Seq(Picture) /\ shown.unit \in Nat
    BY <1>2 DEF TypeInv, ShowT, QueueT
  <2>4. decode.pulled \in Seq(Picture) /\ decode.holding \in Seq(Picture)
    BY DEF TypeInv, DecodeT
  <2>. QED
    BY <1>3, <2>1, <2>2, <2>3, <2>4
<1>5. LineOK(P)
  OBVIOUS
<1>6. UpTo(P, 1, s1)
  <2>1. s1 \in Seq(Nat) /\ DOMAIN s1 = {1} /\ s1[1] = shown.unit
    BY <1>4
  <2>2. Units1(P[1]) = {shown.unit}
    BY <1>3, OneRises
  <2> HIDE DEF s1, P
  <2>3. Inc(s1) /\ Range(s1) = {shown.unit}
    BY <2>1 DEF Inc, Range
  <2>. QED
    BY <2>1, <2>2, <2>3 DEF UpTo
<1> HIDE DEF P
<1>7. \A k \in 1 .. 9 : Rise(P[k])
  BY <1>5, SamePart
<1>8. /\ PartIs(P, 2, Nums(P[2])) /\ PartIs(P, 3, Nums(P[3])) /\ PartIs(P, 4, Nums(P[4]))
      /\ PartIs(P, 5, Nums(P[5])) /\ PartIs(P, 6, Nums(P[6])) /\ PartIs(P, 7, Nums(P[7]))
      /\ PartIs(P, 8, Nums(P[8])) /\ PartIs(P, 9, Nums(P[9]))
  <2>1. ASSUME NEW S, NEW k \in 1 .. 9, P[k] \in Seq(S), \A x \in S : x.unit \in Nat
        PROVE  PartIs(P, k, Nums(P[k]))
    BY <1>7, <2>1, NumsOK DEF PartIs
  <2>2. /\ \A k \in 1 .. 9 : P[k] \in Seq(Picture) => PartIs(P, k, Nums(P[k]))
        /\ \A k \in 1 .. 9 : P[k] \in Seq(Packet) => PartIs(P, k, Nums(P[k]))
        /\ \A k \in 1 .. 9 : P[k] \in Seq(Decoded) => PartIs(P, k, Nums(P[k]))
    BY <1>2, <2>1
  <2>. QED
    BY <1>4, <2>2
<1>9. /\ t2 = Nums(P[2]) /\ t3 = Nums(P[3]) /\ t4 = Nums(P[4]) /\ t5 = Nums(P[5])
      /\ t6 = Nums(P[6]) /\ t7 = Nums(P[7]) /\ t8 = Nums(P[8]) /\ t9 = Nums(P[9])
  BY <1>3
<1> HIDE DEF t2, t3, t4, t5, t6, t7, t8, t9, s1
<1>10. UpTo(P, 2, s2)
  BY <1>5, <1>6, <1>8, <1>9, LineJoin
<1> HIDE DEF s2
<1>11. UpTo(P, 3, s3)
  BY <1>5, <1>10, <1>8, <1>9, LineJoin
<1> HIDE DEF s3
<1>12. UpTo(P, 4, s4)
  BY <1>5, <1>11, <1>8, <1>9, LineJoin
<1> HIDE DEF s4
<1>13. UpTo(P, 5, s5)
  BY <1>5, <1>12, <1>8, <1>9, LineJoin
<1> HIDE DEF s5
<1>14. UpTo(P, 6, s6)
  BY <1>5, <1>13, <1>8, <1>9, LineJoin
<1> HIDE DEF s6
<1>15. UpTo(P, 7, s7)
  BY <1>5, <1>14, <1>8, <1>9, LineJoin
<1> HIDE DEF s7
<1>16. UpTo(P, 8, s8)
  BY <1>5, <1>15, <1>8, <1>9, LineJoin
<1> HIDE DEF s8
<1>17. UpTo(P, 9, s9)
  BY <1>5, <1>16, <1>8, <1>9, LineJoin
<1> HIDE DEF s9
<1>18. Inc(Line)
  BY <1>1, <1>17 DEF UpTo
<1>. QED
  BY <1>18, Zenon DEF Inc, InLine

\* From the depayloader to the screen, every access unit is later than those
\* before it: no queue, retry, loss or restart makes one repeat or overtake.
THEOREM UnitsInLine == Spec => []InLine
<1>1. TypeInv /\ OrderInv => InLine
  BY LineOrdered DEF OrderInv, LineInv
<1>. QED
  BY <1>1, TypesAlways, OrderAlways, PTL

(***************** Capture times: the sender and the wire ******************)

\* As long as the packer is the first, pts and capture time tell the unit: in an
\* access unit, a datagram and the unit in progress.
OwnUnit(u)  == u.capture = u.unit /\ u.pts = u.unit - 1
OwnUnits(s) == \A u \in Range(s) : OwnUnit(u)
OwnGram(g)  == UnitIn(g) >= 1 /\ g.capture = UnitIn(g) /\ g.ts = pts_to_rtp_ts(UnitIn(g) - 1)
OwnBuild(b) ==
  IF b.ts = -1 THEN b.nals = <<>>
  ELSE /\ b.capture >= 1 /\ b.ts = pts_to_rtp_ts(b.capture - 1)
       /\ b.nals # <<>> => UnitOf(b) = b.capture
OwnAll ==
  /\ coder.pts = coder.unit
  /\ \A g \in Wire : OwnGram(g)
  /\ OwnBuild(depay.rtp.building)
  /\ OwnUnits(Frames(depay.au_queue)) /\ OwnUnits(au_q) /\ OwnUnits(decode.holding)
  /\ DecOwn(dec) /\ OwnTimes(decode.pulled) /\ OwnTimes(present_q)
  /\ shown.capture \in {0, shown.unit}
OwnInv == packers \in Nat \ {0} /\ (packers = 1 => OwnAll)

\* A number without remainder is a multiple.
LEMMA Divides ==
  ASSUME NEW a \in Nat, NEW b \in Nat \ {0}, a % b = 0
  PROVE  \E c \in Nat : a = c * b
BY SMT

\* Without a remainder the clock gives the pts back.
LEMMA ThereAndBack ==
  ASSUME Clock % Fps = 0, NEW pts \in Nat
  PROVE  au_pts(pts_to_rtp_ts(pts)) = pts
<1>1. PICK c \in Nat : Clock = c * Fps
  BY BoundsAre, Divides
<1>2. \A a \in Nat, b \in Nat \ {0} : (a * b) \div b = a
  OBVIOUS
<1>3. pts * Clock = (pts * c) * Fps /\ pts * c \in Nat
  BY <1>1, BoundsAre
<1>4. pts_to_rtp_ts(pts) = pts * c
  BY <1>2, <1>3, BoundsAre DEF pts_to_rtp_ts
<1>5. (pts * c) * Fps = pts * Clock
  BY <1>3
<1>6. au_pts(pts * c) = pts
  BY <1>2, <1>5, BoundsAre DEF au_pts
<1>. QED
  BY <1>4, <1>6

\* No two units have the same time.
LEMMA TimeTells ==
  ASSUME Clock % Fps = 0, NEW p \in Nat, NEW q \in Nat, pts_to_rtp_ts(p) = pts_to_rtp_ts(q)
  PROVE  p = q
<1>1. au_pts(pts_to_rtp_ts(p)) = p /\ au_pts(pts_to_rtp_ts(q)) = q
  BY ThereAndBack
<1>. QED
  BY <1>1

\* An entry of a longer sequence was in it or is the new one.
LEMMA AppendElems ==
  ASSUME NEW S, NEW s \in Seq(S), NEW x \in S
  PROVE  Range(Append(s, x)) \subseteq Range(s) \cup {x}
<1> DEFINE t == Append(s, x)
<1>1. /\ Len(s) \in Nat /\ DOMAIN s = 1 .. Len(s) /\ DOMAIN t = 1 .. Len(s) + 1
      /\ (\A i \in 1 .. Len(s) : t[i] = s[i]) /\ t[Len(s) + 1] = x
  BY AppendIs
<1> HIDE DEF t
<1>2. \A i \in DOMAIN t : (i \in DOMAIN s /\ t[i] = s[i]) \/ t[i] = x
  BY <1>1
<1>3. Range(t) \subseteq Range(s) \cup {x}
  BY <1>2 DEF Range
<1>. QED
  BY <1>3 DEF t

\* The same of a queue that may drop its oldest.
LEMMA PushElems ==
  ASSUME NEW S, NEW q \in Seq(S), NEW cap \in Nat \ {0}, NEW x \in S
  PROVE  Range(push_drop(q, cap, x)) \subseteq Range(q) \cup {x}
<1>1. CASE Len(q) >= cap
  <2>1. q # <<>>
    BY <1>1, EmptySeq
  <2> DEFINE u == Tail(q)
  <2>2. u \in Seq(S) /\ Range(u) \subseteq Range(q)
    BY <2>1, TailIs, HeadRuns
  <2>3. push_drop(q, cap, x) = Append(u, x)
    BY <1>1 DEF push_drop
  <2> HIDE DEF u
  <2>. QED
    BY <2>2, <2>3, AppendElems
<1>2. CASE ~(Len(q) >= cap)
  <2>1. push_drop(q, cap, x) = Append(q, x)
    BY <1>2 DEF push_drop
  <2>. QED
    BY <2>1, AppendElems
<1>. QED
  BY <1>1, <1>2

\* The same of two sequences.
LEMMA CatElems ==
  ASSUME NEW S, NEW s \in Seq(S), NEW t \in Seq(S)
  PROVE  Range(s \o t) \subseteq Range(s) \cup Range(t)
<1> DEFINE st == s \o t
<1>1. \A i \in DOMAIN st : \/ i \in DOMAIN s /\ st[i] = s[i]
                           \/ i - Len(s) \in DOMAIN t /\ st[i] = t[i - Len(s)]
  BY CatEach, Zenon
<1> HIDE DEF st
<1>2. Range(st) \subseteq Range(s) \cup Range(t)
  BY <1>1 DEF Range
<1>. QED
  BY <1>2 DEF st

\* Capture times are a property of the elements.
TimeOf(u) == u.capture \in {0, u.unit}
\* OwnTimes is about the entries, whatever their order.
LEMMA TimesAre == ASSUME NEW s PROVE OwnTimes(s) = \A u \in Range(s) : TimeOf(u)
BY DEF OwnTimes, Range, TimeOf

\* At first there is nothing to be wrong.
LEMMA OwnInit == Init => OwnInv
<1> SUFFICES ASSUME Init PROVE OwnInv
  OBVIOUS
<1>1. Range(<<>>) = {} /\ Frames(<<>>) = <<>> /\ OwnTimes(<<>>) /\ OwnPts(<<>>)
  BY DEF Range, Frames, OwnTimes, OwnPts
<1>2. OwnUnits(<<>>)
  BY <1>1 DEF OwnUnits
<1>3. DecOwn(NewDecoder)
  BY <1>1 DEF DecOwn, NewDecoder, OwnRing
<1>4. OwnBuild(NoAu)
  BY DEF OwnBuild, NoAu
<1>5. Wire = {}
  BY <1>1 DEF Init, Wire
<1>6. /\ packers = 1 /\ coder.pts = coder.unit /\ depay.rtp.building = NoAu
      /\ depay.au_queue = <<>> /\ au_q = <<>> /\ decode.holding = <<>> /\ decode.pulled = <<>>
      /\ present_q = <<>> /\ dec = NewDecoder /\ shown.capture = 0
  BY DEF Init, rtp_h264_depacketizer, NoFrame
<1>7. OwnAll
  BY <1>1, <1>2, <1>3, <1>4, <1>5, <1>6 DEF OwnAll
<1>. QED
  BY <1>6, <1>7 DEF OwnInv

\* The payloader stamps a unit with its own time.
LEMMA OwnPay ==
  ASSUME TypeInv, OwnAll, PayInput
  PROVE  OwnAll'
<1>1. /\ coder' = [unit |-> coder.unit + 1, pts |-> coder.pts + 1]
      /\ payload_queue' = payload_queue
      /\ UNCHANGED <<depay, au_q, present_q, dec, decode, shown>>
  BY DEF PayInput, stages, screen
<1>2. coder.unit \in Nat /\ coder.pts = coder.unit /\ \A g \in Wire : OwnGram(g)
  BY Numbered DEF OwnAll
<1> DEFINE unit == coder.unit + 1
<1>3. PICK new : Paid(new, unit)
  BY PayIs
<1>4. unit \in Nat /\ unit >= 1 /\ unit - 1 = coder.pts
  BY <1>2
<1> HIDE DEF unit
<1> DEFINE all == pending \o new
<1>5. PICK c \in Nat : c <= Len(all) /\ Without(pending', all, c)
  BY <1>3 DEF Paid
<1>6. pending \in Seq(Datagram) /\ new \in Seq(Datagram)
  BY <1>3 DEF Paid
<1>7. \A g \in Range(new) : OwnGram(g)
  <2>1. \A i \in DOMAIN new : /\ UnitIn(new[i]) = unit /\ new[i].ts = pts_to_rtp_ts(coder.pts)
                              /\ new[i].capture = unit
    BY <1>3 DEF Paid, PackOf
  <2>. QED
    BY <1>4, <2>1 DEF Range, OwnGram
<1>8. all \in Seq(Datagram) /\ Range(all) \subseteq Range(pending) \cup Range(new)
  BY <1>6, CatElems, CatIs
<1> HIDE DEF all
<1>9. Range(pending') \subseteq Range(all)
  BY <1>5, <1>8, RestRuns
<1>10. \A g \in Wire' : OwnGram(g)
  BY <1>1, <1>2, <1>7, <1>8, <1>9 DEF Wire
<1>11. coder'.pts = coder'.unit
  BY <1>1, <1>2
<1>12. Frames(depay'.au_queue) = Frames(depay.au_queue)
  BY <1>1
<1>. QED
  BY <1>1, <1>10, <1>11, <1>12, Zenon DEF OwnAll

\* The link and the close of the receiver only take datagrams away.
LEMMA OwnLink ==
  ASSUME TypeInv, OwnAll, Deliver \/ Lose \/ CloseReceiver
  PROVE  OwnAll'
<1>1. UNCHANGED <<coder, depay, au_q, present_q, dec, decode, shown>>
  BY DEF Deliver, Lose, CloseReceiver, stages, screen, sender
<1>2. pending \in Seq(Datagram) /\ payload_queue \in Seq(Datagram)
  BY DEF TypeInv, SenderT, LinkT
<1>3. Wire' \subseteq Wire
  <2>1. CASE Deliver
    <3> DEFINE x == Head(pending)
               t == Tail(pending)
               q == push_drop(payload_queue, QueueDepth, x)
    <3>1. pending # <<>> /\ pending' = t /\ payload_queue' = q
      BY <2>1 DEF Deliver, enqueue_payload_buffer
    <3>2. x \in Datagram /\ x \in Range(pending) /\ Range(t) \subseteq Range(pending)
      BY <1>2, <3>1, TailIs, HeadRuns
    <3> HIDE DEF x, t
    <3>3. Range(q) \subseteq Range(payload_queue) \cup {x}
      BY <1>2, <3>2, PushElems, BoundsAre
    <3> HIDE DEF q
    <3>. QED
      BY <3>1, <3>2, <3>3 DEF Wire
  <2>2. CASE Lose
    <3> DEFINE t == Tail(pending)
    <3>1. pending # <<>> /\ pending' = t /\ payload_queue' = payload_queue
      BY <2>2 DEF Lose
    <3>2. Range(t) \subseteq Range(pending)
      BY <1>2, <3>1, HeadRuns
    <3> HIDE DEF t
    <3>. QED
      BY <3>1, <3>2 DEF Wire
  <2>3. CASE CloseReceiver
    BY <2>3 DEF CloseReceiver, sender, Wire, Range
  <2>. QED
    BY <2>1, <2>2, <2>3
<1>4. \A g \in Wire' : OwnGram(g)
  BY <1>3 DEF OwnAll
<1>5. Frames(depay'.au_queue) = Frames(depay.au_queue)
  BY <1>1
<1>. QED
  BY <1>1, <1>4, <1>5, Zenon DEF OwnAll

(********************* Capture times: the depacketizer *********************)

\* What is finished is the old unit in progress or the one it became.
LEMMA OutgoingEach ==
  ASSUME NEW b \in Building, NEW g, NEW e \in Building,
         NEW i \in DOMAIN Outgoing(b, g, e)
  PROVE  \E x \in {b, e} : Outgoing(b, g, e)[i] = x /\ x.nals # <<>>
<1> DEFINE s == IF Ended(b, g) /\ b.nals # <<>> THEN <<b>> ELSE <<>>
           t == IF g.marker /\ e.nals # <<>> THEN <<e>> ELSE <<>>
           o == s \o t
<1>1. /\ \A j \in DOMAIN s : s[j] = b /\ b.nals # <<>>
      /\ \A j \in DOMAIN t : t[j] = e /\ e.nals # <<>>
      /\ s \in Seq(Building) /\ t \in Seq(Building)
  OBVIOUS
<1>2. Outgoing(b, g, e) = o
  BY DEF Outgoing
<1> HIDE DEF s, t
<1>3. \A j \in DOMAIN o : \/ j \in DOMAIN s /\ o[j] = s[j]
                          \/ j - Len(s) \in DOMAIN t /\ o[j] = t[j - Len(s)]
  BY <1>1, CatEach, Zenon
<1> HIDE DEF o
<1>4. i \in DOMAIN o
  BY <1>2
<1>5. (o[i] = b /\ b.nals # <<>>) \/ (o[i] = e /\ e.nals # <<>>)
  BY <1>1, <1>3, <1>4
<1>. QED
  BY <1>2, <1>5

\* An access unit that is finished tells its unit.
LEMMA ItemOwn ==
  ASSUME Clock % Fps = 0, NEW b \in Building, b.nals # <<>>, OwnBuild(b)
  PROVE  OwnUnit(Frame(au_item(b)))
<1>1. b.ts # -1 /\ b.capture \in Nat
  BY DEF OwnBuild, Building
<1>2. b.capture >= 1 /\ b.ts = pts_to_rtp_ts(b.capture - 1) /\ UnitOf(b) = b.capture
  BY <1>1 DEF OwnBuild
<1>3. au_pts(b.ts) = b.capture - 1
  BY <1>1, <1>2, ThereAndBack
<1>. QED
  BY <1>2, <1>3 DEF OwnUnit, Frame, au_item, UnitOf

\* A datagram makes it the unit of the datagram.
LEMMA FedOwn ==
  ASSUME NEW d \in Depack, NEW g \in Datagram, NEW r, NEW e \in Building, Fed(d, g, r, e),
         OwnBuild(d.building), OwnGram(g), Clock % Fps = 0
  PROVE  OwnBuild(e) /\ OwnBuild(r.building)
<1> DEFINE b == d.building
           o == Goes(b, g)
           t == TimesOf(o, g)
<1>1. b \in Building /\ o \in Building /\ (Ended(b, g) => o.nals = <<>>) /\ (~Ended(b, g) => o = b)
  BY NoAuOK DEF Goes, Depack
<1>2. UnitIn(g) \in Nat /\ g.ts \in Nat /\ g.capture = UnitIn(g) /\ UnitIn(g) >= 1
      /\ g.ts = pts_to_rtp_ts(UnitIn(g) - 1)
  BY DEF UnitIn, Datagram, Piece, NalUnit, OwnGram
<1>3. t.ts = g.ts /\ t.nals = o.nals /\ t.capture = UnitIn(g)
  BY <1>1, <1>2 DEF TimesOf, Building
<1> HIDE DEF o, t
<1>4. /\ e.ts = g.ts /\ e.capture = UnitIn(g)
      /\ e.nals = o.nals \/ (e.nals # <<>> /\ UnitOf(e) = UnitIn(g))
  <2>1. Grown(t, e, g.payload)
    BY DEF Fed, t, o
  <2>. QED
    BY <1>3, <2>1 DEF Grown, UnitOf, UnitIn
<1>5. ASSUME e.nals # <<>> PROVE UnitOf(e) = UnitIn(g)
  <2>1. CASE e.nals = o.nals
    <3>1. ~Ended(b, g) /\ o = b /\ b.nals # <<>>
      BY <1>1, <1>5, <2>1
    <3>2. b.ts # -1 /\ b.ts = g.ts
      BY <3>1 DEF Ended, OwnBuild
    <3>3. b.capture \in Nat /\ b.capture >= 1 /\ b.ts = pts_to_rtp_ts(b.capture - 1)
          /\ UnitOf(b) = b.capture
      BY <1>1, <3>1, <3>2 DEF OwnBuild, Building
    <3>4. b.capture - 1 = UnitIn(g) - 1
      BY <1>2, <3>2, <3>3, TimeTells
    <3>5. UnitOf(b) = UnitIn(g)
      BY <1>2, <3>3, <3>4
    <3>. QED
      BY <2>1, <3>1, <3>5 DEF UnitOf
  <2>. QED
    BY <1>4, <2>1
<1>6. OwnBuild(e)
  BY <1>2, <1>4, <1>5 DEF OwnBuild
<1>7. OwnBuild(NoAu)
  BY NoAuOK DEF OwnBuild
<1>. QED
  BY <1>6, <1>7 DEF Fed

\* The network thread takes a datagram.
LEMMA OwnReceive ==
  ASSUME Clock % Fps = 0, TypeInv, OwnAll, NetReceive
  PROVE  OwnAll'
<1> DEFINE g == Head(payload_queue)
           r == feed(depay.rtp, g)
           s == r.completed
           b == depay.rtp.building
           c == depay'.rtp.building
           q == depay.au_queue
<1>1. /\ g \in Datagram /\ g \in Wire /\ depay.rtp \in Depack
      /\ payload_queue # <<>> /\ payload_queue' = Tail(payload_queue)
      /\ UNCHANGED <<coder, packer, packers, pending, au_q, present_q, dec, decode, shown>>
  BY Received
<1>2. /\ s \in Seq(Building) /\ (\A i \in DOMAIN s : s[i].nals # <<>>)
      /\ depay'.au_queue = push_au(q, s) /\ c = r.building
  BY Received
<1>3. (c = b /\ s = <<>>) \/ \E e \in Building : Fed(depay.rtp, g, r, e)
  BY Received
<1>4. OwnGram(g) /\ OwnBuild(b) /\ OwnUnits(Frames(q)) /\ q \in Seq(Whole) /\ b \in Building
  BY <1>1 DEF OwnAll, TypeInv, NetT, Depack
<1>5. OwnBuild(c) /\ \A i \in DOMAIN s : OwnUnit(Frame(au_item(s[i])))
  <2>1. CASE c = b /\ s = <<>>
    <3>1. DOMAIN s = {}
      BY <2>1
    <3>. QED
      BY <1>4, <2>1, <3>1
  <2>2. ASSUME NEW e \in Building, Fed(depay.rtp, g, r, e)
        PROVE  OwnBuild(c) /\ \A i \in DOMAIN s : OwnUnit(Frame(au_item(s[i])))
    <3> HIDE DEF g, r
    <3>1. OwnBuild(e) /\ OwnBuild(r.building)
      BY <1>1, <1>4, <2>2, FedOwn
    <3>2. s = Outgoing(b, g, e)
      BY <2>2 DEF Fed
    <3> HIDE DEF b, s
    <3>3. ASSUME NEW i \in DOMAIN s PROVE OwnUnit(Frame(au_item(s[i])))
      <4>1. PICK x \in {b, e} : s[i] = x /\ x.nals # <<>>
        BY <1>4, <3>2, OutgoingEach
      <4>2. x \in Building /\ OwnBuild(x)
        BY <1>4, <3>1
      <4>. QED
        BY <4>1, <4>2, ItemOwn
    <3>. QED
      BY <1>2, <3>1, <3>3
  <2>. QED
    BY <1>3, <2>1, <2>2
<1> HIDE DEF s, c, b, r
<1>6. OwnUnits(Frames(depay'.au_queue))
  <2> DEFINE n == push_au(q, s)
  <2>1. \A i \in DOMAIN n : \/ \E j \in DOMAIN q : n[i] = q[j]
                            \/ \E j \in DOMAIN s : n[i] = au_item(s[j])
    BY <1>2, <1>4, PushAuOK
  <2>2. depay'.au_queue = n
    BY <1>2
  <2> HIDE DEF n, q
  <2>3. \A j \in DOMAIN q : OwnUnit(Frame(q[j]))
    BY <1>4 DEF OwnUnits, Range, Frames
  <2>4. \A i \in DOMAIN n : OwnUnit(Frame(n[i]))
    BY <1>5, <2>1, <2>3
  <2>5. OwnUnits(Frames(n))
    BY <2>4 DEF OwnUnits, Range, Frames
  <2>. QED
    BY <2>2, <2>5
<1>7. \A h \in Wire' : OwnGram(h)
  <2>1. payload_queue \in Seq(Datagram)
    BY DEF TypeInv, LinkT
  <2> DEFINE t == Tail(payload_queue)
  <2>2. Range(t) \subseteq Range(payload_queue)
    BY <1>1, <2>1, HeadRuns
  <2> HIDE DEF t
  <2>3. Wire' \subseteq Wire
    BY <1>1, <2>2 DEF Wire, t
  <2>. QED
    BY <2>3 DEF OwnAll
<1>8. OwnBuild(depay'.rtp.building)
  BY <1>5 DEF c
<1>9. coder'.pts = coder'.unit /\ shown'.capture \in {0, shown'.unit}
  BY <1>1 DEF OwnAll
<1>. QED
  BY <1>1, <1>6, <1>7, <1>8, <1>9, Zenon DEF OwnAll

\* It hands an access unit on.
LEMMA OwnForward ==
  ASSUME TypeInv, OwnAll, NetForward
  PROVE  OwnAll'
<1>1. UNCHANGED <<coder, pending, payload_queue, present_q, dec, decode, shown>>
  BY DEF NetForward, sender, screen
<1>2. CASE ~(g_run /\ depay.au_queue # <<>>)
  <2>1. UNCHANGED <<au_q, depay>>
    BY <1>2 DEF NetForward
  <2>2. Frames(depay'.au_queue) = Frames(depay.au_queue) /\ Wire' = Wire
    BY <1>1, <2>1 DEF Wire, Range
  <2>. QED
    BY <1>1, <2>1, <2>2, Zenon DEF OwnAll
<1>3. CASE g_run /\ depay.au_queue # <<>>
  <2> DEFINE s == depay.au_queue
             x == Frame(Head(s))
             t == Tail(s)
             q == push_drop(au_q, AuDepth, x)
  <2>1. au_q' = q /\ depay' = [depay EXCEPT !.au_queue = t]
    BY <1>3 DEF NetForward, push_rx_au
  <2>2. s \in Seq(Whole) /\ depay'.au_queue = t /\ depay'.rtp = depay.rtp
        /\ au_q \in Seq(Picture)
    BY <2>1 DEF TypeInv, NetT, QueueT
  <2>3. Head(s) \in Range(s) /\ Range(t) \subseteq Range(s) /\ Head(s) \in Whole
    BY <1>3, <2>2, HeadRuns, TailIs
  <2>4. x \in Picture
    BY <2>3, FrameOK
  <2>5. \A y \in Range(s) : OwnUnit(Frame(y))
    BY DEF OwnAll, OwnUnits, Range, Frames
  <2>6. OwnUnit(x)
    BY <2>3, <2>5
  <2> HIDE DEF x, t
  <2>7. OwnUnits(Frames(t))
    <3>1. \A y \in Range(t) : OwnUnit(Frame(y))
      BY <2>3, <2>5
    <3>. QED
      BY <3>1 DEF OwnUnits, Range, Frames
  <2>8. Range(q) \subseteq Range(au_q) \cup {x}
    BY <2>2, <2>4, PushElems, BoundsAre
  <2> HIDE DEF q
  <2>9. OwnUnits(q)
    BY <2>6, <2>8 DEF OwnAll, OwnUnits
  <2>10. Wire' = Wire
    BY <1>1 DEF Wire, Range
  <2>11. OwnUnits(Frames(depay'.au_queue)) /\ OwnUnits(au_q') /\ OwnBuild(depay'.rtp.building)
    BY <2>1, <2>2, <2>7, <2>9 DEF OwnAll
  <2>. QED
    BY <1>1, <2>10, <2>11, Zenon DEF OwnAll
<1>. QED
  BY <1>2, <1>3

(*************** Capture times: the decoder and the display ****************)

\* The decode thread and MPP: only a time of the ring is given to a frame.
LEMMA OwnDecode ==
  ASSUME TypeInv, OwnAll, Decode \/ MppDecode
  PROVE  OwnAll'
<1>0. /\ OwnUnits(au_q) /\ OwnUnits(decode.holding) /\ DecOwn(dec) /\ OwnTimes(decode.pulled)
      /\ OwnTimes(present_q) /\ DecodeT /\ DecOK(dec)
      /\ au_q \in Seq(Picture) /\ present_q \in Seq(Picture)
  BY DEF OwnAll, TypeInv, QueueT, ShowT
<1>1. UNCHANGED <<coder, pending, payload_queue, depay, shown>>
  BY DEF Decode, DecodeTake, DecodeFeed, DecodePull, DecodePush, DecodeLeave, MppDecode,
         sender, screen
<1>2. /\ OwnUnits(au_q') /\ OwnUnits(decode'.holding) /\ DecOwn(dec')
      /\ OwnTimes(decode'.pulled) /\ OwnTimes(present_q')
  <2>0. OwnUnits(<<>>)
    BY DEF OwnUnits, Range
  <2>1. CASE DecodeTake
    <3> DEFINE x == Head(au_q)
               t == Tail(au_q)
    <3>1. /\ au_q # <<>> /\ au_q' = t /\ UNCHANGED <<present_q, dec>>
          /\ decode' = [decode EXCEPT !.pc = "feed", !.holding = <<x>>]
      BY <2>1 DEF DecodeTake, MayTake
    <3>2. x \in Range(au_q) /\ Range(t) \subseteq Range(au_q)
      BY <1>0, <3>1, HeadRuns
    <3> HIDE DEF x, t
    <3>3. OwnUnits(t) /\ OwnUnit(x)
      BY <1>0, <3>2 DEF OwnUnits
    <3>4. Range(<<x>>) = {x}
      BY DEF Range
    <3>5. OwnUnits(<<x>>)
      BY <3>3, <3>4 DEF OwnUnits
    <3>6. decode'.holding = <<x>> /\ decode'.pulled = decode.pulled
      BY <1>0, <3>1 DEF DecodeT
    <3>. QED
      BY <1>0, <3>1, <3>3, <3>5, <3>6
  <2>2. CASE DecodeFeed
    <3> DEFINE x == decode.holding[1]
    <3>1. PICK in \in dec_input(dec, x) :
            /\ dec' = in.d
            /\ decode' = [decode EXCEPT !.pc = IF in.r = "EIO" THEN "take" ELSE "pull",
                                        !.holding = IF in.r = "EAGAIN" THEN @ ELSE <<>>]
      BY <2>2 DEF DecodeFeed
    <3>2. UNCHANGED <<au_q, present_q>> /\ decode.holding # <<>>
      BY <1>0, <2>2 DEF DecodeFeed, MayFeed, DecodeT
    <3>3. x \in Picture /\ OwnUnit(x)
      <4>1. decode.holding \in Seq(Picture)
        BY <1>0 DEF DecodeT
      <4>2. Head(decode.holding) \in Range(decode.holding) /\ Head(decode.holding) = x
            /\ x \in Picture
        BY <3>2, <4>1, HeadRuns, TailIs
      <4>. QED
        BY <1>0, <4>2 DEF OwnUnits
    <3> HIDE DEF x
    <3>4. DecOwn(in.d)
      <4>1. FedDec(dec, x, in)
        BY <1>0, <3>1, <3>3, InputOK
      <4>. QED
        BY <1>0, <3>3, <4>1 DEF FedDec, OwnUnit
    <3>5. decode'.pulled = decode.pulled /\ decode'.holding \in {decode.holding, <<>>}
      BY <1>0, <3>1 DEF DecodeT
    <3>. QED
      BY <1>0, <2>0, <3>1, <3>2, <3>4, <3>5
  <2>3. CASE DecodePull
    <3> DEFINE p == pull_decoder_frames(dec)
               f == p.frames
               r == p.d
    <3>1. /\ dec' = r /\ UNCHANGED <<au_q, present_q>>
          /\ decode' = [decode EXCEPT
                !.pulled = f, !.pc = IF f = <<>> THEN Resume(decode.holding) ELSE "push"]
      BY <2>3 DEF DecodePull
    <3>2. Moved(dec, f, r)
      BY <1>0, PullIs
    <3> HIDE DEF p, f, r
    <3>3. decode'.pulled = f /\ decode'.holding = decode.holding
      BY <1>0, <3>1 DEF DecodeT
    <3>4. OwnTimes(f) /\ DecOwn(r)
      BY <1>0, <3>2 DEF Moved
    <3>. QED
      BY <1>0, <3>1, <3>3, <3>4
  <2>4. CASE DecodePush
    <3> DEFINE x == Head(decode.pulled)
               t == Tail(decode.pulled)
               q == push_drop(present_q, PresentDepth, x)
    <3>1. /\ decode.pulled \in Seq(Picture) /\ decode.pulled # <<>>
          /\ decode'.pulled = t /\ decode'.holding = decode.holding
      <4>1. /\ decode.pulled \in Seq(Picture) /\ decode.pulled # <<>>
            /\ decode' = [decode EXCEPT
                 !.pulled = t, !.pc = IF t = <<>> THEN Resume(decode.holding) ELSE "push"]
        BY <1>0, <2>4, PushPulled
      <4> HIDE DEF t
      <4>. QED
        BY <1>0, <4>1 DEF DecodeT
    <3>2. present_q' \in {present_q, q} /\ UNCHANGED <<au_q, dec>>
      BY <2>4 DEF DecodePush
    <3>3. x \in Picture /\ x \in Range(decode.pulled) /\ Range(t) \subseteq Range(decode.pulled)
      BY <3>1, HeadRuns, TailIs
    <3> HIDE DEF x, t
    <3>4. Range(q) \subseteq Range(present_q) \cup {x}
      BY <1>0, <3>3, PushElems, BoundsAre
    <3> HIDE DEF q
    <3>5. OwnTimes(t) /\ OwnTimes(q)
      BY <1>0, <3>3, <3>4, TimesAre
    <3>. QED
      BY <1>0, <3>1, <3>2, <3>5
  <2>5. CASE DecodeLeave
    <3> DEFINE p == pull_decoder_frames(dec)
    <3>1. /\ dec' = p.d /\ UNCHANGED <<au_q, present_q>>
          /\ decode' = [decode EXCEPT !.pc = "done", !.holding = <<>>]
      BY <2>5 DEF DecodeLeave
    <3>2. Moved(dec, p.frames, p.d)
      BY <1>0, PullIs
    <3> HIDE DEF p
    <3>3. decode'.pulled = decode.pulled /\ decode'.holding = <<>>
      BY <1>0, <3>1 DEF DecodeT
    <3>. QED
      BY <1>0, <2>0, <3>1, <3>2, <3>3 DEF Moved
  <2>6. CASE MppDecode
    <3>1. PICK good \in BOOLEAN :
            dec' = [dec EXCEPT !.in = Tail(@),
                               !.out = Append(@, [unit |-> Head(dec.in).unit,
                                                  pts |-> Head(dec.in).pts, good |-> good])]
      BY <2>6 DEF MppDecode
    <3>2. dec.in # <<>> /\ UNCHANGED <<au_q, present_q, decode>>
      BY <2>6 DEF MppDecode, stages
    <3> DEFINE f   == [unit |-> Head(dec.in).unit, pts |-> Head(dec.in).pts, good |-> good]
               in  == Tail(dec.in)
               out == Append(dec.out, f)
    <3>3. dec.in \in Seq(Packet) /\ dec.out \in Seq(Decoded)
      BY <1>0, DecParts
    <3>4. Head(dec.in) \in Packet /\ Head(dec.in) \in Range(dec.in)
          /\ Range(in) \subseteq Range(dec.in)
      BY <3>2, <3>3, TailIs, HeadRuns
    <3>5. f \in Decoded /\ f.unit = Head(dec.in).unit /\ f.pts = Head(dec.in).pts
      BY <3>4 DEF Packet, Decoded
    <3>6. dec'.in = in /\ dec'.out = out /\ dec'.ready = dec.ready /\ dec'.ring = dec.ring
      BY <1>0, <3>1 DEF DecOK, Decoder
    <3> HIDE DEF f, in
    <3>7. Range(out) \subseteq Range(dec.out) \cup {f}
      BY <3>3, <3>5, AppendElems
    <3> HIDE DEF out
    <3>8. \A s : OwnPts(s) = \A u \in Range(s) : u.pts = u.unit - 1
      BY DEF OwnPts, Range
    <3>9. OwnPts(dec.in) /\ OwnPts(dec.out)
      BY <1>0 DEF DecOwn
    <3>10. f.pts = f.unit - 1
      BY <3>4, <3>5, <3>8, <3>9
    <3>11. OwnPts(in) /\ OwnPts(out)
      BY <3>4, <3>7, <3>8, <3>9, <3>10
    <3>. QED
      BY <1>0, <3>2, <3>6, <3>11 DEF DecOwn
  <2>. QED
    BY <2>1, <2>2, <2>3, <2>4, <2>5, <2>6 DEF Decode
<1>3. Frames(depay'.au_queue) = Frames(depay.au_queue) /\ Wire' = Wire
  BY <1>1 DEF Wire, Range
<1>. QED
  BY <1>1, <1>2, <1>3, Zenon DEF OwnAll

\* Nothing of it moves.
LEMMA OwnSame ==
  ASSUME OwnAll,
         UNCHANGED <<coder, pending, payload_queue, depay, au_q, present_q, dec, decode, shown>>
  PROVE  OwnAll'
<1>1. Frames(depay'.au_queue) = Frames(depay.au_queue) /\ Wire' = Wire
  BY DEF Wire, Range
<1>. QED
  BY <1>1, Zenon DEF OwnAll

\* A frame is shown.
LEMMA OwnPresent ==
  ASSUME TypeInv, OwnAll, Present
  PROVE  OwnAll'
<1> DEFINE x == Head(present_q)
           t == Tail(present_q)
<1>1. /\ present_q # <<>> /\ present_q' = t /\ shown' \in {shown, x}
      /\ UNCHANGED <<coder, pending, payload_queue, depay, au_q, dec, decode>>
  BY Presented DEF TypeInv
<1>2. present_q \in Seq(Picture) /\ OwnTimes(present_q) /\ shown.capture \in {0, shown.unit}
  BY DEF TypeInv, ShowT, OwnAll
<1>3. x \in Range(present_q) /\ Range(t) \subseteq Range(present_q)
  BY <1>1, <1>2, HeadRuns
<1> HIDE DEF x, t
<1>4. OwnTimes(t) /\ TimeOf(x)
  BY <1>2, <1>3, TimesAre
<1>5. shown'.capture \in {0, shown'.unit}
  BY <1>1, <1>2, <1>4 DEF TimeOf
<1>6. Frames(depay'.au_queue) = Frames(depay.au_queue) /\ Wire' = Wire
  BY <1>1 DEF Wire, Range
<1>. QED
  BY <1>1, <1>4, <1>5, <1>6, Zenon DEF OwnAll

\* The other components are closed.
LEMMA OwnClose ==
  ASSUME TypeInv, OwnAll, CloseRest
  PROVE  OwnAll'
<1>1. /\ depay' = [rtp |-> rtp_h264_depacketizer, au_queue |-> <<>>] /\ dec' = NewDecoder
      /\ UNCHANGED <<coder, pending, payload_queue, au_q, present_q, decode, shown>>
  BY DEF CloseRest, sender, stages, screen
<1>2. Frames(<<>>) = <<>> /\ OwnUnits(<<>>) /\ OwnPts(<<>>) /\ OwnTimes(<<>>)
  BY DEF Frames, OwnUnits, Range, OwnPts, OwnTimes
<1>3. DecOwn(dec')
  BY <1>1, <1>2 DEF DecOwn, NewDecoder, OwnRing
<1>4. OwnBuild(depay'.rtp.building)
  BY <1>1 DEF rtp_h264_depacketizer, NoAu, OwnBuild
<1>5. OwnUnits(Frames(depay'.au_queue))
  BY <1>1, <1>2
<1>6. Wire' = Wire
  BY <1>1 DEF Wire, Range
<1>. QED
  BY <1>1, <1>3, <1>4, <1>5, <1>6, Zenon DEF OwnAll

\* OwnInv is inductive, where the types are right.
LEMMA OwnStep ==
  ASSUME Clock % Fps = 0
  PROVE  TypeInv /\ OwnInv /\ [Next]_vars => OwnInv'
<1> SUFFICES ASSUME TypeInv, OwnInv, [Next]_vars PROVE OwnInv'
  OBVIOUS
<1>1. CASE Configure \/ Restart
  <2>1. packers' = packers + 1
    BY <1>1 DEF Configure, Restart, NewPacker
  <2>. QED
    BY <2>1 DEF OwnInv
<1>2. ASSUME PayInput \/ Deliver \/ Lose \/ Net \/ Decode \/ MppDecode \/ Display
               \/ request_stop \/ Close \/ UNCHANGED vars
      PROVE  packers' = packers
  BY <1>2 DEF PayInput, Deliver, Lose, Net, NetReceive, NetForward, NetLeave, Decode,
              DecodeTake, DecodeFeed, DecodePull, DecodePush, DecodeLeave, MppDecode, Display,
              Present, PresentLeave, request_stop, Close, CloseReceiver, CloseRest, vars, sender
<1>3. ASSUME OwnAll, ~(Configure \/ Restart) PROVE OwnAll'
  <2>1. CASE Sender
    BY <1>3, <2>1, OwnPay, OwnLink DEF Sender
  <2>2. CASE Net
    <3>1. CASE NetLeave
      BY <1>3, <3>1, OwnSame DEF NetLeave, sender, screen
    <3>. QED
      BY <1>3, <2>2, <3>1, OwnReceive, OwnForward DEF Net
  <2>3. CASE Decode \/ MppDecode
    BY <1>3, <2>3, OwnDecode
  <2>4. CASE Display
    <3>1. CASE PresentLeave
      BY <1>3, <3>1, OwnSame DEF PresentLeave, sender, screen
    <3>. QED
      BY <1>3, <2>4, <3>1, OwnPresent DEF Display
  <2>5. CASE request_stop
    BY <1>3, <2>5, OwnSame DEF request_stop, sender, stages, screen
  <2>6. CASE Close
    BY <1>3, <2>6, OwnLink, OwnClose DEF Close
  <2>7. CASE UNCHANGED vars
    BY <1>3, <2>7, OwnSame DEF vars, sender, stages, screen
  <2>. QED
    BY <2>1, <2>2, <2>3, <2>4, <2>5, <2>6, <2>7 DEF Next
<1>4. CASE ~(Configure \/ Restart)
  <2>1. packers' = packers
    BY <1>2, <1>4 DEF Next, Sender
  <2>. QED
    BY <1>3, <1>4, <2>1 DEF OwnInv
<1>. QED
  BY <1>1, <1>4

\* With one packer and a rate that divides the clock, whatever was lost, dropped,
\* decoded with errors or refused, a frame is shown with the capture time of its own
\* picture or with none.  With another rate two frames may have the same pts, and
\* one may be shown with the time of the other.
THEOREM TimesAreOwn ==
  ASSUME Clock % Fps = 0
  PROVE  Spec => []OwnCapture
<1>1. OwnInv => OwnCapture
  <2> SUFFICES ASSUME OwnInv, packers = 1,
                      NEW f \in {shown} \cup Range(present_q) \cup Range(dec.ready)
               PROVE  f.capture \in {0, f.unit}
    BY DEF OwnCapture
  <2>1. /\ shown.capture \in {0, shown.unit} /\ OwnTimes(present_q) /\ OwnTimes(dec.ready)
    BY DEF OwnInv, OwnAll, DecOwn
  <2>2. CASE f = shown
    BY <2>1, <2>2
  <2>3. CASE f \in Range(present_q)
    BY <2>1, <2>3 DEF Range, OwnTimes
  <2>4. CASE f \in Range(dec.ready)
    BY <2>1, <2>4 DEF Range, OwnTimes
  <2>. QED
    BY <2>2, <2>3, <2>4
<1>2. TypeInv /\ OwnInv /\ [Next]_vars => OwnInv'
  BY OwnStep
<1>. QED
  BY <1>1, <1>2, OwnInit, TypesAlways, PTL DEF Spec

(******************** Whole units: numbers on the ring *********************)

\* The difference of two numbers less than half the ring apart.
LEMMA DiffIs ==
  ASSUME NEW a \in Nat, NEW b \in Nat, b < a, a - b < SeqRange \div 2
  PROVE  Diff(a % SeqRange, b % SeqRange) = a - b
<1> DEFINE R == SeqRange
           x == a % R
           y == b % R
           p == a \div R
           q == b \div R
           h == R \div 2
<1>1. R \in Nat \ {0} /\ h \in Nat /\ h <= R
  BY BoundsAre
<1>2. /\ x \in 0 .. R - 1 /\ y \in 0 .. R - 1 /\ p \in Nat /\ q \in Nat
      /\ a = R * p + x /\ b = R * q + y
  BY <1>1
<1>3. Diff(x, y) = IF (x - y) % R < h THEN (x - y) % R ELSE ((x - y) % R) - R
  BY DEF Diff
<1>4. a - b < h
  OBVIOUS
<1> HIDE DEF R, x, y, p, q, h
<1> DEFINE k == p - q
           m == R * k
<1>5. a - b = m + (x - y) /\ k \in Int /\ m \in Int
  <2>1. R * p - R * q = R * (p - q) /\ R * p \in Int /\ R * q \in Int /\ R * (p - q) \in Int
    BY <1>1, <1>2
  <2>. QED
    BY <1>1, <1>2, <2>1
<1>6. x - y \in (1 - R) .. R - 1
  BY <1>1, <1>2
<1>7. k \in {0, 1}
  <2>1. m < 2 * R /\ m > -R
    <3> HIDE DEF m
    <3>. QED
      BY <1>1, <1>4, <1>5, <1>6
  <2>2. k >= 2 => m >= 2 * R
    BY <1>1, <1>5
  <2>3. k <= -1 => m <= -R
    BY <1>1, <1>5
  <2> HIDE DEF k, m
  <2>. QED
    BY <1>1, <1>5, <2>1, <2>2, <2>3
<1>8. (x - y) % R = a - b
  <2> DEFINE d == x - y
  <2>1. d \in (1 - R) .. R - 1
    BY <1>6
  <2> HIDE DEF d
  <2>2. d % R = IF d < 0 THEN d + R ELSE d
    BY <1>1, <2>1
  <2>3. m = IF k = 0 THEN 0 ELSE R
    BY <1>1, <1>7
  <2>4. a - b = m + d
    BY <1>5 DEF d
  <2> HIDE DEF k, m
  <2>5. (a - b) = IF d < 0 THEN d + R ELSE d
    BY <1>1, <1>4, <1>7, <2>1, <2>3, <2>4
  <2>. QED
    BY <2>2, <2>5 DEF d
<1>9. Diff(x, y) = a - b
  BY <1>3, <1>4, <1>8
<1>. QED
  BY <1>9 DEF x, y, R

\* The remainder is the only one.
LEMMA RestOnly ==
  ASSUME NEW R \in Nat \ {0}, NEW a \in Nat, NEW p \in Nat, NEW x \in 0 .. R - 1, a = R * p + x
  PROVE  a % R = x
<1> DEFINE y == a % R
           q == a \div R
           k == q - p
           m == R * k
<1>1. y \in 0 .. R - 1 /\ q \in Nat /\ a = R * q + y
  OBVIOUS
<1>2. k \in Int /\ m \in Int /\ m = x - y
  <2>1. q \in Nat
    BY <1>1
  <2> HIDE DEF q
  <2>2. R * q - R * p = R * (q - p) /\ R * p \in Int /\ R * q \in Int
    BY <2>1
  <2>3. k \in Int /\ m \in Int
    BY <2>1
  <2>. QED
    BY <1>1, <2>1, <2>2, <2>3
<1> HIDE DEF y, q
<1>3. m > -R /\ m < R
  <2> HIDE DEF m
  <2>. QED
    BY <1>1, <1>2
<1> HIDE DEF k
<1>4. (k >= 1 => m >= R) /\ (k <= -1 => m <= -R)
  BY <1>2
<1>5. k = 0
  <2> HIDE DEF m
  <2>. QED
    BY <1>2, <1>3, <1>4
<1>6. m = 0
  BY <1>5
<1> HIDE DEF m
<1>. QED
  BY <1>1, <1>2, <1>6 DEF y

\* A number counted on from a number of the ring.
LEMMA ModAdds ==
  ASSUME NEW a \in Nat, NEW n \in Nat
  PROVE  ((a % SeqRange) + n) % SeqRange = (a + n) % SeqRange
<1> DEFINE R == SeqRange
           x == a % R
           p == a \div R
           y == (x + n) % R
           j == (x + n) \div R
<1>1. R \in Nat \ {0} /\ p \in Nat /\ x \in 0 .. R - 1 /\ a = R * p + x
  BY BoundsAre
<1>2. y \in 0 .. R - 1 /\ j \in Nat /\ x + n = R * j + y
  <2> HIDE DEF R, x
  <2>. QED
    BY <1>1
<1> HIDE DEF R, x, p, y, j
<1>3. R * (p + j) = R * p + R * j /\ p + j \in Nat /\ R * p \in Nat /\ R * j \in Nat
  BY <1>1, <1>2
<1>4. a + n = R * (p + j) + y /\ a + n \in Nat
  BY <1>1, <1>2, <1>3
<1>5. (a + n) % R = y
  BY <1>1, <1>2, <1>3, <1>4, RestOnly
<1>. QED
  BY <1>5 DEF y, R, x

\* A later picture has a later RTP time, if there are no more pictures than ticks.
LEMMA TimesRise ==
  ASSUME Fps <= Clock, NEW p \in Nat, NEW q \in Nat, p < q
  PROVE  pts_to_rtp_ts(p) < pts_to_rtp_ts(q)
<1> DEFINE a == p * Clock
           b == q * Clock
<1>1. a \in Nat /\ b \in Nat /\ b >= a + Clock
  <2>1. Clock \in Nat /\ q - p \in Nat /\ q - p >= 1
    BY BoundsAre
  <2>2. b = a + (q - p) * Clock
    BY <2>1
  <2>3. (q - p) * Clock >= Clock
    <3> DEFINE k == q - p
    <3>1. k \in Nat /\ k >= 1 /\ Clock \in Nat
      BY <2>1
    <3> HIDE DEF k
    <3>2. k * Clock = Clock + (k - 1) * Clock /\ (k - 1) * Clock \in Nat
      BY <3>1
    <3>3. k * Clock >= Clock
      BY <3>1, <3>2
    <3>. QED
      BY <3>3 DEF k
  <2>4. a \in Nat /\ b \in Nat /\ (q - p) * Clock \in Nat
    BY <2>1
  <2> HIDE DEF a, b
  <2>. QED
    BY <2>1, <2>2, <2>3, <2>4
<1> HIDE DEF a, b
<1>2. Fps \in Nat \ {0} /\ Clock \in Nat /\ b >= a + Fps
  BY <1>1, BoundsAre
<1>3. a \div Fps < b \div Fps
  <2>1. /\ a \div Fps \in Nat /\ b \div Fps \in Nat
        /\ a = Fps * (a \div Fps) + (a % Fps) /\ b = Fps * (b \div Fps) + (b % Fps)
        /\ a % Fps \in 0 .. Fps - 1 /\ b % Fps \in 0 .. Fps - 1
    BY <1>1, <1>2
  <2> DEFINE i == a \div Fps
             j == b \div Fps
             r == a % Fps
             s == b % Fps
  <2>2. i \in Nat /\ j \in Nat /\ r \in 0 .. Fps - 1 /\ s \in 0 .. Fps - 1
        /\ Fps * j + s >= Fps * i + r + Fps
    BY <1>1, <1>2, <2>1
  <2> HIDE DEF i, j, r, s
  <2>3. ASSUME j <= i PROVE FALSE
    <3>1. Fps * j <= Fps * i /\ Fps * j \in Nat /\ Fps * i \in Nat
      BY <1>2, <2>2, <2>3
    <3>. QED
      BY <1>2, <2>2, <3>1
  <2>4. i < j
    BY <2>2, <2>3
  <2>. QED
    BY <2>4 DEF i, j
<1>. QED
  BY <1>3 DEF a, b, pts_to_rtp_ts

(******************** Whole units: what is in a unit ***********************)

\* With the first packer, unit u has the datagrams first[u] up to first[u + 1] - 1 of
\* all that were sent: one with a slice, or three with a parameter set and an IDR
\* picture.  c is the last unit coded.
Size(first, u) == first[u + 1] - first[u]

Sps(u)   == [nal |-> Nal(u, "sps", 1), at |-> 1]
Idr(u, n) == [nal |-> Nal(u, "idr", 2), at |-> n]
Only(u)  == [nal |-> Nal(u, "slice", 1), at |-> 1]
PieceAt(first, u, n) ==
  IF Size(first, u) = 1 THEN Only(u) ELSE IF n = 1 THEN Sps(u) ELSE Idr(u, n - 1)

Numbering(first, c) ==
  /\ first \in [1 .. c + 1 -> Nat]
  /\ \A u \in 1 .. c : Size(first, u) \in {1, 3}
  /\ \A u, v \in 1 .. c + 1 : u <= v => /\ v - u <= first[v] - first[u]
                                        /\ first[v] - first[u] <= 3 * (v - u)

\* g is the datagram its unit and its place in it say.
Fits(first, c, g) ==
  LET u == UnitIn(g) IN
  /\ u \in 1 .. c /\ g.nth \in 1 .. Size(first, u)
  /\ g.payload = PieceAt(first, u, g.nth)
  /\ g.marker = (g.nth = Size(first, u))
  /\ g.seq = (first[u] + g.nth - 1) % SeqRange
  /\ g.ts = pts_to_rtp_ts(u - 1)

\* The m-th datagram of unit v is behind the n-th of unit u.
Past(u, n, v, m) == u < v \/ (u = v /\ n < m)

\* The pieces of the NAL units.
LEMMA SendIs ==
  ASSUME NEW u \in Nat
  PROVE  /\ send_nal(Nal(u, "sps", 1)) = <<Sps(u)>>
         /\ send_nal(Nal(u, "idr", 2)) = <<Idr(u, 1), Idr(u, 2)>>
         /\ send_nal(Nal(u, "slice", 1)) = <<Only(u)>>
BY DEF send_nal, Nal, Sps, Idr, Only

\* They are pieces of the unit.
LEMMA PiecesAre ==
  ASSUME NEW u \in Nat
  PROVE  /\ {Sps(u), Only(u), Idr(u, 1), Idr(u, 2)} \subseteq PieceOf(u)
         /\ Sps(u).nal.parts = 1 /\ Only(u).nal.parts = 1
         /\ Sps(u).at = 1 /\ Only(u).at = 1
         /\ Sps(u).nal = Nal(u, "sps", 1) /\ Only(u).nal = Nal(u, "slice", 1)
         /\ \A n \in {1, 2} : Idr(u, n).nal = Nal(u, "idr", 2) /\ Idr(u, n).at = n
                              /\ Idr(u, n).nal.parts = 2
BY DEF Sps, Idr, Only, Nal, PieceOf, Piece, NalUnit

\* What the pieces are put together to.
LEMMA FlatOne ==
  ASSUME NEW S, NEW s \in Seq(S)
  PROVE  FlattenSeq(<<s>>) = s
<1> DEFINE t == <<s>>
           Step(h) == [i \in 1 .. 1 |-> IF i = 1 THEN t[i] ELSE h[i - 1] \o t[i]]
           f == CHOOSE h : h = Step(h)
           g == [i \in 1 .. 1 |-> s]
<1>1. Len(t) = 1 /\ t[1] = s
  OBVIOUS
<1>2. FlattenSeq(t) = f[1]
  <2>1. FlattenSeq(t) = IF Len(t) = 0 THEN t
                        ELSE (CHOOSE h : h = [i \in 1 .. Len(t) |->
                                IF i = 1 THEN t[i] ELSE h[i - 1] \o t[i]])[Len(t)]
    BY Zenon DEF FlattenSeq
  <2> HIDE DEF t
  <2>. QED
    BY <1>1, <2>1
<1>3. g = Step(g)
  <2>1. \A i \in 1 .. 1 : i = 1
    OBVIOUS
  <2>. QED
    BY <1>1, <2>1
<1>4. f = Step(f)
  <2> HIDE DEF g, Step
  <2>. QED
    BY <1>3
<1>5. f[1] = s
  <2> HIDE DEF f
  <2>. QED
    BY <1>1, <1>4
<1>. QED
  BY <1>2, <1>5

\* And two sequences, one behind the other.
LEMMA FlatTwo ==
  ASSUME NEW s, NEW r
  PROVE  FlattenSeq(<<s, r>>) = s \o r
<1> DEFINE t == <<s, r>>
           Step(h) == [i \in 1 .. 2 |-> IF i = 1 THEN t[i] ELSE h[i - 1] \o t[i]]
           f == CHOOSE h : h = Step(h)
           g == [i \in 1 .. 2 |-> IF i = 1 THEN s ELSE s \o r]
<1>1. Len(t) = 2 /\ t[1] = s /\ t[2] = r
  OBVIOUS
<1>2. FlattenSeq(t) = f[2]
  <2>1. FlattenSeq(t) = IF Len(t) = 0 THEN t
                        ELSE (CHOOSE h : h = [i \in 1 .. Len(t) |->
                                IF i = 1 THEN t[i] ELSE h[i - 1] \o t[i]])[Len(t)]
    BY Zenon DEF FlattenSeq
  <2> HIDE DEF t
  <2>. QED
    BY <1>1, <2>1
<1>3. g = Step(g)
  <2>1. \A i \in 1 .. 2 : g[i] = IF i = 1 THEN t[i] ELSE g[i - 1] \o t[i]
    <3>1. \A i \in 1 .. 2 : i = 1 \/ i = 2
      OBVIOUS
    <3>2. g[1] = s /\ g[2] = s \o r /\ 2 - 1 = 1
      OBVIOUS
    <3> HIDE DEF g, t
    <3>. QED
      BY <1>1, <3>1, <3>2
  <2>2. g = [i \in 1 .. 2 |-> g[i]]
    OBVIOUS
  <2> HIDE DEF g, t
  <2>. QED
    BY <2>1, <2>2
<1>4. f = Step(f)
  <2> HIDE DEF g, Step
  <2>. QED
    BY <1>3
<1>5. f[1] = t[1] /\ f[2] = f[1] \o t[2]
  <2> HIDE DEF f, t
  <2>1. 1 \in 1 .. 2 /\ 2 \in 1 .. 2 /\ 2 - 1 = 1 /\ 2 # 1
    OBVIOUS
  <2>. QED
    BY <1>4, <2>1
<1>. QED
  BY <1>1, <1>2, <1>5

\* The packer of c units has the parameter set of the first.
Params(p, c) ==
  /\ p.pps = <<>>
  /\ IF c = 0 THEN p.sps = <<>> ELSE p.sps # <<>> /\ p.sps[1].parts = 1

\* The three sorts of access units.
Sort(nals, u) ==
  \/ nals = <<Nal(u, "aud", 1), Nal(u, "sps", 1), Nal(u, "idr", 2)>>
  \/ nals = <<Nal(u, "aud", 1), Nal(u, "idr", 2)>>
  \/ nals = <<Nal(u, "aud", 1), Nal(u, "slice", 1)>>

\* The parameter set of a unit that brings one is kept.
LEMMA CacheIs ==
  ASSUME NEW p \in Packer, NEW u \in Nat \ {0}, NEW nals \in Coded(u, u - 1), Params(p, u - 1)
  PROVE  LET q == cache_param(p, nals) IN
         /\ q.seq = p.seq /\ Params(q, u)
<1> DEFINE The(type)    == CHOOSE i \in DOMAIN nals : /\ nals[i].type = type
                                                      /\ \A j \in DOMAIN nals :
                                                           nals[j].type = type => j <= i
           Kept(k, type) == IF Has(nals, type) THEN <<nals[The(type)]>> ELSE k
           q == cache_param(p, nals)
<1>1. q = [p EXCEPT !.sps = Kept(@, "sps"), !.pps = Kept(@, "pps")]
  BY DEF cache_param
<1>2. Sort(nals, u)
  BY DEF Coded, Sort
<1>3. Kept(p.pps, "pps") = p.pps
  <2>1. ~Has(nals, "pps")
    BY <1>2 DEF Sort, Has, Nal
  <2>. QED
    BY <2>1
<1>4. Kept(p.sps, "sps") \in {p.sps, <<Nal(u, "sps", 1)>>}
      /\ (u = 1 => Kept(p.sps, "sps") = <<Nal(u, "sps", 1)>>)
  <2>1. CASE nals = <<Nal(u, "aud", 1), Nal(u, "sps", 1), Nal(u, "idr", 2)>>
    <3>1. DOMAIN nals = {1, 2, 3} /\ nals[1].type = "aud" /\ nals[2].type = "sps"
          /\ nals[3].type = "idr" /\ nals[2] = Nal(u, "sps", 1)
      BY <2>1 DEF Nal
    <3>2. The("sps") = 2
      BY <3>1
    <3>3. Has(nals, "sps")
      BY <3>1 DEF Has
    <3> HIDE DEF The
    <3>. QED
      BY <3>1, <3>2, <3>3
  <2>2. CASE nals # <<Nal(u, "aud", 1), Nal(u, "sps", 1), Nal(u, "idr", 2)>>
    <3>1. ~Has(nals, "sps")
      BY <1>2, <2>2 DEF Sort, Has, Nal
    <3>2. u # 1
      BY <2>2 DEF Coded
    <3>. QED
      BY <3>1, <3>2
  <2>. QED
    BY <2>1, <2>2
<1> HIDE DEF Kept, q
<1>5. q.seq = p.seq /\ q.pps = p.pps
      /\ q.sps \in {p.sps, <<Nal(u, "sps", 1)>>} /\ (u = 1 => q.sps = <<Nal(u, "sps", 1)>>)
  BY <1>1, <1>3, <1>4 DEF Packer
<1>6. Nal(u, "sps", 1).parts = 1
  BY DEF Nal
<1>7. Params(q, u)
  <2>1. <<Nal(u, "sps", 1)>> # <<>> /\ <<Nal(u, "sps", 1)>>[1] = Nal(u, "sps", 1)
    OBVIOUS
  <2>2. p.pps = <<>> /\ (u # 1 => p.sps # <<>> /\ p.sps[1].parts = 1)
    BY DEF Params
  <2>3. q.sps # <<>> /\ q.sps[1].parts = 1
    BY <1>5, <1>6, <2>1, <2>2
  <2>. QED
    BY <1>5, <2>2, <2>3 DEF Params
<1>. QED
  BY <1>5, <1>7 DEF q

\* What is sent up to each NAL unit.
LEMMA PayloadsAre ==
  ASSUME NEW p, NEW nals, NEW n \in {2, 3}, Len(nals) = n
  PROVE  LET f == Payloads(p, nals) IN
         /\ f[0] = <<>> /\ f[1] = f[0] \o emitted(p, nals, 1)
         /\ f[2] = f[1] \o emitted(p, nals, 2)
         /\ n = 3 => f[3] = f[2] \o emitted(p, nals, 3)
<1> DEFINE f == Payloads(p, nals)
<1>1. \E h : IsSent(p, nals, n, h)
  BY SentExists
<1>2. f = CHOOSE h : IsSent(p, nals, n, h)
  BY Zenon DEF Payloads, IsSent
<1>3. IsSent(p, nals, n, f)
  <2>. HIDE DEF f
  <2>. QED
    BY <1>1, <1>2
<1>4. f = [i \in 0 .. n |-> IF i = 0 THEN <<>> ELSE f[i - 1] \o emitted(p, nals, i)]
  BY <1>3, Zenon DEF IsSent
<1> HIDE DEF f
<1>5. f[0] = <<>>
  BY <1>4
<1>6. f[1] = f[0] \o emitted(p, nals, 1)
  <2>1. 1 \in 0 .. n /\ 1 # 0 /\ 1 - 1 = 0
    OBVIOUS
  <2>. QED
    BY <1>4, <2>1
<1>7. f[2] = f[1] \o emitted(p, nals, 2)
  <2>1. 2 \in 0 .. n /\ 2 # 0 /\ 2 - 1 = 1
    OBVIOUS
  <2>. QED
    BY <1>4, <2>1
<1>8. n = 3 => f[3] = f[2] \o emitted(p, nals, 3)
  <2>1. n = 3 => 3 \in 0 .. n /\ 3 # 0 /\ 3 - 1 = 2
    OBVIOUS
  <2>. QED
    BY <1>4, <2>1
<1>. QED
  BY <1>5, <1>6, <1>7, <1>8 DEF f

\* Short sequences, one behind the other.
LEMMA CatSmall ==
  ASSUME NEW x, NEW y, NEW z
  PROVE  /\ <<>> \o <<>> = <<>> /\ <<>> \o <<x>> = <<x>> /\ <<>> \o <<x, y>> = <<x, y>>
         /\ <<>> \o <<x, y, z>> = <<x, y, z>>
         /\ <<x>> \o <<>> = <<x>> /\ <<x>> \o <<y, z>> = <<x, y, z>>
<1>1. <<>> \o <<>> = <<>> /\ <<>> \o <<x>> = <<x>> /\ <<>> \o <<x, y>> = <<x, y>>
  OBVIOUS
<1>2. <<>> \o <<x, y, z>> = <<x, y, z>> /\ <<x>> \o <<>> = <<x>>
  OBVIOUS
<1>3. <<x>> \o <<y, z>> = <<x, y, z>>
  <2> DEFINE w == <<x>> \o <<y, z>>
             S == {x, y, z}
  <2>1. <<x>> \in Seq(S) /\ <<y, z>> \in Seq(S) /\ Len(<<x>>) = 1 /\ Len(<<y, z>>) = 2
        /\ <<x>>[1] = x /\ <<y, z>>[1] = y /\ <<y, z>>[2] = z
    OBVIOUS
  <2> DEFINE s == <<x>>
             t == <<y, z>>
  <2> HIDE DEF s, t, S
  <2>2. w \in Seq(S) /\ Len(w) = 3 /\ w[1] = x /\ w[2] = y /\ w[3] = z
    <3>1. s \in Seq(S) /\ t \in Seq(S) /\ Len(s) = 1 /\ Len(t) = 2
          /\ s[1] = x /\ t[1] = y /\ t[2] = z
      BY <2>1 DEF s, t, S
    <3> DEFINE v == s \o t
    <3>2. /\ v \in Seq(S) /\ Len(v) = 3
          /\ (\A i \in 1 .. 1 : v[i] = s[i])
          /\ \A i \in 2 .. 3 : v[i] = t[i - 1]
      <4>1. /\ v \in Seq(S) /\ Len(v) = Len(s) + Len(t)
            /\ (\A i \in 1 .. Len(s) : v[i] = s[i])
            /\ \A i \in Len(s) + 1 .. Len(s) + Len(t) : v[i] = t[i - Len(s)]
        BY <3>1, CatIs
      <4> HIDE DEF v
      <4>. QED
        BY <3>1, <4>1
    <3> HIDE DEF v
    <3>3. v[1] = s[1] /\ v[2] = t[2 - 1] /\ v[3] = t[3 - 1]
      BY <3>2
    <3>4. v[1] = x /\ v[2] = y /\ v[3] = z
      BY <3>1, <3>3
    <3>5. w = v
      BY DEF v, s, t
    <3>. QED
      BY <3>2, <3>4, <3>5
  <2> HIDE DEF w
  <2>3. w = <<x, y, z>>
    BY <2>2
  <2>. QED
    BY <2>3 DEF w
<1>. QED
  BY <1>1, <1>2, <1>3

\* A unit sends a slice, or the parameter set and an IDR picture.
LEMMA SentIs ==
  ASSUME NEW p \in Packer, NEW u \in Nat \ {0}, NEW nals \in Coded(u, u - 1), Params(p, u - 1)
  PROVE  Payloads(cache_param(p, nals), nals)[Len(nals)]
           \in {<<Only(u)>>, <<Sps(u), Idr(u, 1), Idr(u, 2)>>}
<1> DEFINE q == cache_param(p, nals)
           f == Payloads(q, nals)
           e(i) == emitted(q, nals, i)
           sps == cached(q.sps, "sps", nals)
           pps == cached(q.pps, "pps", nals)
<1>1. Params(q, u)
  BY CacheIs
<1>2. q.pps = <<>> /\ q.sps # <<>> /\ q.sps[1].parts = 1
  BY <1>1 DEF Params
<1>3. Sort(nals, u)
  BY DEF Coded, Sort
<1> HIDE DEF q
<1>4. pps = <<>>
  BY <1>2 DEF cached
<1>5. /\ send_nal(Nal(u, "sps", 1)) = <<Sps(u)>>
      /\ send_nal(Nal(u, "idr", 2)) = <<Idr(u, 1), Idr(u, 2)>>
      /\ send_nal(Nal(u, "slice", 1)) = <<Only(u)>>
  BY SendIs
<1>6. CASE nals = <<Nal(u, "aud", 1), Nal(u, "sps", 1), Nal(u, "idr", 2)>>
  <2>1. Len(nals) = 3 /\ DOMAIN nals = {1, 2, 3} /\ nals[1].type = "aud"
        /\ nals[2].type = "sps" /\ nals[3].type = "idr"
        /\ nals[2] = Nal(u, "sps", 1) /\ nals[3] = Nal(u, "idr", 2)
    BY <1>6 DEF Nal
  <2>2. Has(nals, "sps") /\ Has(nals, "idr")
    BY <2>1 DEF Has
  <2>3. sps = <<>>
    BY <2>2 DEF cached
  <2>4. e(1) = <<>>
    BY <2>1 DEF emitted
  <2>5. e(2) = <<Sps(u)>>
    BY <1>5, <2>1 DEF emitted, Slice
  <2>6. \A j \in 1 .. 3 - 1 : nals[j].type \notin Slice
    BY <2>1 DEF Slice
  <2>7. e(3) = sps \o pps \o <<Idr(u, 1), Idr(u, 2)>>
    <3>1. nals[3].type # "aud" /\ nals[3].type \in Slice
      BY <2>1 DEF Slice
    <3>. QED
      BY <1>5, <2>1, <2>2, <2>6, <3>1, Zenon DEF emitted
  <2>8. f[0] = <<>> /\ f[1] = f[0] \o e(1) /\ f[2] = f[1] \o e(2) /\ f[3] = f[2] \o e(3)
    BY <2>1, PayloadsAre
  <2> HIDE DEF f, e, sps, pps
  <2>9. f[3] = <<Sps(u), Idr(u, 1), Idr(u, 2)>>
    <3>1. e(3) = <<Idr(u, 1), Idr(u, 2)>>
      BY <1>4, <2>3, <2>7, CatSmall
    <3>2. f[1] = <<>>
      BY <2>4, <2>8, CatSmall
    <3>3. f[2] = <<Sps(u)>>
      BY <2>5, <2>8, <3>2, CatSmall
    <3>. QED
      BY <2>8, <3>1, <3>3, CatSmall
  <2>. QED
    BY <2>1, <2>9 DEF f, q
<1>7. CASE nals = <<Nal(u, "aud", 1), Nal(u, "idr", 2)>>
  <2>1. Len(nals) = 2 /\ DOMAIN nals = {1, 2} /\ nals[1].type = "aud" /\ nals[2].type = "idr"
        /\ nals[2] = Nal(u, "idr", 2) /\ nals[1].unit = u
    BY <1>7 DEF Nal
  <2>2. ~Has(nals, "sps") /\ Has(nals, "idr")
    BY <2>1 DEF Has
  <2>3. sps = <<Sps(u)>>
    BY <1>2, <1>5, <2>1, <2>2 DEF cached
  <2>4. e(1) = <<>>
    BY <2>1 DEF emitted
  <2>6. \A j \in 1 .. 2 - 1 : nals[j].type \notin Slice
    BY <2>1 DEF Slice
  <2>7. e(2) = sps \o pps \o <<Idr(u, 1), Idr(u, 2)>>
    <3>1. nals[2].type # "aud" /\ nals[2].type \in Slice
      BY <2>1 DEF Slice
    <3>. QED
      BY <1>5, <2>1, <2>2, <2>6, <3>1, Zenon DEF emitted
  <2>8. f[0] = <<>> /\ f[1] = f[0] \o e(1) /\ f[2] = f[1] \o e(2)
    BY <2>1, PayloadsAre
  <2> HIDE DEF f, e, sps, pps
  <2>9. f[2] = <<Sps(u), Idr(u, 1), Idr(u, 2)>>
    <3>1. e(2) = <<Sps(u), Idr(u, 1), Idr(u, 2)>>
      BY <1>4, <2>3, <2>7, CatSmall
    <3>2. f[1] = <<>>
      BY <2>4, <2>8, CatSmall
    <3>. QED
      BY <2>8, <3>1, <3>2, CatSmall
  <2>. QED
    BY <2>1, <2>9 DEF f, q
<1>8. CASE nals = <<Nal(u, "aud", 1), Nal(u, "slice", 1)>>
  <2>1. Len(nals) = 2 /\ DOMAIN nals = {1, 2} /\ nals[1].type = "aud" /\ nals[2].type = "slice"
        /\ nals[2] = Nal(u, "slice", 1)
    BY <1>8 DEF Nal
  <2>2. ~Has(nals, "idr")
    BY <2>1 DEF Has
  <2>4. e(1) = <<>>
    BY <2>1 DEF emitted
  <2>7. e(2) = <<Only(u)>>
    BY <1>5, <2>1, <2>2 DEF emitted
  <2>8. f[0] = <<>> /\ f[1] = f[0] \o e(1) /\ f[2] = f[1] \o e(2)
    BY <2>1, PayloadsAre
  <2> HIDE DEF f, e
  <2>9. f[2] = <<Only(u)>>
    <3>2. f[1] = <<>>
      BY <2>4, <2>8, CatSmall
    <3>. QED
      BY <2>7, <2>8, <3>2, CatSmall
  <2>. QED
    BY <2>1, <2>9 DEF f, q
<1>. QED
  BY <1>3, <1>6, <1>7, <1>8 DEF Sort

(*************** Whole units: what the depacketizer has fed ****************)

\* Every NAL unit of nals is all the pieces of one NAL unit of access unit u.
Unmixed(nals, u) ==
  \A k \in DOMAIN nals : nals[k] = send_nal(nals[k][1].nal) /\ nals[k][1].nal.unit = u

\* d was fed the n-th datagram of unit u last (of no unit if u is 0); units that are
\* not in B have lost nothing.
NetGood(first, c, B, u, n, d) ==
  /\ u = 0 => n = 0 /\ ~d.have_seq /\ d.building = NoAu /\ ~d.fu_active
  /\ u # 0 =>
       /\ u \in 1 .. c /\ n \in 1 .. Size(first, u)
       /\ d.have_seq /\ d.last_seq = (first[u] + n - 1) % SeqRange
       /\ d.building.ts = IF n = Size(first, u) THEN -1 ELSE pts_to_rtp_ts(u - 1)
       /\ n = Size(first, u) => d.building.nals = <<>>
       /\ Unmixed(d.building.nals, u)
       /\ d.fu_active => Size(first, u) = 3 /\ n = 2 /\ d.fu_buf = <<Idr(u, 1)>>
       /\ u \notin B /\ n < Size(first, u) =>
            d.building.nals = <<<<Sps(u)>>>> /\ (n = 2 => d.fu_active)

\* The datagram that fits is one of four.
LEMMA KindIs ==
  ASSUME NEW first, NEW c \in Nat, Numbering(first, c), NEW g, Fits(first, c, g)
  PROVE  LET v == UnitIn(g)
             m == g.nth
         IN  /\ v \in 1 .. c /\ m \in 1 .. Size(first, v) /\ g.marker = (m = Size(first, v))
             /\ first[v] \in Nat /\ first[v + 1] = first[v] + Size(first, v)
             /\ \/ Size(first, v) = 1 /\ m = 1 /\ g.payload = Only(v)
                \/ Size(first, v) = 3 /\ m = 1 /\ g.payload = Sps(v)
                \/ Size(first, v) = 3 /\ m = 2 /\ g.payload = Idr(v, 1)
                \/ Size(first, v) = 3 /\ m = 3 /\ g.payload = Idr(v, 2)
<1> DEFINE v == UnitIn(g)
           m == g.nth
<1>1. v \in 1 .. c /\ m \in 1 .. Size(first, v) /\ g.marker = (m = Size(first, v))
      /\ g.payload = PieceAt(first, v, m)
  BY DEF Fits
<1> HIDE DEF v, m
<1>2. Size(first, v) \in {1, 3}
  BY <1>1 DEF Numbering
<1>3. v \in 1 .. c + 1 /\ v + 1 \in 1 .. c + 1
  BY <1>1
<1>4. first[v] \in Nat /\ first[v + 1] \in Nat
  BY <1>3 DEF Numbering
<1>5. first[v + 1] = first[v] + Size(first, v)
  BY <1>4 DEF Size
<1>6. CASE Size(first, v) = 1
  <2>1. m = 1 /\ g.payload = Only(v)
    BY <1>1, <1>6 DEF PieceAt
  <2>. QED
    BY <1>1, <1>4, <1>5, <1>6, <2>1 DEF v, m
<1>7. CASE Size(first, v) = 3
  <2>1. m \in {1, 2, 3}
    BY <1>1, <1>7
  <2>2. /\ m = 1 => g.payload = Sps(v)
        /\ m = 2 => g.payload = Idr(v, 1)
        /\ m = 3 => g.payload = Idr(v, 2)
    BY <1>1, <1>7 DEF PieceAt
  <2>. QED
    BY <1>1, <1>4, <1>5, <1>7, <2>1, <2>2 DEF v, m
<1>. QED
  BY <1>2, <1>6, <1>7

\* The places of two datagrams, one behind the other.
LEMMA PlacesAre ==
  ASSUME NEW first, NEW c \in Nat, Numbering(first, c),
         NEW u \in 1 .. c, NEW n \in 1 .. Size(first, u),
         NEW v \in 1 .. c, NEW m \in 1 .. Size(first, v), Past(u, n, v, m)
  PROVE  /\ first[u] \in Nat /\ first[v] \in Nat /\ n \in Nat /\ m \in Nat
         /\ first[u] + n < first[v] + m
         /\ u # v => first[v] + m >= first[u] + Size(first, u) + m
         /\ first[v] + m - (first[u] + n) <= 3 * (v - u) + 2
<1>1. /\ u \in 1 .. c + 1 /\ v \in 1 .. c + 1 /\ u + 1 \in 1 .. c + 1
      /\ Size(first, u) \in {1, 3} /\ Size(first, v) \in {1, 3}
  <2>1. u \in 1 .. c + 1 /\ v \in 1 .. c + 1 /\ u + 1 \in 1 .. c + 1
    OBVIOUS
  <2>2. \A w \in 1 .. c : Size(first, w) \in {1, 3}
    BY DEF Numbering
  <2>. QED
    BY <2>1, <2>2
<1>2. first[u] \in Nat /\ first[v] \in Nat /\ first[u + 1] \in Nat
  BY <1>1 DEF Numbering
<1>3. first[u + 1] = first[u] + Size(first, u)
  BY <1>2 DEF Size
<1>4. n \in Nat /\ m \in Nat /\ n <= 3 /\ m <= 3 /\ n >= 1 /\ m >= 1 /\ n <= Size(first, u)
  BY <1>1
<1>5. CASE u = v
  BY <1>2, <1>4, <1>5 DEF Past
<1>6. CASE u # v
  <2>1. u < v /\ u + 1 <= v
    BY <1>6 DEF Past
  <2>2. 0 <= first[v] - first[u + 1]
    <3>1. v - (u + 1) <= first[v] - first[u + 1]
      BY <1>1, <2>1 DEF Numbering
    <3>. QED
      BY <1>2, <2>1, <3>1
  <2>3. first[v] - first[u] <= 3 * (v - u)
    BY <1>1, <2>1 DEF Numbering
  <2>4. 3 * (v - u) \in Nat
    BY <2>1
  <2> DEFINE t == 3 * (v - u)
  <2> HIDE DEF t
  <2>5. first[v] - first[u] <= t /\ t \in Nat
    BY <2>3, <2>4 DEF t
  <2>6. first[v] + m - (first[u] + n) <= t + 2
    BY <1>2, <1>4, <2>5
  <2>7. Size(first, u) \in Nat
    BY <1>1
  <2>. QED
    BY <1>2, <1>3, <1>4, <1>6, <2>2, <2>6, <2>7 DEF t
<1>. QED
  BY <1>5, <1>6

\* The units that lost datagrams since u, the last seen, are fewer than half the ring.
Near(u, v) == u # 0 => 3 * (v - u) + 2 < SeqRange \div 2

\* The datagram g is not refused, and finds the NAL unit it is the next piece of.
Follows(first, u, n, d, g) ==
  /\ ~(d.have_seq /\ Diff(g.seq, d.last_seq) <= 0)
  /\ Live(d, g.seq) => /\ u = UnitIn(g) /\ Size(first, u) = 3 /\ n = 2 /\ g.nth = 3
                       /\ d.fu_buf = <<Idr(u, 1)>>
  /\ u = UnitIn(g) /\ u # 0 /\ n + 1 = g.nth /\ d.fu_active => Live(d, g.seq)

\* What is fed is not refused, and goes on with the NAL unit in progress only if it is
\* its next piece.
LEMMA FeedNear ==
  ASSUME NEW first, NEW c \in Nat, Numbering(first, c), NEW B, NEW u \in Nat, NEW n \in Nat,
         NEW d \in Depack, NetGood(first, c, B, u, n, d), NEW g \in Datagram,
         Fits(first, c, g), Past(u, n, UnitIn(g), g.nth),
         Near(u, UnitIn(g))
  PROVE  Follows(first, u, n, d, g)
<1> DEFINE v == UnitIn(g)
           m == g.nth
<1>1. v \in 1 .. c /\ m \in 1 .. Size(first, v)
  BY DEF Fits
<1>2. CASE u = 0
  <2>1. ~d.have_seq /\ ~d.fu_active
    BY <1>2 DEF NetGood
  <2>. QED
    BY <1>2, <2>1 DEF Live, Follows
<1>3. CASE u # 0
  <2>1. /\ u \in 1 .. c /\ n \in 1 .. Size(first, u)
        /\ d.have_seq /\ d.last_seq = (first[u] + n - 1) % SeqRange
        /\ d.fu_active => Size(first, u) = 3 /\ n = 2 /\ d.fu_buf = <<Idr(u, 1)>>
    BY <1>3 DEF NetGood
  <2>2. g.seq = (first[v] + m - 1) % SeqRange
    BY DEF Fits
  <2> HIDE DEF v, m
  <2>3. /\ first[u] \in Nat /\ first[v] \in Nat /\ n \in Nat /\ m \in Nat
        /\ first[u] + n < first[v] + m
        /\ u # v => first[v] + m >= first[u] + Size(first, u) + m
        /\ first[v] + m - (first[u] + n) <= 3 * (v - u) + 2
    <3>1. Past(u, n, v, m)
      BY DEF v, m
    <3>. QED
      BY <1>1, <2>1, <3>1, PlacesAre
  <2>4. 3 * (v - u) + 2 < SeqRange \div 2
    BY <1>3 DEF v, Near
  <2> DEFINE a == first[v] + m - 1
             b == first[u] + n - 1
             t == 3 * (v - u) + 2
             h == SeqRange \div 2
  <2>5. a \in Nat /\ b \in Nat /\ b < a /\ a - b <= t
    BY <1>1, <2>1, <2>3
  <2>6. a - b < h
    <3>1. h \in Int /\ t \in Int
      BY <1>1, <2>1, BoundsAre
    <3> HIDE DEF a, b, t
    <3>2. t < h
      BY <2>4 DEF t
    <3> HIDE DEF h
    <3>. QED
      BY <2>5, <3>1, <3>2
  <2>7. Diff(g.seq, d.last_seq) = a - b
    <3> HIDE DEF a, b
    <3>1. Diff(a % SeqRange, b % SeqRange) = a - b
      BY <2>5, <2>6, DiffIs DEF h
    <3>. QED
      BY <2>1, <2>2, <3>1 DEF a, b
  <2>8. ~(d.have_seq /\ Diff(g.seq, d.last_seq) <= 0)
    <3> HIDE DEF a, b
    <3>. QED
      BY <2>5, <2>7
  <2>9. ASSUME Live(d, g.seq) PROVE u = v /\ Size(first, u) = 3 /\ n = 2 /\ m = 3
                                    /\ d.fu_buf = <<Idr(u, 1)>>
    <3>1. d.fu_active /\ ~(a - b > 1)
      BY <2>1, <2>7, <2>9 DEF Live
    <3>2. Size(first, u) = 3 /\ n = 2 /\ d.fu_buf = <<Idr(u, 1)>>
      BY <2>1, <3>1
    <3>3. a - b = 1
      <4> HIDE DEF a, b
      <4>. QED
        BY <2>5, <3>1
    <3>4. first[v] + m = first[u] + 3
      BY <2>3, <3>2, <3>3
    <3>5. u = v
      <4> SUFFICES ASSUME u # v PROVE FALSE
        OBVIOUS
      <4>1. m >= 1
        BY <1>1, <2>3
      <4>. QED
        BY <2>3, <3>2, <3>4, <4>1
    <3>6. m = 3
      BY <2>3, <3>4, <3>5
    <3>. QED
      BY <3>2, <3>5, <3>6
  <2>10. ASSUME u = v, n + 1 = m, d.fu_active PROVE Live(d, g.seq)
    <3>1. a - b = 1
      BY <2>3, <2>10
    <3>2. Diff(g.seq, d.last_seq) = 1
      BY <2>7, <3>1
    <3>. QED
      BY <2>10, <3>2 DEF Live
  <2>. QED
    BY <2>8, <2>9, <2>10 DEF v, m, Follows
<1>. QED
  BY <1>2, <1>3

\* A NAL unit of the same access unit may be added.
LEMMA UnmixedMore ==
  ASSUME NEW S, NEW a \in Seq(S), NEW s \in S, NEW u, Unmixed(a, u),
         s = send_nal(s[1].nal), s[1].nal.unit = u
  PROVE  Unmixed(Append(a, s), u)
<1> DEFINE t == Append(a, s)
<1>1. /\ Len(a) \in Nat /\ DOMAIN a = 1 .. Len(a) /\ DOMAIN t = 1 .. Len(a) + 1
      /\ (\A k \in 1 .. Len(a) : t[k] = a[k]) /\ t[Len(a) + 1] = s
  BY AppendIs
<1> HIDE DEF t
<1>2. ASSUME NEW k \in DOMAIN t
      PROVE  t[k] = send_nal(t[k][1].nal) /\ t[k][1].nal.unit = u
  <2>1. CASE k \in DOMAIN a
    BY <1>1, <2>1 DEF Unmixed
  <2>2. CASE k \notin DOMAIN a
    <3>1. k = Len(a) + 1
      BY <1>1, <2>2
    <3>. QED
      BY <1>1, <3>1
  <2>. QED
    BY <2>1, <2>2
<1>3. Unmixed(t, u)
  BY <1>2 DEF Unmixed
<1>. QED
  BY <1>3 DEF t

\* nals, with the fragmented NAL unit in progress, after the m-th datagram of unit v.
Made(first, B, v, m, nals, active, fu) ==
  /\ Unmixed(nals, v)
  /\ active => Size(first, v) = 3 /\ m = 2 /\ fu = <<Idr(v, 1)>>
  /\ v \notin B =>
       /\ Size(first, v) = 1 => nals = <<<<Only(v)>>>>
       /\ Size(first, v) = 3 /\ m \in {1, 2} => nals = <<<<Sps(v)>>>> /\ (m = 2 => active)
       /\ Size(first, v) = 3 /\ m = 3 => nals = <<<<Sps(v)>>, <<Idr(v, 1), Idr(v, 2)>>>>

\* An entry behind one.
LEMMA AppendTwo ==
  ASSUME NEW S, NEW s \in Seq(S), NEW y \in S
  PROVE  Len(s) = 1 => Append(s, y) = <<s[1], y>>
<1> DEFINE t == Append(s, y)
           r == <<s[1], y>>
<1>1. /\ Len(s) \in Nat /\ DOMAIN s = 1 .. Len(s) /\ DOMAIN t = 1 .. Len(s) + 1
      /\ (\A i \in 1 .. Len(s) : t[i] = s[i]) /\ t[Len(s) + 1] = y /\ t \in Seq(S)
  BY AppendIs
<1> HAVE Len(s) = 1
<1>2. s[1] \in S
  BY LenProperties
<1>3. r \in Seq(S) /\ r[1] = s[1] /\ r[2] = y /\ DOMAIN r = 1 .. 2
  BY <1>2
<1> HIDE DEF r, t
<1>4. DOMAIN t = 1 .. 2 /\ t[1] = s[1] /\ t[2] = y
  BY <1>1
<1>5. t = r
  BY <1>1, <1>3, <1>4
<1>. QED
  BY <1>5 DEF t, r

\* What the datagram g finds of its access unit.
LEMMA GoesGood ==
  ASSUME Fps <= Clock,
         NEW first, NEW c \in Nat, Numbering(first, c), NEW B, NEW u \in Nat, NEW n \in Nat,
         NEW d \in Depack, NetGood(first, c, B, u, n, d), NEW g \in Datagram,
         Fits(first, c, g), Past(u, n, UnitIn(g), g.nth),
         UnitIn(g) \notin B => g.nth = 1 \/ (u = UnitIn(g) /\ n = g.nth - 1)
  PROVE  LET v == UnitIn(g)
             a == Goes(d.building, g).nals
         IN  /\ Unmixed(a, v)
             /\ v \notin B => a = IF g.nth = 1 THEN <<>> ELSE <<<<Sps(v)>>>>
<1> DEFINE v == UnitIn(g)
           m == g.nth
           a == Goes(d.building, g).nals
<1>1. v \in 1 .. c /\ m \in 1 .. Size(first, v) /\ g.ts = pts_to_rtp_ts(v - 1)
      /\ Size(first, v) \in {1, 3}
  <2>1. v \in 1 .. c /\ m \in 1 .. Size(first, v) /\ g.ts = pts_to_rtp_ts(v - 1)
    BY DEF Fits
  <2> HIDE DEF v, m
  <2>2. \A w \in 1 .. c : Size(first, w) \in {1, 3}
    BY DEF Numbering
  <2>. QED
    BY <2>1, <2>2
<1>2. g.ts \in Nat /\ d.building \in Building /\ Unmixed(<<>>, v)
  BY DEF Datagram, Depack, Unmixed
<1>3. u < v \/ (u = v /\ n < m)
  BY DEF Past
<1>4. ASSUME a = <<>>, ~(u = v) PROVE Unmixed(a, v) /\ (v \notin B => m = 1 /\ a = <<>>)
  <2> HIDE DEF a
  <2>. QED
    BY <1>2, <1>4 DEF v, m
<1>5. CASE u = 0
  <2>1. d.building = NoAu
    BY <1>5 DEF NetGood
  <2>2. a = <<>>
    BY <2>1 DEF Goes, NoAu
  <2>3. u # v
    BY <1>1, <1>5
  <2>. QED
    BY <1>4, <2>2, <2>3
<1>6. CASE u # 0 /\ u # v
  <2>1. /\ u \in 1 .. c /\ n \in 1 .. Size(first, u)
        /\ d.building.ts = IF n = Size(first, u) THEN -1 ELSE pts_to_rtp_ts(u - 1)
        /\ n = Size(first, u) => d.building.nals = <<>>
    BY <1>6 DEF NetGood
  <2>2. CASE n = Size(first, u)
    <3>1. ~Ended(d.building, g) /\ d.building.nals = <<>>
      BY <2>1, <2>2 DEF Ended
    <3>2. a = <<>>
      BY <3>1 DEF Goes
    <3>. QED
      BY <1>4, <1>6, <3>2
  <2>3. CASE n # Size(first, u)
    <3>1. d.building.ts = pts_to_rtp_ts(u - 1)
      BY <2>1, <2>3
    <3>2. u - 1 \in Nat /\ v - 1 \in Nat /\ u - 1 < v - 1
      <4> HIDE DEF v
      <4>. QED
        BY <1>1, <1>3, <1>6, <2>1
    <3> HIDE DEF v
    <3>3. pts_to_rtp_ts(u - 1) < pts_to_rtp_ts(v - 1)
      BY <3>2, TimesRise
    <3>4. pts_to_rtp_ts(u - 1) \in Nat
      BY <3>2, TsIs
    <3>5. d.building.ts # g.ts /\ d.building.ts # -1
      BY <1>1, <1>2, <3>1, <3>3, <3>4
    <3>6. Ended(d.building, g)
      BY <3>5 DEF Ended
    <3>7. a = <<>>
      BY <3>6 DEF Goes, NoAu
    <3>. QED
      BY <1>4, <1>6, <3>7 DEF v
  <2>. QED
    BY <2>2, <2>3
<1>7. CASE u # 0 /\ u = v
  <2>1. /\ n \in 1 .. Size(first, u)
        /\ d.building.ts = IF n = Size(first, u) THEN -1 ELSE pts_to_rtp_ts(u - 1)
        /\ Unmixed(d.building.nals, u)
        /\ u \notin B /\ n < Size(first, u) => d.building.nals = <<<<Sps(u)>>>>
    BY <1>7 DEF NetGood
  <2> HIDE DEF v, m
  <2>2. n < m /\ n < Size(first, u) /\ n # Size(first, u) /\ m # 1
    BY <1>1, <1>3, <1>7, <2>1
  <2>3. d.building.ts = g.ts
    BY <1>1, <1>7, <2>1, <2>2
  <2>4. a = d.building.nals
    BY <2>3 DEF Goes, Ended
  <2> HIDE DEF a
  <2>5. Unmixed(a, v) /\ (v \notin B => a = <<<<Sps(v)>>>>)
    BY <1>7, <2>1, <2>2, <2>4
  <2>. QED
    BY <2>2, <2>5 DEF a, v, m
<1>. QED
  BY <1>5, <1>6, <1>7

\* And what the depacketizer has made of it.
LEMMA TakesGood ==
  ASSUME NEW first, NEW c \in Nat, Numbering(first, c), NEW B,
         NEW g \in Datagram, Fits(first, c, g),
         NEW a \in Seq(Group), NEW live \in BOOLEAN, NEW buf, NEW nals, NEW active, NEW fu,
         Takes(a, live, buf, g.payload, nals, active, fu), active \in BOOLEAN,
         Unmixed(a, UnitIn(g)),
         UnitIn(g) \notin B => a = IF g.nth = 1 THEN <<>> ELSE <<<<Sps(UnitIn(g))>>>>,
         live => Size(first, UnitIn(g)) = 3 /\ g.nth = 3 /\ buf = <<Idr(UnitIn(g), 1)>>,
         UnitIn(g) \notin B /\ g.nth = 3 => live
  PROVE  Made(first, B, UnitIn(g), g.nth, nals, active, fu)
<1> DEFINE v == UnitIn(g)
           m == g.nth
           p == g.payload
<1>1. v \in Nat /\ v \in 1 .. c
  BY KindIs
<1>2. /\ Sps(v).nal.parts = 1 /\ Only(v).nal.parts = 1
      /\ Idr(v, 1).nal.parts = 2 /\ Idr(v, 2).nal.parts = 2
      /\ Idr(v, 1).at = 1 /\ Idr(v, 2).at = 2
      /\ Sps(v).nal.unit = v /\ Only(v).nal.unit = v /\ Idr(v, 1).nal.unit = v
      /\ {Sps(v), Only(v), Idr(v, 1), Idr(v, 2)} \subseteq Piece
  BY <1>1 DEF Sps, Only, Idr, Nal, Piece, NalUnit
<1>3. /\ send_nal(Sps(v).nal) = <<Sps(v)>> /\ send_nal(Only(v).nal) = <<Only(v)>>
      /\ send_nal(Idr(v, 1).nal) = <<Idr(v, 1), Idr(v, 2)>>
  <2>1. /\ Sps(v).nal = Nal(v, "sps", 1) /\ Only(v).nal = Nal(v, "slice", 1)
        /\ Idr(v, 1).nal = Nal(v, "idr", 2)
    BY DEF Sps, Only, Idr
  <2> HIDE DEF v
  <2>. QED
    BY <1>1, <2>1, SendIs
<1>4. /\ <<Sps(v)>> \in Group /\ <<Only(v)>> \in Group /\ <<Idr(v, 1), Idr(v, 2)>> \in Group
  <2> HIDE DEF v
  <2>. QED
    BY <1>2 DEF Group
<1> DEFINE Wh == v \notin B
<1>5. /\ Unmixed(a, v)
      /\ Wh => a = IF m = 1 THEN <<>> ELSE <<<<Sps(v)>>>>
      /\ live => Size(first, v) = 3 /\ m = 3 /\ buf = <<Idr(v, 1)>>
      /\ Wh /\ m = 3 => live
      /\ Takes(a, live, buf, p, nals, active, fu)
  OBVIOUS
<1>6. \/ Size(first, v) = 1 /\ m = 1 /\ p = Only(v)
      \/ Size(first, v) = 3 /\ m = 1 /\ p = Sps(v)
      \/ Size(first, v) = 3 /\ m = 2 /\ p = Idr(v, 1)
      \/ Size(first, v) = 3 /\ m = 3 /\ p = Idr(v, 2)
  BY KindIs
<1> HIDE DEF v, m, p, Wh
<1>7. \A x : Append(<<>>, x) = <<x>>
  OBVIOUS
<1>8. \A x, y : Append(<<x>>, y) = <<x, y>>
  <2> SUFFICES ASSUME NEW x, NEW y PROVE Append(<<x>>, y) = <<x, y>>
    OBVIOUS
  <2> DEFINE s == <<x>>
  <2>1. s \in Seq({x, y}) /\ Len(s) = 1 /\ s[1] = x
    OBVIOUS
  <2> HIDE DEF s
  <2>2. Append(s, y) = <<s[1], y>>
    BY <2>1, AppendTwo
  <2>. QED
    BY <2>1, <2>2 DEF s
<1>9. CASE Size(first, v) = 1 /\ m = 1 /\ p = Only(v)
  <2> DEFINE s == <<Only(v)>>
  <2>1. nals = Append(a, s) /\ active = live
    BY <1>2, <1>5, <1>9, Zenon DEF Takes
  <2>2. s[1] = Only(v)
    OBVIOUS
  <2>3. s = send_nal(s[1].nal) /\ s[1].nal.unit = v /\ s \in Group
    BY <1>2, <1>3, <1>4, <2>2
  <2> HIDE DEF s
  <2>4. Unmixed(nals, v)
    BY <1>5, <2>1, <2>3, UnmixedMore
  <2>5. ~active
    BY <1>5, <1>9, <2>1
  <2>6. Wh => nals = <<s>>
    BY <1>5, <1>7, <1>9, <2>1
  <2>7. Size(first, v) # 3
    BY <1>9
  <2>8. Made(first, B, v, m, nals, active, fu)
    BY <2>4, <2>5, <2>6, <2>7, Zenon DEF Made, s, Wh
  <2>. QED
    BY <2>8 DEF v, m
<1>10. CASE Size(first, v) = 3 /\ m = 1 /\ p = Sps(v)
  <2> DEFINE s == <<Sps(v)>>
  <2>1. nals = Append(a, s) /\ active = live
    BY <1>2, <1>5, <1>10, Zenon DEF Takes
  <2>2. s[1] = Sps(v)
    OBVIOUS
  <2>3. s = send_nal(s[1].nal) /\ s[1].nal.unit = v /\ s \in Group
    BY <1>2, <1>3, <1>4, <2>2
  <2> HIDE DEF s
  <2>4. Unmixed(nals, v)
    BY <1>5, <2>1, <2>3, UnmixedMore
  <2>5. ~active
    BY <1>5, <1>10, <2>1
  <2>6. Wh => nals = <<s>>
    BY <1>5, <1>7, <1>10, <2>1
  <2>7. Size(first, v) # 1 /\ m # 2 /\ m # 3
    BY <1>10
  <2>8. Made(first, B, v, m, nals, active, fu)
    BY <2>4, <2>5, <2>6, <2>7, Zenon DEF Made, s, Wh
  <2>. QED
    BY <2>8 DEF v, m
<1>11. CASE Size(first, v) = 3 /\ m = 2 /\ p = Idr(v, 1)
  <2>1. nals = a /\ active /\ fu = <<Idr(v, 1)>>
    BY <1>2, <1>5, <1>11, Zenon DEF Takes
  <2>2. Size(first, v) # 1 /\ m # 1 /\ m # 3
    BY <1>11
  <2>3. Wh => nals = <<<<Sps(v)>>>>
    BY <1>5, <2>1, <2>2
  <2>4. Made(first, B, v, m, nals, active, fu)
    BY <1>5, <1>11, <2>1, <2>2, <2>3, Zenon DEF Made, Wh
  <2>. QED
    BY <2>4 DEF v, m
<1>12. CASE Size(first, v) = 3 /\ m = 3 /\ p = Idr(v, 2)
  <2> DEFINE s == <<Idr(v, 1), Idr(v, 2)>>
  <2>0. Size(first, v) # 1 /\ m # 1 /\ m # 2
    BY <1>12
  <2>1. ~active /\ nals = IF live THEN Append(a, Append(buf, p)) ELSE a
    BY <1>2, <1>5, <1>12, Zenon DEF Takes
  <2>2. live => Append(buf, p) = s
    BY <1>5, <1>8, <1>12
  <2>3. s[1] = Idr(v, 1)
    OBVIOUS
  <2>4. s = send_nal(s[1].nal) /\ s[1].nal.unit = v /\ s \in Group
    BY <1>2, <1>3, <1>4, <2>3
  <2> HIDE DEF s
  <2>5. Unmixed(Append(a, s), v)
    BY <1>5, <2>4, UnmixedMore
  <2>6. Unmixed(nals, v)
    <3>1. CASE live
      <4>1. nals = Append(a, s)
        BY <2>1, <2>2, <3>1, Zenon
      <4>. QED
        BY <2>5, <4>1
    <3>2. CASE ~live
      <4>1. nals = a
        BY <2>1, <3>2, Zenon
      <4>. QED
        BY <1>5, <4>1
    <3>. QED
      BY <3>1, <3>2
  <2>7. ASSUME Wh PROVE nals = <<<<Sps(v)>>, s>>
    <3>1. live /\ a = <<<<Sps(v)>>>>
      BY <1>5, <1>12, <2>0, <2>7
    <3>2. nals = Append(a, s)
      BY <2>1, <2>2, <3>1, Zenon
    <3>. QED
      BY <1>8, <3>1, <3>2
  <2>8. Made(first, B, v, m, nals, active, fu)
    BY <2>0, <2>1, <2>6, <2>7, Zenon DEF Made, s, Wh
  <2>. QED
    BY <2>8 DEF v, m
<1>. QED
  BY <1>6, <1>9, <1>10, <1>11, <1>12

\* The unit in progress is the last of what is finished.
LEMMA LastOut ==
  ASSUME NEW b \in Building, NEW g, NEW e \in Building, g.marker, e.nals # <<>>
  PROVE  \E i \in DOMAIN Outgoing(b, g, e) : Outgoing(b, g, e)[i] = e
<1> DEFINE s == IF Ended(b, g) /\ b.nals # <<>> THEN <<b>> ELSE <<>>
           t == <<e>>
           o == s \o t
<1>0. s \in Seq(Building) /\ t \in Seq(Building)
  OBVIOUS
<1>1. Len(t) = 1 /\ t[1] = e
  OBVIOUS
<1>2. Outgoing(b, g, e) = o
  BY DEF Outgoing
<1> HIDE DEF s, t
<1>3. /\ Len(s) \in Nat /\ DOMAIN o = 1 .. Len(s) + Len(t)
      /\ \A i \in Len(s) + 1 .. Len(s) + Len(t) : o[i] = t[i - Len(s)]
  BY <1>0, CatIs
<1> DEFINE k == Len(s) + 1
<1>4. k \in DOMAIN o /\ k \in Len(s) + 1 .. Len(s) + Len(t) /\ k - Len(s) = 1
  BY <1>1, <1>3
<1> HIDE DEF k, o
<1>5. o[k] = e
  BY <1>1, <1>3, <1>4
<1>. QED
  BY <1>2, <1>4, <1>5

\* The NAL units of a unit that is whole, with k datagrams, and their pieces.
WholeNals(nals, v, k) ==
  /\ k = 1 => nals = <<<<Only(v)>>>>
  /\ k = 3 => nals = <<<<Sps(v)>>, <<Idr(v, 1), Idr(v, 2)>>>>
AllPieces(e, v, k) == Len(Pieces(e)) = k /\ \A j \in 1 .. k : Pieces(e)[j].nal.unit = v

\* The pieces of a unit that is whole.
LEMMA WholePieces ==
  ASSUME NEW e, NEW v \in Nat, NEW k \in {1, 3},
         WholeNals(e.nals, v, k)
  PROVE  AllPieces(e, v, k)
<1>1. Only(v).nal.unit = v /\ Sps(v).nal.unit = v /\ Idr(v, 1).nal.unit = v
      /\ Idr(v, 2).nal.unit = v
  BY DEF Only, Sps, Idr, Nal
<1>2. CASE k = 1
  <2> DEFINE s == <<Only(v)>>
  <2>1. s \in Seq({Only(v)}) /\ Len(s) = 1 /\ s[1] = Only(v)
    OBVIOUS
  <2>2. e.nals = <<s>>
    BY <1>2 DEF WholeNals
  <2> HIDE DEF s
  <2>3. Pieces(e) = s
    BY <2>1, <2>2, FlatOne DEF Pieces
  <2>. QED
    BY <1>1, <1>2, <2>1, <2>3 DEF AllPieces
<1>3. CASE k = 3
  <2> DEFINE s == <<Sps(v)>>
             t == <<Idr(v, 1), Idr(v, 2)>>
             w == <<Sps(v), Idr(v, 1), Idr(v, 2)>>
  <2>1. s \o t = w
    BY CatSmall
  <2>2. Len(w) = 3 /\ w[1] = Sps(v) /\ w[2] = Idr(v, 1) /\ w[3] = Idr(v, 2)
    OBVIOUS
  <2>3. e.nals = <<s, t>>
    BY <1>3 DEF WholeNals
  <2> HIDE DEF s, t, w
  <2>4. Pieces(e) = w
    BY <2>1, <2>3, FlatTwo DEF Pieces
  <2>5. \A j \in 1 .. 3 : w[j].nal.unit = v
    <3> SUFFICES ASSUME NEW j \in 1 .. 3 PROVE w[j].nal.unit = v
      OBVIOUS
    <3>1. j \in {1, 2, 3}
      OBVIOUS
    <3>. QED
      BY <1>1, <2>2, <3>1
  <2>. QED
    BY <1>3, <2>2, <2>4, <2>5 DEF AllPieces
<1>. QED
  BY <1>2, <1>3

\* A datagram of a unit that arrives whole, or after losses fewer than half the ring,
\* takes the depacketizer on, mixes nothing, and if it is the last of a unit that lost
\* nothing the unit comes out.
LEMMA FeedGood ==
  ASSUME Fps <= Clock,
         NEW first, NEW c \in Nat, Numbering(first, c), NEW B, NEW u \in Nat, NEW n \in Nat,
         NEW d \in Depack, NetGood(first, c, B, u, n, d), NEW g \in Datagram,
         Fits(first, c, g), Past(u, n, UnitIn(g), g.nth),
         Near(u, UnitIn(g)),
         UnitIn(g) \notin B => g.nth = 1 \/ (u = UnitIn(g) /\ n = g.nth - 1),
         NEW r, NEW e, FedIs(d, g, r, e)
  PROVE  /\ NetGood(first, c, B, UnitIn(g), g.nth, r)
         /\ \A i \in DOMAIN r.completed : \E w \in Nat : Unmixed(r.completed[i].nals, w)
         /\ g.marker /\ UnitIn(g) \notin B => ComesOut(g, r.completed)
<1> DEFINE v == UnitIn(g)
           m == g.nth
           b == d.building
           a == Goes(b, g).nals
           live == Live(d, g.seq)
<1>1. /\ e \in Building /\ e.ts = g.ts /\ r \in Depack /\ r.have_seq /\ r.last_seq = g.seq
      /\ Takes(a, live, d.fu_buf, g.payload, e.nals, r.fu_active, r.fu_buf)
      /\ r.building = IF g.marker THEN NoAu ELSE e
      /\ r.completed = Outgoing(b, g, e)
  BY DEF FedIs, Fed
<1>2. /\ v \in 1 .. c /\ m \in 1 .. Size(first, v) /\ g.marker = (m = Size(first, v))
      /\ \/ Size(first, v) = 1 /\ m = 1
         \/ Size(first, v) = 3 /\ m \in {1, 2, 3}
  BY KindIs
<1>3. Unmixed(a, v) /\ (v \notin B => a = IF m = 1 THEN <<>> ELSE <<<<Sps(v)>>>>)
  BY GoesGood
<1>4. a \in Seq(Group) /\ b \in Building
  BY NoAuOK DEF Goes, Depack, Building
<1>5. /\ live => /\ u = v /\ Size(first, u) = 3 /\ n = 2 /\ m = 3
                 /\ d.fu_buf = <<Idr(u, 1)>>
      /\ u = v /\ u # 0 /\ n + 1 = m /\ d.fu_active => live
  <2>1. Follows(first, u, n, d, g)
    BY FeedNear
  <2>. QED
    BY <2>1 DEF Follows
<1>6. live \in BOOLEAN /\ r.fu_active \in BOOLEAN
  BY <1>1 DEF Live, Depack
<1>7. ASSUME v \notin B, m = 3 PROVE live
  <2>1. u = v /\ n = 2
    BY <1>7
  <2>2. Size(first, v) = 3 /\ u # 0
    BY <1>2, <1>7, <2>1
  <2>3. d.fu_active
    BY <1>7, <2>1, <2>2 DEF NetGood
  <2> HIDE DEF v, m, live
  <2>. QED
    BY <1>5, <1>7, <2>1, <2>2, <2>3
<1> HIDE DEF live
<1>8. Made(first, B, v, m, e.nals, r.fu_active, r.fu_buf)
  <2> HIDE DEF a
  <2>1. live => Size(first, v) = 3 /\ m = 3 /\ d.fu_buf = <<Idr(v, 1)>>
    BY <1>5
  <2>. QED
    BY <1>1, <1>3, <1>4, <1>6, <1>7, <2>1, TakesGood
<1>9. NetGood(first, c, B, v, m, r)
  <2>1. v # 0
    BY <1>2
  <2>2. r.last_seq = (first[v] + m - 1) % SeqRange /\ g.ts = pts_to_rtp_ts(v - 1)
    BY <1>1 DEF Fits
  <2> HIDE DEF v, m
  <2>3. /\ r.building.ts = IF m = Size(first, v) THEN -1 ELSE pts_to_rtp_ts(v - 1)
        /\ m = Size(first, v) => r.building.nals = <<>>
        /\ m # Size(first, v) => r.building = e
    BY <1>1, <1>2, <2>2, NoAuOK
  <2>4. Unmixed(r.building.nals, v)
    <3>1. Unmixed(<<>>, v)
      BY DEF Unmixed
    <3>. QED
      BY <1>8, <2>3, <3>1, Zenon DEF Made
  <2>5. r.fu_active => Size(first, v) = 3 /\ m = 2 /\ r.fu_buf = <<Idr(v, 1)>>
    BY <1>8 DEF Made
  <2>6. v \notin B /\ m < Size(first, v) =>
            r.building.nals = <<<<Sps(v)>>>> /\ (m = 2 => r.fu_active)
    <3>1. m < Size(first, v) => Size(first, v) = 3 /\ m \in {1, 2} /\ m # Size(first, v)
      BY <1>2
    <3>. QED
      BY <1>8, <2>3, <3>1, Zenon DEF Made
  <2>. QED
    BY <1>1, <1>2, <2>1, <2>2, <2>3, <2>4, <2>5, <2>6, Zenon DEF NetGood
<1>10. ASSUME NEW i \in DOMAIN r.completed
       PROVE  \E w \in Nat : Unmixed(r.completed[i].nals, w)
  <2>1. PICK x \in {b, e} : r.completed[i] = x /\ x.nals # <<>>
    <3> HIDE DEF b
    <3>. QED
      BY <1>1, <1>4, <1>10, OutgoingEach
  <2>2. CASE x = e
    <3>1. Unmixed(e.nals, v) /\ v \in Nat
      BY <1>2, <1>8 DEF Made
    <3>. QED
      BY <2>1, <2>2, <3>1
  <2>3. CASE x = b
    <3>1. u # 0
      <4>1. u = 0 => b = NoAu
        BY DEF NetGood
      <4>. QED
        BY <2>1, <2>3, <4>1, NoAuOK
    <3>2. Unmixed(b.nals, u)
      BY <3>1 DEF NetGood
    <3>. QED
      BY <2>1, <2>3, <3>2
  <2>. QED
    BY <2>1, <2>2, <2>3
<1>11. ASSUME g.marker, v \notin B PROVE ComesOut(g, r.completed)
  <2> HIDE DEF v, m
  <2>1. m = Size(first, v) /\ m \in {1, 3}
    BY <1>2, <1>11
  <2>2. WholeNals(e.nals, v, m)
    BY <1>8, <1>11, <2>1 DEF Made, WholeNals
  <2>3. e.nals # <<>>
    <3>1. \A x, y : <<x>> # <<>> /\ <<x, y>> # <<>>
      OBVIOUS
    <3>. QED
      BY <2>1, <2>2, <3>1, Zenon DEF WholeNals
  <2>4. AllPieces(e, v, m)
    <3>1. v \in Nat
      BY <1>2
    <3>. QED
      BY <2>1, <2>2, <3>1, WholePieces
  <2>5. PICK i \in DOMAIN r.completed : r.completed[i] = e
    <3> HIDE DEF b
    <3>. QED
      BY <1>1, <1>4, <1>11, <2>3, LastOut
  <2>. QED
    BY <2>4, <2>5, Zenon DEF ComesOut, AllPieces, v, m, UnitIn
<1>. QED
  BY <1>9, <1>10, <1>11

\* What was finished and taken out does not count.
LEMMA NetTaken ==
  ASSUME NEW first, NEW c, NEW B, NEW u, NEW n, NEW r \in Depack, NetGood(first, c, B, u, n, r)
  PROVE  NetGood(first, c, B, u, n, [r EXCEPT !.completed = <<>>])
<1> DEFINE s == [r EXCEPT !.completed = <<>>]
<1>1. /\ s.have_seq = r.have_seq /\ s.last_seq = r.last_seq /\ s.fu_active = r.fu_active
      /\ s.fu_buf = r.fu_buf /\ s.building = r.building
  BY DEF Depack
<1> HIDE DEF s
<1>2. NetGood(first, c, B, u, n, s)
  BY <1>1, Zenon DEF NetGood
<1>. QED
  BY <1>2 DEF s

(*********************** Whole units: the wire's order *********************)

\* The datagrams of a part of the wire go on, from unit to unit and in each.
Behind(g, h) == Past(UnitIn(g), g.nth, UnitIn(h), h.nth)
Onward(s)    == \A i, j \in DOMAIN s : i < j => Behind(s[i], s[j])

\* They still do without the first ones, and the others are kept.
LEMMA RestOnward ==
  ASSUME NEW S, NEW s \in Seq(S), NEW t, NEW c \in Nat, Without(t, s, c)
  PROVE  /\ Range(t) \subseteq Range(s) /\ (Onward(s) => Onward(t))
         /\ \A x \in Range(s) : x \in Range(t) \/ \E i \in DOMAIN s : i <= c /\ x = s[i]
<1>1. Len(s) \in Nat /\ DOMAIN s = 1 .. Len(s)
  BY LenProperties
<1>2. \A i \in DOMAIN t : c + i \in DOMAIN s /\ t[i] = s[c + i] /\ i \in Int
  BY <1>1 DEF Without
<1>3. Range(t) \subseteq Range(s)
  BY <1>2 DEF Range
<1>4. ASSUME Onward(s), NEW i \in DOMAIN t, NEW j \in DOMAIN t, i < j PROVE Behind(t[i], t[j])
  <2>1. c + i \in DOMAIN s /\ c + j \in DOMAIN s /\ t[i] = s[c + i] /\ t[j] = s[c + j]
        /\ c + i < c + j
    BY <1>2, <1>4
  <2>. QED
    BY <1>4, <2>1 DEF Onward
<1>5. ASSUME NEW x \in Range(s)
      PROVE  x \in Range(t) \/ \E i \in DOMAIN s : i <= c /\ x = s[i]
  <2>1. PICK k \in DOMAIN s : x = s[k]
    BY DEF Range
  <2>2. CASE k <= c
    BY <2>1, <2>2
  <2>3. CASE ~(k <= c)
    <3> DEFINE l == k - c
    <3>1. l \in DOMAIN t /\ l \in 1 .. Len(s) - c /\ c + l = k
      BY <1>1, <2>1, <2>3 DEF Without
    <3> HIDE DEF l
    <3>2. t[l] = x
      BY <2>1, <3>1 DEF Without
    <3>. QED
      BY <3>1, <3>2 DEF Range
  <2>. QED
    BY <2>2, <2>3
<1>. QED
  BY <1>3, <1>4, <1>5 DEF Onward

\* The next datagram, and those behind it.
LEMMA HeadOnward ==
  ASSUME NEW S, NEW s \in Seq(S), s # <<>>
  PROVE  /\ Head(s) \in Range(s) /\ Range(s) = {Head(s)} \cup Range(Tail(s))
         /\ Onward(s) => Onward(Tail(s)) /\ \A h \in Range(Tail(s)) : Behind(Head(s), h)
<1>1. /\ Len(s) \in Nat /\ Len(s) >= 1 /\ Head(s) = s[1] /\ DOMAIN s = 1 .. Len(s)
      /\ DOMAIN Tail(s) = 1 .. Len(s) - 1
      /\ \A i \in 1 .. Len(s) - 1 : i + 1 \in 1 .. Len(s) /\ Tail(s)[i] = s[i + 1]
  BY TailIs
<1> DEFINE t == Tail(s)
<1>2. Without(t, s, 1)
  BY TailWithout
<1> HIDE DEF t
<1>3. /\ Range(t) \subseteq Range(s) /\ (Onward(s) => Onward(t))
      /\ \A x \in Range(s) : x \in Range(t) \/ \E i \in DOMAIN s : i <= 1 /\ x = s[i]
  BY <1>2, RestOnward
<1>4. Head(s) \in Range(s)
  BY <1>1 DEF Range
<1>5. \A i \in DOMAIN s : i <= 1 => s[i] = Head(s)
  BY <1>1
<1>6. Range(s) = {Head(s)} \cup Range(t)
  BY <1>3, <1>4, <1>5
<1>7. ASSUME Onward(s), NEW h \in Range(t) PROVE Behind(Head(s), h)
  <2>1. PICK i \in 1 .. Len(s) - 1 : h = t[i]
    BY <1>1 DEF Range, t
  <2>2. i + 1 \in DOMAIN s /\ 1 \in DOMAIN s /\ 1 < i + 1 /\ h = s[i + 1]
    BY <1>1, <2>1 DEF t
  <2>. QED
    BY <1>1, <1>7, <2>2 DEF Onward
<1>. QED
  BY <1>3, <1>4, <1>6, <1>7 DEF t

\* Two parts of the wire, the second behind the first.
LEMMA CatOnward ==
  ASSUME NEW S, NEW s \in Seq(S), NEW t \in Seq(S), Onward(s), Onward(t),
         \A g \in Range(s), h \in Range(t) : Behind(g, h)
  PROVE  Onward(s \o t) /\ Range(s \o t) = Range(s) \cup Range(t)
<1> DEFINE st == s \o t
<1>1. /\ Len(s) \in Nat /\ Len(t) \in Nat
      /\ DOMAIN s = 1 .. Len(s) /\ DOMAIN t = 1 .. Len(t)
      /\ DOMAIN st = 1 .. Len(s) + Len(t)
      /\ \A i \in 1 .. Len(s) : st[i] = s[i]
      /\ \A i \in Len(s) + 1 .. Len(s) + Len(t) :
           i - Len(s) \in 1 .. Len(t) /\ st[i] = t[i - Len(s)]
  BY CatIs
<1> HIDE DEF st
<1>2. \A i \in DOMAIN st : \/ i \in DOMAIN s /\ st[i] = s[i]
                           \/ i > Len(s) /\ i - Len(s) \in DOMAIN t /\ st[i] = t[i - Len(s)]
  BY <1>1
<1>3. Range(st) \subseteq Range(s) \cup Range(t)
  BY <1>2 DEF Range
<1>4. Range(s) \cup Range(t) \subseteq Range(st)
  <2>1. \A i \in DOMAIN s : i \in DOMAIN st /\ s[i] = st[i]
    BY <1>1
  <2>2. \A i \in DOMAIN t : Len(s) + i \in DOMAIN st /\ t[i] = st[Len(s) + i]
    <3> SUFFICES ASSUME NEW i \in DOMAIN t
                 PROVE  Len(s) + i \in DOMAIN st /\ t[i] = st[Len(s) + i]
      OBVIOUS
    <3> DEFINE k == Len(s) + i
    <3>1. k \in DOMAIN st /\ k \in Len(s) + 1 .. Len(s) + Len(t) /\ k - Len(s) = i
      BY <1>1
    <3> HIDE DEF k
    <3>2. st[k] = t[i]
      BY <1>1, <3>1
    <3>. QED
      BY <3>1, <3>2 DEF k
  <2>. QED
    BY <2>1, <2>2 DEF Range
<1>5. ASSUME NEW i \in DOMAIN st, NEW j \in DOMAIN st, i < j PROVE Behind(st[i], st[j])
  <2>1. CASE i \in DOMAIN s /\ st[i] = s[i] /\ j \in DOMAIN s /\ st[j] = s[j]
    BY <1>5, <2>1 DEF Onward
  <2>2. CASE i \in DOMAIN s /\ st[i] = s[i] /\ j - Len(s) \in DOMAIN t /\ st[j] = t[j - Len(s)]
    BY <2>2 DEF Range
  <2>3. CASE i - Len(s) \in DOMAIN t /\ st[i] = t[i - Len(s)]
             /\ j - Len(s) \in DOMAIN t /\ st[j] = t[j - Len(s)]
    <3>1. i - Len(s) < j - Len(s)
      BY <1>1, <1>5
    <3>. QED
      BY <2>3, <3>1 DEF Onward
  <2>4. ~(i > Len(s) /\ j \in DOMAIN s)
    BY <1>1, <1>5
  <2>. QED
    BY <1>2, <2>1, <2>2, <2>3, <2>4
<1>6. Onward(st)
  BY <1>5 DEF Onward
<1>. QED
  BY <1>3, <1>4, <1>6 DEF st

\* A queue that may drop its oldest datagram.
LEMMA PushOnward ==
  ASSUME NEW S, NEW q \in Seq(S), NEW cap \in Nat \ {0}, NEW x \in S, Onward(q),
         \A g \in Range(q) : Behind(g, x)
  PROVE  LET r == push_drop(q, cap, x) IN
         /\ Onward(r) /\ Range(r) \subseteq Range(q) \cup {x} /\ x \in Range(r)
         /\ \A y \in Range(q) : y \in Range(r) \/ (Len(q) >= cap /\ y = Head(q))
<1> DEFINE one == <<x>>
           r == push_drop(q, cap, x)
<1>1. one \in Seq(S) /\ Onward(one) /\ Range(one) = {x}
  BY DEF Onward, Range
<1>2. \A u \in Seq(S) : Append(u, x) = u \o one
  BY AppendIsConcat
<1> HIDE DEF one
<1>3. CASE Len(q) >= cap
  <2>1. q # <<>>
    BY <1>3, EmptySeq
  <2> DEFINE u == Tail(q)
  <2>2. u \in Seq(S) /\ Onward(u) /\ Range(q) = {Head(q)} \cup Range(u)
    BY <2>1, TailIs, HeadOnward
  <2>3. r = Append(u, x)
    BY <1>3 DEF push_drop
  <2> HIDE DEF u, r
  <2>4. Onward(u \o one) /\ Range(u \o one) = Range(u) \cup Range(one)
    BY <1>1, <2>2, CatOnward
  <2>5. Onward(r) /\ Range(r) = Range(u) \cup {x}
    BY <1>1, <1>2, <2>2, <2>3, <2>4
  <2>. QED
    BY <1>3, <2>2, <2>5 DEF r
<1>4. CASE ~(Len(q) >= cap)
  <2>1. r = Append(q, x)
    BY <1>4 DEF push_drop
  <2> HIDE DEF r
  <2>2. Onward(q \o one) /\ Range(q \o one) = Range(q) \cup Range(one)
    BY <1>1, CatOnward
  <2>3. Onward(r) /\ Range(r) = Range(q) \cup {x}
    BY <1>1, <1>2, <2>1, <2>2
  <2>. QED
    BY <2>3 DEF r
<1>. QED
  BY <1>3, <1>4

(****************** Whole units: what the payloader adds *******************)

\* The numbers with one more unit, of k datagrams.
Longer(first, c, k) == [i \in 1 .. c + 2 |-> IF i <= c + 1 THEN first[i] ELSE first[c + 1] + k]

\* They number the units, and those before as they did.
LEMMA LongerIs ==
  ASSUME NEW first, NEW c \in Nat, Numbering(first, c), NEW k \in {1, 3}
  PROVE  LET longer == Longer(first, c, k) IN
         /\ Numbering(longer, c + 1)
         /\ \A i \in 1 .. c + 1 : longer[i] = first[i]
         /\ \A u \in 1 .. c : Size(longer, u) = Size(first, u)
         /\ longer[c + 1] \in Nat /\ longer[c + 2] = longer[c + 1] + k
         /\ Size(longer, c + 1) = k
<1> DEFINE f == Longer(first, c, k)
           d == c + 1
<1>1. \A i \in 1 .. c + 1 : first[i] \in Nat
  BY DEF Numbering
<1>2. /\ DOMAIN f = 1 .. c + 2 /\ f = [i \in 1 .. c + 2 |-> f[i]]
      /\ \A i \in 1 .. c + 1 : f[i] = first[i]
      /\ f[c + 2] = first[c + 1] + k
  BY DEF Longer
<1> HIDE DEF f
<1>3. c + 1 \in 1 .. c + 1 /\ c + 2 = d + 1 /\ d \in Nat /\ k \in Nat
  OBVIOUS
<1>4. f[d] \in Nat /\ f[d] = first[d] /\ f[d + 1] = f[d] + k /\ first[d] \in Nat
  BY <1>1, <1>2, <1>3
<1>5. ASSUME NEW u \in 1 .. c PROVE Size(f, u) = Size(first, u) /\ Size(f, u) \in {1, 3}
  <2>1. u \in 1 .. c + 1 /\ u + 1 \in 1 .. c + 1
    OBVIOUS
  <2>2. Size(f, u) = Size(first, u)
    BY <1>2, <2>1 DEF Size
  <2>3. Size(first, u) \in {1, 3}
    BY DEF Numbering
  <2>. QED
    BY <2>2, <2>3
<1>6. Size(f, d) = k
  BY <1>3, <1>4 DEF Size
<1>7. \A i \in 1 .. c + 2 : f[i] \in Nat
  <2> SUFFICES ASSUME NEW i \in 1 .. c + 2 PROVE f[i] \in Nat
    OBVIOUS
  <2>1. i \in 1 .. c + 1 \/ i = d + 1
    OBVIOUS
  <2>2. CASE i \in 1 .. c + 1
    BY <1>1, <1>2, <2>2
  <2>3. CASE i = d + 1
    <3> HIDE DEF d
    <3>1. f[d + 1] \in Nat
      BY <1>3, <1>4
    <3>. QED
      BY <2>3, <3>1
  <2>. QED
    BY <2>1, <2>2, <2>3
<1>8. f \in [1 .. d + 1 -> Nat]
  <2>1. f \in [1 .. c + 2 -> Nat]
    BY <1>2, <1>7
  <2>. QED
    BY <1>3, <2>1
<1>9. \A u \in 1 .. d : Size(f, u) \in {1, 3}
  <2> SUFFICES ASSUME NEW u \in 1 .. d PROVE Size(f, u) \in {1, 3}
    OBVIOUS
  <2>1. u \in 1 .. c \/ u = d
    OBVIOUS
  <2>. QED
    BY <1>5, <1>6, <2>1
<1>10. ASSUME NEW u \in 1 .. d + 1, NEW v \in 1 .. d + 1, u <= v
       PROVE  v - u <= f[v] - f[u] /\ f[v] - f[u] <= 3 * (v - u)
  <2>1. \A x, y \in 1 .. d : x <= y => y - x <= f[y] - f[x] /\ f[y] - f[x] <= 3 * (y - x)
    <3>1. \A x, y \in 1 .. d : x <= y => /\ y - x <= first[y] - first[x]
                                         /\ first[y] - first[x] <= 3 * (y - x)
      BY DEF Numbering
    <3>. QED
      BY <1>2, <3>1
  <2>2. CASE v \in 1 .. d
    <3>1. u \in 1 .. d
      BY <1>10, <2>2
    <3>. QED
      BY <1>10, <2>1, <2>2, <3>1
  <2>3. CASE v = d + 1 /\ u = d + 1
    <3>1. v - u = 0 /\ f[v] - f[u] = 0
      BY <1>3, <1>4, <2>3
    <3>. QED
      BY <3>1
  <2>4. CASE v = d + 1 /\ u \in 1 .. d
    <3>1. d \in 1 .. d /\ u <= d
      BY <1>3, <2>4
    <3>2. d - u <= f[d] - f[u] /\ f[d] - f[u] <= 3 * (d - u)
      BY <2>1, <2>4, <3>1
    <3>3. f[u] \in Nat /\ v - u = d - u + 1 /\ f[v] = f[d] + k /\ k >= 1 /\ k <= 3
      BY <1>3, <1>4, <1>7, <2>4
    <3>4. u \in Nat
      BY <2>4
    <3> HIDE DEF d, f
    <3>. QED
      BY <1>3, <1>4, <3>2, <3>3, <3>4
  <2>5. v \in 1 .. d \/ v = d + 1
    BY <1>3
  <2>6. u \in 1 .. d \/ u = d + 1
    BY <1>3
  <2>. QED
    BY <1>10, <2>2, <2>3, <2>4, <2>5, <2>6
<1>11. Numbering(f, d)
  BY <1>8, <1>9, <1>10 DEF Numbering
<1>. QED
  BY <1>2, <1>3, <1>4, <1>5, <1>6, <1>11 DEF f, d

\* The datagrams of a new unit: k of them, which fit behind those before.
NewUnit(first, c, k, packed) ==
  LET new == packed.datagrams IN
  /\ packed.packer.seq = (first[c + 1] + k) % SeqRange /\ Params(packed.packer, c + 1)
  /\ new \in Seq(Datagram) /\ DOMAIN new = 1 .. k
  /\ \A i \in 1 .. k : /\ Fits(Longer(first, c, k), c + 1, new[i])
                       /\ UnitIn(new[i]) = c + 1 /\ new[i].nth = i

\* They do.
LEMMA PaysFit ==
  ASSUME NEW p \in Packer, NEW first, NEW c \in Nat, Numbering(first, c), Params(p, c),
         p.seq = first[c + 1] % SeqRange, NEW nals \in Coded(c + 1, c)
  PROVE  \E k \in {1, 3} : NewUnit(first, c, k, pack_annexb(p, nals, c, c + 1))
<1> DEFINE u      == c + 1
           q      == cache_param(p, nals)
           ps     == Payloads(q, nals)[Len(nals)]
           k      == Len(ps)
           packed == pack_annexb(p, nals, c, u)
           D(i)   == [seq |-> (q.seq + i - 1) % SeqRange, ts |-> pts_to_rtp_ts(c), capture |-> u,
                      marker |-> (i = k), payload |-> ps[i], nth |-> i]
           new    == [i \in 1 .. k |-> D(i)]
           f      == Longer(first, c, k)
<1>1. u \in Nat \ {0} /\ u - 1 = c /\ u \in Nat
  OBVIOUS
<1>2. nals \in Coded(u, u - 1) /\ Params(p, u - 1)
  BY <1>1
<1>3. packed = [packer |-> [q EXCEPT !.seq = (q.seq + k) % SeqRange], datagrams |-> new]
  BY DEF pack_annexb
<1>4. PackOf(packed.datagrams, u, c)
  BY PackOK
<1> HIDE DEF u, packed
<1>5. q.seq = p.seq /\ Params(q, u)
  BY <1>1, <1>2, CacheIs
<1>6. ps \in {<<Only(u)>>, <<Sps(u), Idr(u, 1), Idr(u, 2)>>}
  BY <1>1, <1>2, SentIs
<1>7. q \in Packer
  <2>1. u - 1 \in Nat
    BY <1>1
  <2>. QED
    BY <1>1, <1>2, <2>1, CacheOK, CodedOK
<1> HIDE DEF q, ps, k
<1>8. /\ k \in {1, 3}
      /\ k = 1 => ps[1] = Only(u)
      /\ k = 3 => ps[1] = Sps(u) /\ ps[2] = Idr(u, 1) /\ ps[3] = Idr(u, 2)
  <2>1. CASE ps = <<Only(u)>>
    BY <2>1 DEF k
  <2>2. CASE ps = <<Sps(u), Idr(u, 1), Idr(u, 2)>>
    <3>1. k = 3
      BY <2>2 DEF k
    <3>. QED
      BY <2>2, <3>1
  <2>. QED
    BY <1>6, <2>1, <2>2
<1>9. packed.datagrams = new
  BY <1>3
<1>10. new \in Seq(Datagram)
  BY <1>4, <1>9 DEF PackOf
<1>11. Params(packed.packer, u) /\ packed.packer.seq = (q.seq + k) % SeqRange
  BY <1>3, <1>5, <1>7 DEF Params, Packer
<1>12. /\ first[u] \in Nat /\ f[u] = first[u] /\ Size(f, u) = k
  <2>1. f[c + 1] = first[c + 1] /\ f[c + 1] \in Nat /\ Size(f, c + 1) = k
    <3>1. c + 1 \in 1 .. c + 1
      OBVIOUS
    <3>. QED
      BY <1>8, <3>1, LongerIs
  <2>. QED
    BY <2>1 DEF u
<1> HIDE DEF f
<1>13. q.seq = first[u] % SeqRange
  BY <1>5 DEF u
<1>14. packed.packer.seq = (first[u] + k) % SeqRange
  <2>1. k \in Nat
    BY <1>8
  <2>2. ((first[u] % SeqRange) + k) % SeqRange = (first[u] + k) % SeqRange
    BY <1>12, <2>1, ModAdds
  <2>. QED
    BY <1>11, <1>13, <2>2
<1>15. ASSUME NEW i \in 1 .. k
       PROVE  Fits(f, u, new[i]) /\ UnitIn(new[i]) = u /\ new[i].nth = i
  <2>0. new[i] = D(i)
    OBVIOUS
  <2>1. ps[i] = PieceAt(f, u, i) /\ ps[i].nal.unit = u
    <3>1. CASE k = 1
      <4>1. i = 1
        BY <3>1
      <4>2. ps[i] = Only(u) /\ Only(u).nal.unit = u
        BY <1>8, <3>1, <4>1 DEF Only, Nal
      <4>. QED
        BY <1>12, <3>1, <4>2 DEF PieceAt
    <3>2. CASE k = 3
      <4>1. i \in {1, 2, 3}
        BY <3>2
      <4>2. /\ i = 1 => ps[i] = Sps(u)
            /\ i = 2 => ps[i] = Idr(u, 1)
            /\ i = 3 => ps[i] = Idr(u, 2)
        BY <1>8, <3>2
      <4>3. /\ i = 2 => i - 1 = 1
            /\ i = 3 => i - 1 = 2
        OBVIOUS
      <4>4. ps[i] = IF i = 1 THEN Sps(u) ELSE Idr(u, i - 1)
        BY <4>1, <4>2, <4>3
      <4>5. Sps(u).nal.unit = u /\ \A j : Idr(u, j).nal.unit = u
        BY DEF Sps, Idr, Nal
      <4>. QED
        BY <1>12, <3>2, <4>4, <4>5 DEF PieceAt
    <3>. QED
      BY <1>8, <3>1, <3>2
  <2>2. (q.seq + i - 1) % SeqRange = (f[u] + i - 1) % SeqRange
    <3>1. i - 1 \in Nat /\ i \in Nat
      BY <1>8
    <3>2. ((first[u] % SeqRange) + (i - 1)) % SeqRange = (first[u] + (i - 1)) % SeqRange
      BY <1>12, <3>1, ModAdds
    <3>3. q.seq \in Nat
      BY <1>7, BoundsAre DEF Packer
    <3>4. q.seq + i - 1 = (first[u] % SeqRange) + (i - 1) /\ f[u] + i - 1 = first[u] + (i - 1)
      BY <1>12, <1>13, <3>1, <3>3
    <3>. QED
      BY <3>2, <3>4
  <2> DEFINE g == new[i]
  <2>3. /\ g.seq = (f[u] + i - 1) % SeqRange /\ g.ts = pts_to_rtp_ts(c) /\ g.marker = (i = k)
        /\ g.payload = ps[i] /\ g.nth = i
    BY <2>0, <2>2
  <2> HIDE DEF g
  <2>4. UnitIn(g) = u
    BY <2>1, <2>3 DEF UnitIn
  <2>5. u \in 1 .. u
    BY <1>1
  <2>6. Fits(f, u, g)
    BY <1>1, <1>12, <2>1, <2>3, <2>4, <2>5 DEF Fits
  <2>. QED
    BY <2>3, <2>4, <2>6 DEF g
<1>16. DOMAIN new = 1 .. k
  OBVIOUS
<1> HIDE DEF new
<1>17. NewUnit(first, c, k, packed)
  BY <1>9, <1>10, <1>11, <1>14, <1>15, <1>16, Zenon DEF NewUnit, f, u
<1>. QED
  BY <1>8, <1>17 DEF packed, u

\* What fitted still does, and what was fed still is so.
LEMMA FitsStill ==
  ASSUME NEW first, NEW c \in Nat, Numbering(first, c), NEW k \in {1, 3}, NEW g, Fits(first, c, g)
  PROVE  Fits(Longer(first, c, k), c + 1, g)
<1> DEFINE f == Longer(first, c, k)
           v == UnitIn(g)
<1>1. /\ \A i \in 1 .. c + 1 : f[i] = first[i]
      /\ \A u \in 1 .. c : Size(f, u) = Size(first, u)
  BY LongerIs
<1> HIDE DEF f
<1>2. /\ v \in 1 .. c /\ g.nth \in 1 .. Size(first, v) /\ g.payload = PieceAt(first, v, g.nth)
      /\ g.marker = (g.nth = Size(first, v)) /\ g.seq = (first[v] + g.nth - 1) % SeqRange
      /\ g.ts = pts_to_rtp_ts(v - 1)
  BY DEF Fits
<1> HIDE DEF v
<1>3. v \in 1 .. c + 1 /\ f[v] = first[v] /\ Size(f, v) = Size(first, v)
  BY <1>1, <1>2
<1>4. PieceAt(f, v, g.nth) = PieceAt(first, v, g.nth)
  BY <1>3 DEF PieceAt
<1>. QED
  BY <1>2, <1>3, <1>4 DEF Fits, v, f

\* The same of the depacketizer, when units are added or lose datagrams.
LEMMA NetStill ==
  ASSUME NEW first, NEW f, NEW c \in Nat, NEW c2 \in Nat, c <= c2,
         \A i \in 1 .. c : f[i] = first[i] /\ Size(f, i) = Size(first, i),
         NEW B, NEW B2, B \subseteq B2, NEW u, NEW n, NEW d, NetGood(first, c, B, u, n, d)
  PROVE  NetGood(f, c2, B2, u, n, d)
<1>1. CASE u = 0
  BY <1>1 DEF NetGood
<1>2. CASE u # 0
  <2>1. u \in 1 .. c
    BY <1>2 DEF NetGood
  <2>2. u \in 1 .. c2 /\ f[u] = first[u] /\ Size(f, u) = Size(first, u)
        /\ (u \notin B2 => u \notin B)
    BY <2>1
  <2>. QED
    BY <1>2, <2>2, Zenon DEF NetGood
<1>. QED
  BY <1>1, <1>2

(************************ Whole units: the invariant ***********************)

\* The units of a queue are each of one unit and of whole NAL units.
Clean(q) == \A i \in DOMAIN q : \E u \in Nat : Unmixed(q[i].nals, u)

\* The wire is in order; what the depacketizer was fed last (the n-th datagram of
\* unit u) is before it; and while the receiver is open every later datagram is on
\* it, but those of units that have lost some.
InTurn ==
  /\ Onward(payload_queue) /\ Onward(pending)
  /\ \A g \in Range(payload_queue), h \in Range(pending) : Behind(g, h)
AllFit(first, u, n) ==
  \A g \in Wire : Fits(first, coder.unit, g) /\ Past(u, n, UnitIn(g), g.nth)
AllHere(first, u, n) ==
  main = "running" =>
    \A v \in 1 .. coder.unit : v \notin broken =>
      \A m \in 1 .. Size(first, v) :
        Past(u, n, v, m) => \E g \in Wire : UnitIn(g) = v /\ g.nth = m

WholeAt(first, u, n) ==
  /\ Numbering(first, coder.unit) /\ packer.seq = first[coder.unit + 1] % SeqRange
  /\ NetGood(first, coder.unit, broken, u, n, depay.rtp)
  /\ AllFit(first, u, n) /\ AllHere(first, u, n)
WholeAll ==
  /\ coder.pts = coder.unit /\ Params(packer, coder.unit) /\ missed = {}
  /\ Clean(depay.au_queue) /\ InTurn /\ (main # "running" => payload_queue = <<>>)
  /\ \E first : \E u, n \in Nat : WholeAt(first, u, n)
WholeInv == packers \in Nat \ {0} /\ (packers = 1 => WholeAll)

\* The units that lost datagrams in a row are fewer than half the ring: with more, the
\* depacketizer takes the next for an old one.
Steady ==
  \A u, v \in 1 .. MaxUnits :
    u <= v /\ (\A w \in u + 1 .. v - 1 : w \in broken) => 3 * (v - u) + 2 < SeqRange \div 2

\* At first nothing was sent.
LEMMA WholeInit == Init => WholeInv
<1> SUFFICES ASSUME Init PROVE WholeInv
  OBVIOUS
<1> DEFINE first == [i \in 1 .. 1 |-> packer.seq]
<1>1. /\ coder = [unit |-> 0, pts |-> 0] /\ pending = <<>> /\ payload_queue = <<>>
      /\ depay = [rtp |-> rtp_h264_depacketizer, au_queue |-> <<>>]
      /\ main = "running" /\ broken = {} /\ missed = {} /\ packers = 1
  BY DEF Init
<1>2. PICK seq \in Seqs : packer = rtp_h264_packer(seq)
  BY DEF Init
<1>3. /\ packer.seq \in 0 .. SeqRange - 1 /\ packer.seq = packer.seq % SeqRange
      /\ packer.sps = <<>> /\ packer.pps = <<>>
  <2>1. packer.seq = seq /\ packer.sps = <<>> /\ packer.pps = <<>>
    BY <1>2 DEF rtp_h264_packer
  <2>2. seq \in 0 .. SeqRange - 1 /\ SeqRange \in Nat \ {0}
    BY PipelineAssumption, RtpAssumption
  <2>. QED
    BY <2>1, <2>2
<1>4. Numbering(first, 0) /\ first[1] = packer.seq
  <2>1. first \in [1 .. 0 + 1 -> Nat] /\ first[1] = packer.seq
    BY <1>3, BoundsAre
  <2>2. \A u, v \in 1 .. 0 + 1 : v = u
    OBVIOUS
  <2>3. \A u \in 1 .. 0 + 1 : u - u <= first[u] - first[u] /\ first[u] - first[u] <= 3 * (u - u)
    <3>1. \A u \in 1 .. 0 + 1 : first[u] \in Nat
      BY <2>1
    <3> HIDE DEF first
    <3>. QED
      BY <3>1
  <2>4. 1 .. 0 = {}
    OBVIOUS
  <2> HIDE DEF first
  <2>5. \A u, v \in 1 .. 0 + 1 : v - u <= first[v] - first[u] /\ first[v] - first[u] <= 3 * (v - u)
    BY <2>2, <2>3
  <2>. QED
    BY <2>1, <2>4, <2>5 DEF Numbering
<1>5. Range(<<>>) = {} /\ Onward(<<>>) /\ Clean(<<>>)
  BY DEF Range, Onward, Clean
<1>6. Wire = {} /\ InTurn
  BY <1>1, <1>5 DEF Wire, InTurn
<1>7. Params(packer, coder.unit)
  BY <1>1, <1>3 DEF Params
<1>8. NetGood(first, coder.unit, broken, 0, 0, depay.rtp)
  BY <1>1 DEF NetGood, rtp_h264_depacketizer
<1> HIDE DEF first
<1>9. WholeAt(first, 0, 0)
  <2>1. coder.unit = 0 /\ 0 + 1 = 1
    BY <1>1
  <2>2. 1 .. coder.unit = {}
    BY <2>1
  <2>3. AllFit(first, 0, 0) /\ AllHere(first, 0, 0)
    BY <1>6, <2>2 DEF AllFit, AllHere
  <2>. QED
    BY <1>3, <1>4, <1>8, <2>1, <2>3 DEF WholeAt
<1>10. WholeAll
  BY <1>1, <1>5, <1>6, <1>7, <1>9 DEF WholeAll
<1>. QED
  BY <1>1, <1>10 DEF WholeInv

\* Datagrams have gone from the wire, or the receiver is closed.
LEMMA WholeLess ==
  ASSUME NEW first, NEW u \in Nat, NEW n \in Nat, WholeAt(first, u, n), coder.unit \in Nat,
         UNCHANGED <<coder, packer, depay>>, broken \subseteq broken', Wire' \subseteq Wire,
         main' = "running" => /\ main = "running"
                              /\ \A g \in Wire : g \in Wire' \/ UnitIn(g) \in broken'
  PROVE  WholeAt(first, u, n)'
<1> DEFINE c == coder.unit
<1>1. coder'.unit = c /\ packer' = packer /\ depay'.rtp = depay.rtp
  OBVIOUS
<1>2. Numbering(first, c) /\ packer.seq = first[c + 1] % SeqRange
      /\ NetGood(first, c, broken, u, n, depay.rtp) /\ AllFit(first, u, n) /\ AllHere(first, u, n)
  BY DEF WholeAt
<1>3. NetGood(first, c, broken', u, n, depay.rtp)
  BY <1>2, NetStill
<1>4. AllFit(first, u, n)'
  BY <1>1, <1>2 DEF AllFit
<1>5. AllHere(first, u, n)'
  <2>1. ASSUME main' = "running", NEW v \in 1 .. c, v \notin broken',
               NEW m \in 1 .. Size(first, v), Past(u, n, v, m)
        PROVE  \E g \in Wire' : UnitIn(g) = v /\ g.nth = m
    <3>1. PICK g \in Wire : UnitIn(g) = v /\ g.nth = m
      BY <1>2, <2>1 DEF AllHere
    <3>. QED
      BY <2>1, <3>1
  <2>. QED
    BY <1>1, <2>1 DEF AllHere
<1>. QED
  BY <1>1, <1>2, <1>3, <1>4, <1>5 DEF WholeAt

\* The link takes the next datagram, or the receiver is closed.
LEMMA WholeLink ==
  ASSUME TypeInv, WholeAll, Deliver \/ Lose \/ CloseReceiver
  PROVE  WholeAll'
<1>1. /\ UNCHANGED <<coder, packer, depay, missed>>
      /\ coder.unit \in Nat /\ pending \in Seq(Datagram) /\ payload_queue \in Seq(Datagram)
  BY Numbered DEF Deliver, Lose, CloseReceiver, sender, history, TypeInv, SenderT, LinkT
<1>2. /\ Onward(payload_queue) /\ Onward(pending)
      /\ \A g \in Range(payload_queue), h \in Range(pending) : Behind(g, h)
      /\ main # "running" => payload_queue = <<>>
  BY DEF WholeAll, InTurn
<1>3. /\ Onward(payload_queue') /\ Onward(pending')
      /\ \A g \in Range(payload_queue'), h \in Range(pending') : Behind(g, h)
      /\ Wire' \subseteq Wire /\ broken \subseteq broken'
      /\ main' = "running" => /\ main = "running"
                              /\ \A g \in Wire : g \in Wire' \/ UnitIn(g) \in broken'
      /\ main' # "running" => payload_queue' = <<>>
  <2>1. CASE Deliver
    <3> DEFINE x == Head(pending)
               t == Tail(pending)
               q == push_drop(payload_queue, QueueDepth, x)
    <3>1. /\ pending # <<>> /\ pending' = t /\ payload_queue' = q /\ main = "running"
          /\ main' = main
          /\ broken' = IF Len(payload_queue) >= QueueDepth
                       THEN broken \cup {UnitIn(Head(payload_queue))} ELSE broken
      BY <2>1 DEF Deliver, enqueue_payload_buffer, UnitIn
    <3>2. /\ x \in Range(pending) /\ Range(pending) = {x} \cup Range(t) /\ Onward(t)
          /\ (\A h \in Range(t) : Behind(x, h)) /\ x \in Datagram
      BY <1>1, <1>2, <3>1, HeadOnward, TailIs
    <3> HIDE DEF x, t
    <3>3. /\ Onward(q) /\ Range(q) \subseteq Range(payload_queue) \cup {x} /\ x \in Range(q)
          /\ \A y \in Range(payload_queue) :
               y \in Range(q) \/ (Len(payload_queue) >= QueueDepth /\ y = Head(payload_queue))
      <4>1. \A g \in Range(payload_queue) : Behind(g, x)
        BY <1>2, <3>2
      <4>. QED
        BY <1>1, <1>2, <3>2, <4>1, PushOnward, BoundsAre
    <3> HIDE DEF q
    <3>4. Range(pending') = Range(t) /\ Range(payload_queue') = Range(q)
      BY <3>1
    <3>5. \A g \in Range(q), h \in Range(t) : Behind(g, h)
      BY <1>2, <3>2, <3>3
    <3>6. \A y \in Range(payload_queue) : y \in Range(q) \/ UnitIn(y) \in broken'
      BY <3>1, <3>3
    <3>. QED
      BY <3>1, <3>2, <3>3, <3>4, <3>5, <3>6 DEF Wire
  <2>2. CASE Lose
    <3> DEFINE x == Head(pending)
               t == Tail(pending)
    <3>1. /\ pending # <<>> /\ pending' = t /\ payload_queue' = payload_queue /\ main' = main
          /\ broken' = broken \cup {UnitIn(x)}
      BY <2>2 DEF Lose, UnitIn
    <3>2. Range(pending) = {x} \cup Range(t) /\ Onward(t)
      BY <1>1, <1>2, <3>1, HeadOnward
    <3> HIDE DEF x, t
    <3>3. Range(pending') = Range(t) /\ Range(payload_queue') = Range(payload_queue)
      BY <3>1
    <3>. QED
      BY <1>2, <3>1, <3>2, <3>3 DEF Wire
  <2>3. CASE CloseReceiver
    <3>1. main' = "closing" /\ payload_queue' = <<>> /\ pending' = pending /\ broken' = broken
      BY <2>3 DEF CloseReceiver, sender, history
    <3>2. Range(payload_queue') = {} /\ Onward(payload_queue') /\ Range(pending') = Range(pending)
          /\ Onward(pending')
      BY <1>2, <3>1 DEF Range, Onward
    <3>. QED
      BY <3>1, <3>2 DEF Wire
  <2>. QED
    BY <2>1, <2>2, <2>3
<1>4. PICK first : \E u, n \in Nat : WholeAt(first, u, n)
  BY DEF WholeAll
<1>5. PICK u \in Nat, n \in Nat : WholeAt(first, u, n)
  BY <1>4
<1>6. WholeAt(first, u, n)'
  BY <1>1, <1>3, <1>5, WholeLess
<1>7. (\E f : \E v, m \in Nat : WholeAt(f, v, m))'
  BY <1>6
<1>8. coder'.pts = coder'.unit /\ Params(packer', coder'.unit) /\ missed' = {}
      /\ Clean(depay'.au_queue)
  BY <1>1 DEF WholeAll
<1>9. InTurn'
  BY <1>3 DEF InTurn
<1>. QED
  BY <1>3, <1>7, <1>8, <1>9 DEF WholeAll

\* Nothing of it moves.
LEMMA WholeSame ==
  ASSUME WholeAll,
         UNCHANGED <<coder, packer, pending, payload_queue, depay, main, broken, missed>>
  PROVE  WholeAll'
<1>1. Wire' = Wire
  BY DEF Wire, Range
<1>2. InTurn'
  <2>1. Range(payload_queue') = Range(payload_queue) /\ Range(pending') = Range(pending)
        /\ Onward(payload_queue') /\ Onward(pending')
    BY DEF WholeAll, InTurn
  <2>. QED
    BY <2>1 DEF WholeAll, InTurn
<1>3. PICK first : \E u, n \in Nat : WholeAt(first, u, n)
  BY DEF WholeAll
<1>4. PICK u \in Nat, n \in Nat : WholeAt(first, u, n)
  BY <1>3
<1>5. AllFit(first, u, n)' /\ AllHere(first, u, n)'
  BY <1>1, <1>4 DEF WholeAt, AllFit, AllHere
<1>6. WholeAt(first, u, n)'
  BY <1>4, <1>5 DEF WholeAt
<1>7. (\E f : \E v, m \in Nat : WholeAt(f, v, m))'
  BY <1>6
<1>. QED
  BY <1>2, <1>7 DEF WholeAll

\* The payloader adds a unit, and what its queue has no room for goes.
LEMMA WholePay ==
  ASSUME TypeInv, WholeAll, PayInput
  PROVE  WholeAll'
<1>0. PICK c \in Nat : c = coder.unit
  BY Numbered
<1> DEFINE unit == c + 1
<1>1. /\ coder.pts = c /\ Params(packer, c) /\ missed = {} /\ Clean(depay.au_queue)
      /\ Onward(payload_queue) /\ Onward(pending)
      /\ \A g \in Range(payload_queue), h \in Range(pending) : Behind(g, h)
      /\ main # "running" => payload_queue = <<>>
  BY <1>0 DEF WholeAll, InTurn
<1>2. c \in Nat /\ packer \in Packer /\ pending \in Seq(Datagram)
      /\ \A g \in Wire : UnitIn(g) \in Nat
  BY <1>0, Numbered DEF TypeInv, SenderT
<1>3. PICK first : \E u, n \in Nat : WholeAt(first, u, n)
  BY DEF WholeAll
<1>4. PICK u \in Nat, n \in Nat : WholeAt(first, u, n)
  BY <1>3
<1>5. Numbering(first, c) /\ packer.seq = first[c + 1] % SeqRange
      /\ NetGood(first, c, broken, u, n, depay.rtp) /\ AllFit(first, u, n) /\ AllHere(first, u, n)
  BY <1>0, <1>4 DEF WholeAt
<1>6. PICK nals \in Coded(unit, c) :
        LET packed == pack_annexb(packer, nals, c, unit)
            all    == pending \o packed.datagrams
            over   == Len(all) - PendingCap
        IN  /\ packer' = packed.packer
            /\ pending' = IF over > 0 THEN SubSeq(all, over + 1, Len(all)) ELSE all
            /\ broken' = IF over > 0 THEN broken \cup Units(SubSeq(all, 1, over)) ELSE broken
            /\ coder' = [unit |-> unit, pts |-> c + 1]
  BY <1>0, <1>1 DEF PayInput
<1> DEFINE packed == pack_annexb(packer, nals, c, unit)
           new  == packed.datagrams
           all  == pending \o new
           over == Len(all) - PendingCap
<1>7. /\ packer' = packed.packer /\ coder' = [unit |-> unit, pts |-> c + 1]
      /\ pending' = IF over > 0 THEN SubSeq(all, over + 1, Len(all)) ELSE all
      /\ broken' = IF over > 0 THEN broken \cup Units(SubSeq(all, 1, over)) ELSE broken
  BY <1>6
<1>8. PICK k \in {1, 3} : NewUnit(first, c, k, packed)
  BY <1>1, <1>2, <1>5, PaysFit
<1>8a. PICK f : f = Longer(first, c, k)
  OBVIOUS
<1> HIDE DEF packed
<1>9. /\ packed.packer.seq = (first[unit] + k) % SeqRange /\ Params(packed.packer, unit)
      /\ new \in Seq(Datagram) /\ DOMAIN new = 1 .. k
      /\ \A i \in 1 .. k : Fits(f, unit, new[i]) /\ UnitIn(new[i]) = unit /\ new[i].nth = i
  BY <1>8, <1>8a DEF NewUnit
<1>10. /\ UNCHANGED <<payload_queue, depay, missed, main>>
  BY DEF PayInput
<1> HIDE DEF new
<1>11. /\ Numbering(f, unit) /\ (\A i \in 1 .. c + 1 : f[i] = first[i])
       /\ (\A v \in 1 .. c : Size(f, v) = Size(first, v))
       /\ f[unit] \in Nat /\ f[unit + 1] = f[unit] + k /\ Size(f, unit) = k
  <2>1. LET longer == Longer(first, c, k) IN
        /\ Numbering(longer, c + 1)
        /\ \A i \in 1 .. c + 1 : longer[i] = first[i]
        /\ \A v \in 1 .. c : Size(longer, v) = Size(first, v)
        /\ longer[c + 1] \in Nat /\ longer[c + 2] = longer[c + 1] + k
        /\ Size(longer, c + 1) = k
    BY <1>2, <1>5, LongerIs
  <2>2. unit + 1 = c + 2
    BY <1>2
  <2>. QED
    BY <1>8a, <2>1, <2>2
<1>12. unit \in Nat /\ c <= unit /\ unit \in 1 .. c + 1
       /\ \A v \in 1 .. unit : v \in 1 .. c \/ v = unit
  BY <1>2
<1>13. packer'.seq = f[unit + 1] % SeqRange
  BY <1>7, <1>9, <1>11, <1>12
<1>14. /\ Onward(new) /\ \A g \in Wire, h \in Range(new) : Behind(g, h)
  <2>1. ASSUME NEW i \in DOMAIN new, NEW j \in DOMAIN new, i < j PROVE Behind(new[i], new[j])
    BY <1>9, <2>1 DEF Behind, Past
  <2>2. ASSUME NEW g \in Wire, NEW h \in Range(new) PROVE Behind(g, h)
    <3>1. UnitIn(h) = unit
      BY <1>9, <2>2 DEF Range
    <3>2. UnitIn(g) \in 1 .. c
      BY <1>0, <1>5, <2>2 DEF AllFit, Fits
    <3>3. UnitIn(g) < unit
      BY <1>2, <3>2
    <3>. QED
      BY <3>1, <3>3 DEF Behind, Past
  <2>. QED
    BY <2>1, <2>2 DEF Onward
<1>15. all \in Seq(Datagram) /\ Onward(all) /\ Range(all) = Range(pending) \cup Range(new)
  <2>1. \A g \in Range(pending), h \in Range(new) : Behind(g, h)
    BY <1>14 DEF Wire
  <2>. QED
    BY <1>1, <1>2, <1>9, <1>14, <2>1, CatOnward, CatIs
<1> HIDE DEF all
<1>16. /\ Onward(pending') /\ Range(pending') \subseteq Range(all) /\ broken \subseteq broken'
       /\ \A g \in Range(all) : g \in Range(pending') \/ UnitIn(g) \in broken'
  <2>1. Len(all) \in Nat /\ DOMAIN all = 1 .. Len(all)
    BY <1>15, LenProperties
  <2>2. CASE over > 0
    <3>1. over \in Nat /\ over <= Len(all) /\ over >= 1
      BY <2>1, <2>2, BoundsAre
    <3> DEFINE cut == SubSeq(all, over + 1, Len(all))
               gone == SubSeq(all, 1, over)
    <3>2. pending' = cut /\ broken' = broken \cup Units(gone)
      BY <1>7, <2>2
    <3>3. Without(cut, all, over)
      <4> HIDE DEF over
      <4>. QED
        BY <1>15, <3>1, RestIs
    <3>4. \A i \in DOMAIN all : i <= over => i \in DOMAIN gone /\ gone[i] = all[i]
      <4> HIDE DEF over
      <4>1. DOMAIN gone = 1 .. over /\ \A i \in 1 .. over : gone[i] = all[i]
        BY <1>15, <2>1, <3>1, SubSeqProperties
      <4> HIDE DEF gone
      <4>. QED
        BY <2>1, <3>1, <4>1
    <3> HIDE DEF cut, gone, over
    <3>5. /\ Range(cut) \subseteq Range(all) /\ Onward(cut)
          /\ \A x \in Range(all) : x \in Range(cut) \/ \E i \in DOMAIN all : i <= over /\ x = all[i]
      BY <1>15, <3>1, <3>3, RestOnward
    <3>6. \A i \in DOMAIN all : i <= over => UnitIn(all[i]) \in Units(gone)
      BY <3>4 DEF Units, UnitIn
    <3>. QED
      BY <3>2, <3>5, <3>6
  <2>3. CASE ~(over > 0)
    <3>1. pending' = all /\ broken' = broken
      BY <1>7, <2>3
    <3>. QED
      BY <1>15, <3>1
  <2>. QED
    BY <2>2, <2>3
<1> HIDE DEF over
<1>17. /\ \A g \in Wire' : g \in Wire \/ g \in Range(new)
       /\ \A g \in Wire \cup Range(new) : g \in Wire' \/ UnitIn(g) \in broken'
  <2>1. Range(payload_queue') = Range(payload_queue)
    BY <1>10
  <2>. QED
    BY <1>15, <1>16, <2>1 DEF Wire
<1>18. InTurn'
  <2>1. Range(payload_queue') = Range(payload_queue) /\ Onward(payload_queue')
    BY <1>1, <1>10
  <2>2. \A g \in Range(payload_queue), h \in Range(pending') : Behind(g, h)
    BY <1>1, <1>14, <1>15, <1>16 DEF Wire
  <2>. QED
    BY <1>16, <2>1, <2>2 DEF InTurn
<1>19. coder'.unit = unit /\ coder'.pts = unit
  BY <1>7
<1> HIDE DEF unit
<1>20. NetGood(f, unit, broken', u, n, depay.rtp)
  <2>1. \A i \in 1 .. c : f[i] = first[i] /\ Size(f, i) = Size(first, i)
    BY <1>2, <1>11
  <2>. QED
    BY <1>2, <1>5, <1>12, <1>16, <2>1, NetStill
<1>21. u <= c
  BY <1>2, <1>5 DEF NetGood
<1>22. AllFit(f, u, n)'
  <2>1. ASSUME NEW g \in Wire PROVE Fits(f, unit, g) /\ Past(u, n, UnitIn(g), g.nth)
    <3>1. Fits(first, c, g) /\ Past(u, n, UnitIn(g), g.nth)
      BY <1>0, <1>5, <2>1 DEF AllFit
    <3>2. Fits(Longer(first, c, k), c + 1, g)
      BY <1>2, <1>5, <3>1, FitsStill
    <3>. QED
      BY <1>8a, <3>1, <3>2 DEF unit
  <2>2. ASSUME NEW g \in Range(new) PROVE Fits(f, unit, g) /\ Past(u, n, UnitIn(g), g.nth)
    <3>1. Fits(f, unit, g) /\ UnitIn(g) = unit
      BY <1>9, <2>2 DEF Range
    <3>2. u < unit
      BY <1>2, <1>21 DEF unit
    <3>. QED
      BY <3>1, <3>2 DEF Past
  <2>3. \A g \in Wire' : Fits(f, unit, g) /\ Past(u, n, UnitIn(g), g.nth)
    BY <1>17, <2>1, <2>2
  <2>. QED
    BY <1>19, <2>3 DEF AllFit
<1>23. AllHere(f, u, n)'
  <2>1. ASSUME main = "running", NEW v \in 1 .. unit, v \notin broken',
               NEW m \in 1 .. Size(f, v), Past(u, n, v, m)
        PROVE  \E g \in Wire' : UnitIn(g) = v /\ g.nth = m
    <3>1. PICK g \in Wire \cup Range(new) : UnitIn(g) = v /\ g.nth = m
      <4>1. CASE v \in 1 .. c
        <5>1. Size(f, v) = Size(first, v) /\ v \notin broken
          BY <1>11, <1>16, <2>1, <4>1
        <5>. QED
          BY <1>0, <1>5, <2>1, <4>1, <5>1 DEF AllHere
      <4>2. CASE v = unit
        <5>1. m \in 1 .. k
          BY <1>11, <2>1, <4>2
        <5>2. new[m] \in Range(new) /\ UnitIn(new[m]) = unit /\ new[m].nth = m
          BY <1>9, <5>1 DEF Range
        <5>. QED
          BY <4>2, <5>2
      <4>. QED
        BY <1>12, <4>1, <4>2
    <3>. QED
      BY <1>17, <2>1, <3>1
  <2>. QED
    BY <1>10, <1>19, <2>1 DEF AllHere
<1>24. WholeAt(f, u, n)'
  BY <1>10, <1>11, <1>13, <1>19, <1>20, <1>22, <1>23 DEF WholeAt
<1>25. (\E h : \E v, m \in Nat : WholeAt(h, v, m))'
  BY <1>24
<1>. QED
  BY <1>1, <1>7, <1>9, <1>10, <1>18, <1>19, <1>25 DEF WholeAll

\* What is next for the depacketizer.
LEMMA NextIn ==
  ASSUME TypeInv, WholeAll, Steady, payload_queue # <<>>,
         NEW first, NEW u \in Nat, NEW n \in Nat, WholeAt(first, u, n)
  PROVE  LET g == Head(payload_queue)
             v == UnitIn(g)
         IN  /\ g \in Wire /\ g \in Datagram /\ Fits(first, coder.unit, g)
             /\ Past(u, n, v, g.nth) /\ Near(u, v)
             /\ v \notin broken => g.nth = 1 \/ (u = v /\ n = g.nth - 1)
             /\ \A h \in Wire : h = g \/ Behind(g, h)
<1> DEFINE g == Head(payload_queue)
           v == UnitIn(g)
           c == coder.unit
<1>1. /\ coder.unit \in Nat /\ c <= MaxUnits /\ payload_queue \in Seq(Datagram)
      /\ \A h \in Wire : UnitIn(h) \in Nat /\ h.nth \in Nat
  BY Numbered DEF TypeInv, SenderT, LinkT, Datagram
<1>2. /\ g \in Range(payload_queue) /\ Range(payload_queue) = {g} \cup Range(Tail(payload_queue))
      /\ \A h \in Range(Tail(payload_queue)) : Behind(g, h)
      /\ g \in Datagram
  BY <1>1, HeadOnward, TailIs DEF WholeAll, InTurn
<1> HIDE DEF g
<1>3. g \in Wire /\ \A h \in Wire : h = g \/ Behind(g, h)
  BY <1>2 DEF Wire, WholeAll, InTurn
<1>4. main = "running" /\ Numbering(first, c)
      /\ NetGood(first, c, broken, u, n, depay.rtp) /\ AllFit(first, u, n) /\ AllHere(first, u, n)
  BY DEF WholeAll, WholeAt
<1>5. Fits(first, c, g) /\ Past(u, n, v, g.nth)
  BY <1>3, <1>4 DEF AllFit
<1>6. v \in 1 .. c /\ g.nth \in 1 .. Size(first, v) /\ Size(first, v) \in {1, 3}
  <2>1. v \in 1 .. c /\ g.nth \in 1 .. Size(first, v)
    BY <1>5 DEF Fits
  <2> HIDE DEF v
  <2>. QED
    BY <1>4, <2>1 DEF Numbering
<1> HIDE DEF v, c
<1>7. ASSUME NEW w \in 1 .. c, w \notin broken, NEW m \in 1 .. Size(first, w), Past(u, n, w, m)
      PROVE  (w = v /\ m = g.nth) \/ Past(v, g.nth, w, m)
  <2>1. PICK h \in Wire : UnitIn(h) = w /\ h.nth = m
    BY <1>4, <1>7 DEF AllHere, c
  <2>. QED
    BY <1>3, <2>1 DEF Behind, v
<1>8. ASSUME u # 0 PROVE 3 * (v - u) + 2 < SeqRange \div 2
  <2>1. u \in 1 .. c
    BY <1>4, <1>8 DEF NetGood
  <2>2. u <= v
    BY <1>5, <1>6 DEF Past
  <2>3. ASSUME NEW w \in u + 1 .. v - 1 PROVE w \in broken
    <3>1. w \in 1 .. c /\ u < w /\ w < v
      BY <1>1, <1>6, <2>1 DEF c
    <3>2. Size(first, w) \in {1, 3}
      BY <1>4, <3>1 DEF Numbering
    <3>3. 1 \in 1 .. Size(first, w) /\ Past(u, n, w, 1)
      BY <3>1, <3>2 DEF Past
    <3>4. ~((w = v /\ 1 = g.nth) \/ Past(v, g.nth, w, 1))
      BY <1>6, <3>1 DEF Past
    <3>. QED
      BY <1>7, <3>1, <3>3, <3>4
  <2>4. u \in 1 .. MaxUnits /\ v \in 1 .. MaxUnits
    BY <1>1, <1>6, <2>1, BoundsAre DEF c
  <2>. QED
    BY <2>2, <2>3, <2>4 DEF Steady
<1>9. ASSUME v \notin broken, g.nth # 1 PROVE u = v /\ n = g.nth - 1
  <2> DEFINE m == g.nth - 1
  <2>1. m \in 1 .. Size(first, v) /\ g.nth \in Nat /\ m < g.nth
    BY <1>6, <1>9
  <2>2. ~((v = v /\ m = g.nth) \/ Past(v, g.nth, v, m))
    BY <1>6, <2>1 DEF Past
  <2> HIDE DEF m
  <2>3. ~Past(u, n, v, m)
    BY <1>6, <1>7, <1>9, <2>1, <2>2
  <2>4. u = v /\ n < g.nth /\ ~(n < m)
    BY <1>5, <1>6, <2>3 DEF Past
  <2>. QED
    BY <1>6, <2>1, <2>4 DEF m
<1>. QED
  BY <1>2, <1>3, <1>5, <1>8, <1>9 DEF Near, v, g, c

\* The network thread takes the next datagram.
LEMMA WholeReceive ==
  ASSUME Fps <= Clock, TypeInv, WholeAll, Steady, NetReceive
  PROVE  WholeAll'
<1>1. PICK g : g = Head(payload_queue)
  OBVIOUS
<1>2. PICK c \in Nat : c = coder.unit
  BY Numbered
<1>3. PICK first : \E u, n \in Nat : WholeAt(first, u, n)
  BY DEF WholeAll
<1>4. PICK u \in Nat, n \in Nat : WholeAt(first, u, n)
  BY <1>3
<1> DEFINE d == depay.rtp
           r == feed(d, g)
           v == UnitIn(g)
           m == g.nth
           t == Tail(payload_queue)
<1>5. /\ payload_queue # <<>> /\ payload_queue' = t
      /\ depay' = [rtp |-> [r EXCEPT !.completed = <<>>],
                   au_queue |-> push_au(depay.au_queue, r.completed)]
      /\ missed' = IF g.marker /\ v \notin broken /\ ~ComesOut(g, r.completed)
                   THEN missed \cup {v} ELSE missed
      /\ UNCHANGED <<coder, packer, pending, main, broken>>
  BY <1>1 DEF NetReceive, MayReceive, sender, UnitIn
<1>6. /\ d \in Depack /\ d.completed = <<>> /\ payload_queue \in Seq(Datagram)
      /\ depay.au_queue \in Seq(Whole)
  BY DEF TypeInv, NetT, LinkT
<1>7. /\ g \in Wire /\ g \in Datagram /\ Fits(first, c, g) /\ Past(u, n, v, m) /\ Near(u, v)
      /\ v \notin broken => m = 1 \/ (u = v /\ n = m - 1)
  BY <1>1, <1>2, <1>4, <1>5, NextIn
<1>8. /\ Numbering(first, c) /\ packer.seq = first[c + 1] % SeqRange
      /\ NetGood(first, c, broken, u, n, d) /\ AllFit(first, u, n) /\ AllHere(first, u, n)
  BY <1>2, <1>4 DEF WholeAt
<1>9. /\ coder.pts = coder.unit /\ Params(packer, coder.unit) /\ missed = {}
      /\ Clean(depay.au_queue) /\ (main # "running" => payload_queue = <<>>)
      /\ Onward(payload_queue) /\ Onward(pending)
      /\ \A h \in Range(payload_queue), j \in Range(pending) : Behind(h, j)
  BY DEF WholeAll, InTurn
<1>10. ~(d.have_seq /\ Diff(g.seq, d.last_seq) <= 0)
  <2>1. Follows(first, u, n, d, g)
    BY <1>6, <1>7, <1>8, FeedNear
  <2>. QED
    BY <2>1 DEF Follows
<1>11. PICK e : FedIs(d, g, r, e)
  BY <1>6, <1>7, <1>10, FeedIs
<1> HIDE DEF r, d
<1>12. /\ NetGood(first, c, broken, v, m, r)
       /\ \A i \in DOMAIN r.completed : \E w \in Nat : Unmixed(r.completed[i].nals, w)
       /\ g.marker /\ v \notin broken => ComesOut(g, r.completed)
  BY <1>6, <1>7, <1>8, <1>11, FeedGood
<1>13. /\ r \in Depack /\ r.completed \in Seq(Building)
       /\ \A i \in DOMAIN r.completed : r.completed[i].nals # <<>>
  BY <1>1, Received DEF r, d
<1>14. NetGood(first, c, broken, v, m, depay'.rtp)
  <2>1. depay'.rtp = [r EXCEPT !.completed = <<>>]
    BY <1>5
  <2>. QED
    BY <1>12, <1>13, <2>1, NetTaken
<1>15. missed' = {}
  BY <1>5, <1>9, <1>12
<1>16. Clean(depay'.au_queue)
  <2> DEFINE q == depay.au_queue
             s == r.completed
             o == push_au(q, s)
  <2>1. \A i \in DOMAIN o : \/ \E j \in DOMAIN q : o[i] = q[j]
                            \/ \E j \in DOMAIN s : o[i] = au_item(s[j])
    BY <1>6, <1>13, PushAuOK
  <2>2. depay'.au_queue = o
    BY <1>5
  <2> HIDE DEF o
  <2>3. \A x : au_item(x).nals = x.nals
    BY DEF au_item
  <2>4. ASSUME NEW i \in DOMAIN o PROVE \E w \in Nat : Unmixed(o[i].nals, w)
    <3>1. CASE \E j \in DOMAIN q : o[i] = q[j]
      BY <1>9, <3>1 DEF Clean
    <3>2. CASE \E j \in DOMAIN s : o[i] = au_item(s[j])
      BY <1>12, <2>3, <3>2
    <3>. QED
      BY <2>1, <3>1, <3>2
  <2>. QED
    BY <2>2, <2>4 DEF Clean
<1>17. /\ Range(payload_queue) = {g} \cup Range(t) /\ Onward(t)
       /\ \A h \in Range(t) : Behind(g, h)
  BY <1>1, <1>5, <1>6, <1>9, HeadOnward
<1> HIDE DEF t
<1>18. Wire = {g} \cup Wire' /\ \A h \in Wire' : Behind(g, h)
  BY <1>5, <1>9, <1>17 DEF Wire
<1>19. InTurn'
  BY <1>5, <1>9, <1>17 DEF InTurn
<1>20. v \in Nat /\ m \in Nat
  BY <1>7, Numbered DEF Datagram
<1>21. coder'.unit = c
  BY <1>2, <1>5
<1> HIDE DEF v, m
<1>22. AllFit(first, v, m)'
  <2>1. \A h \in Wire' : Fits(first, c, h) /\ Past(v, m, UnitIn(h), h.nth)
    BY <1>2, <1>8, <1>18 DEF AllFit, Behind, v, m
  <2>. QED
    BY <1>21, <2>1 DEF AllFit
<1>23. AllHere(first, v, m)'
  <2>1. ASSUME main = "running", NEW w \in 1 .. c, w \notin broken,
               NEW k \in 1 .. Size(first, w), Past(v, m, w, k)
        PROVE  \E h \in Wire' : UnitIn(h) = w /\ h.nth = k
    <3>1. k \in Int /\ w \in Int
      <4>1. Size(first, w) \in {1, 3}
        BY <1>8 DEF Numbering
      <4>. QED
        BY <4>1
    <3>2. Past(u, n, w, k) /\ ~(w = v /\ k = m)
      BY <1>7, <1>20, <2>1, <3>1 DEF Past, v, m
    <3>3. PICK h \in Wire : UnitIn(h) = w /\ h.nth = k
      BY <1>2, <1>8, <2>1, <3>2 DEF AllHere
    <3>4. h # g
      BY <3>2, <3>3 DEF v, m
    <3>. QED
      BY <1>18, <3>3, <3>4
  <2>. QED
    BY <1>5, <1>21, <2>1 DEF AllHere
<1>24. WholeAt(first, v, m)'
  BY <1>5, <1>8, <1>14, <1>21, <1>22, <1>23 DEF WholeAt, v, m
<1>25. (\E f : \E w, k \in Nat : WholeAt(f, w, k))'
  BY <1>20, <1>24
<1>26. coder'.pts = coder'.unit /\ Params(packer', coder'.unit)
       /\ (main' # "running" => payload_queue' = <<>>)
  BY <1>5, <1>9
<1>. QED
  BY <1>15, <1>16, <1>19, <1>25, <1>26 DEF WholeAll

\* A unit is handed on, or the depayloader is closed.
LEMMA WholeOut ==
  ASSUME TypeInv, WholeAll, NetForward \/ CloseRest
  PROVE  WholeAll'
<1>1. UNCHANGED <<coder, packer, pending, payload_queue, broken, missed>>
  BY DEF NetForward, CloseRest, sender, history
<1>2. PICK first : \E u, n \in Nat : WholeAt(first, u, n)
  BY DEF WholeAll
<1>3. PICK u \in Nat, n \in Nat : WholeAt(first, u, n)
  BY <1>2
<1>4. PICK c \in Nat : c = coder.unit
  BY Numbered
<1>5. /\ Numbering(first, c) /\ packer.seq = first[c + 1] % SeqRange
      /\ NetGood(first, c, broken, u, n, depay.rtp) /\ AllFit(first, u, n) /\ AllHere(first, u, n)
  BY <1>3, <1>4 DEF WholeAt
<1>6. InTurn' /\ Wire' = Wire
  <2>1. Range(payload_queue') = Range(payload_queue) /\ Range(pending') = Range(pending)
        /\ Onward(payload_queue') /\ Onward(pending')
    BY <1>1 DEF WholeAll, InTurn
  <2>. QED
    BY <2>1 DEF WholeAll, InTurn, Wire
<1>7. /\ Clean(depay'.au_queue) /\ (main' # "running" => payload_queue' = <<>>)
      /\ \E w, k \in Nat : WholeAt(first, w, k)'
  <2>1. CASE NetForward
    <3> DEFINE q == depay.au_queue
               t == Tail(q)
    <3>1. q \in Seq(Whole) /\ depay \in [rtp : Depack, au_queue : Seq(Whole)] /\ Clean(q)
      BY DEF TypeInv, NetT, WholeAll
    <3>2. main' = main /\ (depay' = depay \/ (q # <<>> /\ depay' = [depay EXCEPT !.au_queue = t]))
      BY <2>1 DEF NetForward
    <3>3. q # <<>> => Clean(t)
      <4> SUFFICES ASSUME q # <<>> PROVE Clean(t)
        OBVIOUS
      <4>1. /\ DOMAIN q = 1 .. Len(q) /\ DOMAIN t = 1 .. Len(q) - 1
            /\ \A i \in 1 .. Len(q) - 1 : i + 1 \in 1 .. Len(q) /\ t[i] = q[i + 1]
        BY <3>1, TailIs
      <4>2. \A i \in DOMAIN t : \E j \in DOMAIN q : t[i] = q[j]
        BY <4>1
      <4> HIDE DEF t
      <4>. QED
        BY <3>1, <4>2 DEF Clean
    <3>4. depay'.rtp = depay.rtp /\ Clean(depay'.au_queue)
      BY <3>1, <3>2, <3>3
    <3>5. AllFit(first, u, n)' /\ AllHere(first, u, n)'
      BY <1>1, <1>5, <1>6, <3>2 DEF AllFit, AllHere
    <3>6. WholeAt(first, u, n)'
      BY <1>1, <1>4, <1>5, <3>4, <3>5 DEF WholeAt
    <3>. QED
      BY <1>1, <3>2, <3>4, <3>6 DEF WholeAll
  <2>2. CASE CloseRest
    <3>1. /\ depay' = [rtp |-> rtp_h264_depacketizer, au_queue |-> <<>>]
          /\ main = "closing" /\ main' = "closed"
      BY <2>2 DEF CloseRest
    <3>2. NetGood(first, c, broken, 0, 0, depay'.rtp) /\ Clean(depay'.au_queue)
      BY <3>1 DEF NetGood, rtp_h264_depacketizer, Clean
    <3>3. AllFit(first, 0, 0)'
      <4>1. \A g \in Wire : Fits(first, c, g) /\ Past(0, 0, UnitIn(g), g.nth)
        BY <1>4, <1>5 DEF AllFit, Fits, Past
      <4>. QED
        BY <1>1, <1>4, <1>6, <4>1 DEF AllFit
    <3>4. AllHere(first, 0, 0)'
      BY <3>1 DEF AllHere
    <3>5. WholeAt(first, 0, 0)'
      BY <1>1, <1>4, <1>5, <3>2, <3>3, <3>4 DEF WholeAt
    <3>. QED
      BY <1>1, <3>1, <3>2, <3>5 DEF WholeAll
  <2>. QED
    BY <2>1, <2>2
<1>8. (\E f : \E w, k \in Nat : WholeAt(f, w, k))'
  BY <1>7
<1>. QED
  BY <1>1, <1>6, <1>7, <1>8 DEF WholeAll

\* WholeInv is inductive, where the types are right and no more units in a row lose
\* datagrams than the ring has room for.
LEMMA WholeStep ==
  ASSUME Fps <= Clock
  PROVE  TypeInv /\ WholeInv /\ Steady /\ [Next]_vars => WholeInv'
<1> SUFFICES ASSUME TypeInv, WholeInv, Steady, [Next]_vars PROVE WholeInv'
  OBVIOUS
<1>1. CASE Configure \/ Restart
  <2>1. packers' = packers + 1
    BY <1>1 DEF Configure, Restart, NewPacker
  <2>. QED
    BY <2>1 DEF WholeInv
<1>2. ASSUME PayInput \/ Deliver \/ Lose \/ Net \/ Decode \/ MppDecode \/ Display
               \/ request_stop \/ Close \/ UNCHANGED vars
      PROVE  packers' = packers
  BY <1>2 DEF PayInput, Deliver, Lose, Net, NetReceive, NetForward, NetLeave, Decode,
              DecodeTake, DecodeFeed, DecodePull, DecodePush, DecodeLeave, MppDecode, Display,
              Present, PresentLeave, request_stop, Close, CloseReceiver, CloseRest, vars, sender
<1>3. ASSUME WholeAll, ~(Configure \/ Restart) PROVE WholeAll'
  <2>1. CASE Sender
    BY <1>3, <2>1, WholePay, WholeLink DEF Sender
  <2>2. CASE Net
    <3>1. CASE NetLeave
      BY <1>3, <3>1, WholeSame DEF NetLeave, sender, history
    <3>. QED
      BY <1>3, <2>2, <3>1, WholeReceive, WholeOut DEF Net
  <2>3. CASE Decode \/ MppDecode
    BY <1>3, <2>3, WholeSame DEF Decode, DecodeTake, DecodeFeed, DecodePull, DecodePush,
                                 DecodeLeave, MppDecode, sender, history
  <2>4. CASE Display
    BY <1>3, <2>4, WholeSame DEF Display, Present, PresentLeave, sender, history
  <2>5. CASE request_stop
    BY <1>3, <2>5, WholeSame DEF request_stop, sender, history
  <2>6. CASE Close
    BY <1>3, <2>6, WholeLink, WholeOut DEF Close
  <2>7. CASE UNCHANGED vars
    BY <1>3, <2>7, WholeSame DEF vars, sender, history
  <2>. QED
    BY <2>1, <2>2, <2>3, <2>4, <2>5, <2>6, <2>7 DEF Next
<1>4. CASE ~(Configure \/ Restart)
  <2>1. packers' = packers
    BY <1>2, <1>4 DEF Next, Sender
  <2>. QED
    BY <1>3, <1>4, <2>1 DEF WholeInv
<1>. QED
  BY <1>1, <1>4

\* It always holds.
LEMMA WholeAlways ==
  ASSUME Fps <= Clock
  PROVE  Spec /\ []Steady => []WholeInv
<1>1. TypeInv /\ WholeInv /\ Steady /\ [Next]_vars => WholeInv'
  BY WholeStep
<1>. QED
  BY <1>1, WholeInit, TypesAlways, PTL DEF Spec

\* With one packer, whatever was lost or dropped, the depacketizer joins no pieces of
\* two NAL units and no NAL units of two access units, as long as no more units in a
\* row lose datagrams than the sequence numbers can tell (rtp_depacketizer::feed).
THEOREM NothingMixes ==
  ASSUME Fps <= Clock
  PROVE  Spec /\ []Steady => []NoMixing
<1>1. TypeInv /\ WholeInv => NoMixing
  <2> SUFFICES ASSUME TypeInv, WholeInv, packers = 1, NEW i \in DOMAIN depay.au_queue,
                      NEW k \in DOMAIN depay.au_queue[i].nals
               PROVE  LET nals == depay.au_queue[i].nals IN
                      /\ nals[k] = send_nal(nals[k][1].nal)
                      /\ nals[k][1].nal.unit = nals[1][1].nal.unit
    BY DEF NoMixing
  <2>1. PICK nals : nals = depay.au_queue[i].nals
    OBVIOUS
  <2>2. PICK u \in Nat : Unmixed(nals, u)
    BY <2>1 DEF WholeInv, WholeAll, Clean
  <2>3. nals \in Seq(Group)
    <3>1. depay.au_queue \in Seq(Whole)
      BY DEF TypeInv, NetT
    <3>2. depay.au_queue[i] \in Whole
      BY <3>1, ElementOfSeq, LenProperties
    <3>. QED
      BY <2>1, <3>2 DEF Whole
  <2>4. k \in DOMAIN nals /\ 1 \in DOMAIN nals
    <3>1. DOMAIN nals = 1 .. Len(nals) /\ Len(nals) \in Nat
      BY <2>3, LenProperties
    <3>. QED
      BY <2>1, <3>1
  <2>5. nals[k] = send_nal(nals[k][1].nal) /\ nals[k][1].nal.unit = u /\ nals[1][1].nal.unit = u
    BY <2>2, <2>4 DEF Unmixed
  <2>. QED
    BY <2>1, <2>5
<1>. QED
  BY <1>1, WholeAlways, TypesAlways, PTL

\* And an access unit of which no datagram is lost or dropped comes out whole, with its
\* last datagram, whatever was lost before it.
THEOREM WholeComeOut ==
  ASSUME Fps <= Clock
  PROVE  Spec /\ []Steady => []WholeUnitsComeOut
<1>1. WholeInv => WholeUnitsComeOut
  BY DEF WholeInv, WholeAll, WholeUnitsComeOut
<1>. QED
  BY <1>1, WholeAlways, PTL

\* So both hold whatever is lost, if all the units together are fewer than half the ring.
THEOREM FewUnits ==
  ASSUME 3 * (MaxUnits - 1) + 2 < SeqRange \div 2, Fps <= Clock
  PROVE  Spec => [](NoMixing /\ WholeUnitsComeOut)
<1>1. Steady
  <2> SUFFICES ASSUME NEW u \in 1 .. MaxUnits, NEW v \in 1 .. MaxUnits, u <= v
               PROVE  3 * (v - u) + 2 < SeqRange \div 2
    BY DEF Steady
  <2>1. PICK h : h = SeqRange \div 2
    OBVIOUS
  <2>2. MaxUnits \in Nat /\ h \in Int
    BY <2>1, BoundsAre
  <2>3. 3 * (MaxUnits - 1) + 2 < h
    BY <2>1
  <2>4. v - u <= MaxUnits - 1 /\ v - u \in Int
    BY <2>2
  <2>5. 3 * (v - u) + 2 < h
    BY <2>2, <2>3, <2>4
  <2>. QED
    BY <2>1, <2>5
<1>2. Spec /\ []Steady => []NoMixing
  BY NothingMixes
<1>3. Spec /\ []Steady => []WholeUnitsComeOut
  BY WholeComeOut
<1>. QED
  BY <1>1, <1>2, <1>3, PTL
=============================================================================
