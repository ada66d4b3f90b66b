------------------------- MODULE LinkTelemetry_proofs -------------------------
(***************************************************************************)
(* What the sender and its rate control make of the reports, for every     *)
(* number of sessions, reports and losses, and whatever the link does.     *)
(***************************************************************************)
EXTENDS LinkTelemetry, FiniteSetTheorems, SequenceTheorems, NaturalsInduction,
        WellFoundedInduction, TLAPS

(* ------------------------------- the types ------------------------------ *)

LEMMA BoundsOK ==
  /\ StaleAfter \in Nat /\ HoldLoops \in Nat /\ MaxWait \in Nat /\ MaxGap \in Nat
  /\ Window \in Nat \ {0} /\ MaxSessions \in Nat \ {0} /\ MaxReports \in Nat \ {0}
  /\ OldAge \in Nat
BY TelemetryAssumption DEF OldAge

LEMMA AgeOK == \A age \in 0 .. OldAge : Older(age) \in 0 .. OldAge
BY BoundsOK DEF Older

\* The reports carry a session that was drawn.
NetInv ==
  /\ rcv.session >= 1
  /\ \A r \in net : r.session >= 1

LEMMA WindowSeq ==
  ASSUME NEW S, NEW n \in Nat, NEW s
  PROVE  s \in BoundedSeq(S, n) <=> s \in Seq(S) /\ Len(s) <= n
<1>1. ASSUME s \in BoundedSeq(S, n) PROVE s \in Seq(S) /\ Len(s) <= n
  <2>1. PICK m \in 0 .. n : s \in [1 .. m -> S]
    BY <1>1 DEF BoundedSeq, SeqOf
  <2>. QED
    BY <2>1
<1>2. ASSUME s \in Seq(S), Len(s) <= n PROVE s \in BoundedSeq(S, n)
  <2>1. Len(s) \in 0 .. n /\ s \in [1 .. Len(s) -> S]
    BY <1>2, LenProperties
  <2>. QED
    BY <2>1 DEF BoundedSeq, SeqOf
<1>. QED
  BY <1>1, <1>2

LEMMA EmptyWindow == <<>> \in BoundedSeq(0 .. MaxGap, Window)
<1>1. <<>> \in Seq(0 .. MaxGap) /\ Len(<<>>) = 0
  BY EmptySeq
<1>2. Window \in Nat /\ 0 <= Window
  BY BoundsOK
<1>. QED
  BY <1>1, <1>2, WindowSeq

LEMMA NoSnapOK == NoSnap \in Snapshot
BY BoundsOK DEF NoSnap, Snapshot

LEMMA TypeStarts == Init => TypeOK /\ NetInv
<1>. SUFFICES ASSUME Init PROVE TypeOK /\ NetInv
  OBVIOUS
<1>1. rcv \in Report /\ net \subseteq Report /\ NoReport \in Report
  BY BoundsOK DEF Init, Report, NoReport
<1>3. peer \in Peer
  BY BoundsOK, <1>1 DEF Init, NoPeer, Peer
<1>4. tracker \in Tracker
  BY BoundsOK, EmptyWindow DEF Init, NewTracker, Tracker
<1>5. ctl \in Loop
  BY BoundsOK, NoSnapOK DEF Init, Loop
<1>6. charged \in [0 .. MaxSessions -> Nat]
  BY DEF Init
<1>7. NetInv
  BY DEF Init, NetInv
<1>8. fresh \in 0 .. OldAge
  BY BoundsOK DEF Init
<1>9. disordered \in BOOLEAN /\ accepted = {}
  BY Zenon DEF Init
<1>. QED
  BY <1>1, <1>3, <1>4, <1>5, <1>6, <1>7, <1>8, <1>9 DEF TypeOK

LEMMA TypeReceiver ==
  ASSUME TypeOK, NetInv, SendReport \/ Reopen
  PROVE  TypeOK' /\ NetInv'
<1>1. rcv' \in Report /\ net' \subseteq Report /\ NetInv'
  <2>1. CASE SendReport
    <3>1. PICK gap \in rcv.gap .. MaxGap :
            LET r == [rcv EXCEPT !.gap = gap]
            IN  net' = net \cup {r} /\ rcv' = [r EXCEPT !.seq = @ + 1]
      BY <2>1 DEF SendReport
    <3>. DEFINE r == [rcv EXCEPT !.gap = gap]
    <3>2. r \in Report /\ r.session = rcv.session /\ r.seq = rcv.seq
      BY BoundsOK, <3>1 DEF TypeOK, Report
    <3>3. net' = net \cup {r} /\ rcv' = [r EXCEPT !.seq = @ + 1] /\ rcv.seq < MaxReports
      BY <2>1, <3>1 DEF SendReport
    <3>. HIDE DEF r
    <3>4. rcv' \in Report /\ rcv'.session = rcv.session
      BY BoundsOK, <3>2, <3>3 DEF Report
    <3>. QED
      BY <3>2, <3>3, <3>4 DEF TypeOK, NetInv
  <2>2. CASE Reopen
    BY BoundsOK, <2>2 DEF Reopen, TypeOK, NetInv, Report
  <2>. QED
    BY <2>1, <2>2
<1>. QED
  BY <1>1 DEF SendReport, Reopen, TypeOK, sender, control

\* What the sender knows of its peer.
LEMMA HandleOK ==
  ASSUME NEW p \in Peer, NEW r \in Report
  PROVE  /\ handle_link_report(p, r) \in Peer
         /\ \/ handle_link_report(p, r) = p
            \/ /\ handle_link_report(p, r).report = r /\ handle_link_report(p, r).have
               /\ handle_link_report(p, r).age = 0
               /\ handle_link_report(p, r).received = p.received + 1
<1>1. p.lost \in Nat /\ p.received \in Nat /\ 0 \in 0 .. OldAge
  BY BoundsOK DEF Peer
<1>2. r.seq - p.report.seq \in Int
  BY BoundsOK DEF Peer, Report
<1>. QED
  BY <1>1, <1>2 DEF handle_link_report, Peer

LEMMA TypeReceive ==
  ASSUME TypeOK, NetInv, NEW r \in net, Receive(r)
  PROVE  TypeOK' /\ NetInv'
<1>1. peer \in Peer /\ r \in Report
  BY DEF TypeOK
<1>2. peer' \in Peer
  BY <1>1, HandleOK DEF Receive
<1>3. <<r.session, r.seq>> \in (1 .. MaxSessions) \X (0 .. MaxReports)
  BY BoundsOK DEF TypeOK, NetInv, Report
<1>4. accepted' \subseteq (1 .. MaxSessions) \X (0 .. MaxReports)
  BY <1>3 DEF Receive, TypeOK
<1>5. fresh' \in 0 .. OldAge
  BY BoundsOK DEF Receive, TypeOK
<1>6. disordered' \in BOOLEAN
  BY DEF Receive, TypeOK
<1>. QED
  BY <1>2, <1>4, <1>5, <1>6 DEF Receive, TypeOK, NetInv, link, control

LEMMA SnapshotOK == TypeOK => peer_link_snapshot \in Snapshot
<1>. SUFFICES ASSUME TypeOK PROVE peer_link_snapshot \in Snapshot
  OBVIOUS
<1>1. peer.age \in -1 .. OldAge
  BY BoundsOK DEF TypeOK, Peer
<1>2. peer.report.session \in 0 .. MaxSessions /\ peer.report.gap \in 0 .. MaxGap
  BY DEF TypeOK, Peer, Report
<1>. QED
  BY <1>1, <1>2, NoSnapOK DEF peer_link_snapshot, Snapshot

LEMMA UpdateOK ==
  ASSUME NEW tr \in Tracker, NEW s \in Snapshot
  PROVE  update_receiver_loss_deltas(tr, s) \in Tracker
<1>. DEFINE lower == tr.have /\ (s.session # tr.session \/ s.gap < tr.gap)
            base == IF lower THEN NewTracker ELSE tr
            all == Append(base.samples, s.gap - base.gap)
            new == IF ~base.have THEN <<>> ELSE IF Len(all) > Window THEN Tail(all) ELSE all
<1>1. update_receiver_loss_deltas(tr, s) =
        [have |-> TRUE, session |-> s.session, gap |-> s.gap, samples |-> new]
  BY DEF update_receiver_loss_deltas
<1>2. new \in BoundedSeq(0 .. MaxGap, Window)
  <2>1. CASE ~base.have
    <3>1. new = <<>>
      BY <2>1
    <3>. QED
      BY <3>1, EmptyWindow
  <2>2. CASE base.have
    <3>1. base = tr /\ tr.have /\ ~(s.gap < tr.gap)
      BY <2>2 DEF NewTracker
    <3>2. tr.samples \in Seq(0 .. MaxGap) /\ Len(tr.samples) <= Window
      BY BoundsOK, WindowSeq DEF Tracker
    <3>3. s.gap - tr.gap \in 0 .. MaxGap
      BY BoundsOK, <3>1 DEF Tracker, Snapshot
    <3>4. new = IF Len(all) > Window THEN Tail(all) ELSE all
      BY <2>2
    <3>5. all = Append(tr.samples, s.gap - tr.gap)
      BY <3>1
    <3>. HIDE DEF all, new
    <3>6. all \in Seq(0 .. MaxGap) /\ Len(all) = Len(tr.samples) + 1 /\ all # <<>>
      BY <3>2, <3>3, <3>5, AppendProperties
    <3>7. Tail(all) \in Seq(0 .. MaxGap) /\ Len(Tail(all)) = Len(all) - 1
      BY <3>6, HeadTailProperties
    <3>8. Len(tr.samples) \in Nat
      BY <3>2, LenProperties
    <3>9. Window \in Nat
      BY BoundsOK
    <3>10. new \in Seq(0 .. MaxGap) /\ Len(new) <= Window
      <4>1. CASE Len(all) > Window
        <5>1. new = Tail(all)
          BY <3>4, <4>1
        <5>2. Len(Tail(all)) = Len(tr.samples)
          BY <3>6, <3>7, <3>8
        <5>. QED
          BY <3>2, <3>7, <5>1, <5>2
      <4>2. CASE ~(Len(all) > Window)
        BY <4>2, <3>4, <3>6, <3>8, <3>9
      <4>. QED
        BY <4>1, <4>2
    <3>. QED
      BY <3>9, <3>10, WindowSeq
  <2>. QED
    BY <2>1, <2>2
<1>. HIDE DEF new
<1>. QED
  BY <1>1, <1>2 DEF Tracker, Snapshot

LEMMA DeltaNat == TypeOK => Delta \in Nat
BY BoundsOK DEF TypeOK, Delta, Loop, Snapshot

LEMMA TypeElsewhere ==
  ASSUME TypeOK, NetInv, Answer \/ TimeOut \/ Control \/ Interval
  PROVE  TypeOK' /\ NetInv'
<1>1. CASE Answer
  <2>1. ctl' \in Loop
    BY <1>1, SnapshotOK DEF Answer, TypeOK, Loop
  <2>2. tracker' \in Tracker
    BY <1>1, SnapshotOK, UpdateOK DEF Answer, TypeOK, sync_sender_peer_link_metrics_live
  <2>. QED
    BY <1>1, <2>1, <2>2 DEF Answer, TypeOK, NetInv, link, sender
<1>2. CASE TimeOut
  <2>1. ctl' \in Loop
    <3>1. 0 \in 0 .. MaxWait
      BY BoundsOK
    <3>. QED
      BY <1>2, <3>1, NoSnapOK DEF TimeOut, TypeOK, Loop
  <2>. QED
    BY <1>2, <2>1 DEF TimeOut, TypeOK, NetInv, link, sender
<1>3. CASE Control
  <2>1. ctl' \in Loop
    <3>1. ctl.read.gap \in -1 .. MaxGap /\ ctl.read.session \in -1 .. MaxSessions
      BY BoundsOK DEF TypeOK, Loop, Snapshot
    <3>2. (IF step = "cut" THEN HoldLoops ELSE IF ctl.hold > 0 THEN ctl.hold - 1 ELSE 0)
            \in 0 .. HoldLoops
      BY BoundsOK DEF TypeOK, Loop
    <3>. QED
      BY <1>3, <3>1, <3>2, BoundsOK, NoSnapOK DEF Control, Loop
  <2>2. charged' \in [0 .. MaxSessions -> Nat]
    <3>. DEFINE d == Delta
    <3>1. d \in Nat /\ charged' = [charged EXCEPT ![ctl.read.session] = @ + d]
      BY <1>3, DeltaNat DEF Control
    <3>. HIDE DEF d
    <3>2. charged \in [0 .. MaxSessions -> Nat] /\ ctl.read.session \in 0 .. MaxSessions
      BY DEF TypeOK, Loop, Snapshot
    <3>. DEFINE c == charged[ctl.read.session] + d
    <3>3. c \in Nat /\ charged' = [charged EXCEPT ![ctl.read.session] = c]
      BY <3>1, <3>2
    <3>. HIDE DEF c
    <3>. QED
      BY <3>2, <3>3
  <2>. QED
    BY <1>3, <2>1, <2>2 DEF Control, TypeOK, NetInv, link, sender
<1>4. CASE Interval
  <2>1. ctl' \in Loop
    <3>1. ctl.wait < MaxWait => ctl.wait + 1 \in 0 .. MaxWait
      BY BoundsOK DEF TypeOK, Loop
    <3>. QED
      BY <1>4, <3>1 DEF Interval, TypeOK, Loop
  <2>2. peer' \in Peer
    BY <1>4, AgeOK DEF Interval, TypeOK, Peer
  <2>. QED
    BY <1>4, <2>1, <2>2, AgeOK DEF Interval, TypeOK, NetInv, link
<1>. QED
  BY <1>1, <1>2, <1>3, <1>4

LEMMA TypeStep == TypeOK /\ NetInv /\ [Next]_vars => TypeOK' /\ NetInv'
<1>. SUFFICES ASSUME TypeOK, NetInv, [Next]_vars PROVE TypeOK' /\ NetInv'
  OBVIOUS
<1>1. CASE UNCHANGED vars
  BY <1>1 DEF vars, link, sender, control, TypeOK, NetInv
<1>. QED
  BY <1>1, TypeReceiver, TypeReceive, TypeElsewhere DEF Next

\* The counters, windows, ages and answers stay in their ranges, whatever the
\* link loses, repeats and delays: the loss window never holds more than its
\* samples, none of them negative.
THEOREM TelemetryTyped == Spec => []TypeOK
<1>1. Spec => [](TypeOK /\ NetInv)
  BY TypeStarts, TypeStep, PTL DEF Spec
<1>. QED
  BY <1>1, PTL


(* ------------------------- what the sender knows ------------------------ *)

\* The report the sender keeps was sent, and is one that was accepted.
KnownInv ==
  /\ peer.have => /\ peer.report \in net
                  /\ <<peer.report.session, peer.report.seq>> \in accepted
  /\ ~peer.have => /\ peer.report = NoReport /\ accepted = {}
                   /\ peer.received = 0 /\ peer.lost = 0

\* Until a report of an older session comes late it is the newest of them.
LatestInv ==
  ~disordered =>
    \A a \in accepted : \/ a[1] < peer.report.session
                        \/ a[1] = peer.report.session /\ a[2] <= peer.report.seq

\* Report r is accepted.
Accepts(r) ==
  /\ peer'.have /\ peer'.report = r /\ peer'.age = 0 /\ peer'.received = peer.received + 1
  /\ accepted' = accepted \cup {<<r.session, r.seq>>}
  /\ fresh' = IF <<r.session, r.seq>> \in accepted THEN fresh ELSE 0
  /\ disordered' = (disordered \/ r.session < peer.report.session)
  /\ peer.have /\ r.session = peer.report.session =>
       /\ peer.report.seq < r.seq
       /\ peer'.lost = peer.lost + (r.seq - (peer.report.seq + 1))
  /\ ~(peer.have /\ r.session = peer.report.session) => peer'.lost = peer.lost

\* A report is kept and counted in the same step, or neither.
LEMMA Received ==
  ASSUME TypeOK, NEW r \in net, Receive(r)
  PROVE  /\ UNCHANGED <<link, tracker, control>>
         /\ Accepts(r) \/ UNCHANGED <<peer, accepted, fresh, disordered>>
<1>1. peer \in Peer /\ r \in Report
  BY DEF TypeOK
<1>. DEFINE p == peer.report.seq
            same == peer.have /\ r.session = peer.report.session
            h == handle_link_report(peer, r)
<1>2. p \in Nat /\ r.seq \in Nat /\ peer.lost \in Nat /\ peer.received \in Nat
  BY <1>1, BoundsOK DEF Peer, Report
<1>3. peer' = h /\ UNCHANGED <<link, tracker, control>>
  BY DEF Receive
<1>4. CASE same /\ r.seq - p <= 0
  <2>1. h = peer
    BY <1>4 DEF handle_link_report
  <2>. QED
    BY <1>3, <2>1 DEF Receive
<1>5. CASE ~(same /\ r.seq - p <= 0)
  <2>1. h = [have |-> TRUE, report |-> r, age |-> 0, received |-> peer.received + 1,
             lost |-> IF same /\ r.seq - p > 1 THEN peer.lost + (r.seq - p) - 1 ELSE peer.lost]
    BY <1>5 DEF handle_link_report
  <2>2. peer'.received # peer.received
    BY <1>2, <1>3, <2>1
  <2>3. /\ accepted' = accepted \cup {<<r.session, r.seq>>}
        /\ fresh' = IF <<r.session, r.seq>> \in accepted THEN fresh ELSE 0
        /\ disordered' = (disordered \/ r.session < peer.report.session)
    BY <2>2 DEF Receive
  <2>4. same => p < r.seq
    BY <1>2, <1>5
  <2>5. same => peer'.lost = peer.lost + (r.seq - (p + 1))
    BY <1>2, <1>3, <2>1, <2>4
  <2>6. ~same => peer'.lost = peer.lost
    BY <1>3, <2>1
  <2>7. peer'.have /\ peer'.report = r /\ peer'.age = 0 /\ peer'.received = peer.received + 1
    BY <1>3, <2>1
  <2>. QED
    BY <1>3, <2>3, <2>4, <2>5, <2>6, <2>7 DEF Accepts
<1>. QED
  BY <1>4, <1>5

\* As long as no report of an older session comes late, a report that is
\* accepted is newer than all those accepted before.
LEMMA AcceptedNewest ==
  ASSUME TypeOK, KnownInv, LatestInv, NEW r \in net, Accepts(r), ~disordered'
  PROVE  \A a \in accepted : a[1] < r.session \/ (a[1] = r.session /\ a[2] < r.seq)
<1>. SUFFICES ASSUME NEW a \in accepted
              PROVE  a[1] < r.session \/ (a[1] = r.session /\ a[2] < r.seq)
  OBVIOUS
<1>1. ~disordered /\ ~(r.session < peer.report.session)
  BY DEF Accepts
<1>2. /\ a[1] \in Nat /\ a[2] \in Nat
      /\ r.session \in Nat /\ r.seq \in Nat
      /\ peer.report.session \in Nat /\ peer.report.seq \in Nat
  <2>1. a \in (1 .. MaxSessions) \X (0 .. MaxReports) /\ r \in Report /\ peer.report \in Report
    BY DEF TypeOK, Peer
  <2>2. a[1] \in Nat /\ a[2] \in Nat
    BY <2>1, BoundsOK
  <2>. QED
    BY <2>1, <2>2, BoundsOK DEF Report
<1>3. peer.have
  BY DEF KnownInv
<1>4. a[1] < peer.report.session \/ (a[1] = peer.report.session /\ a[2] <= peer.report.seq)
  BY <1>1 DEF LatestInv
<1>. QED
  BY <1>1, <1>2, <1>3, <1>4 DEF Accepts

LEMMA KnownStarts == Init => KnownInv /\ LatestInv
BY DEF Init, KnownInv, LatestInv, NoPeer, NoReport

LEMMA KnownStep == TypeOK /\ KnownInv /\ LatestInv /\ [Next]_vars => KnownInv' /\ LatestInv'
<1>. SUFFICES ASSUME TypeOK, KnownInv, LatestInv, [Next]_vars PROVE KnownInv' /\ LatestInv'
  OBVIOUS
<1>1. ASSUME NEW r \in net, Receive(r) PROVE KnownInv' /\ LatestInv'
  <2>1. CASE Accepts(r)
    <3>1. KnownInv'
      <4>1. peer'.have /\ peer'.report = r /\ net' = net
            /\ accepted' = accepted \cup {<<r.session, r.seq>>}
        BY <1>1, <2>1, Received DEF Accepts, link
      <4>. QED
        BY <4>1 DEF KnownInv
    <3>2. LatestInv'
      <4>. SUFFICES ASSUME ~disordered', NEW a \in accepted'
                    PROVE  a[1] < r.session \/ (a[1] = r.session /\ a[2] <= r.seq)
        BY <2>1 DEF LatestInv, Accepts
      <4>1. CASE a \in accepted
        <5>1. a[1] < r.session \/ (a[1] = r.session /\ a[2] < r.seq)
          BY <2>1, <4>1, AcceptedNewest
        <5>2. a[2] \in Nat /\ r.seq \in Nat
          BY <4>1, BoundsOK DEF TypeOK, Report
        <5>. QED
          BY <5>1, <5>2
      <4>2. CASE a = <<r.session, r.seq>>
        <5>1. r.seq \in Nat
          BY BoundsOK DEF TypeOK, Report
        <5>. QED
          BY <4>2, <5>1
      <4>. QED
        BY <2>1, <4>1, <4>2 DEF Accepts
    <3>. QED
      BY <3>1, <3>2
  <2>2. CASE UNCHANGED <<peer, accepted, fresh, disordered>>
    BY <1>1, <2>2, Received DEF KnownInv, LatestInv, link
  <2>. QED
    BY <1>1, <2>1, <2>2, Received
<1>2. CASE SendReport \/ Reopen
  <2>1. net \subseteq net' /\ UNCHANGED <<peer, accepted, disordered>>
    BY <1>2, Zenon DEF SendReport, Reopen, sender
  <2>. QED
    BY <2>1 DEF KnownInv, LatestInv
<1>3. CASE Answer \/ TimeOut \/ Control \/ UNCHANGED vars
  BY <1>3 DEF Answer, TimeOut, Control, vars, link, sender, KnownInv, LatestInv
<1>4. CASE Interval
  <2>1. /\ peer'.report = peer.report /\ peer'.have = peer.have
        /\ peer'.received = peer.received /\ peer'.lost = peer.lost
        /\ UNCHANGED <<net, accepted, disordered>>
    BY <1>4 DEF Interval, link
  <2>. QED
    BY <2>1 DEF KnownInv, LatestInv
<1>. QED
  BY <1>1, <1>2, <1>3, <1>4 DEF Next

LEMMA Known == Spec => [](TypeOK /\ NetInv /\ KnownInv /\ LatestInv)
BY TypeStarts, TypeStep, KnownStarts, KnownStep, PTL DEF Spec

\* A report sent after all those accepted so far is accepted when it comes, of
\* whichever session it is (stream_sender::handle_link_report).
THEOREM NewestAccepted == Spec => []NewestHeard
<1>1. TypeOK /\ KnownInv => NewestHeard
  <2>. SUFFICES ASSUME TypeOK, KnownInv, NEW r \in net, Newest(r)
                PROVE  handle_link_report(peer, r).report = r
    BY DEF NewestHeard
  <2>1. CASE ~(peer.have /\ r.session = peer.report.session)
    BY <2>1 DEF handle_link_report
  <2>2. CASE peer.have /\ r.session = peer.report.session
    <3>1. /\ peer.report.seq \in Nat /\ r.seq \in Nat
          /\ peer.report.session \in Nat /\ r.session \in Nat
      BY BoundsOK DEF TypeOK, Peer, Report
    <3>2. peer.report.seq < r.seq
      BY <2>2, <3>1 DEF KnownInv, Newest
    <3>3. ~(r.seq - peer.report.seq <= 0)
      BY <3>1, <3>2
    <3>. QED
      BY <3>3 DEF handle_link_report
  <2>. QED
    BY <2>1, <2>2
<1>. QED
  BY <1>1, Known, PTL


(* ------------------------------ accounting ------------------------------ *)

HoleIn(acc, s, q) ==
  /\ <<s, q>> \notin acc
  /\ \E a \in acc : a[1] = s /\ a[2] < q
  /\ \E b \in acc : b[1] = s /\ b[2] > q

Seen == (1 .. MaxSessions) \X (0 .. MaxReports)

HolesOf(acc) == {h \in Seen : HoleIn(acc, h[1], h[2])}

LEMMA SeenFinite == ASSUME NEW S \in SUBSET Seen PROVE IsFiniteSet(S) /\ Cardinality(S) \in Nat
<1>1. IsFiniteSet(1 .. MaxSessions) /\ IsFiniteSet(0 .. MaxReports)
  BY BoundsOK, FS_Interval
<1>2. IsFiniteSet(Seen)
  BY <1>1, FS_Product DEF Seen
<1>. QED
  BY <1>2, FS_Subset, FS_CardinalityType

\* A session's next report opens a hole at every number it passes over.
LEMMA HolesOpen ==
  ASSUME NEW acc \in SUBSET Seen, NEW s \in 1 .. MaxSessions,
         NEW p \in 0 .. MaxReports, NEW q \in 0 .. MaxReports, <<s, p>> \in acc, p < q,
         \A a \in acc : a[1] < s \/ (a[1] = s /\ a[2] <= p)
  PROVE  /\ HolesOf(acc \cup {<<s, q>>}) = HolesOf(acc) \cup ({s} \X (p + 1 .. q - 1))
         /\ HolesOf(acc) \cap ({s} \X (p + 1 .. q - 1)) = {}
<1>. DEFINE acc2 == acc \cup {<<s, q>>}
            new == {s} \X (p + 1 .. q - 1)
<1>1. s \in Nat /\ p \in Nat /\ q \in Nat /\ new \subseteq Seen
  BY BoundsOK DEF Seen
<1>2. \A a \in acc : a[1] \in Nat /\ a[2] \in Nat
  BY BoundsOK DEF Seen
<1>3. ASSUME NEW i \in 1 .. MaxSessions, NEW j \in 0 .. MaxReports, i # s
      PROVE  HoleIn(acc2, i, j) <=> HoleIn(acc, i, j)
  BY <1>3 DEF HoleIn
<1>4. ASSUME NEW j \in 0 .. MaxReports, j < p
      PROVE  HoleIn(acc2, s, j) <=> HoleIn(acc, s, j)
  BY <1>1, <1>2, <1>4 DEF HoleIn
<1>5. ASSUME NEW j \in 0 .. MaxReports, j >= p
      PROVE  ~HoleIn(acc, s, j)
  BY <1>1, <1>2, <1>5 DEF HoleIn
<1>6. ASSUME NEW j \in 0 .. MaxReports, j >= p
      PROVE  HoleIn(acc2, s, j) <=> j \in p + 1 .. q - 1
  <2>0. j \in Nat
    BY BoundsOK
  <2>1. CASE j \in p + 1 .. q - 1
    <3>1. <<s, j>> \notin acc2
      BY <1>1, <1>2, <2>0, <2>1
    <3>2. <<s, p>> \in acc2 /\ <<s, q>> \in acc2 /\ p < j /\ q > j
      BY <1>1, <2>0, <2>1
    <3>. QED
      BY <2>1, <3>1, <3>2 DEF HoleIn
  <2>2. CASE j = p
    BY <2>2 DEF HoleIn
  <2>3. CASE j >= q
    <3>1. \A b \in acc2 : ~(b[1] = s /\ b[2] > j)
      BY <1>1, <1>2, <2>0, <2>3
    <3>2. j \notin p + 1 .. q - 1
      BY <1>1, <2>0, <2>3
    <3>. QED
      BY <3>1, <3>2 DEF HoleIn
  <2>. QED
    BY <1>1, <1>6, <2>0, <2>1, <2>2, <2>3
<1>7. ASSUME NEW h \in Seen
      PROVE  /\ HoleIn(acc2, h[1], h[2]) <=> HoleIn(acc, h[1], h[2]) \/ h \in new
             /\ ~(HoleIn(acc, h[1], h[2]) /\ h \in new)
  <2>1. PICK i \in 1 .. MaxSessions, j \in 0 .. MaxReports : h = <<i, j>>
    BY DEF Seen
  <2>2. h \in new <=> i = s /\ j \in p + 1 .. q - 1
    BY <2>1
  <2>3. j \in Nat
    BY BoundsOK
  <2>. HIDE DEF acc2, new
  <2>4. CASE i # s
    BY <1>3, <2>1, <2>2, <2>4
  <2>5. CASE i = s /\ j < p
    BY <1>1, <1>4, <2>1, <2>2, <2>3, <2>5
  <2>6. CASE i = s /\ j >= p
    BY <1>5, <1>6, <2>1, <2>2, <2>6
  <2>. QED
    BY <1>1, <2>3, <2>4, <2>5, <2>6
<1>. HIDE DEF acc2, new
<1>8. HolesOf(acc2) = HolesOf(acc) \cup new /\ HolesOf(acc) \cap new = {}
  BY <1>1, <1>7, Zenon DEF HolesOf
<1>. QED
  BY <1>8 DEF acc2, new

\* The first report of a session opens none.
LEMMA HolesStay ==
  ASSUME NEW acc \in SUBSET Seen, NEW s \in 1 .. MaxSessions, NEW q \in 0 .. MaxReports,
         \A a \in acc : a[1] < s
  PROVE  HolesOf(acc \cup {<<s, q>>}) = HolesOf(acc)
<1>. DEFINE acc2 == acc \cup {<<s, q>>}
<1>1. s \in Nat /\ q \in Nat /\ \A a \in acc : a[1] # s
  BY BoundsOK DEF Seen
<1>2. ASSUME NEW h \in Seen
      PROVE  HoleIn(acc2, h[1], h[2]) <=> HoleIn(acc, h[1], h[2])
  <2>1. PICK i \in 1 .. MaxSessions, j \in 0 .. MaxReports : h = <<i, j>>
    BY DEF Seen
  <2>2. j \in Nat
    BY BoundsOK
  <2>3. CASE i # s
    BY <2>1, <2>3 DEF HoleIn
  <2>4. CASE i = s
    BY <1>1, <2>1, <2>2, <2>4 DEF HoleIn
  <2>. QED
    BY <2>3, <2>4
<1>. HIDE DEF acc2
<1>3. HolesOf(acc2) = HolesOf(acc)
  BY <1>2, Zenon DEF HolesOf
<1>. QED
  BY <1>3 DEF acc2

LEMMA OpenCount ==
  ASSUME NEW s, NEW p \in Nat, NEW q \in Nat, p < q
  PROVE  /\ IsFiniteSet({s} \X (p + 1 .. q - 1))
         /\ Cardinality({s} \X (p + 1 .. q - 1)) = q - (p + 1)
<1>1. /\ IsFiniteSet(p + 1 .. q - 1)
      /\ Cardinality(p + 1 .. q - 1) = q - (p + 1)
  BY FS_Interval
<1>2. IsFiniteSet({s}) /\ Cardinality({s}) = 1
  BY FS_Singleton
<1>. DEFINE T == p + 1 .. q - 1
<1>3. q - (p + 1) \in Nat
  OBVIOUS
<1>. HIDE DEF T
<1>4. IsFiniteSet({s} \X T) /\ Cardinality({s} \X T) = 1 * Cardinality(T)
  BY <1>1, <1>2, FS_Product DEF T
<1>. QED
  BY <1>1, <1>3, <1>4 DEF T

LEMMA HolesAre == Holes = HolesOf(accepted)
BY DEF Holes, HolesOf, Hole, HoleIn, Seen

LEMMA AccountStarts == Init => ReportsAccounted
<1>. SUFFICES ASSUME Init PROVE ReportsAccounted
  OBVIOUS
<1>1. accepted = {} /\ peer.received = 0 /\ peer.lost = 0
  BY DEF Init, NoPeer
<1>2. HolesOf({}) = {}
  BY DEF HolesOf, HoleIn
<1>. QED
  BY <1>1, <1>2, HolesAre, FS_EmptySet DEF ReportsAccounted

LEMMA AccountAccepted ==
  ASSUME TypeOK, NetInv, KnownInv, LatestInv, ReportsAccounted, NEW r \in net, Accepts(r)
  PROVE  ReportsAccounted'
<1>. SUFFICES ASSUME ~disordered'
              PROVE  /\ peer'.received = Cardinality(accepted')
                     /\ peer'.lost = Cardinality(Holes')
  BY DEF ReportsAccounted
<1>. DEFINE s == r.session
            q == r.seq
            p == peer.report.seq
<1>1. /\ ~disordered /\ accepted' = accepted \cup {<<s, q>>}
      /\ peer.received = Cardinality(accepted) /\ peer.lost = Cardinality(HolesOf(accepted))
      /\ Holes' = HolesOf(accepted')
  BY HolesAre DEF Accepts, ReportsAccounted, Holes, HolesOf, Hole, HoleIn, Seen
<1>2. /\ accepted \in SUBSET Seen
      /\ s \in 1 .. MaxSessions /\ q \in 0 .. MaxReports /\ p \in 0 .. MaxReports
      /\ peer.report.session \in Nat /\ s \in Nat /\ q \in Nat /\ p \in Nat
  <2>1. r \in Report /\ peer.report \in Report /\ r.session >= 1 /\ accepted \in SUBSET Seen
    BY DEF TypeOK, Peer, NetInv, Seen
  <2>2. s \in 1 .. MaxSessions /\ q \in 0 .. MaxReports
    BY <2>1, BoundsOK DEF Report
  <2>3. p \in 0 .. MaxReports /\ peer.report.session \in 0 .. MaxSessions
    BY <2>1 DEF Report
  <2>. QED
    BY <2>1, <2>2, <2>3, BoundsOK
<1>3. \A a \in accepted : a[1] < s \/ (a[1] = s /\ a[2] < q)
  BY AcceptedNewest
<1>4. \A a \in accepted : a[1] \in Nat /\ a[2] \in Nat
  BY <1>2, BoundsOK DEF Seen
<1>5. <<s, q>> \notin accepted
  BY <1>2, <1>3
<1>6. IsFiniteSet(accepted) /\ Cardinality(accepted) \in Nat
  BY <1>2, SeenFinite
<1>7. peer'.received = Cardinality(accepted')
  <2>1. Cardinality(accepted \cup {<<s, q>>}) = Cardinality(accepted) + 1
    BY <1>5, <1>6, FS_AddElement
  <2>. QED
    BY <1>1, <2>1 DEF Accepts
<1>8. peer'.lost = Cardinality(HolesOf(accepted'))
  <2>1. HolesOf(accepted) \in SUBSET Seen
    BY DEF HolesOf
  <2>2. IsFiniteSet(HolesOf(accepted)) /\ Cardinality(HolesOf(accepted)) \in Nat
    BY <2>1, SeenFinite
  <2>3. CASE peer.have /\ s = peer.report.session
    <3>1. p < q /\ peer'.lost = peer.lost + (q - (p + 1))
      BY <2>3 DEF Accepts
    <3>2. <<s, p>> \in accepted
      BY <2>3 DEF KnownInv
    <3>3. \A a \in accepted : a[1] < s \/ (a[1] = s /\ a[2] <= p)
      BY <1>1, <2>3 DEF LatestInv
    <3>. DEFINE new == {s} \X (p + 1 .. q - 1)
    <3>4. HolesOf(accepted') = HolesOf(accepted) \cup new /\ HolesOf(accepted) \cap new = {}
      BY <1>1, <1>2, <3>1, <3>2, <3>3, HolesOpen
    <3>5. IsFiniteSet(new) /\ Cardinality(new) = q - (p + 1)
      BY <1>2, <3>1, OpenCount
    <3>. HIDE DEF new, p, q, s
    <3>6. Cardinality(HolesOf(accepted')) =
            Cardinality(HolesOf(accepted)) + Cardinality(new) - Cardinality({})
      BY <2>2, <3>4, <3>5, FS_Union
    <3>. QED
      BY <1>1, <1>2, <2>2, <3>1, <3>5, <3>6, FS_EmptySet
  <2>4. CASE ~(peer.have /\ s = peer.report.session)
    <3>1. peer'.lost = peer.lost
      BY <2>4 DEF Accepts
    <3>2. ASSUME NEW a \in accepted PROVE a[1] < s
      <4>1. peer.have
        BY <3>2 DEF KnownInv
      <4>2. peer.report.session # s /\ ~(s < peer.report.session)
        BY <2>4, <4>1 DEF Accepts
      <4>3. a[1] <= peer.report.session
        BY <1>1, <1>2, <1>4, <3>2 DEF LatestInv
      <4>. QED
        BY <1>2, <1>4, <3>2, <4>2, <4>3
    <3>3. HolesOf(accepted') = HolesOf(accepted)
      BY <1>1, <1>2, <3>2, HolesStay
    <3>. QED
      BY <1>1, <3>1, <3>3
  <2>. QED
    BY <2>3, <2>4
<1>. QED
  BY <1>1, <1>7, <1>8

LEMMA AccountStep ==
  TypeOK /\ NetInv /\ KnownInv /\ LatestInv /\ ReportsAccounted /\ [Next]_vars => ReportsAccounted'
<1>. SUFFICES ASSUME TypeOK, NetInv, KnownInv, LatestInv, ReportsAccounted, [Next]_vars
              PROVE  ReportsAccounted'
  OBVIOUS
<1>1. CASE \E r \in net : Accepts(r)
  BY <1>1, AccountAccepted
<1>2. CASE UNCHANGED <<accepted, disordered>> /\ peer'.received = peer.received /\ peer'.lost = peer.lost
  BY <1>2 DEF ReportsAccounted, Holes, Hole
<1>3. ASSUME NEW r \in net, Receive(r)
      PROVE  Accepts(r) \/ UNCHANGED <<peer, accepted, disordered>>
  BY <1>3, Received
<1>4. CASE SendReport \/ Reopen \/ Answer \/ TimeOut \/ Control \/ Interval \/ UNCHANGED vars
  <2>1. UNCHANGED <<accepted, disordered>> /\ peer'.received = peer.received /\ peer'.lost = peer.lost
    <3>1. CASE Interval
      BY <3>1 DEF Interval
    <3>2. CASE SendReport \/ Reopen
      BY <3>2, Zenon DEF SendReport, Reopen, sender
    <3>3. CASE Answer \/ TimeOut \/ Control \/ UNCHANGED vars
      BY <3>3 DEF Answer, TimeOut, Control, vars, sender
    <3>. QED
      BY <1>4, <3>1, <3>2, <3>3
  <2>. QED
    BY <1>2, <2>1
<1>. QED
  BY <1>1, <1>2, <1>3, <1>4 DEF Next

\* peer_reports_received counts every accepted report once and peer_reports_lost
\* every hole between two accepted reports of a session, for every number of
\* sessions and reports, however these are lost, duplicated and delayed, until a
\* report of an older session comes late (stream_sender::handle_link_report).
THEOREM ReportsCounted == Spec => []ReportsAccounted
BY Known, AccountStarts, AccountStep, PTL DEF Spec


(* ------------------------------- freshness ------------------------------ *)

\* The sender's age of the last report is never above the time since one was
\* accepted the first time, and equal to it while no session comes back.  What
\* the controller read has grown old with it.
FreshInv ==
  /\ ctl.pc = "idle" => ctl.wait = 0
  /\ ~disordered /\ peer.have => fresh <= peer.age
  /\ (ctl.pc = "answered" /\ ctl.read.age >= 0) =>
       /\ peer.have /\ peer.age <= ctl.read.age + ctl.wait
       /\ (ctl.read.age + ctl.wait < OldAge) =>
            (fresh <= ctl.read.age + ctl.wait \/ TakenAgain)

LEMMA FreshStarts == Init => FreshInv
BY DEF Init, FreshInv, NoPeer

LEMMA FreshStep == TypeOK /\ KnownInv /\ LatestInv /\ FreshInv /\ [Next]_vars => FreshInv'
<1>. SUFFICES ASSUME TypeOK, KnownInv, LatestInv, FreshInv, [Next]_vars PROVE FreshInv'
  OBVIOUS
<1>0. /\ fresh \in Nat /\ OldAge \in Nat /\ peer.age \in Nat /\ ctl.wait \in Nat
      /\ fresh <= OldAge /\ peer.age <= OldAge
      /\ ctl.read.age \in Int /\ ctl \in Loop /\ peer \in Peer
  BY BoundsOK DEF TypeOK, Peer, Loop, Snapshot
<1>1. ASSUME NEW r \in net, Accepts(r), UNCHANGED ctl PROVE FreshInv'
  <2>1. fresh' = 0 \/ (disordered' /\ fresh' = fresh)
    <3>1. CASE ~disordered'
      <4>1. \A a \in accepted : a[1] < r.session \/ (a[1] = r.session /\ a[2] < r.seq)
        BY <1>1, <3>1, AcceptedNewest
      <4>2. r.session \in Nat /\ r.seq \in Nat
        BY BoundsOK DEF TypeOK, Report
      <4>3. <<r.session, r.seq>> \notin accepted
        BY <4>1, <4>2
      <4>. QED
        BY <1>1, <4>3 DEF Accepts
    <3>2. CASE disordered'
      BY <1>1, <3>2 DEF Accepts
    <3>. QED
      BY <3>1, <3>2
  <2>2. peer'.age = 0 /\ peer'.have
    BY <1>1 DEF Accepts
  <2>. QED
    BY <1>0, <1>1, <2>1, <2>2 DEF FreshInv, TakenAgain
<1>2. ASSUME NEW r \in net, Receive(r) PROVE FreshInv'
  <2>1. UNCHANGED ctl
    BY <1>2 DEF Receive, control
  <2>2. CASE UNCHANGED <<peer, accepted, fresh, disordered>>
    BY <2>1, <2>2 DEF FreshInv, TakenAgain
  <2>. QED
    BY <1>1, <1>2, <2>1, <2>2, Received
<1>3. CASE Answer
  <2>1. /\ ctl'.pc = "answered" /\ ctl'.wait = 0 /\ ctl'.read = peer_link_snapshot
        /\ UNCHANGED <<peer, fresh, disordered>>
    BY <1>0, <1>3 DEF Answer, sender, FreshInv, Loop
  <2>2. peer_link_snapshot.age >= 0 => peer.have /\ peer_link_snapshot.age = peer.age
    BY DEF peer_link_snapshot, NoSnap
  <2>3. peer.have => fresh <= peer.age \/ TakenAgain
    BY <1>0 DEF FreshInv, TakenAgain
  <2>. QED
    BY <1>0, <2>1, <2>2, <2>3 DEF FreshInv, TakenAgain
<1>4. CASE TimeOut \/ Control
  <2>1. ctl'.pc = "idle" /\ ctl'.wait = 0 /\ UNCHANGED <<peer, fresh, disordered>>
    <3>1. CASE TimeOut
      BY <1>0, <3>1 DEF TimeOut, sender, Loop
    <3>2. CASE Control
      BY <3>2 DEF Control, sender
    <3>. QED
      BY <1>4, <3>1, <3>2
  <2>. QED
    BY <2>1 DEF FreshInv
<1>5. CASE Interval
  <2>1. /\ fresh' = Older(fresh) /\ disordered' = disordered /\ peer'.have = peer.have
        /\ peer.have => peer'.age = Older(peer.age)
    BY <1>0, <1>5 DEF Interval, Peer
  <2>2. /\ ctl'.pc = ctl.pc /\ ctl'.read = ctl.read
        /\ ctl'.wait = IF ctl.pc = "idle" THEN ctl.wait ELSE ctl.wait + 1
    BY <1>0, <1>5 DEF Interval, Loop
  <2>3. fresh <= peer.age => Older(fresh) <= Older(peer.age)
    BY <1>0 DEF Older
  <2>4. /\ Older(fresh) \in Nat /\ Older(fresh) <= fresh + 1
        /\ Older(peer.age) \in Nat /\ Older(peer.age) <= peer.age + 1
    BY <1>0 DEF Older
  <2>5. (peer.age < fresh /\ peer.age + 1 < OldAge) => Older(peer.age) < Older(fresh)
    BY <1>0 DEF Older
  <2>6. ~disordered' /\ peer'.have => fresh' <= peer'.age
    BY <2>1, <2>3 DEF FreshInv
  <2>7. ASSUME ctl'.pc = "answered", ctl'.read.age >= 0
        PROVE  /\ peer'.have /\ peer'.age <= ctl'.read.age + ctl'.wait
               /\ (ctl'.read.age + ctl'.wait < OldAge) =>
                    (fresh' <= ctl'.read.age + ctl'.wait \/ TakenAgain')
    <3>1. /\ peer.have /\ peer.age <= ctl.read.age + ctl.wait
          /\ (ctl.read.age + ctl.wait < OldAge) =>
               (fresh <= ctl.read.age + ctl.wait \/ TakenAgain)
      BY <2>2, <2>7 DEF FreshInv
    <3>2. ctl'.wait = ctl.wait + 1 /\ peer'.age = Older(peer.age)
      BY <2>1, <2>2, <2>7, <3>1
    <3>3. peer'.have /\ peer'.age <= ctl'.read.age + ctl'.wait
      BY <1>0, <2>1, <2>2, <2>4, <3>1, <3>2
    <3>4. CASE ctl'.read.age + ctl'.wait < OldAge /\ fresh <= ctl.read.age + ctl.wait
      BY <1>0, <2>1, <2>2, <2>4, <3>2, <3>3, <3>4
    <3>5. CASE ctl'.read.age + ctl'.wait < OldAge /\ TakenAgain
      BY <1>0, <2>1, <2>2, <2>5, <3>1, <3>2, <3>3, <3>5 DEF TakenAgain
    <3>. QED
      BY <1>0, <2>2, <3>1, <3>2, <3>3, <3>4, <3>5
  <2>8. ctl'.pc = "idle" => ctl'.wait = 0
    BY <2>2 DEF FreshInv
  <2>. QED
    BY <2>6, <2>7, <2>8 DEF FreshInv
<1>6. CASE SendReport \/ Reopen \/ UNCHANGED vars
  <2>1. UNCHANGED <<peer, fresh, disordered, ctl>>
    BY <1>6, Zenon DEF SendReport, Reopen, vars, sender, control
  <2>. QED
    BY <2>1 DEF FreshInv, TakenAgain
<1>. QED
  BY <1>2, <1>3, <1>4, <1>5, <1>6 DEF Next

\* The bit rate is raised only while reports arrive, whatever the link and the
\* console do to reports and answers: when the console answered, at most
\* StaleAfter intervals had gone by since a report was accepted for the first
\* time, or the report taken last is one that was accepted again because a report
\* of an older session came in between (telemetry_stale, peer_report_at,
\* handle_link_report).
THEOREM RaisesAreFresh == Spec => RaisedOnFreshReport
<1>1. TypeOK /\ FreshInv /\ [Next]_vars =>
        [Control /\ step = "raise" => fresh <= StaleAfter + ctl.wait \/ TakenAgain]_vars
  <2>. SUFFICES ASSUME TypeOK, FreshInv, Control, step = "raise"
                PROVE  fresh <= StaleAfter + ctl.wait \/ TakenAgain
    OBVIOUS
  <2>1. ctl.pc = "answered" /\ ~telemetry_stale(ctl.read.age)
    BY DEF Control, step
  <2>2. /\ ctl.read.age \in Int /\ ctl.wait \in Nat /\ fresh \in Nat
        /\ StaleAfter \in Nat /\ MaxWait \in Nat /\ ctl.wait <= MaxWait
    BY BoundsOK DEF TypeOK, Loop, Snapshot
  <2>3. ctl.read.age >= 0 /\ ctl.read.age <= StaleAfter
    BY <2>1, <2>2 DEF telemetry_stale
  <2>4. ctl.read.age + ctl.wait < OldAge
    BY <2>2, <2>3 DEF OldAge
  <2>5. fresh <= ctl.read.age + ctl.wait \/ TakenAgain
    BY <2>1, <2>3, <2>4 DEF FreshInv
  <2>. QED
    BY <2>2, <2>3, <2>5
<1>. QED
  BY Known, FreshStarts, FreshStep, <1>1, PTL DEF Spec, RaisedOnFreshReport


(* ---------------------------- losses charged ---------------------------- *)

LostIn(reports, s) == Max({0} \cup {r.gap : r \in {q \in reports : q.session = s}})

LEMMA LeastOf ==
  ASSUME NEW T \in SUBSET Nat, T # {}
  PROVE  \E x \in T : \A y \in T : x <= y
<1>1. PICK x \in T : \A y \in T : ~ (<<y, x>> \in OpToRel(<, Nat))
  BY WFMin, NatLessThanWellFounded
<1>2. \A y \in T : ~ (y < x)
  BY <1>1 DEF OpToRel
<1>. QED
  BY <1>2

\* Lost(s) is the largest count of losses reported for session s.
LEMMA LostIs ==
  ASSUME NEW reports \in SUBSET Report, NEW s
  PROVE  /\ LostIn(reports, s) \in 0 .. MaxGap
         /\ \A r \in reports : r.session = s => r.gap <= LostIn(reports, s)
         /\ LostIn(reports, s) = 0 \/ \E r \in reports : r.session = s /\ r.gap = LostIn(reports, s)
<1>. DEFINE S == {0} \cup {r.gap : r \in {q \in reports : q.session = s}}
            U == {u \in Nat : \A y \in S : u >= y}
<1>1. 0 \in S /\ MaxGap \in Nat /\ \A y \in S : y \in 0 .. MaxGap
  BY BoundsOK DEF Report
<1>2. \A r \in reports : r.session = s => r.gap \in S
  OBVIOUS
<1>3. \A y \in S : y = 0 \/ \E r \in reports : r.session = s /\ r.gap = y
  OBVIOUS
<1>4. LostIn(reports, s) = Max(S)
  BY DEF LostIn
<1>. HIDE DEF S
<1>5. PICK u \in U : \A v \in U : u <= v
  <2>1. MaxGap \in U
    BY <1>1
  <2>2. U \in SUBSET Nat
    OBVIOUS
  <2>. HIDE DEF U
  <2>. QED
    BY <2>1, <2>2, LeastOf
<1>6. u \in Nat /\ \A y \in S : u >= y
  OBVIOUS
<1>7. u \in S
  <2>. SUFFICES ASSUME u \notin S PROVE FALSE
    OBVIOUS
  <2>1. u >= 1
    BY <1>1, <1>6
  <2>2. u - 1 \in Nat /\ \A y \in S : u - 1 >= y
    BY <1>1, <1>6, <2>1
  <2>3. u - 1 \in U
    BY <2>2
  <2>. HIDE DEF U
  <2>. QED
    BY <1>5, <1>6, <2>3
<1>8. Max(S) \in S /\ \A y \in S : Max(S) >= y
  BY <1>6, <1>7 DEF Max
<1>. QED
  BY <1>1, <1>2, <1>3, <1>4, <1>8

\* Reports that come in addition do not lower it.
LEMMA LostGrows ==
  ASSUME NEW more \in SUBSET Report, NEW reports \in SUBSET more, NEW s
  PROVE  LostIn(reports, s) <= LostIn(more, s)
<1>1. LostIn(more, s) \in 0 .. MaxGap /\ LostIn(reports, s) \in 0 .. MaxGap
  BY LostIs
<1>2. CASE LostIn(reports, s) = 0
  BY <1>1, <1>2, BoundsOK
<1>3. CASE \E r \in reports : r.session = s /\ r.gap = LostIn(reports, s)
  BY <1>3, LostIs
<1>. QED
  BY <1>2, <1>3, LostIs

LEMMA LostAre == \A s : Lost(s) = LostIn(net, s)
BY DEF Lost, LostIn

\* Two counts, of sessions s and t: the second is no older and no lower.
UpTo(s, m, t, n) == s < t \/ (s = t /\ m <= n)

\* The receiver's counter only grows within a session, so later reports tell of
\* no fewer losses.
SentInv ==
  /\ \A r \in net : /\ r.session < rcv.session \/ (r.session = rcv.session /\ r.seq < rcv.seq)
                    /\ UpTo(r.session, r.gap, rcv.session, rcv.gap)
  /\ \A r, q \in net : r.session = q.session /\ r.seq < q.seq => r.gap <= q.gap

LEMMA SentStarts == Init => SentInv
BY DEF Init, SentInv

LEMMA SentStep == TypeOK /\ SentInv /\ [Next]_vars => SentInv'
<1>. SUFFICES ASSUME TypeOK, SentInv, [Next]_vars PROVE SentInv'
  OBVIOUS
<1>1. CASE SendReport
  <2>1. PICK gap \in rcv.gap .. MaxGap :
          LET r == [rcv EXCEPT !.gap = gap]
          IN  net' = net \cup {r} /\ rcv' = [r EXCEPT !.seq = @ + 1]
    BY <1>1 DEF SendReport
  <2>. DEFINE r == [rcv EXCEPT !.gap = gap]
  <2>2. /\ r.session = rcv.session /\ r.seq = rcv.seq /\ r.gap = gap /\ r \in Report
        /\ net' = net \cup {r}
    BY <2>1, BoundsOK DEF TypeOK, Report
  <2>3. rcv'.session = rcv.session /\ rcv'.seq = rcv.seq + 1 /\ rcv'.gap = gap
    BY <2>1, BoundsOK DEF TypeOK, Report
  <2>4. /\ rcv.seq \in Nat /\ rcv.gap \in Nat /\ rcv.session \in Nat /\ gap \in Nat /\ rcv.gap <= gap
        /\ \A q \in net : q.seq \in Nat /\ q.gap \in Nat /\ q.session \in Nat
    <3>1. rcv \in Report /\ net \subseteq Report
      BY DEF TypeOK
    <3>. QED
      BY <2>1, <3>1, BoundsOK DEF Report
  <2>. HIDE DEF r
  <2>5. \A q \in net' :
          /\ q.session < rcv'.session \/ (q.session = rcv'.session /\ q.seq < rcv'.seq)
          /\ UpTo(q.session, q.gap, rcv'.session, rcv'.gap)
    BY <2>2, <2>3, <2>4 DEF SentInv, UpTo
  <2>6. ASSUME NEW a \in net', NEW b \in net', a.session = b.session, a.seq < b.seq
        PROVE  a.gap <= b.gap
    <3>1. CASE a \in net /\ b \in net
      BY <2>6, <3>1 DEF SentInv
    <3>2. CASE a = r
      <4>1. b # r /\ b \in net
        BY <2>2, <2>4, <2>6, <3>2
      <4>. QED
        BY <2>2, <2>4, <2>6, <3>2, <4>1 DEF SentInv
    <3>3. CASE a \in net /\ b = r
      BY <2>2, <2>4, <2>6, <3>3 DEF SentInv, UpTo
    <3>. QED
      BY <2>2, <3>1, <3>2, <3>3
  <2>. QED
    BY <2>5, <2>6 DEF SentInv
<1>2. CASE Reopen
  <2>1. /\ rcv'.session = rcv.session + 1 /\ net' = net
    BY <1>2 DEF Reopen
  <2>2. rcv.session \in Nat /\ \A q \in net : q.session \in Nat
    BY BoundsOK DEF TypeOK, Report
  <2>. QED
    BY <2>1, <2>2 DEF SentInv, UpTo
<1>3. CASE UNCHANGED link
  BY <1>3 DEF link, SentInv
<1>. QED
  BY <1>1, <1>2, <1>3 DEF Next, Receive, Answer, TimeOut, Control, Interval, vars

\* An answer tells of a report that was sent, or of none.
ReadOf(snap) ==
  \/ snap.session = 0 /\ snap.gap = 0
  \/ \E r \in net : r.session = snap.session /\ r.gap = snap.gap

\* What the controller has charged was counted: in its present session no more
\* than the last answer told of, and in later ones nothing.
ChargeInv ==
  /\ ctl.pc = "answered" => ReadOf(ctl.read)
  /\ ctl.session = -1 => ctl.prev = -1
  /\ ~disordered =>
     /\ \A s \in 0 .. MaxSessions : charged[s] <= Lost(s)
     /\ \A s \in 0 .. MaxSessions : s > ctl.session => charged[s] = 0
     /\ ctl.session >= 0 => charged[ctl.session] <= ctl.prev
     /\ UpTo(ctl.session, ctl.prev, peer.report.session, peer.report.gap)
     /\ ctl.pc = "answered" =>
          /\ UpTo(ctl.session, ctl.prev, ctl.read.session, ctl.read.gap)
          /\ UpTo(ctl.read.session, ctl.read.gap, peer.report.session, peer.report.gap)


LEMMA ChargeStarts == Init => ChargeInv
<1>. SUFFICES ASSUME Init PROVE ChargeInv
  OBVIOUS
<1>1. /\ ctl.pc = "idle" /\ ctl.session = -1 /\ ctl.prev = -1
      /\ peer.report.session = 0 /\ net = {}
      /\ \A s \in 0 .. MaxSessions : charged[s] = 0
  BY DEF Init, NoPeer, NoReport
<1>2. \A s \in 0 .. MaxSessions : Lost(s) \in Nat
  BY <1>1, LostIs, LostAre, BoundsOK
<1>. QED
  BY <1>1, <1>2 DEF ChargeInv, UpTo

LEMMA ChargeNumbers ==
  ASSUME TypeOK
  PROVE  /\ ctl.session \in Int /\ ctl.prev \in Int
         /\ ctl.read.session \in 0 .. MaxSessions /\ ctl.read.gap \in Nat
         /\ peer.report.session \in Nat /\ peer.report.gap \in Nat
         /\ \A s \in 0 .. MaxSessions : charged[s] \in Nat
<1>1. ctl \in Loop /\ ctl.read \in Snapshot /\ peer.report \in Report
  BY DEF TypeOK, Loop, Peer
<1>2. charged \in [0 .. MaxSessions -> Nat]
  BY DEF TypeOK
<1>3. ctl.session \in -1 .. MaxSessions /\ ctl.prev \in -1 .. MaxGap
  BY <1>1 DEF Loop
<1>4. ctl.read.session \in 0 .. MaxSessions /\ ctl.read.gap \in 0 .. MaxGap
  BY <1>1 DEF Snapshot
<1>5. peer.report.session \in 0 .. MaxSessions /\ peer.report.gap \in 0 .. MaxGap
  BY <1>1 DEF Report
<1>6. ctl.session \in Int /\ ctl.prev \in Int
  BY <1>3, BoundsOK
<1>7. ctl.read.gap \in Nat
  BY <1>4, BoundsOK
<1>8. peer.report.session \in Nat /\ peer.report.gap \in Nat
  BY <1>5, BoundsOK
<1>9. \A s \in 0 .. MaxSessions : charged[s] \in Nat
  BY <1>2, Zenon
<1>. QED
  BY <1>4, <1>6, <1>7, <1>8, <1>9, Zenon

LEMMA ChargeReceived ==
  ASSUME TypeOK, KnownInv, LatestInv, SentInv, ChargeInv, NEW r \in net, Receive(r)
  PROVE  ChargeInv'
<1>1. UNCHANGED <<ctl, charged, net>>
  BY DEF Receive, link, control
<1>2. CASE UNCHANGED <<peer, disordered>>
  BY <1>1, <1>2 DEF ChargeInv, ReadOf, Lost
<1>3. CASE Accepts(r) /\ ~disordered'
  <2>1. UpTo(peer.report.session, peer.report.gap, r.session, r.gap)
    <3>1. r.session \in Nat /\ r.gap \in Nat
      BY BoundsOK DEF TypeOK, Report
    <3>2. ~(r.session < peer.report.session)
      BY <1>3 DEF Accepts
    <3>3. CASE peer.have /\ r.session = peer.report.session
      BY <1>3, <3>3 DEF Accepts, KnownInv, SentInv, UpTo
    <3>4. CASE ~peer.have
      BY <3>1, <3>4 DEF KnownInv, NoReport, UpTo
    <3>5. CASE r.session # peer.report.session
      BY <3>1, <3>2, <3>5, ChargeNumbers DEF UpTo
    <3>. QED
      BY <3>3, <3>4, <3>5
  <2>2. r.session \in Nat /\ r.gap \in Nat
    BY BoundsOK DEF TypeOK, Report
  <2>3. \A s, n \in Int : UpTo(s, n, peer.report.session, peer.report.gap)
                            => UpTo(s, n, r.session, r.gap)
    BY <2>1, <2>2, ChargeNumbers DEF UpTo
  <2>4. peer'.report = r /\ ~disordered
    BY <1>3 DEF Accepts
  <2>5. ctl.read.session \in Int /\ ctl.read.gap \in Int /\ ctl.session \in Int /\ ctl.prev \in Int
    BY ChargeNumbers
  <2>. QED
    BY <1>1, <2>3, <2>4, <2>5 DEF ChargeInv, ReadOf, Lost
<1>4. CASE Accepts(r) /\ disordered'
  BY <1>1, <1>4 DEF ChargeInv, ReadOf
<1>. QED
  BY <1>2, <1>3, <1>4, Received

\* An answer carries what the sender knows.
LEMMA ChargeAnswer ==
  ASSUME TypeOK, KnownInv, ChargeInv, Answer
  PROVE  ChargeInv'
<1>1. /\ ctl'.pc = "answered" /\ ctl'.read = peer_link_snapshot
      /\ ctl'.session = ctl.session /\ ctl'.prev = ctl.prev
      /\ UNCHANGED <<charged, net, peer, disordered>>
  BY DEF Answer, TypeOK, Loop, link, sender
<1>2. /\ peer_link_snapshot.session = peer.report.session
      /\ peer_link_snapshot.gap = peer.report.gap
  BY DEF peer_link_snapshot, KnownInv, NoSnap, NoReport
<1>3. ReadOf(peer_link_snapshot)
  BY <1>2 DEF ReadOf, KnownInv, NoReport
<1>4. UpTo(peer.report.session, peer.report.gap, peer.report.session, peer.report.gap)
  BY ChargeNumbers DEF UpTo
<1>. QED
  BY <1>1, <1>2, <1>3, <1>4 DEF ChargeInv, ReadOf, Lost

\* The controller charges the losses between two answers of one session.
LEMMA ChargeControl ==
  ASSUME TypeOK, ChargeInv, Control
  PROVE  ChargeInv'
<1>. DEFINE s == ctl.read.session
            g == ctl.read.gap
            d == Delta
<1>1. /\ ctl.pc = "answered" /\ ctl'.pc = "idle" /\ ctl'.session = s /\ ctl'.prev = g
      /\ charged' = [charged EXCEPT ![s] = @ + d]
      /\ UNCHANGED <<net, peer, disordered>>
  BY DEF Control, link, sender
<1>2. /\ s \in 0 .. MaxSessions /\ s \in Nat /\ g \in Nat /\ d \in Nat
      /\ ctl.session \in Int /\ ctl.prev \in Int
      /\ charged \in [0 .. MaxSessions -> Nat]
  BY ChargeNumbers, DeltaNat, BoundsOK DEF TypeOK
<1>3. d = 0 \/ (ctl.session = s /\ ctl.prev <= g /\ d = g - ctl.prev)
  BY <1>2 DEF Delta, ChargeInv
<1>4. g <= Lost(s) /\ \A t : Lost(t) \in Nat
  <2>1. \A t : Lost(t) \in Nat
    BY LostIs, LostAre, BoundsOK DEF TypeOK
  <2>2. ReadOf(ctl.read)
    BY <1>1 DEF ChargeInv
  <2>3. CASE g = 0
    BY <2>1, <2>3
  <2>4. CASE \E r \in net : r.session = s /\ r.gap = g
    BY <2>4, LostIs, LostAre DEF TypeOK
  <2>. QED
    BY <2>2, <2>3, <2>4 DEF ReadOf
<1>. HIDE DEF d
<1>. DEFINE c == charged[s] + d
<1>5. c \in Nat /\ charged' = [charged EXCEPT ![s] = c]
  BY <1>1, <1>2
<1>6. /\ charged'[s] = c
      /\ \A t \in 0 .. MaxSessions : t # s => charged'[t] = charged[t]
  <2>. HIDE DEF c
  <2>. QED
    BY <1>2, <1>5
<1>7. ASSUME ~disordered
      PROVE  /\ \A t \in 0 .. MaxSessions : charged'[t] <= Lost(t)
             /\ \A t \in 0 .. MaxSessions : t > s => charged'[t] = 0
             /\ charged'[s] <= g
             /\ UpTo(s, g, peer.report.session, peer.report.gap)
  <2>1. /\ UpTo(ctl.session, ctl.prev, s, g) /\ UpTo(s, g, peer.report.session, peer.report.gap)
        /\ \A t \in 0 .. MaxSessions : charged[t] <= Lost(t)
        /\ \A t \in 0 .. MaxSessions : t > ctl.session => charged[t] = 0
        /\ ctl.session >= 0 => charged[ctl.session] <= ctl.prev
    BY <1>1, <1>7 DEF ChargeInv
  <2>2. c <= g
    <3>1. CASE ctl.session = s
      <4>1. charged[s] <= ctl.prev /\ ctl.prev <= g
        BY <1>2, <2>1, <3>1 DEF UpTo
      <4>2. charged[s] \in Nat
        BY <1>2
      <4>. QED
        BY <1>2, <1>3, <4>1, <4>2
    <3>2. CASE ctl.session # s
      <4>1. s > ctl.session
        BY <1>2, <2>1, <3>2 DEF UpTo
      <4>2. charged[s] = 0 /\ d = 0
        BY <1>2, <1>3, <2>1, <3>2, <4>1
      <4>. QED
        BY <1>2, <4>2
    <3>. QED
      BY <3>1, <3>2
  <2>3. \A t \in 0 .. MaxSessions : t > s => t > ctl.session
    BY <1>2, <2>1, BoundsOK DEF UpTo
  <2>4. c <= Lost(s)
    BY <1>2, <1>4, <1>5, <2>2
  <2>. HIDE DEF c
  <2>5. \A t \in 0 .. MaxSessions : t > s => charged'[t] = 0
    <3>1. \A t \in 0 .. MaxSessions : t > s => t # s
      BY <1>2, BoundsOK
    <3>. QED
      BY <1>6, <2>1, <2>3, <3>1
  <2>6. \A t \in 0 .. MaxSessions : charged'[t] <= Lost(t)
    BY <1>6, <2>1, <2>4
  <2>. QED
    BY <1>6, <2>1, <2>2, <2>5, <2>6
<1>8. (\A t : Lost(t)' = Lost(t)) /\ s # -1
  BY <1>1, <1>2 DEF Lost
<1>. HIDE DEF s, g
<1>. QED
  BY <1>1, <1>7, <1>8 DEF ChargeInv

LEMMA ChargeStep ==
  TypeOK /\ TypeOK' /\ KnownInv /\ LatestInv /\ SentInv /\ ChargeInv /\ [Next]_vars => ChargeInv'
<1>. SUFFICES ASSUME TypeOK, TypeOK', KnownInv, LatestInv, SentInv, ChargeInv, [Next]_vars
              PROVE  ChargeInv'
  OBVIOUS
<1>1. CASE SendReport \/ Reopen
  <2>1. net \subseteq net' /\ UNCHANGED <<ctl, charged, peer, disordered>>
    BY <1>1, Zenon DEF SendReport, Reopen, sender, control
  <2>2. \A s \in 0 .. MaxSessions : charged[s] <= Lost(s) => charged[s] <= Lost(s)'
    <3>. SUFFICES ASSUME NEW s \in 0 .. MaxSessions, charged[s] <= Lost(s)
                  PROVE  charged[s] <= Lost(s)'
      OBVIOUS
    <3>1. net \in SUBSET Report /\ net' \in SUBSET Report /\ net \in SUBSET net'
      BY <2>1 DEF TypeOK
    <3>2. Lost(s) <= LostIn(net', s) /\ Lost(s) \in Nat /\ LostIn(net', s) \in Nat
      BY <3>1, LostIs, LostGrows, LostAre, BoundsOK
    <3>3. Lost(s)' = LostIn(net', s)
      BY DEF Lost, LostIn
    <3>4. charged[s] \in Nat
      BY ChargeNumbers
    <3>. QED
      BY <3>2, <3>3, <3>4
  <2>3. ReadOf(ctl.read) => ReadOf(ctl.read)'
    BY <2>1 DEF ReadOf
  <2>. QED
    BY <2>1, <2>2, <2>3 DEF ChargeInv
<1>2. CASE TimeOut
  <2>1. /\ ctl'.pc = "idle" /\ ctl'.session = ctl.session /\ ctl'.prev = ctl.prev
        /\ UNCHANGED <<charged, net, peer, disordered>>
    BY <1>2 DEF TimeOut, TypeOK, Loop, link, sender
  <2>. QED
    BY <2>1 DEF ChargeInv, Lost
<1>3. CASE Interval
  <2>1. /\ ctl'.pc = ctl.pc /\ ctl'.session = ctl.session /\ ctl'.prev = ctl.prev
        /\ ctl'.read = ctl.read /\ peer'.report = peer.report
        /\ UNCHANGED <<charged, net, disordered>>
    BY <1>3 DEF Interval, TypeOK, Loop, Peer, link
  <2>. QED
    BY <2>1 DEF ChargeInv, Lost, ReadOf
<1>4. CASE UNCHANGED vars
  BY <1>4 DEF vars, link, sender, control, ChargeInv, Lost, ReadOf
<1>. QED
  BY <1>1, <1>2, <1>3, <1>4, ChargeReceived, ChargeAnswer, ChargeControl DEF Next

\* The controller charges a lost packet to the bit rate at most once: of no
\* session more than its receiver counted, whatever reports and answers are lost,
\* reordered or repeated and however often the receiver starts again, until a
\* report of an older session comes late (CounterDelta, GapLoss.reset).
THEOREM LossesChargedOnce == Spec => []ChargedOnce
<1>1. ChargeInv => ChargedOnce
  BY DEF ChargeInv, ChargedOnce
<1>. QED
  BY <1>1, Known, SentStarts, SentStep, ChargeStarts, ChargeStep, PTL DEF Spec

(* ---------------------------- the loss window --------------------------- *)

\* The samples are the steps of a count that ends at last.
Steps(samples, count, last, top) ==
  /\ count \in [0 .. Len(samples) -> 0 .. top]
  /\ \A i \in 1 .. Len(samples) : samples[i] = count[i] - count[i - 1]
  /\ count[Len(samples)] = last

LEMMA StepsAppend ==
  ASSUME NEW samples \in Seq(0 .. MaxGap), NEW top \in Nat, NEW last \in Nat, NEW next \in 0 .. top,
         NEW low \in 0 .. top, NEW count, Steps(samples, count, last, low)
  PROVE  \E c : Steps(Append(samples, next - last), c, next, top)
<1>. DEFINE n == Len(samples)
            longer == Append(samples, next - last)
            c == [i \in 0 .. n + 1 |-> IF i <= n THEN count[i] ELSE next]
<1>1. /\ n \in Nat /\ Len(longer) = n + 1 /\ longer[n + 1] = next - last
      /\ \A i \in 1 .. n : longer[i] = samples[i]
  BY AppendProperties, LenProperties
<1>2. /\ \A i \in 0 .. n : count[i] \in 0 .. low
      /\ \A i \in 1 .. n : samples[i] = count[i] - count[i - 1]
      /\ count[n] = last
  BY <1>1 DEF Steps
<1>. HIDE DEF n, longer
<1>3. /\ \A i \in 0 .. n : c[i] = count[i]
      /\ c[n + 1] = next
  BY <1>1
<1>4. c \in [0 .. n + 1 -> 0 .. top]
  <2>1. \A i \in 0 .. n + 1 : (IF i <= n THEN count[i] ELSE next) \in 0 .. top
    BY <1>1, <1>2
  <2>. QED
    BY <2>1
<1>. HIDE DEF c
<1>5. ASSUME NEW i \in 1 .. n + 1 PROVE longer[i] = c[i] - c[i - 1]
  <2>1. CASE i = n + 1
    <3>1. c[n + 1] = next /\ c[(n + 1) - 1] = last
      BY <1>1, <1>2, <1>3
    <3>. QED
      BY <1>1, <2>1, <3>1
  <2>2. CASE i \in 1 .. n
    <3>1. i \in 0 .. n /\ i - 1 \in 0 .. n
      BY <1>1, <2>2
    <3>. QED
      BY <1>1, <1>2, <1>3, <2>2, <3>1
  <2>. QED
    BY <1>1, <1>5, <2>1, <2>2
<1>. QED
  BY <1>1, <1>3, <1>4, <1>5 DEF Steps, longer

LEMMA StepsTail ==
  ASSUME NEW samples \in Seq(0 .. MaxGap), samples # <<>>, NEW last, NEW top \in Nat,
         NEW count, Steps(samples, count, last, top)
  PROVE  \E c : Steps(Tail(samples), c, last, top)
<1>. DEFINE n == Len(samples)
            rest == Tail(samples)
            c == [i \in 0 .. n - 1 |-> count[i + 1]]
<1>1. /\ n \in Nat \ {0} /\ Len(rest) = n - 1
      /\ \A i \in 1 .. n - 1 : rest[i] = samples[i + 1]
  BY HeadTailProperties, EmptySeq, LenProperties
<1>2. /\ \A i \in 0 .. n : count[i] \in 0 .. top
      /\ \A i \in 1 .. n : samples[i] = count[i] - count[i - 1]
      /\ count[n] = last
  BY <1>1 DEF Steps
<1>. HIDE DEF n, rest
<1>3. \A i \in 0 .. n - 1 : c[i] = count[i + 1] /\ i + 1 \in 0 .. n
  BY <1>1
<1>4. c \in [0 .. n - 1 -> 0 .. top]
  BY <1>2, <1>3
<1>. HIDE DEF c
<1>5. ASSUME NEW i \in 1 .. n - 1 PROVE rest[i] = c[i] - c[i - 1]
  <2>1. /\ i \in 0 .. n - 1 /\ i - 1 \in 0 .. n - 1 /\ i + 1 \in 1 .. n
        /\ (i + 1) - 1 = i /\ (i - 1) + 1 = i
    BY <1>1, <1>5
  <2>2. samples[i + 1] = count[i + 1] - count[i]
    BY <1>2, <2>1
  <2>3. c[i] = count[i + 1] /\ c[i - 1] = count[i]
    BY <1>3, <2>1
  <2>. QED
    BY <1>1, <1>5, <2>2, <2>3
<1>6. c[n - 1] = last
  <2>1. n - 1 \in 0 .. n - 1 /\ (n - 1) + 1 = n
    BY <1>1
  <2>. QED
    BY <1>2, <1>3, <2>1
<1>. QED
  BY <1>1, <1>4, <1>5, <1>6 DEF Steps, rest

LEMMA SamplesMean ==
  SamplesWithinSession <=>
    (tracker.have => \E c : Steps(tracker.samples, c, tracker.gap, Lost(tracker.session)))
BY DEF SamplesWithinSession, Steps

\* A snapshot extends the window of its session or starts it afresh.
LEMMA SamplesUpdated ==
  ASSUME TypeOK, KnownInv, SamplesWithinSession, peer.have
  PROVE  LET t == update_receiver_loss_deltas(tracker, peer_link_snapshot)
         IN  t.have /\ \E c : Steps(t.samples, c, t.gap, Lost(t.session))
<1>. DEFINE s == peer_link_snapshot
            tr == tracker
            lower == tr.have /\ (s.session # tr.session \/ s.gap < tr.gap)
            t == update_receiver_loss_deltas(tr, s)
            top == Lost(s.session)
<1>. SUFFICES t.have /\ \E c : Steps(t.samples, c, t.gap, Lost(t.session))
  OBVIOUS
<1>1. s.session = peer.report.session /\ s.gap = peer.report.gap
  BY DEF peer_link_snapshot
<1>2. top \in Nat /\ s.gap \in 0 .. top
  <2>1. peer.report \in net /\ net \subseteq Report
    BY DEF KnownInv, TypeOK
  <2>2. top \in Nat /\ peer.report.gap <= top
    BY <1>1, <2>1, LostIs, LostAre, BoundsOK
  <2>3. peer.report.gap \in Nat
    BY ChargeNumbers
  <2>. QED
    BY <1>1, <2>2, <2>3
<1>3. CASE ~tr.have \/ lower
  <2>1. t = [have |-> TRUE, session |-> s.session, gap |-> s.gap, samples |-> <<>>]
    BY <1>3 DEF update_receiver_loss_deltas, NewTracker
  <2>. DEFINE c == [i \in 0 .. 0 |-> s.gap]
  <2>2. c \in [0 .. 0 -> 0 .. top] /\ c[0] = s.gap
    BY <1>2
  <2>. HIDE DEF c, s, top, t
  <2>3. Steps(<<>>, c, s.gap, top)
    <3>1. Len(<<>>) = 0
      BY EmptySeq
    <3>. QED
      BY <2>2, <3>1 DEF Steps
  <2>. QED
    BY <2>1, <2>3 DEF top
<1>4. CASE tr.have /\ ~lower
  <2>1. s.session = tr.session /\ ~(s.gap < tr.gap)
    BY <1>4
  <2>. DEFINE all == Append(tr.samples, s.gap - tr.gap)
  <2>2. t = [have |-> TRUE, session |-> s.session, gap |-> s.gap,
             samples |-> IF Len(all) > Window THEN Tail(all) ELSE all]
    BY <1>4 DEF update_receiver_loss_deltas
  <2>3. PICK count : Steps(tr.samples, count, tr.gap, top)
    BY <1>4, <2>1, SamplesMean
  <2>4. tr.samples \in Seq(0 .. MaxGap) /\ tr.gap \in 0 .. MaxGap
    BY WindowSeq, BoundsOK DEF TypeOK, Tracker
  <2>5. tr.gap \in Nat /\ s.gap - tr.gap \in 0 .. MaxGap
    <3>1. s.gap \in 0 .. MaxGap
      BY <1>1 DEF TypeOK, Peer, Report
    <3>. QED
      BY <2>1, <2>4, <3>1, BoundsOK
  <2>6. top \in 0 .. top
    BY <1>2
  <2>. HIDE DEF s, top, tr, t
  <2>7. \E c : Steps(all, c, s.gap, top)
    BY <1>2, <2>3, <2>4, <2>5, <2>6, StepsAppend
  <2>8. all \in Seq(0 .. MaxGap) /\ all # <<>>
    BY <2>4, <2>5, AppendProperties
  <2>. HIDE DEF all
  <2>9. \E c : Steps(Tail(all), c, s.gap, top)
    BY <1>2, <2>7, <2>8, StepsTail
  <2>10. CASE Len(all) > Window
    BY <2>2, <2>9, <2>10 DEF top
  <2>11. CASE ~(Len(all) > Window)
    BY <2>2, <2>7, <2>11 DEF top
  <2>. QED
    BY <2>10, <2>11
<1>. QED
  BY <1>3, <1>4

LEMMA SamplesStep ==
  TypeOK /\ TypeOK' /\ KnownInv /\ SamplesWithinSession /\ [Next]_vars => SamplesWithinSession'
<1>. SUFFICES ASSUME TypeOK, TypeOK', KnownInv, SamplesWithinSession, [Next]_vars
              PROVE  SamplesWithinSession'
  OBVIOUS
<1>1. CASE UNCHANGED <<tracker, net>>
  BY <1>1 DEF SamplesWithinSession, Lost
<1>2. CASE SendReport \/ Reopen
  <2>1. net \subseteq net' /\ tracker' = tracker
    BY <1>2, Zenon DEF SendReport, Reopen
  <2>2. /\ LostIn(net, tracker.session) \in Nat /\ LostIn(net', tracker.session) \in Nat
        /\ LostIn(net, tracker.session) <= LostIn(net', tracker.session)
    <3>1. net \in SUBSET Report /\ net' \in SUBSET Report /\ net \in SUBSET net'
      BY <2>1 DEF TypeOK
    <3>. QED
      BY <3>1, LostIs, LostGrows, BoundsOK
  <2>3. 0 .. Lost(tracker.session) \subseteq 0 .. Lost(tracker.session)'
    <3>1. Lost(tracker.session) = LostIn(net, tracker.session)
      BY LostAre
    <3>2. Lost(tracker.session)' = LostIn(net', tracker.session)
      BY <2>1 DEF Lost, LostIn
    <3>. QED
      BY <2>2, <3>1, <3>2
  <2>. DEFINE old == Lost(tracker.session)
              new == Lost(tracker.session)'
  <2>4. new = Lost(tracker.session)' /\ old = Lost(tracker.session) /\ 0 .. old \subseteq 0 .. new
    BY <2>3
  <2>5. [0 .. Len(tracker.samples) -> 0 .. old] \subseteq [0 .. Len(tracker.samples) -> 0 .. new]
    <3>. HIDE DEF old, new
    <3>. QED
      BY <2>4
  <2>. QED
    BY <2>1, <2>4, <2>5 DEF SamplesWithinSession
<1>3. CASE Answer /\ peer.have
  <2>1. /\ tracker' = update_receiver_loss_deltas(tracker, peer_link_snapshot)
        /\ net' = net
    BY <1>3 DEF Answer, sync_sender_peer_link_metrics_live, link
  <2>2. tracker'.have /\ \E c : Steps(tracker'.samples, c, tracker'.gap, Lost(tracker'.session))
    BY <1>3, <2>1, SamplesUpdated
  <2>3. Lost(tracker'.session) = Lost(tracker.session)'
    BY <2>1 DEF Lost
  <2>. QED
    BY <2>2, <2>3 DEF SamplesWithinSession, Steps
<1>4. CASE Answer /\ ~peer.have
  BY <1>1, <1>4 DEF Answer, sync_sender_peer_link_metrics_live, link
<1>. QED
  BY <1>1, <1>2, <1>3, <1>4 DEF Next, Receive, TimeOut, Control, Interval, vars, link

\* The samples of the loss window are the steps of one session's count of losses,
\* each counted once, whatever comes late (update_receiver_loss_deltas).
THEOREM OneSessionSampled == Spec => []SamplesWithinSession
<1>1. Init => SamplesWithinSession
  BY DEF Init, NewTracker, SamplesWithinSession
<1>. QED
  BY <1>1, Known, SamplesStep, PTL DEF Spec
=============================================================================
