---------------------------- MODULE LinkTelemetry ----------------------------
(***************************************************************************)
(* The way back: the counters of a stream_receiver travel to the sender in *)
(* link reports, are copied into the app's metrics and steer the rate      *)
(* control of scripts/cbr_controller.py.                                   *)
(*                                                                         *)
(* The reports cross a UDP path that loses, duplicates and reorders them.  *)
(* A report carries four counters that only grow within a session; here    *)
(* they are one, the packets lost after FEC (fec_gap_count).  Sessions are *)
(* drawn at random by open(); here they are numbered in the order drawn.   *)
(* report_seq is as wide as the integers: at ten reports a second its sign *)
(* test goes wrong after seven years.                                      *)
(*                                                                         *)
(* The console thread copies the sender's counters into the metrics and    *)
(* answers the controller with them; nobody else writes them in            *)
(* uvc_stream_sender, so the copy and the answer are one step, made of one *)
(* snapshot.  (The bench app has a second thread that copies, which this   *)
(* leaves out.)  Time passes in report intervals.  The bit rate is left    *)
(* out: a step of the control raises it, cuts it or keeps it.              *)
(***************************************************************************)
EXTENDS Integers, FiniteSets, SequencesExt

CONSTANTS
  StaleAfter,   \* 3: intervals after which telemetry_stale() holds
  HoldLoops,    \* hold_s, in loops of the controller
  Window,       \* k_receiver_loss_avg_samples
  MaxWait,      \* bound: intervals an answer of the console may take
  MaxSessions,  \* bound: openings of the receiver
  MaxReports,   \* bound: reports of a session
  MaxGap,       \* bound: losses of a session
  MaxAccepted   \* bound: reports accepted, those of a session that comes back too

ASSUME TelemetryAssumption ==
  /\ {StaleAfter, HoldLoops, MaxWait, MaxGap, MaxAccepted} \subseteq Nat
  /\ {Window, MaxSessions, MaxReports} \subseteq Nat \ {0}

VARIABLES
  rcv,        \* the receiver: session_id, report_seq, fec_gap_count
  net,        \* the reports sent: each may come any number of times, or never
  peer,       \* stream_sender's peer_*, age in intervals
  tracker,    \* g_sender_peer_loss
  ctl,        \* the controller, and the answer it is given
  accepted,   \* history: the reports accepted, <<session, seq>>
  fresh,      \* history: intervals since a report was accepted the first time
  charged,    \* history: losses handed to the rate control, by session
  disordered  \* history: a report of an older session was accepted

link == <<rcv, net>>
sender == <<peer, accepted, fresh>>
control == <<ctl, charged>>
vars == <<link, sender, tracker, control, disordered>>

NoReport == [session |-> 0, seq |-> 0, gap |-> 0]
NoPeer   == [have |-> FALSE, report |-> NoReport, age |-> 0,
             received |-> 0, lost |-> 0]
NoSnap   == [session |-> 0, gap |-> 0, age |-> -1]
NewTracker == [have |-> FALSE, session |-> 0, gap |-> 0, samples |-> <<>>]

\* Ages beyond this one are all alike to the controller and the properties.
OldAge == StaleAfter + MaxWait + 1
Older(age) == IF age = OldAge THEN age ELSE age + 1

Init ==
  /\ rcv = [session |-> 1, seq |-> 0, gap |-> 0] /\ net = {}
  /\ peer = NoPeer /\ accepted = {} /\ fresh = OldAge
  /\ tracker = NewTracker
  /\ ctl = [pc |-> "idle", wait |-> 0, read |-> NoSnap, prev |-> -1,
            session |-> -1, hold |-> 0]
  /\ charged = [s \in 0 .. MaxSessions |-> 0]
  /\ disordered = FALSE

(* ------------------------------ the receiver ----------------------------- *)

\* recv_thread_main, when next_report has come, with the packets that
\* note_fec_output_gaps counted since the last report.
SendReport ==
  /\ rcv.seq < MaxReports
  /\ \E gap \in rcv.gap .. MaxGap :
       LET r == [rcv EXCEPT !.gap = gap]
       IN  net' = net \cup {r} /\ rcv' = [r EXCEPT !.seq = @ + 1]
  /\ UNCHANGED <<sender, tracker, control, disordered>>

\* close() and open(), or a new process.
Reopen ==
  /\ rcv.session < MaxSessions
  /\ rcv' = [session |-> rcv.session + 1, seq |-> 0, gap |-> 0]
  /\ UNCHANGED <<net, sender, tracker, control, disordered>>

(* ------------------------------- the sender ------------------------------ *)

\* Mutant of handle_link_report: any report of the session is accepted.
handle_any_report(p, r) ==
  LET diff == r.seq - p.report.seq
  IN  [have |-> TRUE, report |-> r, age |-> 0, received |-> p.received + 1,
       lost |-> IF p.have /\ r.session = p.report.session /\ diff > 1
                THEN p.lost + diff - 1 ELSE p.lost]

\* Mutant of handle_link_report: a duplicate counts as a sign of life.
handle_refreshing(p, r) ==
  LET same == p.have /\ r.session = p.report.session
      diff == r.seq - p.report.seq
  IN  IF same /\ diff <= 0
      THEN [p EXCEPT !.age = 0]
      ELSE [have |-> TRUE, report |-> r, age |-> 0, received |-> p.received + 1,
            lost |-> IF same /\ diff > 1 THEN p.lost + diff - 1 ELSE p.lost]

\* Mutant of handle_link_report: the step itself is counted as lost.
handle_counting_step(p, r) ==
  LET same == p.have /\ r.session = p.report.session
      diff == r.seq - p.report.seq
  IN  IF same /\ diff <= 0
      THEN p
      ELSE [have |-> TRUE, report |-> r, age |-> 0, received |-> p.received + 1,
            lost |-> IF same /\ diff > 1 THEN p.lost + diff ELSE p.lost]

\* Mutant of handle_link_report: the session is not looked at.
handle_any_session(p, r) ==
  LET diff == r.seq - p.report.seq
  IN  IF p.have /\ diff <= 0
      THEN p
      ELSE [have |-> TRUE, report |-> r, age |-> 0, received |-> p.received + 1,
            lost |-> IF p.have /\ diff > 1 THEN p.lost + diff - 1 ELSE p.lost]

\* What the sender knows of its peer after report r.
handle_link_report(p, r) ==
  LET same == p.have /\ r.session = p.report.session
      diff == r.seq - p.report.seq
  IN  IF same /\ diff <= 0
      THEN p
      ELSE [have |-> TRUE, report |-> r, age |-> 0, received |-> p.received + 1,
            lost |-> IF same /\ diff > 1 THEN p.lost + diff - 1 ELSE p.lost]

\* telemetry_thread_main takes a report.
Receive(r) ==
  /\ peer.received < MaxAccepted
  /\ peer' = handle_link_report(peer, r)
  /\ IF peer'.received = peer.received
     THEN UNCHANGED <<accepted, fresh, disordered>>
     ELSE /\ accepted' = accepted \cup {<<r.session, r.seq>>}
          /\ fresh' = IF <<r.session, r.seq>> \in accepted THEN fresh ELSE 0
          /\ disordered' = (disordered \/ r.session < peer.report.session)
  /\ UNCHANGED <<link, tracker, control>>

(* ------------------- the copy into the metrics ------------------- *)

peer_link_snapshot ==
  IF peer.have
  THEN [session |-> peer.report.session, gap |-> peer.report.gap, age |-> peer.age]
  ELSE NoSnap

\* Mutant of update_receiver_loss_deltas: the samples outlive a new session.
update_keeping_samples(tr, s) ==
  LET fresh_start == tr.have /\ (s.session # tr.session \/ s.gap < tr.gap)
      all         == Append(tr.samples, s.gap - tr.gap)
  IN  [have |-> TRUE, session |-> s.session, gap |-> s.gap,
       samples |-> IF ~tr.have \/ fresh_start THEN tr.samples
                   ELSE IF Len(all) > Window THEN Tail(all) ELSE all]

\* Mutant of update_receiver_loss_deltas: the full window is pushed to, not shifted.
update_beyond_window(tr, s) ==
  LET base == IF tr.have /\ (s.session # tr.session \/ s.gap < tr.gap)
              THEN NewTracker ELSE tr
      all  == Append(base.samples, s.gap - base.gap)
  IN  [have |-> TRUE, session |-> s.session, gap |-> s.gap,
       samples |-> IF ~base.have THEN <<>>
                   ELSE IF Len(base.samples) > Window THEN Tail(all) ELSE all]

\* The loss window after snapshot s: afresh for a new session or a lower count.
\* (A sample of fewer than eight packets is skipped in the code, kept here.)
update_receiver_loss_deltas(tr, s) ==
  LET base == IF tr.have /\ (s.session # tr.session \/ s.gap < tr.gap)
              THEN NewTracker ELSE tr
      all  == Append(base.samples, s.gap - base.gap)
  IN  [have |-> TRUE, session |-> s.session, gap |-> s.gap,
       samples |-> IF ~base.have THEN <<>>
                   ELSE IF Len(all) > Window THEN Tail(all) ELSE all]

(* ------------------------- the rate controller ------------------------- *)

sync_sender_peer_link_metrics_live(tr) ==
  IF peer.have THEN update_receiver_loss_deltas(tr, peer_link_snapshot) ELSE tr

\* The console thread takes the controller's command, copies the snapshot and
\* answers.
Answer ==
  /\ ctl.pc = "idle"
  /\ ctl' = [ctl EXCEPT !.pc = "answered", !.read = peer_link_snapshot]
  /\ tracker' = sync_sender_peer_link_metrics_live(tracker)
  /\ UNCHANGED <<link, sender, charged, disordered>>

\* The answer is lost or comes after the timeout: the loop starts again.
TimeOut ==
  /\ ctl.pc = "answered"
  /\ ctl' = [ctl EXCEPT !.pc = "idle", !.wait = 0, !.read = NoSnap]
  /\ UNCHANGED <<link, sender, tracker, charged, disordered>>

telemetry_stale(age) == age < 0 \/ age > StaleAfter

\* GapLoss: the losses since the last answer, none across a new session.
Delta ==
  LET changed == ctl.session # -1 /\ ctl.read.session # ctl.session
  IN  IF changed \/ ctl.prev = -1 \/ ctl.read.gap < ctl.prev THEN 0
      ELSE ctl.read.gap - ctl.prev

\* LossRateControl.step, without the amounts.
step ==
  IF ctl.hold > 0 THEN "keep"
  ELSE IF Delta >= 1 THEN "cut"
  ELSE IF telemetry_stale(ctl.read.age) THEN "keep" ELSE "raise"

\* One loop of the controller, with the answer it got.
Control ==
  /\ ctl.pc = "answered"
  /\ charged' = [charged EXCEPT ![ctl.read.session] = @ + Delta]
  /\ ctl' = [pc |-> "idle", wait |-> 0, read |-> NoSnap, prev |-> ctl.read.gap,
             session |-> ctl.read.session,
             hold |-> IF step = "cut" THEN HoldLoops
                      ELSE IF ctl.hold > 0 THEN ctl.hold - 1 ELSE 0]
  /\ UNCHANGED <<link, sender, tracker, disordered>>

\* A report interval passes.
Interval ==
  /\ ctl.pc = "idle" \/ ctl.wait < MaxWait
  /\ peer' = IF peer.have THEN [peer EXCEPT !.age = Older(@)] ELSE peer
  /\ fresh' = Older(fresh)
  /\ ctl' = IF ctl.pc = "idle" THEN ctl ELSE [ctl EXCEPT !.wait = @ + 1]
  /\ UNCHANGED <<link, accepted, tracker, charged, disordered>>

Next ==
  \/ SendReport \/ Reopen
  \/ \E r \in net : Receive(r)
  \/ Answer \/ TimeOut \/ Control
  \/ Interval

Spec == Init /\ [][Next]_vars

(* ------------------------------ properties ------------------------------ *)

Report   == [session : 0 .. MaxSessions, seq : 0 .. MaxReports, gap : 0 .. MaxGap]
Snapshot == [session : 0 .. MaxSessions, gap : 0 .. MaxGap, age : -1 .. OldAge]
Peer     == [have : BOOLEAN, report : Report, age : 0 .. OldAge, received : Nat, lost : Nat]
Tracker  == [have : BOOLEAN, session : 0 .. MaxSessions, gap : 0 .. MaxGap,
             samples : BoundedSeq(0 .. MaxGap, Window)]
Loop     == [pc : {"idle", "answered"}, wait : 0 .. MaxWait, read : Snapshot,
             prev : -1 .. MaxGap, session : -1 .. MaxSessions, hold : 0 .. HoldLoops]

TypeOK ==
  /\ rcv \in Report /\ net \subseteq Report
  /\ peer \in Peer
  /\ tracker \in Tracker
  /\ ctl \in Loop
  /\ accepted \subseteq (1 .. MaxSessions) \X (0 .. MaxReports)
  /\ charged \in [0 .. MaxSessions -> Nat]
  /\ fresh \in 0 .. OldAge /\ disordered \in BOOLEAN

\* Report q of session s was passed over: accepted are one before and one after
\* it, and not itself.
Hole(s, q) ==
  /\ <<s, q>> \notin accepted
  /\ \E a \in accepted : a[1] = s /\ a[2] < q
  /\ \E b \in accepted : b[1] = s /\ b[2] > q

Holes == {h \in (1 .. MaxSessions) \X (0 .. MaxReports) : Hole(h[1], h[2])}

\* peer_reports_received counts every report accepted once, peer_reports_lost
\* every hole between two accepted reports of a session, however the reports
\* are lost, duplicated and delayed, until a report of an older session comes
\* late (handle_link_report).
ReportsAccounted ==
  \/ disordered
  \/ peer.received = Cardinality(accepted) /\ peer.lost = Cardinality(Holes)

\* The losses of session s that a report has told of.
Lost(s) == Max({0} \cup {r.gap : r \in {q \in net : q.session = s}})

\* The controller charges a lost packet to the bit rate at most once: what it
\* hands to LossRateControl.step for a session never exceeds what the receiver
\* counted in it, whatever reports and answers are lost, reordered or repeated
\* and however often the receiver starts again, as long as no report of an older
\* session comes late (handle_link_report, CounterDelta, GapLoss.reset).
ChargedOnce ==
  disordered \/ \A s \in 0 .. MaxSessions : charged[s] <= Lost(s)

\* The samples of the loss window are the steps of one session's count of losses
\* up to the last one read, each counted once, even when reports of an older
\* session come late (update_receiver_loss_deltas).
SamplesWithinSession ==
  tracker.have =>
    \E count \in [0 .. Len(tracker.samples) -> 0 .. Lost(tracker.session)] :
      /\ \A i \in 1 .. Len(tracker.samples) :
           tracker.samples[i] = count[i] - count[i - 1]
      /\ count[Len(tracker.samples)] = tracker.gap

\* The report taken last had been accepted before: one of another session was in
\* between, and the report comes again.
TakenAgain == disordered /\ peer.age < fresh

\* The bit rate is raised only while reports arrive: when the console answered, at
\* most StaleAfter intervals had gone by since a report was accepted for the first
\* time.  Several raises may rest on one report.  The exception: once a report of
\* an older session has come late, a report can be accepted again, and as long as
\* it is the last one taken its age counts (telemetry_stale, peer_report_at,
\* handle_link_report).
RaisedOnFreshReport ==
  [][ Control /\ step = "raise" => fresh <= StaleAfter + ctl.wait \/ TakenAgain ]_vars

Newest(r) == \A a \in accepted : \/ a[1] < r.session
                                 \/ a[1] = r.session /\ a[2] < r.seq

\* A report sent after all those accepted so far is accepted when it comes, of
\* whichever session it is: a receiver that starts again is heard at once
\* (handle_link_report).
NewestHeard ==
  \A r \in net : Newest(r) => handle_link_report(peer, r).report = r
=============================================================================
