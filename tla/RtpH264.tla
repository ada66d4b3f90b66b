------------------------------- MODULE RtpH264 -------------------------------
(***************************************************************************)
(* RFC 6184 as rtp_h264.cpp does it: the packer cuts the NAL units of an   *)
(* access unit into datagrams, the depacketizer puts them together again.  *)
(*                                                                         *)
(* A NAL unit is a record of the access unit it is sent in, its type and   *)
(* the number of datagrams it takes; a payload is one of those parts.      *)
(* STAP-A packets are left out (the packer never makes one), and so are    *)
(* the parser's complaints, which no datagram of the packer provokes.      *)
(***************************************************************************)
EXTENDS Integers, SequencesExt

CONSTANTS
  SeqRange,   \* 2^16: the RTP sequence numbers
  Clock,      \* 90000: ticks of the RTP clock in a second
  Fps         \* frames a second, at both ends

\* A rate need not divide the clock: au_pts is then one less than the pts for most
\* frames, and two frames may get the same.
ASSUME RtpAssumption ==
  /\ SeqRange \in Nat \ {0, 1} /\ SeqRange % 2 = 0
  /\ {Clock, Fps} \subseteq Nat \ {0}

Nal(unit, type, parts) == [unit |-> unit, type |-> type, parts |-> parts]

Has(nals, type) == \E i \in DOMAIN nals : nals[i].type = type

\* static_cast<int16_t>(a - b)
Diff(a, b) ==
  LET d == (a - b) % SeqRange
  IN  IF d < SeqRange \div 2 THEN d ELSE d - SeqRange

pts_to_rtp_ts(pts) == (pts * Clock) \div Fps
au_pts(ts)         == (ts * Fps) \div Clock

(* ------------------------------- the packer ------------------------------ *)

rtp_h264_packer(seq) == [seq |-> seq, sps |-> <<>>, pps |-> <<>>]

\* The parameter sets of the unit replace those kept.
cache_param(p, nals) ==
  LET Latest(kept, type) ==
        IF Has(nals, type)
        THEN <<nals[CHOOSE i \in DOMAIN nals : /\ nals[i].type = type
                                              /\ \A j \in DOMAIN nals :
                                                   nals[j].type = type => j <= i]>>
        ELSE kept
  IN  [p EXCEPT !.sps = Latest(@, "sps"), !.pps = Latest(@, "pps")]

\* One datagram, or the fragments of FU-A.
send_nal(nal) == [at \in 1 .. nal.parts |-> [nal |-> nal, at |-> at]]

Slice == {"idr", "slice"}

\* A parameter set seen before, if the unit brings none of its own.
cached(kept, type, nals) ==
  IF Has(nals, type) \/ kept = <<>> THEN <<>>
  ELSE send_nal(Nal(nals[1].unit, type, kept[1].parts))

\* What is sent at the i-th NAL unit.  The access-unit delimiter is not, and an
\* IDR unit gets the cached parameter sets before its first slice.
emitted(p, nals, i) ==
  LET first == nals[i].type \in Slice /\ \A j \in 1 .. i - 1 : nals[j].type \notin Slice
  IN  IF nals[i].type = "aud" THEN <<>>
      ELSE IF Has(nals, "idr") /\ first
      THEN cached(p.sps, "sps", nals) \o cached(p.pps, "pps", nals) \o send_nal(nals[i])
      ELSE send_nal(nals[i])

\* After each NAL unit, what was sent up to it.
Payloads(p, nals) ==
  LET sent[i \in 0 .. Len(nals)] ==
        IF i = 0 THEN <<>> ELSE sent[i - 1] \o emitted(p, nals, i)
  IN  sent

pack_annexb(packer, nals, pts, capture) ==
  LET p        == cache_param(packer, nals)
      payloads == Payloads(p, nals)[Len(nals)]
      n        == Len(payloads)
  IN  [packer    |-> [p EXCEPT !.seq = (@ + n) % SeqRange],
       datagrams |-> [i \in 1 .. n |->
                        [seq |-> (p.seq + i - 1) % SeqRange,
                         ts |-> pts_to_rtp_ts(pts), capture |-> capture,
                         marker |-> (i = n), payload |-> payloads[i],
                         nth |-> i]]]   \* history: its place in the access unit

(* --------------------------- the depacketizer ---------------------------- *)

NoAu == [nals |-> <<>>, ts |-> -1, capture |-> 0, damaged |-> FALSE]

rtp_h264_depacketizer ==
  [have_seq |-> FALSE, last_seq |-> 0, fu_active |-> FALSE, fu_buf |-> <<>>,
   building |-> NoAu, completed |-> <<>>]

abort_fu(d) ==
  [d EXCEPT !.fu_active = FALSE, !.fu_buf = <<>>, !.building.damaged = TRUE]

\* Mutant of note_sequence: a gap does not abandon the NAL unit in progress.
note_sequence_only(d, seq) == [d EXCEPT !.have_seq = TRUE, !.last_seq = seq]

note_sequence(d, seq) ==
  LET gap == d.have_seq /\ Diff(seq, d.last_seq) > 1
      e   == IF gap /\ d.fu_active THEN abort_fu(d) ELSE d
  IN  [e EXCEPT !.have_seq = TRUE, !.last_seq = seq]

append_annexb_nal(d, pieces) ==
  [d EXCEPT !.building.nals = Append(@, pieces), !.fu_active = FALSE, !.fu_buf = <<>>]

\* A fragment is the first, one to append, or one whose beginning was missed.
process_payload(d, p) ==
  LET first == p.at = 1
      buf   == IF first THEN <<p>> ELSE Append(d.fu_buf, p)
  IN  IF p.nal.parts = 1
      THEN [d EXCEPT !.building.nals = Append(@, <<p>>)]
      ELSE IF ~first /\ ~d.fu_active THEN abort_fu(d)
      ELSE IF p.at = p.nal.parts THEN append_annexb_nal(d, buf)
      ELSE [d EXCEPT !.fu_active = TRUE, !.fu_buf = buf]

finish_building_au(d) ==
  [d EXCEPT !.completed = IF d.building.nals = <<>> THEN @ ELSE Append(@, d.building),
            !.building = NoAu]

\* What the header, the extension with the capture time and the payload say.
\* (nth is not on the wire.)
parse_rtp(datagram) ==
  [seq |-> datagram.seq, ts |-> datagram.ts, marker |-> datagram.marker,
   capture |-> datagram.capture, payload |-> datagram.payload]

\* Mutant of accept: a new timestamp does not end the access unit.
accept_across_units(d, g) ==
  LET e == note_sequence(d, g.seq)
      f == [e EXCEPT !.building.ts = g.ts, !.building.capture = g.capture]
      r == process_payload(f, g.payload)
  IN  IF g.marker THEN finish_building_au(r) ELSE r

\* The part of feed() that takes a datagram which is newer than the last.
accept(d, g) ==
  LET e == IF d.building.ts \notin {-1, g.ts} THEN finish_building_au(d) ELSE d
      f == note_sequence(e, g.seq)
      b == [f EXCEPT !.building.ts = g.ts,
                     !.building.capture = IF g.capture > 0 THEN g.capture ELSE @]
      r == process_payload(b, g.payload)
  IN  IF g.marker THEN finish_building_au(r) ELSE r

feed(d, datagram) ==
  LET g == parse_rtp(datagram)
  IN  IF d.have_seq /\ Diff(g.seq, d.last_seq) <= 0 THEN d ELSE accept(d, g)
==============================================================================
