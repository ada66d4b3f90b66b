------------------------------ MODULE H264Encoder ------------------------------
(***************************************************************************)
(* h264_encoder_mpp as operators on its state: the input and output buffer *)
(* slots it shares with MPP, the capture time kept with each slot, and the *)
(* reopening that a change of the picture's size asks for.                 *)
(*                                                                         *)
(* A frame or an access unit is [src, n, size]: n is the pts its source    *)
(* gave it, <<src, n>> its capture time.  MPP is external: it takes frames *)
(* up to a limit and gives a packet for each, in order; opening it         *)
(* succeeds.  out_q holds more access units than there are slots, and the  *)
(* encode stage empties it in the call that fills it: what it gets is the  *)
(* result "aus".                                                           *)
(***************************************************************************)
EXTENDS Integers, Sequences, SequencesExt

CONSTANTS
  EncSlots,   \* enc_slot_count
  MppFrames   \* external: frames MPP has room for

ASSUME EncoderAssumption == {EncSlots, MppFrames} \subseteq Nat \ {0}

NoStamp == <<"none", 0>>

\* encoder_open_locked: every slot is free, and no frame has gone in.
encoder_open(size, fps, idr) ==
  [size |-> size, fps |-> fps, live |-> size, reopen_req |-> FALSE, idr |-> idr, first |-> TRUE,
   free |-> [i \in 1 .. EncSlots |-> i], pending |-> <<>>,
   stamp |-> [i \in 1 .. EncSlots |-> NoStamp],
   mpp |-> <<>>, packets |-> <<>>]

\* configure("size"), while open.
configure_size(e, size) ==
  IF size = e.size THEN e ELSE [e EXCEPT !.size = size, !.reopen_req = TRUE]

\* configure("fps"), while open.
configure_fps(e, fps) ==
  IF fps = e.fps THEN e ELSE [e EXCEPT !.fps = fps, !.reopen_req = TRUE]

\* configure of any other key, while open: those of the rate control change what
\* MPP does with the frames to come, and "idr" is kept for the next one.
configure_live(e, key) == IF key = "idr" THEN [e EXCEPT !.idr = TRUE] ELSE e

\* encoder_close_locked: what MPP and the slots hold is gone; an IDR that was
\* asked for is still to come.
encoder_close(e) ==
  [e EXCEPT !.live = 0, !.free = <<>>, !.pending = <<>>, !.mpp = <<>>, !.packets = <<>>]

\* Mutant of reopen_if_needed: enc_frames_in is not reset.
reopen_counting(e) ==
  IF e.reopen_req THEN [encoder_open(e.size, e.fps, e.idr) EXCEPT !.first = FALSE] ELSE e

\* What is open is closed, and opened with the size and frame rate configured.
reopen_if_needed(e) ==
  IF e.reopen_req THEN LET c == encoder_close(e) IN encoder_open(c.size, c.fps, c.idr) ELSE e

\* The access unit of packet p, with a capture time.
AccessUnit(p, stamp) ==
  [src |-> p.src, n |-> p.n, size |-> p.size, key |-> p.key, capture |-> stamp]

\* Mutant of ingest_enc_packet: the capture time of the slot put last.
ingest_newest(e, i) == AccessUnit(e.packets[i], e.stamp[Last(e.pending)])

\* ingest_enc_packet of the i-th packet, a whole access unit: its capture time is
\* that of the oldest pending slot, which the packets before it have moved up.
ingest_enc_packet(e, i) == AccessUnit(e.packets[i], e.stamp[e.pending[i]])

\* drain_packets_locked, drain_enc_packets_nonblock: every packet MPP has ready;
\* each frees the oldest pending slot.
drain_packets(e) ==
  LET ready == Len(e.packets)
  IN  [e   |-> [e EXCEPT !.packets = <<>>,
                         !.free    = @ \o SubSeq(e.pending, 1, ready),
                         !.pending = SubSeq(@, ready + 1, Len(@))],
       aus |-> [i \in 1 .. ready |-> ingest_enc_packet(e, i)]]

\* The frame is in MPP: it is an IDR if one was asked for, or the first.
Accepted(e, slot, f) ==
  [e EXCEPT !.pending = Append(@, slot), !.first = FALSE, !.idr = FALSE,
            !.mpp = Append(@, [src |-> f.src, n |-> f.n, size |-> e.live,
                               key |-> e.first \/ e.idr])]

\* Mutant of put_frame: a full MPP does not give the slot back.
put_leaking(e, f) ==
  LET slot == Head(e.free)
      in   == [e EXCEPT !.free = Tail(@), !.stamp[slot] = <<f.src, f.n>>]
  IN  IF Len(e.mpp) < MppFrames THEN [r |-> "ok", e |-> Accepted(in, slot, f)]
      ELSE [r |-> "EAGAIN", e |-> [in EXCEPT !.idr = FALSE]]

\* put_nv12_frame_unlocked with a free slot.  When MPP is full the slot goes
\* back, but the IDR that was asked for is forgotten.
put_frame(e, f) ==
  LET slot == Head(e.free)
      in   == [e EXCEPT !.free = Tail(@), !.stamp[slot] = <<f.src, f.n>>]
  IN  IF Len(e.mpp) < MppFrames THEN [r |-> "ok", e |-> Accepted(in, slot, f)]
      ELSE [r |-> "EAGAIN", e |-> [in EXCEPT !.free = Append(@, slot), !.idr = FALSE]]

\* put_nv12_frame_unlocked.
put_nv12_frame(e, f) ==
  LET drained == drain_packets(e)
      put     == put_frame(drained.e, f)
  IN  IF drained.e.free = <<>> THEN [r |-> "EAGAIN", e |-> drained.e, aus |-> drained.aus]
      ELSE [r |-> put.r, e |-> put.e, aus |-> drained.aus]

\* input: a frame that is not of the live size is refused, whatever came of it.
enc_input(encoder, f) ==
  LET e == reopen_if_needed(encoder)
  IN  IF f.size # e.live THEN [r |-> "EINVAL", e |-> e, aus |-> <<>>]
      ELSE put_nv12_frame(e, f)

\* MPP codes the oldest frame it holds.
mpp_encode(e) == [e EXCEPT !.mpp = Tail(@), !.packets = Append(@, Head(e.mpp))]
==============================================================================
