------------------------------ MODULE RxPipeline ------------------------------
(***************************************************************************)
(* From the payloader of the sender to the screen of sdl_stream_receiver:  *)
(* rtp_h264_pay, the packet link, the receiver's queue, and the three      *)
(* stage threads rx_net, decode and present with the queues between them.  *)
(*                                                                         *)
(* The link and the FEC under it are FecLink's: packets arrive in order    *)
(* and at most once, or not at all.  MPP is external: it takes packets up  *)
(* to a limit, and gives their frames in order, some of them unusable.     *)
(* What one thread does to state no other thread sees is one step; each    *)
(* push to a shared queue is a step.                                       *)
(*                                                                         *)
(* Access units are numbered in coding order; the capture time of a unit   *)
(* is its number, and the capture times are taken to be plausible.  The    *)
(* display can be opened, and skip_decode is not set from the console.     *)
(***************************************************************************)
EXTENDS RtpH264, FiniteSets

CONSTANTS
  Seqs,          \* bound: the sequence numbers that are drawn
  MaxUnits,      \* bound: access units coded
  MaxPackers,    \* bound: packers built, the first one included
  MaxLost,       \* bound: access units that lose datagrams on the link
  PendingCap,    \* k_pending_cap of rtp_h264_pay
  QueueDepth,    \* k_queue_depth of stream_receiver
  DepayDepth,    \* k_au_queue_depth of rtp_h264_depay
  AuDepth,       \* VSTREAMER_RX_AU_QUEUE_DEPTH
  PresentDepth,  \* VSTREAMER_PRESENT_QUEUE_DEPTH
  MaxReady,      \* k_max_ready_frames
  RingSize,      \* k_pts_ring
  PullPasses,    \* 64: frames pulled at once
  MppIn, MppOut  \* packets and frames MPP has room for

ASSUME PipelineAssumption ==
  /\ Seqs \subseteq 0 .. SeqRange - 1 /\ MaxLost \in Nat
  /\ {MaxUnits, MaxPackers, PendingCap, QueueDepth, DepayDepth, AuDepth,
      PresentDepth, MaxReady, RingSize, PullPasses, MppIn, MppOut} \subseteq Nat \ {0}

VARIABLES
  coder,          \* the units coded, and the pts of the next
  packer,         \* of rtp_h264_pay
  pending,        \* the payloader's datagrams, and those on the link
  payload_queue,  \* stream_receiver's
  depay,          \* rtp_h264_depay: the depacketizer and au_queue
  au_q, present_q,
  dec,            \* h264_decoder_mpp, and what MPP holds
  net, decode, display, \* the stage threads
  g_run, main,    \* pipeline_controller: the flag, and its main thread
                  \*   ("running", "closing", "closed")
  window,         \* sdl_sink's opened
  shown,          \* history: the frame on the screen
  broken,         \* history: units that lost a datagram
  missed,         \* history: units that arrived whole and did not come out
  packers         \* history: packers built

sender  == <<coder, packer, pending, packers>>
history == <<broken, missed>>
screen  == <<window, shown>>
stages  == <<net, decode, display>>
vars == <<sender, payload_queue, depay, au_q, present_q, dec, stages, g_run, main,
          screen, history>>

\* Mutant of push_drop: the limit is off by one.
push_over(q, cap, x) == Append(IF Len(q) > cap THEN Tail(q) ELSE q, x)

\* A queue that drops its oldest entry when full.
push_drop(q, cap, x) == Append(IF Len(q) >= cap THEN Tail(q) ELSE q, x)

NoFrame == [unit |-> 0, pts |-> -1, capture |-> 0]

NewDecoder ==
  [in |-> <<>>, out |-> <<>>, ready |-> <<>>, head |-> 0,
   ring |-> [i \in 0 .. RingSize - 1 |-> [pts |-> 0, capture |-> 0]]]

Init ==
  /\ coder = [unit |-> 0, pts |-> 0]
  /\ packer \in {rtp_h264_packer(seq) : seq \in Seqs}
  /\ pending = <<>> /\ payload_queue = <<>>
  /\ depay = [rtp |-> rtp_h264_depacketizer, au_queue |-> <<>>]
  /\ au_q = <<>> /\ present_q = <<>>
  /\ dec = NewDecoder
  /\ net = "receive"
  /\ decode = [pc |-> "take", holding |-> <<>>, pulled |-> <<>>]
  /\ display = "loop"
  /\ g_run = TRUE /\ main = "running"
  /\ window = TRUE /\ shown = NoFrame
  /\ broken = {} /\ missed = {} /\ packers = 1

(* ------------------------------- the sender ------------------------------ *)

\* The NAL units of an access unit.  An encoder starts with its parameter set
\* and an IDR picture, and goes on with pictures of either sort.
Coded(unit, pts) ==
  IF pts = 0 THEN {<<Nal(unit, "aud", 1), Nal(unit, "sps", 1), Nal(unit, "idr", 2)>>}
  ELSE {<<Nal(unit, "aud", 1), Nal(unit, "idr", 2)>>,
        <<Nal(unit, "aud", 1), Nal(unit, "slice", 1)>>}

Units(s) == {s[i].payload.nal.unit : i \in DOMAIN s}

\* rtp_h264_pay::input, which drops the oldest datagrams of a full queue.
PayInput ==
  /\ g_run /\ coder.unit < MaxUnits
  /\ LET unit == coder.unit + 1 IN
     \E nals \in Coded(unit, coder.pts) :
       LET packed == pack_annexb(packer, nals, coder.pts, unit)
           all    == pending \o packed.datagrams
           over   == Len(all) - PendingCap
       IN  /\ packer' = packed.packer
           /\ pending' = IF over > 0 THEN SubSeq(all, over + 1, Len(all)) ELSE all
           /\ broken' = IF over > 0 THEN broken \cup Units(SubSeq(all, 1, over))
                                    ELSE broken
           /\ coder' = [unit |-> unit, pts |-> coder.pts + 1]
  /\ UNCHANGED <<payload_queue, depay, au_q, present_q, dec, stages, g_run, main, screen,
                 missed, packers>>

NewPacker(seq) ==
  /\ packers < MaxPackers /\ packers' = packers + 1
  /\ packer' = rtp_h264_packer(seq)
  /\ UNCHANGED <<payload_queue, depay, au_q, present_q, dec, stages, g_run, main, screen,
                 missed>>

\* configure("mtu"): a new packer, with a sequence number drawn at random and
\* no parameter sets; the datagrams of the old one are still to go.
Configure ==
  /\ \E seq \in Seqs : NewPacker(seq)
  /\ UNCHANGED <<coder, pending, broken>>

\* The sender is started again.
Restart ==
  /\ \E seq \in Seqs : NewPacker(seq)
  /\ coder' = [coder EXCEPT !.pts = 0] /\ pending' = <<>>
  /\ broken' = broken \cup Units(pending)

(* --------------------- the link and stream_receiver ---------------------- *)

enqueue_payload_buffer(q, g) == push_drop(q, QueueDepth, g)

\* rtp_h264_pay::output gives the link a packet, and the receive thread of an
\* open receiver stores it.
Deliver ==
  /\ main = "running"
  /\ pending # <<>> /\ pending' = Tail(pending)
  /\ payload_queue' = enqueue_payload_buffer(payload_queue, Head(pending))
  /\ broken' = IF Len(payload_queue) >= QueueDepth
               THEN broken \cup {Head(payload_queue).payload.nal.unit} ELSE broken
  /\ UNCHANGED <<coder, packer, packers, depay, au_q, present_q, dec, stages,
                 g_run, main, screen, missed>>

Lose ==
  /\ pending # <<>> /\ pending' = Tail(pending)
  /\ broken' = broken \cup {Head(pending).payload.nal.unit}
  /\ Cardinality(broken') <= MaxLost
  /\ UNCHANGED <<coder, packer, packers, payload_queue, depay, au_q,
                 present_q, dec, stages, g_run, main, screen, missed>>

(* ---------------------------- rx_net_thread_main -------------------------- *)

au_item(au) == [nals |-> au.nals, pts |-> au_pts(au.ts), capture |-> au.capture]

\* push_au for each of them: the last DepayDepth units stay.
push_au(q, aus) ==
  LET all  == q \o [i \in DOMAIN aus |-> au_item(aus[i])]
      over == Len(all) - DepayDepth
  IN  IF over > 0 THEN SubSeq(all, over + 1, Len(all)) ELSE all

Pieces(au) == FlattenSeq(au.nals)

\* Does the unit whose last datagram is g come out, every datagram of it?
ComesOut(g, aus) ==
  \E i \in DOMAIN aus :
    /\ Len(Pieces(aus[i])) = g.nth
    /\ \A k \in 1 .. g.nth : Pieces(aus[i])[k].nal.unit = g.payload.nal.unit

MayReceive  == net = "receive" /\ g_run /\ payload_queue # <<>>
MayForward  == net = "forward"
MayLeaveNet == net = "receive" /\ ~g_run

\* stream_receiver::output and rtp_h264_depay::input.
NetReceive ==
  /\ MayReceive
  /\ LET g    == Head(payload_queue)
         fed  == feed(depay.rtp, g)
         unit == g.payload.nal.unit
     IN  /\ depay' = [rtp |-> [fed EXCEPT !.completed = <<>>],
                      au_queue |-> push_au(depay.au_queue, fed.completed)]
         /\ missed' = IF g.marker /\ unit \notin broken /\ ~ComesOut(g, fed.completed)
                      THEN missed \cup {unit} ELSE missed
  /\ payload_queue' = Tail(payload_queue) /\ net' = "forward"
  /\ UNCHANGED <<sender, au_q, present_q, dec, decode, display, g_run, main, screen,
                 broken>>

\* What completed an access unit tells which one it is.
Frame(au) == [unit |-> Last(Last(au.nals)).nal.unit, pts |-> au.pts, capture |-> au.capture]

\* rx_au_queue::push, which refuses the unit once run is false.
push_rx_au(q, f) == IF g_run THEN push_drop(q, AuDepth, f) ELSE q

\* rtp_h264_depay::output, and the push to the decoder's queue.
NetForward ==
  /\ MayForward
  /\ IF g_run /\ depay.au_queue # <<>>
     THEN /\ au_q' = push_rx_au(au_q, Frame(Head(depay.au_queue)))
          /\ depay' = [depay EXCEPT !.au_queue = Tail(@)]
          /\ UNCHANGED net
     ELSE net' = "receive" /\ UNCHANGED <<au_q, depay>>
  /\ UNCHANGED <<sender, payload_queue, present_q, dec, decode, display, g_run, main,
                 screen, history>>

NetLeave ==
  /\ MayLeaveNet /\ net' = "done"
  /\ UNCHANGED <<sender, payload_queue, depay, au_q, present_q, dec, decode, display,
                 g_run, main, screen, history>>

(* ----------------------------- h264_decoder_mpp --------------------------- *)

\* d is the decoder; its ring is searched from the lowest index.
remember_capture_pts(d, f) ==
  [d EXCEPT !.ring[d.head] = [pts |-> f.pts, capture |-> f.capture],
            !.head = (@ + 1) % RingSize]

\* Mutant of lookup_capture_pts: the entry remembered last.
lookup_latest(d, pts) == d.ring[(d.head - 1) % RingSize].capture

lookup_capture_pts(d, pts) ==
  LET found == {i \in DOMAIN d.ring : d.ring[i].pts = pts /\ d.ring[i].capture > 0}
  IN  IF found = {} THEN 0 ELSE d.ring[CHOOSE i \in found : \A j \in found : i <= j].capture

\* A frame of MPP with the capture time found for its pts.
pack_mpp_to_ready(d, f) ==
  [unit |-> f.unit, pts |-> f.pts, capture |-> lookup_capture_pts(d, f.pts)]

\* The frames fetched by one drain: as many as the list has room for, up to the
\* first with errors, which is fetched too.
fetch_one_mpp_frame(d) ==
  LET full(n)  == Len(d.ready) + n >= MaxReady
      ended(n) == n = Len(d.out) \/ full(n) \/ (n > 0 /\ ~d.out[n].good)
  IN  CHOOSE n \in 0 .. Len(d.out) : ended(n) /\ \A l \in 0 .. n - 1 : ~ended(l)

\* A frame with errors is not packed.
drain_mpp_to_ready(d) ==
  LET n      == fetch_one_mpp_frame(d)
      packed == IF n > 0 /\ ~d.out[n].good THEN n - 1 ELSE n
  IN  [d EXCEPT !.out = SubSeq(@, n + 1, Len(@)),
                !.ready = @ \o [i \in 1 .. packed |-> pack_mpp_to_ready(d, d.out[i])]]

\* h264_decoder_mpp::input: what it returns, and the decoder after it.  EIO stands
\* for every refusal that is not EAGAIN: that of an access unit above k_max_au,
\* before anything is noted, and that of MPP.
dec_input(d, au) ==
  LET noted   == remember_capture_pts(d, au)
      drained == drain_mpp_to_ready(noted)
      put     == [drained EXCEPT !.in = Append(@, [unit |-> au.unit, pts |-> au.pts])]
  IN  {[r |-> "EIO", d |-> d]} \cup
      (IF Len(d.ready) >= MaxReady THEN {[r |-> "EAGAIN", d |-> d]}
       ELSE IF Len(drained.ready) >= MaxReady \/ Len(d.in) >= MppIn
            THEN {[r |-> "EAGAIN", d |-> drained]}
       ELSE {[r |-> "ok", d |-> put], [r |-> "EIO", d |-> drained]})

\* h264_decoder_mpp::output, for the frames pulled so far.
dec_output(s) ==
  LET d == IF s.d.ready = <<>> THEN drain_mpp_to_ready(s.d) ELSE s.d
  IN  IF d.ready = <<>> THEN [s EXCEPT !.d = d, !.ended = TRUE]
      ELSE [s EXCEPT !.d = [d EXCEPT !.ready = Tail(@)],
                     !.frames = Append(@, Head(d.ready))]

\* The decoder and what was pulled from it after each pass.
Passes(d) ==
  LET pass[n \in 0 .. PullPasses] ==
        IF n = 0 THEN [d |-> d, frames |-> <<>>, ended |-> FALSE]
        ELSE IF pass[n - 1].ended THEN pass[n - 1] ELSE dec_output(pass[n - 1])
  IN  pass

pull_decoder_frames(d) == Passes(d)[PullPasses]

\* MPP decodes a packet: a picture, or one with errinfo.
MppDecode ==
  /\ dec.in # <<>> /\ Len(dec.out) < MppOut
  /\ \E good \in BOOLEAN :
       dec' = [dec EXCEPT !.in = Tail(@),
                          !.out = Append(@, [unit |-> Head(dec.in).unit,
                                             pts |-> Head(dec.in).pts, good |-> good])]
  /\ UNCHANGED <<sender, payload_queue, depay, au_q, present_q, stages, g_run, main,
                 screen, history>>

(* ---------------------------- decode_thread_main -------------------------- *)

\* The drain of an idle loop counts when there is something to drain.
MayTake == decode.pc = "take" /\ g_run /\ au_q # <<>>
MayFeed == decode.pc = "feed" /\ g_run
MayPull ==
  \/ decode.pc = "pull"
  \/ /\ decode.pc = "take" /\ g_run /\ au_q = <<>>
     /\ dec.ready # <<>> \/ dec.out # <<>>
MayPush == decode.pc = "push"

\* Mutant of MayLeave: the attempts to feed the decoder do not look at run.
LeaveBetweenUnits == decode.pc = "take" /\ ~g_run
MayLeave == decode.pc \in {"take", "feed"} /\ ~g_run

\* An access unit from the queue.
DecodeTake ==
  /\ MayTake
  /\ decode' = [decode EXCEPT !.pc = "feed", !.holding = <<Head(au_q)>>]
  /\ au_q' = Tail(au_q)
  /\ UNCHANGED <<sender, payload_queue, depay, present_q, dec, net, display, g_run,
                 main, screen, history>>

\* Mutant of DecodeFeed: an accepted unit is kept.
FeedKeeping ==
  /\ MayFeed
  /\ \E in \in dec_input(dec, decode.holding[1]) :
       /\ dec' = in.d
       /\ decode' = [decode EXCEPT !.pc = IF in.r = "EIO" THEN "take" ELSE "pull",
                                   !.holding = IF in.r = "EIO" THEN <<>> ELSE @]
  /\ UNCHANGED <<sender, payload_queue, depay, au_q, present_q, net, display, g_run,
                 main, screen, history>>

\* feed_decoder_au: one attempt.  On EAGAIN the access unit is kept; whether
\* the 48 attempts are up makes no difference, the loop comes back with it.
DecodeFeed ==
  /\ MayFeed
  /\ \E in \in dec_input(dec, decode.holding[1]) :
       /\ dec' = in.d
       /\ decode' = [decode EXCEPT !.pc = IF in.r = "EIO" THEN "take" ELSE "pull",
                                   !.holding = IF in.r = "EAGAIN" THEN @ ELSE <<>>]
  /\ UNCHANGED <<sender, payload_queue, depay, au_q, present_q, net, display, g_run,
                 main, screen, history>>

Resume(holding) == IF holding = <<>> THEN "take" ELSE "feed"

\* Mutant of DecodePull: the frames stay in the decoder while a unit is held.
PullWhenFree ==
  /\ MayPull
  /\ LET pulled == IF decode.holding = <<>> THEN pull_decoder_frames(dec)
                   ELSE [d |-> dec, frames |-> <<>>]
     IN  /\ dec' = pulled.d
         /\ decode' = [decode EXCEPT
              !.pulled = pulled.frames,
              !.pc = IF pulled.frames = <<>> THEN Resume(decode.holding) ELSE "push"]
  /\ UNCHANGED <<sender, payload_queue, depay, au_q, present_q, net, display, g_run,
                 main, screen, history>>

\* drain_decoder_to_present, after an attempt or when no unit came in 50 ms.
DecodePull ==
  /\ MayPull
  /\ LET pulled == pull_decoder_frames(dec) IN
       /\ dec' = pulled.d
       /\ decode' = [decode EXCEPT
            !.pulled = pulled.frames,
            !.pc = IF pulled.frames = <<>> THEN Resume(decode.holding) ELSE "push"]
  /\ UNCHANGED <<sender, payload_queue, depay, au_q, present_q, net, display, g_run,
                 main, screen, history>>

\* Mutant of DecodePush: the queue takes frames after the stop.
PushAlways ==
  /\ MayPush
  /\ present_q' = push_drop(present_q, PresentDepth, Head(decode.pulled))
  /\ decode' = [decode EXCEPT
       !.pulled = Tail(@),
       !.pc = IF Len(decode.pulled) = 1 THEN Resume(decode.holding) ELSE @]
  /\ UNCHANGED <<sender, payload_queue, depay, au_q, dec, net, display, g_run, main,
                 screen, history>>

\* enqueue_decoded_frames: present_frame_queue::push looks at run under its
\* lock, and refuses the frame once it is false.
DecodePush ==
  /\ MayPush
  /\ present_q' = IF g_run THEN push_drop(present_q, PresentDepth, Head(decode.pulled))
                  ELSE present_q
  /\ decode' = [decode EXCEPT
       !.pulled = Tail(@),
       !.pc = IF Len(decode.pulled) = 1 THEN Resume(decode.holding) ELSE @]
  /\ UNCHANGED <<sender, payload_queue, depay, au_q, dec, net, display, g_run, main,
                 screen, history>>

\* The loop ends; the frames of the last drain are refused.
DecodeLeave ==
  /\ MayLeave
  /\ decode' = [decode EXCEPT !.pc = "done", !.holding = <<>>]
  /\ dec' = pull_decoder_frames(dec).d
  /\ UNCHANGED <<sender, payload_queue, depay, au_q, present_q, net, display, g_run,
                 main, screen, history>>

(* ---------------------------- present_thread_main ------------------------- *)

MayPresent      == display = "loop" /\ present_q # <<>>
MayLeaveDisplay == display = "loop" /\ ~g_run /\ present_q = <<>>

\* What is left when there is no window, renderer or texture for the frame, or
\* when SDL reports an error later: nothing new is shown.
ensure_video_fails == <<window, shown>>

\* The frame is on the screen, and the user may have closed the window since the
\* last; or it is not shown.
present_nv12(f) == {<<w, f>> : w \in BOOLEAN} \cup {ensure_video_fails}

\* sdl_sink::input: a window that was closed shows nothing more.
sink_input(f) == IF window THEN present_nv12(f) ELSE {screen}

\* The frames left when run is false are presented too.
Present ==
  /\ MayPresent
  /\ present_q' = Tail(present_q)
  /\ \E s \in sink_input(Head(present_q)) : window' = s[1] /\ shown' = s[2]
  /\ UNCHANGED <<sender, payload_queue, depay, au_q, dec, stages, g_run, main, history>>

PresentLeave ==
  /\ MayLeaveDisplay
  /\ display' = "done"
  /\ UNCHANGED <<sender, payload_queue, depay, au_q, present_q, dec, net, decode,
                 g_run, main, screen, history>>

(* ---------------------------- pipeline_controller ------------------------- *)

request_stop ==
  /\ g_run /\ g_run' = FALSE
  /\ UNCHANGED <<sender, payload_queue, depay, au_q, present_q, dec, stages, main,
                 screen, history>>

\* run() returns when the stages are joined.
Joined ==
  main = "running" /\ ~g_run /\ net = "done" /\ decode.pc = "done" /\ display = "done"

\* stream_receiver::close, which joins the receive thread ...
CloseReceiver ==
  /\ Joined
  /\ main' = "closing" /\ payload_queue' = <<>>
  /\ UNCHANGED <<sender, depay, au_q, present_q, dec, stages, g_run, screen, history>>

\* ... and then the depayloader and the decoder.
CloseRest ==
  /\ main = "closing" /\ main' = "closed"
  /\ depay' = [rtp |-> rtp_h264_depacketizer, au_queue |-> <<>>]
  /\ dec' = NewDecoder
  /\ UNCHANGED <<sender, payload_queue, au_q, present_q, stages, g_run, screen, history>>

(* ------------------------------ specification ----------------------------- *)

Sender  == PayInput \/ Configure \/ Restart \/ Deliver \/ Lose
Net     == NetReceive \/ NetForward \/ NetLeave
Decode  == DecodeTake \/ DecodeFeed \/ DecodePull \/ DecodePush \/ DecodeLeave
Display == Present \/ PresentLeave

Close   == CloseReceiver \/ CloseRest

Next == Sender \/ Net \/ Decode \/ MppDecode \/ Display \/ request_stop \/ Close

NetReady     == MayReceive \/ MayForward \/ MayLeaveNet
DecodeReady  == MayTake \/ MayFeed \/ MayPull \/ MayPush \/ MayLeave
MppReady     == dec.in # <<>> /\ Len(dec.out) < MppOut
DisplayReady == MayPresent \/ MayLeaveDisplay

\* The threads are scheduled and MPP works; nothing makes the sender code, the
\* link deliver or the user stop.  These are the formulas of weak fairness with
\* the guards written out: an action of a thread can be taken when its guard
\* holds, and TLC need not compute the whole step to see it.
Spec == /\ Init /\ [][Next]_vars
        /\ []<>~NetReady \/ []<><<Net>>_vars
        /\ []<>~DecodeReady \/ []<><<Decode>>_vars
        /\ []<>~MppReady \/ []<><<MppDecode>>_vars
        /\ []<>~DisplayReady \/ []<><<Display>>_vars
        /\ WF_vars(Close)

(* ------------------------------- properties ------------------------------- *)

\* The numbers of the units in the receive half, from the screen back to the
\* depayloader.
Line ==
  LET Numbers(s) == [i \in DOMAIN s |-> s[i].unit]
      waiting    == [i \in DOMAIN depay.au_queue |-> Frame(depay.au_queue[i]).unit]
  IN  <<shown.unit>> \o Numbers(present_q) \o Numbers(decode.pulled)
        \o Numbers(dec.ready) \o Numbers(dec.out) \o Numbers(dec.in)
        \o Numbers(decode.holding) \o Numbers(au_q) \o waiting

\* Types.
RxTypeOK ==
  /\ coder.unit \in 0 .. MaxUnits /\ packer.seq \in 0 .. SeqRange - 1
  /\ Len(pending) <= PendingCap /\ Len(payload_queue) <= QueueDepth
  /\ Len(depay.au_queue) <= DepayDepth /\ Len(au_q) <= AuDepth
  /\ Len(present_q) <= PresentDepth /\ Len(dec.ready) <= MaxReady
  /\ decode.pc \in {"take", "feed", "pull", "push", "done"}
  /\ (decode.pc = "feed") => (decode.holding # <<>>)

\* Every frame on its way to the screen is of a later unit than those before
\* it: no stage, queue or retry of the receive half repeats or overtakes.
InLine == LET line == Line IN \A i, j \in DOMAIN line : i < j => line[i] < line[j]

\* The depacketizer never joins datagrams of two NAL units or of two access
\* units, whatever was lost between them, as long as the packer is the same.
NoMixing ==
  packers = 1 =>
    \A i \in DOMAIN depay.au_queue :
      LET nals == depay.au_queue[i].nals IN
      \A k \in DOMAIN nals :
        /\ nals[k] = send_nal(nals[k][1].nal)
        /\ nals[k][1].nal.unit = nals[1][1].nal.unit

\* An access unit that arrives whole comes out whole, with its last datagram,
\* whatever was lost before it, as long as the packer is the same.
WholeUnitsComeOut == packers = 1 => missed = {}

\* The capture time a frame is shown with is that of its own picture, or none,
\* as long as the packer is the same.
OwnCapture ==
  packers = 1 => \A f \in {shown} \cup Range(present_q) \cup Range(dec.ready) :
                    f.capture \in {0, f.unit}

\* The frames pushed before the stop are all presented: nothing is left in the
\* queue when the present thread has ended.
NothingLeft == display = "done" => present_q = <<>>

\* A unit the decoder has no room for gets in, as long as the app runs.
HoldingEnds == (decode.holding # <<>> /\ g_run) ~> (decode.holding = <<>>)

\* When the app is told to stop, every stage ends and the components close.
Stops == ~g_run ~> (main = "closed")

\* docs/vstreamer.md:231: a restarted sender resumes immediately.  What arrives
\* whole from it comes out (its pts have started again).
ResumesAtOnce == coder.pts < coder.unit => missed = {}
==============================================================================
