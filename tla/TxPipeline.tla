------------------------------ MODULE TxPipeline ------------------------------
(***************************************************************************)
(* uvc_stream_sender from the camera to the payloader: the source selector *)
(* with its camera and its noise generator, mjpeg_q, the pool of JPEG      *)
(* workers, nv12_q, and the encoder, driven by the stage threads source,   *)
(* jpeg and encode.                                                        *)
(*                                                                         *)
(* What one thread does to state no other thread sees is one step.  The    *)
(* camera is external: it is unplugged and plugged in again at any moment. *)
(* Times are not kept: a probe, a retry of the capture, and the end of the *)
(* shortest stay on one source come at any moment.                         *)
(***************************************************************************)
EXTENDS H264Encoder, FiniteSets

CONSTANTS
  CameraSize, NoiseSize, \* sizes: of --size, and k_noise_fallback_w x h
  CameraFps, NoiseFps,   \* frame rates: of --fps, and k_noise_fallback_fps
  MaxCamera, MaxNoise,   \* bounds: frames of the camera and of the noise
  MaxFlips,              \* bound: times the camera is unplugged or plugged in
  MaxBad,                \* bound: frames the JPEG decoder fails on
  PipeDepth,             \* VSTREAMER_PIPE_QUEUE_DEPTH
  Workers,               \* workers of jpeg_decoder_multicore
  MaxInflight            \* max_inflight of jpeg_stage_main: jpeg_workers.size()

\* k_queue_depth is 32: the pool has room for all that is in flight.
ASSUME TxAssumption ==
  /\ {MaxCamera, MaxNoise, MaxFlips, MaxBad} \subseteq Nat
  /\ {PipeDepth, Workers} \subseteq Nat \ {0} /\ MaxInflight \in 1 .. 32

VARIABLES
  camera,    \* the device, v4l2_source's capture_open, and frames captured
  noise_pts, \* of noise_source: frames generated
  source,    \* source_selector, and where its thread is
  settled,   \* k_min_switch_interval_ms have gone by since the last switch
  mjpeg_q,
  jdec,      \* jpeg_decoder_multicore
  jpeg,      \* the thread of jpeg_stage_main
  nv12_q,
  enc,       \* h264_encoder_mpp
  encode,    \* the thread of encode_stage_main: the frame it holds
  g_run, main, \* pipeline_controller: the flag, and its main thread
  sent,      \* history: the access units that went to the payloader last
  flips, bad \* history: changes of the camera, frames that failed to decode

sources == <<camera, noise_pts, source, settled>>
jpegs   == <<jdec, jpeg>>
encoder == <<enc, encode, sent>>
control == <<g_run, main>>
vars == <<sources, mjpeg_q, jpegs, nv12_q, encoder, control, flips, bad>>

\* v4l2_source::open succeeds with no device there.
NewCamera(on) == [on |-> on, open |-> on, pts |-> 0]

\* source_selector::open, with a camera that can always be opened.
NewSource == [kind |-> "camera", pc |-> "poll", probe |-> <<>>]

\* The pool's start_workers and stop_workers leave no job and no result.
NewPool(size) == [size |-> size, jobs |-> <<>>]

Init ==
  /\ \E on \in BOOLEAN : camera = NewCamera(on)
  /\ noise_pts = 0
  /\ source = NewSource /\ settled = TRUE
  /\ mjpeg_q = <<>> /\ nv12_q = <<>>
  /\ jdec = NewPool(CameraSize)
  /\ jpeg = [pc |-> "drain", inflight |-> 0]
  /\ enc = encoder_open(CameraSize, CameraFps, FALSE)
  /\ encode = [pc |-> "take", holding |-> <<>>]
  /\ g_run = TRUE /\ main = "running"
  /\ sent = <<>>
  /\ flips = 0 /\ bad = 0

\* Mutant of push: the limit is off by one.
push_over(q, f) ==
  IF ~g_run THEN q ELSE Append(IF Len(q) > PipeDepth THEN Tail(q) ELSE q, f)

\* pipeline_queue::push, which drops the oldest frame of a full queue and
\* refuses all of them once run is false.
push(q, f) ==
  IF ~g_run THEN q ELSE Append(IF Len(q) >= PipeDepth THEN Tail(q) ELSE q, f)

\* A JPEG goes to the workers, a picture of the noise straight to the encoder.
enqueue_source_frame(f) ==
  IF f.src = "camera" THEN mjpeg_q' = push(mjpeg_q, f) /\ UNCHANGED nv12_q
  ELSE nv12_q' = push(nv12_q, f) /\ UNCHANGED mjpeg_q

(* ------------------------ source_stage_selector_main --------------------- *)

Flip ==
  /\ flips < MaxFlips /\ flips' = flips + 1
  /\ camera' = [camera EXCEPT !.on = ~@]
  /\ UNCHANGED <<noise_pts, source, settled, mjpeg_q, jpegs, nv12_q, encoder, control,
                 bad>>

Settle ==
  /\ ~settled /\ settled' = TRUE
  /\ UNCHANGED <<camera, noise_pts, source, mjpeg_q, jpegs, nv12_q, encoder, control,
                 flips, bad>>

Polling(kind) == source.pc = "poll" /\ source.kind = kind /\ g_run
Capturing     == camera.on /\ camera.open /\ camera.pts < MaxCamera

CameraFrame == [src |-> "camera", n |-> camera.pts, size |-> CameraSize]
NoiseFrame  == [src |-> "noise", n |-> noise_pts, size |-> NoiseSize]

capture_open  == [camera EXCEPT !.open = TRUE]
capture_close == [camera EXCEPT !.open = FALSE]

MayCapture == Polling("camera") /\ Capturing
MayRetry   == (Polling("camera") \/ Polling("noise")) /\ camera.on /\ ~camera.open
MayLose    == Polling("camera") /\ ~(camera.on /\ camera.open)
                /\ (camera.open \/ settled)
MayProbe   == Polling("noise") /\ (Capturing \/ (camera.open /\ ~camera.on))

\* A frame of the camera, with the next pts.
Capture ==
  /\ MayCapture
  /\ enqueue_source_frame(CameraFrame)
  /\ camera' = [camera EXCEPT !.pts = @ + 1]
  /\ UNCHANGED <<noise_pts, source, settled, jpegs, encoder, control, flips, bad>>

\* maybe_retry_capture_locked, once in a second.  The first wait after it finds
\* no frame: a camera waits again, and the fallback goes on.
Retry ==
  /\ MayRetry
  /\ camera' = capture_open
  /\ source' = IF source.kind = "noise" THEN [source EXCEPT !.pc = "noise"] ELSE source
  /\ UNCHANGED <<noise_pts, settled, mjpeg_q, jpegs, nv12_q, encoder, control, flips, bad>>

\* select or DQBUF reports an error that is not that of a lost device.
Fail ==
  /\ MayCapture
  /\ source' = [source EXCEPT !.pc = "done"]
  /\ UNCHANGED <<camera, noise_pts, settled, mjpeg_q, jpegs, nv12_q, encoder, control,
                 flips, bad>>

\* -ENODEV: the capture is closed, and switch_to_noise begins if it is allowed.
Lose ==
  /\ MayLose
  /\ camera' = capture_close
  /\ source' = IF settled THEN [kind |-> "noise", pc |-> "enc", probe |-> <<>>] ELSE source
  /\ settled' = FALSE
  /\ UNCHANGED <<noise_pts, mjpeg_q, jpegs, nv12_q, encoder, control, flips, bad>>

\* The probe of a camera that has gone, or the frame of one that is there:
\* switch_to_camera begins with it, or the frame is dropped.
Probe ==
  /\ MayProbe
  /\ camera' = IF Capturing THEN [camera EXCEPT !.pts = @ + 1] ELSE capture_close
  /\ source' = IF Capturing /\ settled
               THEN [kind |-> "camera", pc |-> "enc", probe |-> <<CameraFrame>>]
               ELSE [source EXCEPT !.pc = "noise"]
  /\ settled' = (settled /\ ~Capturing)
  /\ UNCHANGED <<noise_pts, mjpeg_q, jpegs, nv12_q, encoder, control, flips, bad>>

SourceSize == IF source.kind = "noise" THEN NoiseSize ELSE CameraSize
SourceFps  == IF source.kind = "noise" THEN NoiseFps ELSE CameraFps

\* on_switch: the size of the encoder ...
SwitchEnc ==
  /\ source.pc = "enc"
  /\ enc' = configure_size(enc, SourceSize)
  /\ source' = [source EXCEPT !.pc = "fps"]
  /\ UNCHANGED <<camera, noise_pts, settled, mjpeg_q, jpegs, nv12_q, encode, sent,
                 control, flips, bad>>

\* ... its frame rate (that of the payloader goes with it) ...
SwitchFps ==
  /\ source.pc = "fps"
  /\ enc' = configure_fps(enc, SourceFps)
  /\ source' = [source EXCEPT !.pc = "jdec"]
  /\ UNCHANGED <<camera, noise_pts, settled, mjpeg_q, jpegs, nv12_q, encode, sent,
                 control, flips, bad>>

\* ... the size of the JPEG decoder, whose frame rate no frame depends on ...
SwitchJdec ==
  /\ source.pc = "jdec"
  /\ jdec' = [jdec EXCEPT !.size = SourceSize]
  /\ source' = [source EXCEPT !.pc = "idr"]
  /\ UNCHANGED <<camera, noise_pts, settled, mjpeg_q, jpeg, nv12_q, encoder, control,
                 flips, bad>>

\* ... and an IDR.
SwitchIdr ==
  /\ source.pc = "idr"
  /\ enc' = configure_live(enc, "idr")
  /\ source' = [source EXCEPT !.pc = IF source.kind = "noise" THEN "noise" ELSE "probe"]
  /\ UNCHANGED <<camera, noise_pts, settled, mjpeg_q, jpegs, nv12_q, encode, sent,
                 control, flips, bad>>

\* The frame that was probed goes on its way.
PushProbe ==
  /\ source.pc = "probe"
  /\ enqueue_source_frame(source.probe[1])
  /\ source' = [source EXCEPT !.pc = "poll", !.probe = <<>>]
  /\ UNCHANGED <<camera, noise_pts, settled, jpegs, encoder, control, flips, bad>>

MayMakeNoise == source.pc = "noise" \/ (Polling("noise") /\ noise_pts < MaxNoise)

\* noise_source::output.
MakeNoise ==
  /\ MayMakeNoise
  /\ IF noise_pts < MaxNoise
     THEN /\ noise_pts' = noise_pts + 1
          /\ enqueue_source_frame(NoiseFrame)
     ELSE UNCHANGED <<noise_pts, mjpeg_q, nv12_q>>
  /\ source' = [source EXCEPT !.pc = "poll"]
  /\ UNCHANGED <<camera, settled, jpegs, encoder, control, flips, bad>>

MayLeaveSource == source.pc = "poll" /\ ~g_run

LeaveSource ==
  /\ MayLeaveSource
  /\ source' = [source EXCEPT !.pc = "done"]
  /\ UNCHANGED <<camera, noise_pts, settled, mjpeg_q, jpegs, nv12_q, encoder, control,
                 flips, bad>>

(* ------------------------- jpeg_decoder_multicore ------------------------ *)

\* jdec.jobs are the jobs from next_out_seq to next_in_seq: queued, taken by a
\* worker, being decoded, or a result, which is a frame or an error.
JobsIn(st) == {i \in DOMAIN jdec.jobs : jdec.jobs[i].st = st}
Busy       == JobsIn("taken") \cup JobsIn("decoding")

\* worker_main takes the oldest job.
MayTakeJob == JobsIn("queued") # {} /\ Cardinality(Busy) < Workers

TakeJob ==
  /\ MayTakeJob
  /\ \E i \in JobsIn("queued") :
       /\ \A j \in JobsIn("queued") : i <= j
       /\ jdec' = [jdec EXCEPT !.jobs[i].st = "taken"]
  /\ UNCHANGED <<sources, mjpeg_q, jpeg, nv12_q, encoder, control, flips, bad>>

\* decode_one begins: the picture will be cut or padded to the size configured now.
BeginDecode ==
  /\ \E i \in JobsIn("taken") :
       jdec' = [jdec EXCEPT !.jobs[i] = [f |-> [@.f EXCEPT !.size = jdec.size],
                                         st |-> "decoding"]]
  /\ UNCHANGED <<sources, mjpeg_q, jpeg, nv12_q, encoder, control, flips, bad>>

\* The result, in whichever order the workers finish: a picture, or it could not
\* be decoded.
Decode ==
  /\ \E i \in JobsIn("decoding") :
       \/ jdec' = [jdec EXCEPT !.jobs[i].st = "frame"] /\ UNCHANGED bad
       \/ /\ bad < MaxBad /\ bad' = bad + 1
          /\ jdec' = [jdec EXCEPT !.jobs[i].st = "error"]
  /\ UNCHANGED <<sources, mjpeg_q, jpeg, nv12_q, encoder, control, flips>>

(* ----------------------------- jpeg_stage_main --------------------------- *)

\* The next result in the order of input is there.
ResultReady == jdec.jobs # <<>> /\ Head(jdec.jobs).st \in {"frame", "error"}

\* Mutant of MayOutput: nothing comes out of a full pool.
OutputInDrain == ResultReady /\ jpeg.pc = "drain" /\ g_run

\* The drain goes on until no result is ready; the wait, with all in flight,
\* is for one result.
MayOutput ==
  /\ ResultReady
  /\ \/ jpeg.pc = "drain" /\ g_run
     \/ jpeg.pc = "fill" /\ jpeg.inflight >= MaxInflight
MayFill ==
  /\ g_run /\ mjpeg_q # <<>> /\ jpeg.inflight < MaxInflight
  /\ jpeg.pc = "fill" \/ (jpeg.pc = "drain" /\ ~ResultReady)
MayTurn == jpeg.pc = "fill" /\ jpeg.inflight < MaxInflight /\ mjpeg_q = <<>> /\ g_run
MayLeaveJpeg == jpeg.pc \in {"drain", "fill"} /\ ~g_run

\* Mutant of Output: the results are taken in the order they are ready.
OutputAny ==
  /\ \/ jpeg.pc = "drain" /\ g_run
     \/ jpeg.pc = "fill" /\ jpeg.inflight >= MaxInflight
  /\ \E i \in JobsIn("frame") :
       /\ nv12_q' = push(nv12_q, jdec.jobs[i].f)
       /\ jdec' = [jdec EXCEPT !.jobs = RemoveAt(@, i)]
  /\ jpeg' = [pc |-> "drain", inflight |-> jpeg.inflight - 1]
  /\ UNCHANGED <<sources, mjpeg_q, encoder, control, flips, bad>>

\* A frame goes to nv12_q.  An error is passed over: it ends the drain, and
\* inflight still counts it.
Output ==
  /\ MayOutput
  /\ jdec' = [jdec EXCEPT !.jobs = Tail(@)]
  /\ IF Head(jdec.jobs).st = "frame"
     THEN /\ nv12_q' = push(nv12_q, Head(jdec.jobs).f)
          /\ jpeg' = [pc |-> "drain", inflight |-> jpeg.inflight - 1]
     ELSE /\ jpeg' = [jpeg EXCEPT !.pc = IF jpeg.pc = "drain" THEN "fill" ELSE "drain"]
          /\ UNCHANGED nv12_q
  /\ UNCHANGED <<sources, mjpeg_q, encoder, control, flips, bad>>

\* A JPEG goes to the pool, which has room for it.
Fill ==
  /\ MayFill
  /\ jdec' = [jdec EXCEPT !.jobs = Append(@, [f |-> Head(mjpeg_q), st |-> "queued"])]
  /\ mjpeg_q' = Tail(mjpeg_q)
  /\ jpeg' = [pc |-> "fill", inflight |-> jpeg.inflight + 1]
  /\ UNCHANGED <<sources, nv12_q, encoder, control, flips, bad>>

\* No JPEG is left: the loop begins again.
Turn ==
  /\ MayTurn
  /\ jpeg' = [jpeg EXCEPT !.pc = "drain"]
  /\ UNCHANGED <<sources, mjpeg_q, jdec, nv12_q, encoder, control, flips, bad>>

LeaveJpeg ==
  /\ MayLeaveJpeg
  /\ jpeg' = [jpeg EXCEPT !.pc = "done"]
  /\ UNCHANGED <<sources, mjpeg_q, jdec, nv12_q, encoder, control, flips, bad>>

(* ---------------------------- encode_stage_main -------------------------- *)

MppEncode ==
  /\ enc.mpp # <<>> /\ enc' = mpp_encode(enc)
  /\ UNCHANGED <<sources, mjpeg_q, jpegs, nv12_q, encode, sent, control, flips, bad>>

MayTake == encode.pc = "take" /\ g_run /\ nv12_q # <<>>
MayPull == encode.pc = "take" /\ g_run /\ nv12_q = <<>> /\ enc.packets # <<>>

\* What the console asked for is set in each turn of the loop, between two frames
\* or two attempts with one.
apply_pending_console_encoder_cfg ==
  /\ encode.pc \in {"take", "submit"} /\ g_run
  /\ \E key \in {"cbr", "qp", "gop", "idr"} : enc' = configure_live(enc, key)
  /\ UNCHANGED <<sources, mjpeg_q, jpegs, nv12_q, encode, sent, control, flips, bad>>

Take ==
  /\ MayTake
  /\ encode' = [pc |-> "submit", holding |-> <<Head(nv12_q)>>]
  /\ nv12_q' = Tail(nv12_q)
  /\ UNCHANGED <<sources, mjpeg_q, jpegs, enc, sent, control, flips, bad>>

\* drain_encoder, when no frame came.
Pull ==
  /\ MayPull
  /\ LET pulled == drain_packets(enc) IN enc' = pulled.e /\ sent' = pulled.aus
  /\ UNCHANGED <<sources, mjpeg_q, jpegs, nv12_q, encode, control, flips, bad>>

\* An attempt of submit_nv12_to_encoder and the pulling after it.
Attempt ==
  LET in     == enc_input(enc, encode.holding[1])
      pulled == drain_packets(in.e)
  IN  [r |-> in.r, e |-> pulled.e, aus |-> in.aus \o pulled.aus]

\* An attempt that changes nothing is no step.
MaySubmit == encode.pc = "submit" /\ g_run /\ Attempt.e # enc

\* Mutant of MayLeaveEncode: the attempts do not look at run.
LeaveWithoutFrame == encode.pc = "take" /\ ~g_run
MayLeaveEncode == encode.pc \in {"take", "submit"} /\ ~g_run

\* A frame that is not accepted, for want of room or because of its size, is
\* tried again.
Submit ==
  /\ MaySubmit
  /\ LET a == Attempt IN
       /\ enc' = a.e
       /\ encode' = IF a.r = "ok" THEN [pc |-> "take", holding |-> <<>>] ELSE encode
       /\ sent' = IF a.aus = <<>> THEN sent ELSE a.aus
  /\ UNCHANGED <<sources, mjpeg_q, jpegs, nv12_q, control, flips, bad>>

LeaveEncode ==
  /\ MayLeaveEncode
  /\ encode' = [pc |-> "done", holding |-> <<>>]
  /\ UNCHANGED <<sources, mjpeg_q, jpegs, nv12_q, enc, sent, control, flips, bad>>

(* ---------------------------- pipeline_controller ------------------------ *)

request_stop ==
  /\ g_run /\ g_run' = FALSE
  /\ UNCHANGED <<sources, mjpeg_q, jpegs, nv12_q, encoder, main, flips, bad>>

\* run() returns when the stages are joined.
Joined ==
  /\ main = "running" /\ ~g_run
  /\ source.pc = "done" /\ jpeg.pc = "done" /\ encode.pc = "done"

\* The components are closed, one after another; the workers of the JPEG decoder
\* end with it.
Close ==
  /\ Joined
  /\ main' = "closed"
  /\ camera' = capture_close
  /\ jdec' = NewPool(jdec.size)
  /\ enc' = encoder_close(enc)
  /\ UNCHANGED <<noise_pts, source, settled, mjpeg_q, jpeg, nv12_q, encode, sent, g_run,
                 flips, bad>>

(* ------------------------------ specification ---------------------------- *)

Source == \/ Capture \/ Retry \/ Fail \/ Lose \/ Probe
          \/ SwitchEnc \/ SwitchFps \/ SwitchJdec \/ SwitchIdr \/ PushProbe \/ MakeNoise \/ LeaveSource
Jpeg   == Output \/ Fill \/ Turn \/ LeaveJpeg
Encode == Take \/ Pull \/ Submit \/ LeaveEncode
Pool   == TakeJob \/ BeginDecode \/ Decode

Next == Flip \/ Settle \/ Source \/ Pool \/ Jpeg \/ MppEncode \/ Encode
          \/ apply_pending_console_encoder_cfg \/ request_stop \/ Close

SourceReady ==
  \/ MayCapture \/ MayRetry \/ MayLose \/ MayProbe \/ MayMakeNoise \/ MayLeaveSource
  \/ source.pc \in {"enc", "fps", "jdec", "idr", "probe"}
PoolReady   == MayTakeJob \/ Busy # {}
JpegReady   == MayOutput \/ MayFill \/ MayTurn \/ MayLeaveJpeg
EncodeReady == MayTake \/ MayPull \/ MaySubmit \/ MayLeaveEncode

\* The threads are scheduled, MPP codes what it holds and time goes by; nothing
\* makes the camera come or go, or the user ask or stop.  These are the formulas of
\* weak fairness with the guards written out.
Spec == /\ Init /\ [][Next]_vars
        /\ []<>~SourceReady \/ []<><<Source>>_vars
        /\ []<>~PoolReady \/ []<><<Pool>>_vars
        /\ []<>~JpegReady \/ []<><<Jpeg>>_vars
        /\ []<>~EncodeReady \/ []<><<Encode>>_vars
        /\ WF_vars(MppEncode) /\ WF_vars(Settle) /\ WF_vars(Close)

(* ------------------------------- properties ------------------------------ *)

\* The frames on their way, from the payloader back to the camera.
OnTheWay ==
  sent \o enc.packets \o enc.mpp \o encode.holding \o nv12_q
    \o [i \in DOMAIN jdec.jobs |-> jdec.jobs[i].f] \o mjpeg_q \o source.probe

\* Types.
TxTypeOK ==
  /\ Len(mjpeg_q) <= PipeDepth /\ Len(nv12_q) <= PipeDepth
  /\ camera.pts \in 0 .. MaxCamera /\ noise_pts \in 0 .. MaxNoise
  /\ source.pc \in {"poll", "enc", "fps", "jdec", "idr", "noise", "probe", "done"}
  /\ (source.pc = "probe") => (source.probe # <<>>)
  /\ jpeg.inflight \in 0 .. MaxInflight
  /\ (encode.pc = "submit") <=> (encode.holding # <<>>)

\* The frames of a source go to the network in the order they were captured,
\* each at most once: two workers that finish in any order, a full queue and a
\* frame that is tried again do not repeat or overtake.
TxInLine ==
  LET line == OnTheWay
  IN  \A i, j \in DOMAIN line : (i < j /\ line[i].src = line[j].src) => line[i].n < line[j].n

\* Every slot of the encoder is free or waits for the packet of a frame in MPP,
\* over every refusal, retry and reopening.
SlotsKept == main = "running" =>
  /\ Len(enc.free) + Len(enc.pending) = EncSlots
  /\ Range(enc.free) \cup Range(enc.pending) = 1 .. EncSlots
  /\ Len(enc.pending) = Len(enc.mpp) + Len(enc.packets)

\* docs/component-encoder.md:34: an access unit carries the pts and the capture
\* time of the frame it was coded from.
OwnStamp == \A i \in DOMAIN sent : sent[i].capture = <<sent[i].src, sent[i].n>>

\* The first access unit of another size is an IDR, whichever of the steps of
\* on_switch the encode thread comes between.
NewSizeIsIdr ==
  [][(sent' # sent /\ sent # <<>> /\ sent'[1].size # Last(sent).size) => sent'[1].key]_vars

\* The JPEGs of the camera are decoded as long as the app runs and fewer frames
\* than MaxInflight were bad: mjpeg_q is emptied again and again.
JpegsMove == (mjpeg_q # <<>> /\ g_run) ~> (mjpeg_q = <<>> \/ ~g_run)

\* When the app is told to stop, every stage ends and the components close,
\* a frame the encoder will not take or a full pool notwithstanding.
TxStops == ~g_run ~> (main = "closed")

\* docs/component-source.md:49, docs/vstreamer.md:308: noise takes the place of
\* a camera that is gone.  While it does, the frames that wait for the encoder
\* get to it, and nv12_q is emptied again and again.
FallbackFlows ==
  (nv12_q # <<>> /\ source.kind = "noise" /\ g_run) ~>
    (nv12_q = <<>> \/ source.kind = "camera" \/ ~g_run)
==============================================================================
