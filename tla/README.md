# vstreamer in TLA+

vstreamer carries H.264 video over a lossy datagram link: a transmit pipeline
(capture, JPEG decoding, encoding, RTP payloading) feeds `stream_sender`, which
adds Reed-Solomon block erasure coding and paces datagrams out; `stream_receiver`
repairs and re-orders them and feeds the receive pipeline (RTP depayloading,
decoding, display). Paths below are relative to the repository root, that is,
without the leading `src/` of the manifest.

## Inventory

| Part | State | Operations | Talks to |
|------|-------|------------|----------|
| FEC receive half, `src/core/rs_block_erasure` | blocks being collected, decoded blocks waiting, recently finished ids, the head of the in-order queue, the newest id, three time stamps | `push_air`, `poll_rx`, the passing of time | `stream_receiver`, under its `mu` |
| FEC transmit half, same class | pending packets, flush deadline, next block id, code parameters | `push_app`, `flush`, `on_tick`, `init`, `disable` | `stream_sender`, under its `fec_mu` |
| `src/components/stream_sender` | queue and byte count, gate and deadline, datagram sequence, settings, two threads, last link report | `input`, `open`, `close`, `configure`, `set_enabled`, send thread, telemetry thread | FEC, socket; producer, console and main threads |
| `src/components/stream_receiver` | output queue, gap counters, session and report numbers, peer address, receive thread | `output`, `open`, `close`, `configure`, receive thread | FEC, socket |
| Link telemetry, `src/core/stream_telemetry.hpp` | report numbers per session, the last report and its age, the loss window of `tx_metrics` | `handle_link_report`, `peer_link_snapshot`, `update_receiver_loss_deltas` | both ends, over the reverse path; the console |
| Rate control, `scripts/cbr_controller.py` | the counters of the last answer, session, hold | one loop: ask the console, judge, set the bit rate | console, over UDP |
| RTP H.264, `src/core/rtp_h264`, `rtp_h264_pay`, `rtp_h264_depay` | sequence number and cached parameter sets; fragment and access unit being built, queues of finished units | `pack_annexb`, `feed`, `input`, `output`, `configure` | FEC below, codecs above |
| JPEG worker pool, `jpeg_decoder_multicore` | jobs, result slots, next sequence in and out, worker threads | `input`, `output`, `configure`, workers | transmit stages |
| Encoder, `h264_encoder_mpp` | buffer slots shared with MPP and their capture times, size, pending IDR | `input`, `output`, `configure`, reopening | encode stage, source selector |
| Decoder, `h264_decoder_mpp` | decoded frames, ring of capture times | `input`, `output` | decode stage |
| Source selector with `v4l2_source` and `noise_source` | active source, time of the last switch, capture open or not | `poll_once`, fallback, recovery, `on_switch` | encoder, JPEG decoder, queues |
| Stages and controller, `src/apps/common` | drop-oldest queues, run flags, stage threads, the frame each holds | push, pop, stage loops, `run`, `request_stop` | everything |
| Display, `sdl_sink` | open or closed | `input` | present stage |
| Recording, metrics text, console text, viewers, bench app | in files, devices and text | | |

What is hard in it:

* *Unreliable delivery.* Shards are lost, duplicated, delayed and reordered;
  block ids are one byte wide and compared by the sign of a difference; a
  restarted sender begins anywhere on that ring.
* *Time.* Four holds decide when a block, a hole, a finished id or a whole
  session is given up. They are tested only when a shard comes or the receive
  thread polls.
* *Interleaving.* Three threads encode and enqueue in the sender, each in
  several critical sections; the gate is tested before a pacing delay.
* *Stopping.* Every thread has to be told, woken and joined while others still
  call in.

What makes the parts correct:

* FEC receiver: no packet is returned twice, a loss is counted once and finally,
  complete blocks stay in order, no block waits for ever, a new session starts
  at once and clean.
* Sender: everything taken is encoded once and in order, across timeouts and
  reconfiguration; the queue is bounded; a closed gate stops the stream; datagram
  numbers have holes only where datagrams were lost; `close` returns.
* Telemetry: every report is counted once, as received or as lost; a newer one
  is always heard, whichever session it is of; no loss is charged to the bit rate
  twice; the rate rises only while reports arrive.
* RTP and the receive pipeline: an access unit that comes out is one that went in,
  one that arrives whole comes out whole, pictures are shown in order and with
  their own capture time, a busy decoder holds nobody up for ever.
* Transmit pipeline: frames are encoded in order and at most once, the encoder's
  slots are neither lost nor doubled, a new picture size begins with an IDR, what
  is queued moves on, also after the camera has gone.
* Both: every thread ends when the app is told to stop, and what was accepted for
  display before is shown.

The manifest's list of hazards says, line by line, where each of these can go
wrong and which property is about it.

## Modules

| Module | What it is |
|--------|------------|
| `BlockRing` | The ring of block ids and the signed distance. |
| `RsBlockErasureRx` | The receive half of `rs_block_erasure`, one operator per member function. |
| `FecLink` | A stream end to end: encoder reduced to `flush`, the lossy link, `RsBlockErasureRx`. |
| `RsBlockErasureTx` | The transmit half, one operator per member function. |
| `BlockStream` | Abstract specification of a sender: what `FecLink` assumes of one. |
| `StreamSender` | `stream_sender` with its threads, built on `RsBlockErasureTx`. Implements `BlockStream`. |
| `LinkTelemetry` | Link reports from the receiver to the sender, into the metrics, to the rate control. |
| `RtpH264` | `rtp_h264.cpp`, packer and depacketizer, one operator per function. |
| `RxPipeline` | From the payloader over the packet link to the screen: `rtp_h264_pay`, `rtp_h264_depay`, `h264_decoder_mpp` and the three stage threads of `sdl_stream_receiver`, on `RtpH264`. |
| `H264Encoder` | `h264_encoder_mpp`, one operator per function. |
| `TxPipeline` | From the camera to the encoder's output: `uvc_stream_sender` with source selector, JPEG workers and three stage threads, on `H264Encoder`. |
| `MCFecLink`, `MCStreamSender` | Values and initial states for TLC; the other modules take theirs from the cfg. |
| `BlockRing_proofs`, `RsBlockErasureRx_proofs`, `FecLink_proofs`, `FecLinkOrder_proofs`, `StreamSender_proofs`, `LinkTelemetry_proofs`, `RxPipeline_proofs`, `TxPipeline_proofs` | Theorems and their proofs; `BlockRing_proofs` holds lemmas only, and so does the first part of `StreamSender_proofs`, on `RsBlockErasureTx`. |

### The FEC receiver

The C++ object is one record, `fec`, with the fields of the class. A member
function is an operator from record to record under its C++ name, and
`push_air`, `poll_rx` and `Tick` are the actions: the receiver runs under one
mutex, so a call is one step. `push_air` is the whole function: rebasing,
resync, eviction, storing, streaming, decoding, and the destructor of
`push_air_finish`, which expires and runs the emit engine on every return path.
`expire_rx` and `ring_evict_stale` walk a hash map whose order is unspecified
and move the head on the way, so `AbandonAll` yields the set of the results of
all orders.

Time stamps are kept as ages, capped just above the longest hold. The code only
compares ages with holds. A payload is the pair of its block's number and its
index; the number is history the wire does not carry (only the ring id is), and
lets properties tell two blocks with one id apart. Reed-Solomon decoding is
abstracted to its contract: any `k` of the `n` shards of one block, the pads
counted in, give the block. If the shards of two blocks meet under one id,
decoding may fail or yield `Garbage`.

Left out: a shard with `sdu_n` = 0 and payloads with an inconsistent length
prefix, which `encode_block` never makes; empty packets, which the code drops;
the counters other than the lost packets. A refused header has the effect of
`poll_rx` and is not an action of its own.

### The sender

`StreamSender` has an action per critical section. `input`, the send thread and
the controlling thread each encode under `fec_mu` (`Encoded`) and then enqueue
shard by shard; enqueuing a shard is `MakeRoom` and `PushBack`, since
`enqueue_wire_copy` unlocks between the two. The send thread is `SendTick`,
`SendWait`, `SendGate`, `SendStamp`, `SendTo`. `open` is two steps (encoder,
then threads), `close` four (stop, join, disable the encoder, clear the queue),
`configure` two (store the key, re-initialise). Sizes are in units and leave the
constant headers out.

Assumed: `open`, `close` and `configure` come from one thread at a time, as in
the applications, which stop the console before they close; `input` comes from
one other thread. The queue's byte limit, which the code derives from the
current rate, is a constant. The buffer pool is left out since it allocates when
it is empty, and the result of `sendto` since only counters depend on it.

### The way back

`LinkTelemetry` follows a loss from the receiver's counter to the bit rate. `net`
keeps every report sent, and each may come any number of times in any order.
`Receive` is `telemetry_thread_main` with `handle_link_report`. `Answer` is the
console thread: it copies the snapshot into the metrics
(`sync_sender_peer_link_metrics_live`) and answers in one step, because in
`uvc_stream_sender` no other thread writes them. `Control` is one turn of the
controller's loop with the answer it got, `TimeOut` one without; an answer may be
under way for `MaxWait` report intervals. The four counters of a report only grow
and are treated alike, so they are one. The sequence number is unbounded.

### The receive pipeline

`RtpH264` represents a NAL unit by the access unit it belongs to, its type and the
number of datagrams it takes; a payload is one of those parts, so a unit put
together from two shows. `RxPipeline` adds the queues and the threads: `net` is
`rx_net_thread_main` (`NetReceive` takes a datagram through the depacketizer,
`NetForward` hands a finished unit on), `decode` is `decode_thread_main` with the
unit it holds and the frames it has pulled, `display` is `present_thread_main`.
A push to a queue two threads share is a step of its own. MPP is external: it
takes `MppIn` packets, has room for `MppOut` frames, and marks any of them bad.
`h264_decoder_mpp::input` returns any of what the code can return. The user may
close the window at any frame, after which `sdl_sink` shows nothing. The FEC below
is what `FecLink` shows it to be for this layer: datagrams come in order, at most
once, or not at all.

### The transmit pipeline

`TxPipeline` has the thread of the source selector with a program counter through
`on_switch` (`SwitchEnc`, `SwitchFps`, `SwitchJdec`, `SwitchIdr`), since the encode
thread and the workers run between its steps; the pool as the sequence of jobs between
`next_out_seq` and `next_in_seq`, where a worker reads the size when it begins
(`BeginDecode`) and finishes later (`Decode`); `jpeg_stage_main` with its in-flight
count; and `encode_stage_main` with the frame it holds, to which the console's settings
come in any turn of the loop (`apply_pending_console_encoder_cfg`). The encoder opens
again after a change of its size or of its frame rate, which `on_switch` sets under two
holds of its lock. The frame rates of the pool and of the payloader, set in the same
callback, change no frame and are left out. A frame carries its source, its number
and the size it was decoded to. The camera is external: `Flip` unplugs it or plugs
it in. Times are left out: a retry, a probe and the end of the shortest stay on one
source (`Settle`) may come at any moment. The encoder's output goes to `sent`, the
units of the last drain; the payloader takes them in the same thread.

### How they fit

`FecLink` does not contain the sender's queue: its sender puts every shard of a
block on the link, which may lose, repeat and reorder them. That this is enough
is what `KeepsBlockStream` checks: block ids are consecutive, no shard leaves
before its block is encoded, none leaves twice, and those of a block leave in
index order. What a sender does not promise is the order of blocks, see
`sender_order`.

## Runs

| Run | Bounds | Shows |
|-----|--------|-------|
| `fec_link` | 4 blocks of 2 packets, (2,3) code, ring of 8 starting at 6, reordering by one block, delay of one tick, eviction distance 1 | `LinkTypeOK`, `QueueShape`, `NoDuplicate`, `LossIsFinal`, `CompleteBlocksInOrder` |
| `fec_progress` | 3 blocks of 1 or 2 packets | `HoldNeedsBlock`, `HeadHoldEnds`, `BlocksSettle` |
| `fec_stuck` | 3 blocks, reordering by two | `ReadyReleased` is violated |
| `fec_restart` | 3 blocks, one restart, ids 0, 3, 6 | `ResumesAfterSilence`, `SilenceStartsAfresh` |
| `stream_sender` | 3 packets of size 1 or 2, three settings, one reconfiguration, one `open`, caps of 2 packets and 3 bytes, sequence modulo 2 | `TypeOK`, `QueueBound`, `QueueBytesExact`, `EncodedOnceInOrder`, `GateStops`, `SequenceHasNoHoles`, `KeepsBlockStream` |
| `sender_progress` | 2 packets of size 1 | `PartialBlockLeaves`, `CloseReturns` |
| `sender_order` | same | `BlocksLeaveInOrder` is violated |
| `link_reports` | 2 sessions of 3 reports, 1 loss each, 4 acceptances, window of 1, an answer one interval late | `TypeOK`, `ReportsAccounted`, `ChargedOnce`, `SamplesWithinSession`, `NewestHeard`, `RaisedOnFreshReport` |
| `rx_pipeline` | 2 access units of up to 3 datagrams, 2 packers, one unit with losses, queues of 1 and 2, MPP with room for 1 | `RxTypeOK`, `InLine`, `NoMixing`, `WholeUnitsComeOut`, `OwnCapture`, `NothingLeft`, `HoldingEnds`, `Stops` |
| `rtp_restart` | same without losses | `ResumesAtOnce` is violated |
| `tx_pipeline` | 3 camera frames, 1 noise frame, 1 flip of the camera, 1 bad JPEG, 2 workers, 2 in flight, queues of 1, 3 slots, MPP with room for 2 | `TxTypeOK`, `TxInLine`, `SlotsKept`, `OwnStamp`, `NewSizeIsIdr`, `JpegsMove`, `TxStops` |
| `tx_wedge` | 2 camera frames, 1 noise frame, 1 flip, 2 slots, MPP with room for 1 | `FallbackFlows` is violated |

Why the bounds are enough. A ring of 8 keeps the two halves and the wrap, and the
first sender starts two below it so that four blocks cross it. Ring arithmetic
depends on differences only, so one start is as good as another; a restarted
sender gets ids ahead of, behind and equal to the old ones. Eviction distance 1
against four blocks makes eviction happen; emit hold 1, receive hold 2, done hold
2 keep the code's order of the holds and let each expire before the next. A
(2,3) code has blocks that are decoded with and without repair, streamed in part,
and blocks with pads. In the sender, caps of 2 and 3 are reached by two blocks;
`QueueBound` is tight (a bound one lower fails), so all three threads do enqueue at once;
and a hole of one shows modulo 2.

In `link_reports` two sessions and three reports give a late report of the old
session, a hole, a duplicate and a reordering, and `StaleAfter` = 0 makes an answer
stale after one interval. In the pipelines a queue of one drops at the second frame,
and every queue is at its limit in some state; sequence numbers modulo 16 starting
at 6 and 14 wrap within the run and put the second packer ahead of or behind the
first. Larger instances were tried once and hold: the invariants of `rx_pipeline`
with three units (11.2 million states), those of `tx_pipeline` with two noise frames
(3.6 million) and with two flips (4.2 million).

*Exceptions stated in the properties.* `HoldNeedsBlock` is about one sender and as many
blocks as lie within half the ring: once a sender has restarted, or a gap has carried the
stream past half the ring, the newest blocks count as *behind* the head, and eviction can
take away the block that armed the hold before the head moves. It also needs a link that
reorders by no more blocks than the eviction distance. If a shard of the head's block
comes when that block is already stale, the next shard evicts it (`ring_evict_stale`) and
the head may land on a decoded block; if that shard completes the block after it,
`on_block_decoded` starts a hold, for the block is still ahead, and the emit engine then
returns both and leaves the hold running with nothing behind it. With `MaxReorder = 3` in
`FecLink.cfg`, where `EvictDist = 1`, TLC finds that after ten steps; in the code the
distance is 64 blocks. A newest block of *one* packet does the same on any link, for its
first shard makes the head's block stale, evicts it and decodes the block in one call.
That is the second disjunct of `HoldNeedsBlock`.

*The hold left behind* has a consequence. When it runs out, the first shard of the next
block finds it expired: the head passes that block, whose packets are counted lost. Its
next shard, if nothing was returned for `rx_hold_ms`, looks like a new session
(`maybe_resync_on_late_shard`), and the block is taken anew and returned. With
`SduCounts = {1, 2}` in `FecLink.cfg` TLC finds this after 13 steps, as a violation of
`LossIsFinal`. So `LossIsFinal` is stated for blocks of two packets or more, which are
those of `fec_link`. It also needs a `MaxDelay` no longer than the emit hold: otherwise a
block that the emit hold gave up can be taken again after a resync.

`ReportsAccounted` and `ChargedOnce` hold until a report of an older session comes late:
sessions are random numbers, so `handle_link_report` takes it for a new one. Then reports
that were accepted before may be accepted again and are young again; `RaisedOnFreshReport`
excepts a raise on such a report, and only while it is the last one taken. It does not
say that each raise has a report of its own: within `StaleAfter` intervals several may
rest on one. `NoMixing`,
`WholeUnitsComeOut` and `OwnCapture` speak of one packer: a second one begins with
another random sequence number and with pts that may repeat. `OwnCapture` also needs a
rate that divides the RTP clock, as the default of 30 and the run's do. At any other
(7, say) `note_au_timestamps` gives most frames a pts one too low, and the frame after
one that came out exactly gets the same pts as that one; `lookup_capture_pts` may then
take the time of the other. With `Clock = 3` and `Fps = 2` in `RxPipeline.cfg` TLC finds
such a frame after 21 steps; it concerns the latency figures, not the picture. `JpegsMove` holds while
fewer JPEGs failed than may be in flight, see below.

*Assumption of `fec_link`.* A shard is overtaken by at most `EvictDist` later
blocks (64 in the code). Beyond that `ring_evict_stale` has forgotten that the
block was finished, and a late shard opens it anew.

*What the order property excepts.* `CompleteBlocksInOrder` lets a packet come
late if the head had already passed its block, and lets packets of a block that
was given up incomplete come early or late. Early: a partial block that expires
behind a waiting head is emitted at once. Late: in one call the head gives up a
missing block, jumps over a partial one to a decoded one and returns that, and
`expire_rx` then gives the partial block up and returns what it held. TLC finds
this after 19 steps with `RxHold = 3` and five blocks; with the run's `RxHold = 2`
the partial block has expired before.

*Deadlock* is not checked: the bounds on blocks, inputs, opens and
reconfigurations stop every model in the end, and a closed sender does nothing.

*Fairness.* In `FecLink` only the receive thread's poll and the clock are fair,
which `recv_thread_main` provides by its 10 ms poll; nothing is asked of sender or
link. One poll is required in each tick because 10 ms is far less than the
shortest hold (60 ms). In `StreamSender` a call that was begun goes on, the send
thread runs and deadlines pass: each is a thread the scheduler runs, and the only
waits are `wait_for` with a timeout and the join of the send thread. Nobody has to
call anything. In the pipelines each stage thread, the workers, MPP and the main
thread's `Close` are fair, and in `TxPipeline` time (`Settle`): the pops wait 50 ms
at most. Nothing makes the encoder code, the link deliver, the camera come or the user
stop. The fairness of a thread is written with the guards of its actions,
`[]<>~Ready \/ []<><<Thread>>_vars`, which is weak fairness spelled out; that `Ready`
is the same as `ENABLED <<Thread>>_vars` was checked on these instances. An attempt of
the encode stage that changes nothing is no step, so fairness does not ask for it.
`LinkTelemetry` states safety only and assumes no fairness.

## What disagrees with the code's own words

* `fec_stuck`. `rs_block_erasure.hpp:60-62` calls the emit hold the "max time a
  decoded block waits". Block 0 arrives in part, block 1 not at all, block 2 is
  decoded. Block 0 is given up, which also clears `later_block_waiting`; the head
  is now at block 1, of which nothing is known, and `maybe_give_up_head` does
  nothing until a newly stored shard ahead of the head sets the flag again. If none
  comes, block 2 is never returned; and after `rx_hold_ms` the next shard's rebase
  drops it without counting its packets.
* `sender_order`. `rs_block_erasure.cpp:1159` bases the short emit hold on "Shards
  of block N are all sent before block N+1 starts". A block flushed by timeout and
  one filled by `input` are encoded in order but enqueued after `fec_mu` was let
  go, so they can overtake each other and alternate.

* `rtp_restart`. `docs/vstreamer.md:231` says that after the silence a restarted sender
  "resumes immediately". The FEC receiver does; the depacketizer behind it keeps the
  old sequence number, and a restarted packer draws its own from the process id and
  the time. If it lies behind, every datagram is discarded as reordered, for up to
  32768 of them. A switch of the source has the same effect without a restart, since
  `on_switch` configures `fps` of the payloader, which builds a new packer.
* `tx_wedge`. `docs/vstreamer.md:308` promises "UVC with noise fallback". A camera
  frame that reaches the encode stage after the encoder was given the size of the noise
  (or the other way round) is refused with `-EINVAL` and tried again for ever; the
  frames behind it wait until the source switches back. With one size for both sources
  the property holds.

Also met, without a run of their own: a JPEG that cannot be decoded stays in the
in-flight count of `jpeg_stage_main` (`tx_stages.cpp:255` and after 295), and after as
many as there are workers the stage waits for a result that never comes (`JpegsMove`
fails with `MaxBad` = `MaxInflight`); the encoder forgets a requested IDR when MPP is
full (`h264_encoder_mpp.cpp:1023`), where `docs/component-encoder.md:28` says the next
frame is one; after the user closes the window every present fails with `-EBADF` while
the app runs on; `component-sink.md:33` says a gated-off sink
drops packets, but the gate is looked at when a packet leaves the queue, so one
taken while the gate was closed is sent if it opens in time;
`stream_sender.hpp:149-150` asks never to take `mu` under `fec_mu`, which `input`
does (`stream_sender.cpp:675-679`) and, since nobody takes them the other way
round, without a deadlock; the flush in `reinit_fec_if_active` is there "so no app
packet is lost", but after `max_datagram` was lowered its longer shards are
dropped (`DropOversized`).

## Proofs

The constants are constrained only by `RingAssumption`, `RxAssumption`,
`LinkAssumption`, `SenderAssumption`, `TelemetryAssumption`, `RtpAssumption`,
`PipelineAssumption` and those of the modules they extend, which TLC evaluates in
every run of their modules. Every theorem below holds for all their values, but for
`HoldKept`, `NeverTwice`, `LossStays`, `OrderKept`, `TimesAreOwn`, `NothingMixes` and
`WholeComeOut`, which say what they add. Every one of the passing runs' 23 invariants and
nine action properties is stated by a theorem; in each, the inductive invariant says what
the property leaves unsaid.

*The FEC receiver* (`RsBlockErasureRx_proofs`, `FecLink_proofs`, `FecLinkOrder_proofs`)

* `RxShape`: `RxSpec => []QueueShape`. Between calls no decoded block waits at or behind
  the head, no id is both collected and decoded, nothing is held before the first shard.
  A call breaks the shape on its way, so the proof has an invariant for the inside of a
  call, `QueueOK` (ids are ring ids, collected and decoded ids are disjoint, no decoded
  block is *behind* the head), and `Rested`, `QueueOK` with no decoded block *at* the
  head. Each operator keeps `QueueOK`; the last one of every call, the emit engine, ends
  in `Rested`. That it does rests on `BlockRing_proofs`: passing a run of ids, or jumping
  to the nearest decoded block, leaves what was ahead ahead, for every even ring.
* `LinkShape`: the same behind the link, for every code, delay, reordering and number of
  restarts. `LinkInv` adds that all shards on the air carry ring ids.
* `LinkTyped`: `[]LinkTypeOK`. `InRange` says of every state inside a call that
  `done_order` is a list of at most `k_done_max` stamped ids, that no block being collected
  is without a shard or streamed past its end, and that stamps stay below their cap. Each
  operator keeps it next to `QueueOK`. The list is the long part: `mark_done` may push an
  id out, `PassHead` marks a run of ids, `forget` erases a set of them, `expire_done` cuts
  off a prefix.
* `HeardAtOnce`, `AfreshAfterSilence`: `ResumesAfterSilence` and `SilenceStartsAfresh`.
  `PushAirAfresh` follows one call through all of its operators: after the rebase the
  object holds nothing, so all it collects, returns or counts comes from the one shard,
  and a shard with index 0 is streamed in the same call since its block is at the head.

* `HoldKept`: `[]HoldNeedsBlock`, for `MaxReorder <= EvictDist`. Ids are a ring, but
  within half of it a session is a line: `Place` is the number of blocks since its first.
  On this line `OnTrack` says that nothing lies past `newest`, the head is at most two
  past it, or one while the hold runs, and the shards collected are those of the block at
  their place. `Fresh` says that between calls no block being collected is stale. `Held`
  says what keeps the hold running at each point of a call: a block being collected, one
  that waits decoded, or one just passed, which only a block of one packet leaves so.
  Every operator of a shard's arrival and of a tick keeps these (`EvictTrack`, `ArmTrack`,
  `DecodeTrack`, `EndTrack`, `TickKept`). By the bound on
  reordering no shard comes to a block that is already stale, so a call that makes an
  older block stale is the first of its own, and completes it only if it has one packet.
* `NeverTwice`: `NoDuplicate`, along a session shorter than half the ring (`OneSession`:
  beyond that an id alone does not say which of two blocks it is), for
  `MaxReorder <= EvictDist`, `MaxDelay < RxHold` and `RingMod \div 2 <= DoneMax`. The code
  has `k_done_max` at exactly half its ring of 256; the link's delay is the one thing it
  has to hope for, and the bound is tight: with `MaxDelay = RxHold` TLC finds a packet
  returned twice. `Once` says, at every point of a call, that what is still to be returned
  of a block (from `released` on, collected or decoded) has not been, and that of a block
  of which shards are on the air the receiver remembers enough: what it holds, its done
  mark, `last_shard_rx` and `last_payload_emit` are all no older than the block itself. So
  as long as a shard of it can come, `expire_rx`, `expire_done`, the rebase and the resync
  do not forget it, `ring_evict_stale` cannot by `Airborne`, and `mark_done` pushes no id
  out since half the ring's ids fit its list (`MarkOnce`, a counting argument). Each
  operator touches a block in one of three ways (kept as it is, left behind, or given out
  from where it stood), and `OnceMove` says that these keep `Once`.
* `LossStays`: `LossIsFinal`, along such a session of blocks of two packets or more, under
  the hypotheses of `NeverTwice` and `MaxDelay <= EmitHold`. A packet counted lost must
  be one that never was and never will be returned. `Final` says so at every point of a
  call: it was not returned, its block is not here, and no shard of that block can come.
  `Whole` (indexes are below n, so a block with n shards lacks none) keeps what was
  decoded from being counted lost. `Timely` says that a running hold is no older than the
  block at the head while shards of that can still come, so a hold that is over gives up
  only blocks of which nothing comes. An operator either spares the blocks
  (`Spares`) or drops some of them for good (`Drops`). The hold must not be
  older than the block it is applied to: `HoldHasBlock` draws that from `HoldKept`, for
  with two packets or more a hold always has a block behind it. Both hypotheses added are
  needed, see *The hold left behind* above.
* `OrderKept`: `CompleteBlocksInOrder`, along such a session of blocks of any size, under
  the hypotheses of `NeverTwice`; the bound on the delay is tight here too, while with
  `MaxReorder > EvictDist` TLC finds no violation on the small instance and the proof
  leaves open whether one exists. `Lined` says, at every point of a call, that all that
  was returned is *shown* (it is of a block behind the head, or was streamed from the one
  at the head) unless its block was given up, and that what this call has returned came in
  turn. So all the head returns follows what was returned before (`Follows`), for as long
  as it only moves on (`HeadOn`). It goes back only in a rebase or a resync, and then
  nothing is out of the blocks of which shards can still come (`NoneBefore`; `Younger`:
  those on the air are the newest ones, and the newer the younger). A block that is given up is
  excepted only if it is *counted*: `Gapped` says that what was streamed of a block being
  collected is here and that it lacks a packet, so giving it up counts that one lost
  (`LackingBroken`). Inside a call one block may lack none, the one whose shard has just
  been stored, and `try_decode_block` takes it out in the same call.

*The sender* (`StreamSender_proofs`)

* `SenderTyped`: `[]TypeOK`, with what the control thread may be doing in each of its
  states (`CtlInv`) and what each thread has in its hands (`HandInv`).
* `QueueBounded`: `[]QueueBound`. A thread that has made room carries a right to push one
  packet, and what never exceeds the cap plus two is the queue's length and those rights
  together (`RoomInv`).
* `BytesExact`: `[]QueueBytesExact`. The sum is a fold of the library; the lemmas show
  what it does at `Append`, `Tail` and `SubSeq`, and the rest is one step per action.
* `GateHolds`: `[]GateStops`. `GateInv` adds that the count of packets that left a closed
  gate is 0 while the send thread holds a packet past the gate.
* `NoHoles`: `SequenceHasNoHoles`. `SequenceInv` says where the sequence number stands
  between the stamp and the next one, in the session that is open.
* `InOneOrder`: `[]EncodedOnceInOrder`, over `push_app`, `flush`, `on_tick`, `init` and
  `disable`: what each hands out goes on where the last block ended.
* `SenderKeepsBlockStream`: the sender implements `BlockStream`. `PlaceInv` orders the
  shards on their way (gone, in hand, queued, yet to be enqueued): within a block indexes
  increase from each place to the next, and no two threads hold shards of one block;
  `IdInv` ties the next block id to the last block. A step then maps to the abstract
  step that makes a block, to one that sends a shard, or to none.

*Link telemetry* (`LinkTelemetry_proofs`)

* `TelemetryTyped`, `NewestAccepted`: `[]TypeOK`; `[]NewestHeard`, from `KnownInv`: the
  report the sender keeps is one of those it accepted.
* `ReportsCounted`: `[]ReportsAccounted`. `LatestInv` says that nothing newer than the
  report kept was accepted, so an acceptance opens exactly the holes it passes over; the
  proof is about the cardinality of the set of holes.
* `RaisesAreFresh`: `RaisedOnFreshReport`. `FreshInv` bounds the time since a first
  acceptance by the ages that sender, answer and controller know, unless the report
  taken last was accepted before (`TakenAgain`).
* `LossesChargedOnce`: `[]ChargedOnce`. Losses only grow along the reports of a session
  (`SentInv`); the controller's last figure, the answer under way and the sender's
  report are in this order (`ChargeInv`), so a step charges what no step charged before.
* `OneSessionSampled`: `[]SamplesWithinSession`: the invariant carries the counts whose
  steps the samples are, as the witness of the property.

*The pipelines* (`TxPipeline_proofs`, `RxPipeline_proofs`)

* `TxTyped`, `NoSlotLost`, `StampsAreOwn`, `SwitchBeginsWithIdr`: `[]TxTypeOK`,
  `[]SlotsKept`, `[]OwnStamp`, `NewSizeIsIdr`. `EncInv` relates the encoder's pending
  slots, their stamps and the frames in MPP one to one, so the oldest slot is the one of
  the packet that comes; `KeyInv` says that if the size open is not that of the last
  unit sent, the next unit to come out is an IDR, wherever it is. `SourceInv` and
  `JpegInv` keep the probed frame and the in-flight count.
* `FramesInOrder`: `[]TxInLine`. The frames under way are one line of eight parts, from
  the units sent back to the probed frame. `LineInv` orders every part and every two of
  them, and says that what is in the line was captured before what comes next; each
  action moves the first frame of a part to the end of the one before it, adds a new
  frame at the back, or takes frames out.
* `AllPresented`: `[]NothingLeft`. `LeftInv` adds that run is false when the present
  thread has ended: it leaves only so, nobody sets run again, and a push looks at it
  under the queue's lock. The mutant `PushAlways`, a push that does not, breaks it.
* `RxTyped`: `[]RxTypeOK`, from `TypeInv`. It gives the contents of every queue their
  type, down to the pieces of a NAL unit that the depacketizer has put together, bounds
  the ready list and the pending list, and says that frames are in hand only while they
  are pushed. Between calls the depacketizer holds no completed unit: `rtp_h264_depay`
  pops them all, and the lemmas on `feed` rest on that.
* `UnitsInLine`: `[]InLine`. `OrderInv` has three parts. `WireInv`: the datagrams that
  are still to be fed are ordered by unit, those of one unit have one RTP time, and only
  the last has the marker. `BuildInv`: the unit in progress is before all of these, or
  goes on with the next one and has its time. `LineInv`: from the queue of the
  depayloader to the screen there are nine parts, each rises, each is before those that
  feed it, and all of them are before the unit in progress and the wire. A step moves the
  first of a part to the end of the next, joins the datagrams of a new unit at the far
  end, or takes something out; `LineMoved` is the lemma they share. The step that needs
  all three is `NetReceive`: a datagram may finish two units, the old one since its time
  differs and its own since it has the marker. The marker matters: without it a late
  datagram of a unit that was handed on would make that unit come out a second time.
* `TimesAreOwn`: `[]OwnCapture`, for `Clock % Fps = 0`. `OwnInv` follows the capture time
  with the pts: a datagram of the first packer carries both of its unit; so does the unit
  in progress, since only units with one RTP time share it and no two units have the same;
  every entry of the ring belongs to its pts, so what `lookup_capture_pts` finds for a
  frame of MPP is its own time or none. With a second packer `OwnInv` promises nothing.
  The rate is needed twice: for a pts that survives the way to the RTP clock and back,
  and for two units to have two times.
* `NothingMixes`, `WholeComeOut`: `[]NoMixing` and `[]WholeUnitsComeOut`, for
  `Fps <= Clock` (no two units have one time) and `[]Steady`. Sequence numbers are
  compared on their ring, so after a gap of half of it the depacketizer takes the next
  datagram for an old one and refuses it. `Steady` excludes just that: units in a row
  that have all lost datagrams are fewer than half the ring. `FewUnits` states both
  without it, for a ring more than twice as long as all the units together, as in the
  run. Neither property survives without it: with a ring of 8 and three units a unit
  that lost nothing is missing, and with a ring of 4 pieces of two units are joined.
  `WholeInv` numbers the datagrams without end (`Numbering`: unit `u` begins with number
  `first[u]`, and has one datagram or three), and ties to these numbers what every
  datagram on the wire carries (`Fits`), what the depacketizer has taken last and made of
  it (`NetGood`), that all before it on the wire is past it (`InTurn`), and that of a
  unit that lost nothing all that is past it is still on the wire (`AllHere`). `FeedGood`
  is the heart: fed the next datagram, the depacketizer goes on with a fragmented NAL
  unit if and only if this is its next piece.

Where a lemma needs induction (a fold, the length of a run, a sum), it is a least
counterexample over the naturals (`NatMin`) for the one operator concerned, since the
library's induction theorems take an operator as their parameter.

Only model-checked:

* liveness (`HeadHoldEnds`, `BlocksSettle`, `PartialBlockLeaves`, `CloseReturns`,
  `HoldingEnds`, `Stops`, `JpegsMove`, `TxStops`): out of the prover's reach;
* `NoDuplicate`, `LossIsFinal` and `CompleteBlocksInOrder` at half the ring: `fec_link`
  sends four blocks on a ring of eight, one more than the theorems allow. Neither a theorem
  nor a run says anything of them after a restart of the sender, where an id does not tell
  which of two blocks it is.

## Not modelled

* The cedar and intel encoders: other hardware behind the same interface.
* Failures inside MPP and of memory in the encoder (the paths of
  `put_nv12_frame_unlocked` that return `-ENOMEM` or `-EIO`); opening it succeeds.
* STAP-A and malformed RTP datagrams, which the packer never makes.
* Device negotiation of V4L2, the noise signal, textures and video drivers of SDL, the
  file format of `mkv_sink`, the text of console commands and metrics.
* The bench app and its link emulator: test tools, whose losses and reorderings
  `FecLink` allows.
* The buffer pool: one free list behind one mutex, on which no order depends.
* In the rate control: amounts, filters, and the FEC code it sets.

## Plan

1. *Sender.* A property that a block flushed by reconfiguration reaches the queue, and
   the documented effect of a closed gate; `open`, `configure` and `close` on several
   threads.
2. *Encoder.* A requested IDR on a full MPP; failing allocations; the bench app, whose
   metrics are copied by two threads.
3. *Receiver.* The state the FEC object keeps over `close` and `open`; the UDP gap
   counter.
4. *Proofs.* `OrderKept` without the bound on reordering; the session theorems for every
   session of a link with restarts that are far enough apart.
