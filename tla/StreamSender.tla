---------------------------- MODULE StreamSender ----------------------------
(***************************************************************************)
(* components/stream_sender: FEC encoding, the bounded queue, the send     *)
(* gate and the send thread.                                               *)
(*                                                                         *)
(* Three threads put shards on the queue: the caller of input(), the send  *)
(* thread (a partial block whose timeout is due) and the thread of open(), *)
(* close() and configure() (a partial block that has to be flushed).  Each *)
(* encodes under fec_mu and enqueues after it let fec_mu go, one shard at  *)
(* a time, each shard in two critical sections of q_mu (enqueue_wire_copy: *)
(* make room, unlock, push).  An action is one critical section.           *)
(*                                                                         *)
(* configure, open and close are called from one thread at a time (the app *)
(* stops its console before it closes), input from another.  Left out: the *)
(* counters, the pacing delay (a send may take any time), the buffer pool  *)
(* (it never runs dry, it allocates) and the reverse link reports.         *)
(***************************************************************************)
EXTENDS RsBlockErasureTx

CONSTANTS
  Configs,      \* the [k, n, max]: fec_k, fec_n and max_datagram to choose from
  Sizes,        \* sizes of app packets
  Timeout,      \* fec_timeout_ms > 0
  PacketCap,    \* k_queue_packet_cap
  ByteLimit,    \* queue_byte_limit()
  SeqRange,     \* 2^16: stream_sequence is a uint16_t
  FirstIds,     \* ring ids random_device may draw for the first block
  Deadlines,    \* "later" or "never": set_enabled(on) with a timeout or without
  MaxInputs,    \* bound: calls of input()
  MaxOpens,     \* bound: calls of open()
  MaxConfigures \* bound: calls of configure()

VARIABLES
  fec,             \* the transmit half of rs_block_erasure
  cfg,             \* what configure() set, as kept under mu
  opened,
  ctl,             \* where the controlling thread is
  send_stop,
  pc, hand, stamp, \* the send thread: where it is, the shard it popped, its sequence
  air, room,       \* per thread: shards still to enqueue; has made room for one
  queue, queue_bytes,
  gate,            \* send_enabled and deadline_sec
  stream_sequence,
  opens, inputs, configures,  \* calls so far, for the bounds
  accepted,        \* history: packets push_app took
  blocks,          \* history: the blocks encoded
  wire,            \* history: the last call of sendto
  gone,            \* history: the shards handed to sendto, <<block, index>>
  leaked           \* history: sends since the gate was last open

control == <<opened, ctl, send_stop, opens>>
thread  == <<pc, hand, stamp>>
buffer  == <<air, room, queue, queue_bytes>>
sends   == <<wire, gone, leaked>>
vars == <<fec, cfg, control, thread, buffer, gate, stream_sequence,
          inputs, configures, accepted, blocks, sends>>

ASSUME SenderAssumption ==
  /\ Configs # {}
  /\ \A c \in Configs : /\ c.k \in Nat \ {0} /\ c.n \in Nat /\ c.k <= c.n
                        /\ c.max \in Nat
  /\ Sizes \subseteq Nat \ {0}
  /\ Timeout \in BOOLEAN
  /\ PacketCap \in Nat \ {0} /\ ByteLimit \in Nat \ {0} /\ SeqRange \in Nat \ {0}
  /\ FirstIds \subseteq BlockId
  /\ Deadlines \subseteq {"never", "later"}
  /\ {MaxInputs, MaxOpens, MaxConfigures} \subseteq Nat

Thread == {"input", "send", "control"}

None == [blk |-> 0, idx |-> 0, pkt |-> 0, size |-> 0]

Bytes(s) == FoldLeft(LAMBDA sum, sh : sum + sh.size, 0, s)

Init ==
  /\ fec \in {NewTx(id) : id \in FirstIds}
  /\ cfg \in Configs
  /\ opened = FALSE /\ ctl = "idle" /\ send_stop = FALSE
  /\ pc = "off" /\ hand = None /\ stamp = 0
  /\ air = [t \in Thread |-> <<>>] /\ room = [t \in Thread |-> FALSE]
  /\ queue = <<>> /\ queue_bytes = 0
  /\ gate = [on |-> FALSE, until |-> "never"]
  /\ stream_sequence = 0
  /\ opens = 0 /\ inputs = 0 /\ configures = 0
  /\ accepted = 0 /\ blocks = <<>>
  /\ wire = [blk |-> 0, seq |-> 0, session |-> 0] /\ gone = {} /\ leaked = 0

(* ------------------------------- encoding ------------------------------- *)

\* Thread t has called an operation of fec, under fec_mu, and holds its shards.
Encoded(t, r) ==
  /\ fec' = r.tx
  /\ air' = [air EXCEPT ![t] = r.air]
  /\ blocks' = IF r.air = <<>> THEN blocks
               ELSE Append(blocks, [id |-> fec.block_id, shards |-> r.air])

\* input(), once the previous call has returned.
InputPacket ==
  /\ inputs < MaxInputs /\ inputs' = inputs + 1
  /\ air["input"] = <<>>
  /\ \E s \in Sizes :
       LET p == [no |-> accepted + 1, size |-> s]
       IN  /\ Encoded("input", push_app(fec, p))
           /\ accepted' = IF fits(fec, p) THEN accepted + 1 ELSE accepted
  /\ UNCHANGED <<cfg, control, thread, room, queue, queue_bytes, gate,
                 stream_sequence, configures, sends>>

\* The deadline of the first pending packet passes.
TimeoutFalls ==
  /\ Timeout /\ fec.pending # <<>> /\ ~fec.due
  /\ fec' = [fec EXCEPT !.due = TRUE]
  /\ UNCHANGED <<cfg, control, thread, buffer, gate, stream_sequence,
                 inputs, configures, accepted, blocks, sends>>

(* --------------------------- enqueue_wire_copy -------------------------- *)

\* A shard longer than max_datagram, as it is now, is dropped.
DropOversized(t) ==
  /\ air[t] # <<>> /\ ~room[t]
  /\ Head(air[t]).size > cfg.max
  /\ air' = [air EXCEPT ![t] = Tail(@)]
  /\ UNCHANGED <<fec, cfg, control, thread, room, queue, queue_bytes, gate,
                 stream_sequence, inputs, configures, accepted, blocks, sends>>

\* Mutant of Evicted: room is made for the bytes only.
EvictedByBytes(size) ==
  LET HasRoom(i) == LET rest == SubSeq(queue, i, Len(queue))
                    IN  rest = <<>> \/ Bytes(rest) + size <= ByteLimit
  IN  SubSeq(queue, CHOOSE i \in 1 .. Len(queue) + 1 :
                      HasRoom(i) /\ \A j \in 1 .. i - 1 : ~HasRoom(j),
             Len(queue))

\* What is left once the oldest packets have made room for size more bytes.
Evicted(size) ==
  LET HasRoom(i) == LET rest == SubSeq(queue, i, Len(queue))
                    IN  \/ rest = <<>>
                        \/ Bytes(rest) + size <= ByteLimit /\ Len(rest) < PacketCap
  IN  SubSeq(queue, CHOOSE i \in 1 .. Len(queue) + 1 :
                      HasRoom(i) /\ \A j \in 1 .. i - 1 : ~HasRoom(j),
             Len(queue))

\* Mutant of MakeRoom: only the oldest of the evicted packets is uncounted.
MakeRoomCountsOne(t) ==
  /\ air[t] # <<>> /\ ~room[t]
  /\ Head(air[t]).size <= cfg.max
  /\ queue' = Evicted(Head(air[t]).size)
  /\ queue_bytes' = IF queue' = queue THEN queue_bytes ELSE queue_bytes - Head(queue).size
  /\ room' = [room EXCEPT ![t] = TRUE]
  /\ UNCHANGED <<fec, cfg, control, thread, air, gate, stream_sequence,
                 inputs, configures, accepted, blocks, sends>>

MakeRoom(t) ==
  /\ air[t] # <<>> /\ ~room[t]
  /\ Head(air[t]).size <= cfg.max
  /\ queue' = Evicted(Head(air[t]).size)
  /\ queue_bytes' = queue_bytes - (Bytes(queue) - Bytes(queue'))
  /\ room' = [room EXCEPT ![t] = TRUE]
  /\ UNCHANGED <<fec, cfg, control, thread, air, gate, stream_sequence,
                 inputs, configures, accepted, blocks, sends>>

PushBack(t) ==
  /\ room[t]
  /\ queue' = Append(queue, Head(air[t]))
  /\ queue_bytes' = queue_bytes + Head(air[t]).size
  /\ air' = [air EXCEPT ![t] = Tail(@)]
  /\ room' = [room EXCEPT ![t] = FALSE]
  /\ UNCHANGED <<fec, cfg, control, thread, gate, stream_sequence,
                 inputs, configures, accepted, blocks, sends>>

(* ------------------------------ send thread ----------------------------- *)

\* The top of send_thread_main's loop: a partial block whose timeout is due.
SendTick ==
  /\ pc = "tick"
  /\ IF send_stop
     THEN pc' = "off" /\ UNCHANGED <<fec, air, blocks>>
     ELSE pc' = "wait" /\ Encoded("send", on_tick(fec))
  /\ UNCHANGED <<cfg, control, hand, stamp, room, queue, queue_bytes, gate,
                 stream_sequence, inputs, configures, accepted, sends>>

\* Mutant of SendWait: the wait ends for a packet only.
SendWaitForPacket ==
  /\ pc = "wait" /\ air["send"] = <<>>
  /\ queue # <<>>
  /\ pc' = "gate"
  /\ hand' = Head(queue)
  /\ queue' = Tail(queue)
  /\ queue_bytes' = queue_bytes - Head(queue).size
  /\ UNCHANGED <<fec, cfg, control, stamp, air, room, gate, stream_sequence,
                 inputs, configures, accepted, blocks, sends>>

\* q_cv.wait_for returns, with a packet, told to stop, or timed out.
SendWait ==
  /\ pc = "wait" /\ air["send"] = <<>>
  /\ IF send_stop \/ queue = <<>>
     THEN pc' = (IF send_stop THEN "off" ELSE "tick")
          /\ UNCHANGED <<hand, queue, queue_bytes>>
     ELSE /\ pc' = "gate"
          /\ hand' = Head(queue)
          /\ queue' = Tail(queue)
          /\ queue_bytes' = queue_bytes - Head(queue).size
  /\ UNCHANGED <<fec, cfg, control, stamp, air, room, gate, stream_sequence,
                 inputs, configures, accepted, blocks, sends>>

Passed == gate.until = "passed"

\* Mutants of SendGate: the deadline is not looked at, and a packet is stamped
\* before it is dropped.
SendGateNoDeadline ==
  /\ pc = "gate"
  /\ IF gate.on
     THEN pc' = "stamp" /\ UNCHANGED <<hand, gate>>
     ELSE pc' = "tick" /\ hand' = None /\ UNCHANGED gate
  /\ UNCHANGED <<fec, cfg, control, stamp, buffer, stream_sequence,
                 inputs, configures, accepted, blocks, sends>>

SendGateAfterStamp ==
  /\ pc = "gate"
  /\ IF gate.on /\ ~Passed
     THEN pc' = "stamp" /\ UNCHANGED <<hand, gate, stream_sequence>>
     ELSE /\ pc' = "tick" /\ hand' = None
          /\ gate' = [on |-> FALSE, until |-> IF gate.on THEN "never" ELSE gate.until]
          /\ stream_sequence' = (stream_sequence + 1) % SeqRange
  /\ UNCHANGED <<fec, cfg, control, stamp, buffer,
                 inputs, configures, accepted, blocks, sends>>

\* Under gate_mu: the packet is dropped unless the gate is open right now.
SendGate ==
  /\ pc = "gate"
  /\ IF gate.on /\ ~Passed
     THEN pc' = "stamp" /\ UNCHANGED <<hand, gate>>
     ELSE /\ pc' = "tick" /\ hand' = None
          /\ gate' = [on |-> FALSE, until |-> IF gate.on THEN "never" ELSE gate.until]
  /\ UNCHANGED <<fec, cfg, control, stamp, buffer, stream_sequence,
                 inputs, configures, accepted, blocks, sends>>

\* fec stays enabled as long as the thread runs, so every packet is stamped.
SendStamp ==
  /\ pc = "stamp" /\ pc' = "pace"
  /\ IF fec.active
     THEN stamp' = stream_sequence /\ stream_sequence' = (stream_sequence + 1) % SeqRange
     ELSE stamp' = 0 /\ UNCHANGED stream_sequence
  /\ UNCHANGED <<fec, cfg, control, hand, buffer, gate,
                 inputs, configures, accepted, blocks, sends>>

\* pace_wire_send returns, at any time, and the packet is handed to sendto.
\* Nothing but a counter depends on the result: a failure is a loss on the link.
SendTo ==
  /\ pc = "pace" /\ pc' = "tick" /\ hand' = None /\ stamp' = 0
  /\ wire' = [blk |-> hand.blk, seq |-> stamp, session |-> opens]
  /\ gone' = gone \cup {<<hand.blk, hand.idx>>}
  /\ leaked' = IF gate.on /\ ~Passed THEN 0 ELSE leaked + 1
  /\ UNCHANGED <<fec, cfg, control, buffer, gate, stream_sequence,
                 inputs, configures, accepted, blocks>>

(* --------------------------------- gate --------------------------------- *)

set_enabled ==
  /\ \/ gate' = [on |-> FALSE, until |-> "never"] /\ UNCHANGED leaked
     \/ \E u \in Deadlines : gate' = [on |-> TRUE, until |-> u] /\ leaked' = 0
  /\ UNCHANGED <<fec, cfg, control, thread, buffer, stream_sequence,
                 inputs, configures, accepted, blocks, wire, gone>>

\* Time reaches deadline_sec.
DeadlinePasses ==
  /\ gate.until = "later" /\ gate' = [gate EXCEPT !.until = "passed"]
  /\ UNCHANGED <<fec, cfg, control, thread, buffer, stream_sequence,
                 inputs, configures, accepted, blocks, sends>>

(* -------------------------- open, close, configure ---------------------- *)

\* open(): the encoder is ready before the object counts as open.
OpenInit ==
  /\ ctl = "idle" /\ air["control"] = <<>> /\ ~opened
  /\ opens < MaxOpens /\ opens' = opens + 1
  /\ ctl' = "starting"
  /\ fec' = init(fec, cfg)
  /\ UNCHANGED <<cfg, opened, send_stop, thread, buffer, gate, stream_sequence,
                 inputs, configures, accepted, blocks, sends>>

OpenStart ==
  /\ ctl = "starting" /\ ctl' = "idle"
  /\ opened' = TRUE /\ send_stop' = FALSE
  /\ stream_sequence' \in 0 .. SeqRange - 1
  /\ pc' = "tick"
  /\ UNCHANGED <<fec, cfg, opens, hand, stamp, buffer, gate, inputs, configures,
                 accepted, blocks, sends>>

\* One call sets one key.  "fec none" stands for k = n = 1; "fec block", "fec_k"
\* and "fec_n" bring back what is stored of k and n.
OneKey(c, d) ==
  \/ c.n = d.n /\ c.max = d.max
  \/ c.k = d.k /\ c.max = d.max
  \/ c.k = d.k /\ c.n = d.n
  \/ c.max = d.max /\ <<1, 1>> \in {<<c.k, c.n>>, <<d.k, d.n>>}

\* configure(): the key is stored, then reinit_fec_if_active.
Configure ==
  /\ ctl = "idle" /\ air["control"] = <<>>
  /\ configures < MaxConfigures /\ configures' = configures + 1
  /\ cfg' \in {c \in Configs \ {cfg} : OneKey(cfg, c)}
  /\ ctl' = IF opened THEN "reinit" ELSE "idle"
  /\ UNCHANGED <<fec, opened, send_stop, opens, thread, buffer, gate,
                 stream_sequence, inputs, accepted, blocks, sends>>

\* Mutant of Reinit: the partial block is not flushed first.
ReinitNoFlush ==
  /\ ctl = "reinit" /\ ctl' = "idle"
  /\ Encoded("control", Nothing(init(fec, cfg)))
  /\ UNCHANGED <<cfg, opened, send_stop, opens, thread, room, queue, queue_bytes,
                 gate, stream_sequence, inputs, configures, accepted, sends>>

Reinit ==
  /\ ctl = "reinit" /\ ctl' = "idle"
  /\ LET r == flush(fec) IN Encoded("control", [r EXCEPT !.tx = init(@, cfg)])
  /\ UNCHANGED <<cfg, opened, send_stop, opens, thread, room, queue, queue_bytes,
                 gate, stream_sequence, inputs, configures, accepted, sends>>

\* close(): stop_send_thread up to the join.
CloseStop ==
  /\ ctl = "idle" /\ air["control"] = <<>> /\ opened
  /\ ctl' = "joining" /\ send_stop' = TRUE
  /\ UNCHANGED <<fec, cfg, opened, opens, thread, buffer, gate, stream_sequence,
                 inputs, configures, accepted, blocks, sends>>

CloseJoin ==
  /\ ctl = "joining" /\ pc = "off"
  /\ ctl' = "disabling" /\ send_stop' = FALSE
  /\ UNCHANGED <<fec, cfg, opened, opens, thread, buffer, gate, stream_sequence,
                 inputs, configures, accepted, blocks, sends>>

\* disable_fec(): the last partial block is flushed, into a queue nobody reads.
CloseDisable ==
  /\ ctl = "disabling" /\ ctl' = "closing"
  /\ LET r == flush(fec) IN Encoded("control", [r EXCEPT !.tx = disable(@)])
  /\ UNCHANGED <<cfg, opened, send_stop, opens, thread, room, queue, queue_bytes,
                 gate, stream_sequence, inputs, configures, accepted, sends>>

CloseClear ==
  /\ ctl = "closing" /\ air["control"] = <<>>
  /\ ctl' = "idle" /\ opened' = FALSE
  /\ queue' = <<>> /\ queue_bytes' = 0
  /\ UNCHANGED <<fec, cfg, send_stop, opens, thread, air, room, gate, stream_sequence,
                 inputs, configures, accepted, blocks, sends>>

(* ----------------------------- specification ---------------------------- *)

Enqueue(t) == DropOversized(t) \/ MakeRoom(t) \/ PushBack(t)

SendThread  == SendTick \/ SendWait \/ SendGate \/ SendStamp \/ SendTo \/ Enqueue("send")
ControlGoesOn == OpenStart \/ Reinit \/ CloseJoin \/ CloseDisable \/ CloseClear \/ Enqueue("control")

Next ==
  \/ InputPacket \/ Enqueue("input")
  \/ SendThread
  \/ set_enabled \/ DeadlinePasses \/ TimeoutFalls
  \/ OpenInit \/ Configure \/ CloseStop \/ ControlGoesOn

Spec == Init /\ [][Next]_vars

\* A call that was begun goes on, the send thread runs, deadlines pass.
\* Nobody has to call anything.
Fairness ==
  /\ WF_vars(SendThread) /\ WF_vars(ControlGoesOn)
  /\ WF_vars(Enqueue("input")) /\ WF_vars(TimeoutFalls)

(* ------------------------------ properties ------------------------------ *)

TypeOK ==
  /\ fec.block_id \in BlockId
  /\ fec.pending # <<>> => fec.active
  /\ fec.active => Len(fec.pending) < fec.k
  /\ ctl \in {"idle", "starting", "reinit", "joining", "disabling", "closing"}
  /\ pc \in {"off", "tick", "wait", "gate", "stamp", "pace"}
  /\ pc \in {"gate", "stamp", "pace"} <=> hand # None
  /\ pc # "off" => fec.active
  /\ stream_sequence \in 0 .. SeqRange - 1

\* A shard is pushed after the lock that made room for it was let go, so the
\* cap can be passed, but by no more than the other threads that enqueue.
QueueBound == Len(queue) <= PacketCap + Cardinality(Thread) - 1

\* The byte counter that room is made by is what the queue holds, however
\* pushes, pops, evictions and close() follow each other.
QueueBytesExact == queue_bytes = Bytes(queue)

\* The number of the last packet of a block; a parity shard has pkt 0.
LastPacket(shards) == Max({sh.pkt : sh \in ToSet(shards)})

\* The number of the last packet of the first b blocks of bs.
LastOf(bs, b) == IF b = 0 THEN 0 ELSE LastPacket(bs[b].shards)

\* stream_sender.cpp:763-764: whatever is reconfigured, flushed by timeout or
\* closed, every packet that input() took is encoded exactly once and in order:
\* each block goes on where the one before it ended, and what is pending where
\* the last one did.
EncodedOnceInOrder ==
  /\ \A b \in 1 .. Len(blocks) : \E data \in 1 .. Len(blocks[b].shards) :
       \A i \in 1 .. Len(blocks[b].shards) :
         blocks[b].shards[i].pkt = IF i <= data THEN LastOf(blocks, b - 1) + i ELSE 0
  /\ \A j \in 1 .. Len(fec.pending) :
       fec.pending[j].no = LastOf(blocks, Len(blocks)) + j
  /\ accepted = LastOf(blocks, Len(blocks)) + Len(fec.pending)

\* Between two stamps of one session no sequence number is used up by a packet
\* that never reached sendto: a receiver sees a gap only where one was lost.
SequenceHasNoHoles ==
  [][wire'.session = wire.session => wire'.seq = (wire.seq + 1) % SeqRange]_wire

\* At most the one packet that had passed the gate already leaves after it was
\* closed or its deadline passed.
GateStops == leaked <= 1

Shards(b) == {sh.idx : sh \in ToSet(blocks[b].shards)}

Link == INSTANCE BlockStream WITH
  made <- [b \in 1 .. Len(blocks) |-> [id |-> blocks[b].id, idxs |-> Shards(b)]]

\* The sender keeps what BlockStream, and with it FecLink, assumes of one.
KeepsBlockStream == Link!Spec

\* rs_block_erasure.cpp:1159: "Shards of block N are all sent before block N+1
\* starts".
BlocksLeaveInOrder == [][wire'.blk >= wire.blk]_wire

\* A packet does not stay behind in a partial block.
PartialBlockLeaves == fec.pending # <<>> ~> fec.pending = <<>>

\* close() gets past the join of the send thread, and returns.
CloseReturns == ctl \in {"joining", "disabling", "closing"} ~> ctl = "idle"
=============================================================================
