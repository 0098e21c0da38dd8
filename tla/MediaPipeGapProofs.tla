------------------------ MODULE MediaPipeGapProofs -------------------------
(***************************************************************************)
(* No sound is lost or repeated between the file and the callback:         *)
(* CoverInv is an invariant and SoundIsGapless holds, for any file, sizes, *)
(* codec delay, seeks and failures.                                        *)
(*                                                                         *)
(* A packet of the current serial moves from stage to stage and leaves     *)
(* none but to be played; what is discarded is of an older serial, or the  *)
(* stream is being closed.  So the packets before the one the callback     *)
(* holds are carried somewhere or were played, and since everything is in  *)
(* order (OrderInv) nothing behind the callback can carry them.            *)
(***************************************************************************)
EXTENDS MediaPipeOrderProofs

USE StreamsAssumption, FileAssumption, BoundsAssumption
    DEF StreamsAssumption, FileAssumption, BoundsAssumption

CoverOf(t) == FlushOnce(t) /\ ShutInv(t) /\ Covered(t) /\ HeldIsNext(t)

-----------------------------------------------------------------------------
(* What a step does to stream t, seen from its queues.                     *)

\* The read thread does nothing to it, or jumps ahead of it in a seek, ...
ReadsElsewhere(t) ==
    /\ pkts'[t] = pkts[t] /\ serial'[t] = serial[t] /\ base'[t] = base[t]
    /\ qabort'[t] = qabort[t] /\ dpc'[t] = dpc[t]
    /\ \/ InSeek(t)'
       \/ /\ ~InSeek(t)
          /\ pos' = pos \/ (pos' = pos + 1 /\ File[pos] # t)
\* ... empties its packet queue, ...
ReadsFlush(t) ==
    /\ pkts'[t] = <<>> /\ serial'[t] = serial[t] /\ base'[t] = base[t]
    /\ qabort'[t] = qabort[t] /\ dpc'[t] = dpc[t]
    /\ InSeek(t) /\ InSeek(t)'
\* ... opens a serial there, ...
ReadsSerial(t) ==
    /\ pkts[t] = <<>> /\ serial'[t] = serial[t] + 1
    /\ \E e : e.kind = "flush" /\ AppendOf(pkts'[t], pkts[t], e)
    /\ base'[t][serial'[t]] = pos /\ pos' = pos
    /\ dpc'[t] \in {dpc[t], "decode"}
    /\ dpc'[t] = "off" => qabort'[t] = qabort[t]
    /\ ~InSeek(t)'
\* ... or puts a packet there.
ReadsPacket(t) ==
    /\ serial'[t] = serial[t] /\ base'[t] = base[t]
    /\ qabort'[t] = qabort[t] /\ dpc'[t] = dpc[t]
    /\ ~InSeek(t) /\ ~InSeek(t)'
    /\ \E e : /\ AppendOf(pkts'[t], pkts[t], e)
              /\ \/ e.kind = "data" /\ e.at = pos /\ pos' = pos + 1
                 \/ e.kind = "null" /\ pos' = pos

\* One of these is what a step of the read thread does.
LEMMA ReadEffect ==
    ASSUME TypeOK, PhaseInv, NEW t \in Streams, ShutInv(t), read_thread
    PROVE  \/ ReadsElsewhere(t) \/ ReadsFlush(t) \/ ReadsSerial(t)
           \/ ReadsPacket(t)
<1> DEFINE Goal == \/ ReadsElsewhere(t) \/ ReadsFlush(t) \/ ReadsSerial(t)
                   \/ ReadsPacket(t)
<1>0. /\ Len(File) \in Nat /\ pos \in Nat /\ 0 \in 0 .. Len(File)
      /\ pkts \in [Streams -> Seq(Packet)] /\ serial \in [Streams -> Nat]
      /\ qabort \in [Streams -> {0, 1}] /\ base \in [Streams -> Seq(Positions)]
      /\ DOMAIN dpc = Streams
      BY DEF TypeOK, ReadTypes, Positions, QueueTypes, DecoderTypes
<1>1. ASSUME NEW s \in Streams, Open(s) PROVE Goal
  <2>1. /\ pos' = pos /\ pos = 1 /\ ~InSeek(t) /\ ~InSeek(t)'
        /\ pkts[s] = <<>> /\ serial[s] = 0 /\ packet_queue_start(s)
        BY <1>1 DEF Open, PhaseInv, InSeek, ShutInv
  <2>2. /\ qabort' = [qabort EXCEPT ![s] = 0] /\ base' = [base EXCEPT ![s] = <<1>>]
        /\ dpc' = [dpc EXCEPT ![s] = "decode"]
        BY <1>1, <2>1 DEF Open, packet_queue_start
  <2> DEFINE e == [kind |-> "flush", at |-> 0, serial |-> serial[s] + 1]
             q == Append(pkts[s], e)
  <2>3. /\ pkts' = [pkts EXCEPT ![s] = q]
        /\ serial' = [serial EXCEPT ![s] = serial[s] + 1]
        BY <2>1 DEF packet_queue_start
  <2>4. e \in Packet /\ e.kind = "flush" /\ pkts[s] \in Seq(Packet)
        BY <1>0, <2>1 DEF Packet
  <2> HIDE DEF e
  <2>5. AppendOf(q, pkts[s], e)
        BY <2>4, AppendIs
  <2> HIDE DEF q
  <2>6. CASE t = s
    <3>1. /\ AppendOf(pkts'[t], pkts[t], e) /\ serial'[t] = 1 /\ serial[t] = 0
          /\ base'[t] = <<1>> /\ dpc'[t] = "decode"
          BY <1>0, <2>1, <2>2, <2>3, <2>5, <2>6
    <3> QED
        BY <2>1, <2>4, <2>6, <3>1 DEF ReadsSerial
  <2>7. CASE t # s
        BY <1>0, <2>1, <2>2, <2>3, <2>7 DEF ReadsElsewhere
  <2> QED
      BY <2>6, <2>7
<1>2. CASE OpenFails \/ SeekDone \/ ClearEof \/ SetEof \/ LoopTop
  <2>1. UNCHANGED <<pkts, serial, base, qabort, dpc>> /\ ~InSeek(t)
        BY <1>2 DEF OpenFails, SeekDone, ClearEof, SetEof, LoopTop, queueVars,
           decoderVars, InSeek
  <2>2. InSeek(t)' \/ pos' = pos
        BY <1>2 DEF OpenFails, SeekDone, ClearEof, SetEof, LoopTop, InSeek
  <2> QED
      BY <2>1, <2>2 DEF ReadsElsewhere
<1>3. ASSUME NEW s \in Streams, SeekFlush(s) PROVE Goal
  <2>1. /\ UNCHANGED <<serial, qabort, base, dpc, todo, pos>>
        /\ rpc = "flush" /\ rpc' = "putflush" /\ s \in todo
        /\ pkts' = [pkts EXCEPT ![s] = <<>>]
        BY <1>3 DEF SeekFlush, packet_queue_flush, decoderVars
  <2>2. CASE t = s
        BY <1>0, <2>1, <2>2 DEF ReadsFlush, InSeek
  <2>3. CASE t # s
        BY <1>0, <2>1, <2>3 DEF ReadsElsewhere, InSeek
  <2> QED
      BY <2>2, <2>3
<1>4. CASE SeekPutFlush
  <2>1. /\ UNCHANGED <<pos, dpc>> /\ rpc = "putflush" /\ todo' = todo \ {cur}
        /\ packet_queue_put(cur, "flush", 0)
        /\ rpc' = IF todo = {cur} THEN "seeked" ELSE "flush"
        /\ base' = [base EXCEPT ![cur] = Append(@, seek_pos)]
        BY <1>4 DEF SeekPutFlush, decoderVars
  <2>2. /\ cur \in Streams /\ qabort[cur] = 0 /\ pkts[cur] = <<>>
        /\ pos = seek_pos /\ Len(base[cur]) = serial[cur]
        BY <2>1 DEF PhaseInv, TypeOK, ReadTypes
  <2>3. UNCHANGED qabort
        BY <1>0, <2>1, <2>2, PutEffect DEF TypeOK
  <2>4. CASE t # cur
    <3>1. pkts'[t] = pkts[t] /\ serial'[t] = serial[t]
          BY <1>0, <2>1, <2>2, <2>4, PutKeepsOthers
    <3>2. base'[t] = base[t]
          BY <1>0, <2>1, <2>4
    <3>3. InSeek(t)' \/ ~InSeek(t)
          BY <2>1, <2>4 DEF InSeek
    <3> QED
        BY <2>1, <2>3, <3>1, <3>2, <3>3 DEF ReadsElsewhere
  <2>5. CASE t = cur
    <3> DEFINE e == [kind |-> "flush", at |-> 0, serial |-> serial'[t]]
    <3>1. serial'[t] = serial[t] + 1 /\ AppendOf(pkts'[t], pkts[t], e)
          BY <1>0, <2>1, <2>2, <2>5, PutEffect, PutElements DEF TypeOK
    <3>2. base'[t] = Append(base[t], seek_pos) /\ base[t] \in Seq(Positions)
          BY <1>0, <2>1, <2>5
    <3>3. base'[t][serial'[t]] = pos
          BY <1>0, <2>2, <2>5, <3>1, <3>2
    <3>4. ~InSeek(t)'
          BY <2>1, <2>5 DEF InSeek
    <3> QED
        BY <2>1, <2>2, <2>3, <2>5, <3>1, <3>3, <3>4 DEF ReadsSerial
  <2> QED
      BY <2>4, <2>5
<1>5. CASE ReadFrame
  <2>1. /\ ~InSeek(t) /\ ~InSeek(t)' /\ rpc = "read" /\ UNCHANGED <<base, dpc>>
        BY <1>5 DEF ReadFrame, InSeek, decoderVars
  <2>2. qabort[t] = 0
        BY <2>1 DEF PhaseInv
  <2>3. CASE /\ UNCHANGED queueVars
             /\ pos' = pos \/ (pos' = pos + 1 /\ File[pos] \notin Streams)
        BY <2>1, <2>3 DEF ReadsElsewhere, queueVars
  <2>4. CASE /\ pos <= Len(File) /\ pos' = pos + 1 /\ File[pos] \in Streams
             /\ packet_queue_put(File[pos], "data", pos)
    <3>1. pos \in 0 .. Len(File)
          BY <1>0, <2>4
    <3>2. UNCHANGED qabort
          BY <2>4, <3>1, PutEffect DEF TypeOK
    <3>3. CASE t = File[pos]
      <4> DEFINE e == [kind |-> "data", at |-> pos, serial |-> serial'[t]]
      <4>1. serial'[t] = serial[t] /\ AppendOf(pkts'[t], pkts[t], e)
            BY <2>2, <2>4, <3>1, <3>3, PutEffect, PutElements DEF TypeOK
      <4> QED
          BY <2>1, <2>4, <3>2, <4>1 DEF ReadsPacket
    <3>4. CASE t # File[pos]
      <4>1. pkts'[t] = pkts[t] /\ serial'[t] = serial[t]
            BY <2>4, <3>1, <3>4, PutKeepsOthers
      <4> QED
          BY <2>1, <2>4, <3>2, <3>4, <4>1 DEF ReadsElsewhere
    <3> QED
        BY <3>3, <3>4
  <2> QED
      BY <1>5, <2>3, <2>4 DEF ReadFrame
<1>6. ASSUME NEW s \in Streams, PutNull(s) PROVE Goal
  <2>1. /\ ~InSeek(t) /\ ~InSeek(t)' /\ rpc = "putnull" /\ pos' = pos
        /\ packet_queue_put(s, "null", 0) /\ UNCHANGED <<base, dpc>>
        BY <1>6 DEF PutNull, InSeek, decoderVars
  <2>2. qabort[t] = 0
        BY <2>1 DEF PhaseInv
  <2>3. UNCHANGED qabort
        BY <1>0, <2>1, PutEffect DEF TypeOK
  <2>4. CASE t = s
    <3> DEFINE e == [kind |-> "null", at |-> 0, serial |-> serial'[t]]
    <3>1. serial'[t] = serial[t] /\ AppendOf(pkts'[t], pkts[t], e)
          BY <1>0, <2>1, <2>2, <2>4, PutEffect, PutElements DEF TypeOK
    <3> QED
        BY <2>1, <2>3, <3>1 DEF ReadsPacket
  <2>5. CASE t # s
    <3>1. pkts'[t] = pkts[t] /\ serial'[t] = serial[t]
          BY <1>0, <2>1, <2>5, PutKeepsOthers
    <3> QED
        BY <2>1, <2>3, <3>1 DEF ReadsElsewhere
  <2> QED
      BY <2>4, <2>5
<1> QED
    BY <1>1, <1>2, <1>3, <1>4, <1>5, <1>6 DEF read_thread

\* Nor does it touch anything behind the packet queues.
LEMMA ReadLeaves ==
    ASSUME read_thread
    PROVE  UNCHANGED <<pkt, pkt_serial, codec, frm, unread, held, shown, epc,
                       closing>>
    BY DEF read_thread, Open, SeekFlush, PutNull, OpenFails, LoopTop,
       SeekPutFlush, SeekDone, ClearEof, ReadFrame, SetEof, decoderVars,
       frameVars, eventVars

\* A decoder leaves the other streams alone ...
LEMMA DecoderElsewhere ==
    ASSUME TypeOK, NEW t \in Streams, t # "video", NEW s \in Streams,
           decoder_thread(s), t # s \/ DropEarly
    PROVE  /\ pkts'[t] = pkts[t] /\ pkt'[t] = pkt[t] /\ dpc'[t] = dpc[t]
           /\ pkt_serial'[t] = pkt_serial[t] /\ codec'[t] = codec[t]
           /\ frm'[t] = frm[t] /\ unread'[t] = unread[t]
<1>1. CASE DropEarly
  <2>1. /\ UNCHANGED <<pkts, pkt, pkt_serial, codec, unread>>
        /\ dpc' = [dpc EXCEPT !["video"] = "decode"]
        /\ frm' = [frm EXCEPT !["video"] = NoFrame]
        BY <1>1 DEF DropEarly, queueVars, frameVars
  <2> QED
      BY <2>1 DEF TypeOK, DecoderTypes
<1>2. CASE t # s /\ ~DropEarly
  <2>1. CASE Decode(s)
        BY <1>2, <2>1, DecodeElements DEF Decode, OnlyAt, queueVars, frameVars
  <2>2. CASE packet_queue_get(s)
    <3>1. UNCHANGED <<codec, frm, unread>>
          BY <2>2 DEF packet_queue_get, frameVars
    <3>2. /\ OnlyAt(pkts', pkts, s) /\ OnlyAt(pkt', pkt, s) /\ OnlyAt(dpc', dpc, s)
          /\ OnlyAt(pkt_serial', pkt_serial, s)
          BY <2>2, GetElements
    <3> QED
        BY <1>2, <3>1, <3>2 DEF OnlyAt
  <2>3. CASE UsePacket(s)
        BY <1>2, <2>3, UseElements DEF UsePacket, OnlyAt, queueVars, frameVars
  <2>4. CASE QueueFrame(s)
        BY <1>2, <2>4, FrameElements DEF OnlyAt, queueVars
  <2> QED
      BY <1>2, <2>1, <2>2, <2>3, <2>4 DEF decoder_thread
<1> QED
    BY <1>1, <1>2

\* ... and all of them what is not a decoder's.
LEMMA DecoderLeaves ==
    ASSUME NEW s \in Streams, decoder_thread(s)
    PROVE  UNCHANGED <<rpc, todo, pos, serial, qabort, base, held, shown, epc,
                       closing>>
    BY DEF decoder_thread, Decode, packet_queue_get, UsePacket, QueueFrame,
       DropEarly, readVars, queueVars, frameVars, eventVars

\* A stream other than the pictures' keeps all that presentation and the event
\* thread do not take or discard.
LEMMA EventLeaves ==
    ASSUME TypeOK, NEW t \in Streams,
           \/ sdl_audio_callback \/ event_loop \/ stream_seek \/ UserStop
           \/ UNCHANGED vars
    PROVE  /\ UNCHANGED <<rpc, todo, pos, serial, base, dpc, pkt, pkt_serial,
                          codec, frm>>
           /\ pkts'[t] = pkts[t] \/ pkts'[t] = <<>>
           /\ qabort'[t] = qabort[t] \/ qabort'[t] = 1
<1>1. CASE JoinDecoder
  <2>1. /\ UNCHANGED <<rpc, todo, pos, serial, qabort, base, dpc, pkt,
                       pkt_serial, codec, frm>>
        /\ pkts' = [pkts EXCEPT ![Closed1st] = <<>>]
        BY <1>1 DEF JoinDecoder, packet_queue_flush, readVars, decoderVars
  <2> QED
      BY <2>1 DEF TypeOK, QueueTypes
<1>2. CASE AbortDecoder
  <2>1. /\ UNCHANGED <<rpc, todo, pos, serial, base, dpc, pkt, pkt_serial,
                       codec, frm, pkts>>
        /\ qabort' = [qabort EXCEPT ![Closed1st] = 1]
        BY <1>2 DEF AbortDecoder, packet_queue_abort, readVars, decoderVars
  <2> QED
      BY <2>1 DEF TypeOK, QueueTypes
<1>3. CASE \/ sdl_audio_callback \/ RefreshIdle \/ RefreshStale \/ RefreshDue
           \/ VideoShow \/ CheckEnd \/ BeginClose \/ JoinReadThread
           \/ stream_seek \/ UserStop \/ UNCHANGED vars
  <2>1. UNCHANGED <<readVars, queueVars, decoderVars, base>>
        BY <1>3 DEF sdl_audio_callback, AudioTake, AudioPlay, RefreshIdle,
           RefreshStale, RefreshDue, VideoShow, CheckEnd, BeginClose,
           JoinReadThread, stream_seek, UserStop, vars
  <2> QED
      BY <2>1 DEF readVars, queueVars, decoderVars
<1> QED
    BY <1>1, <1>2, <1>3 DEF event_loop

-----------------------------------------------------------------------------
(* A serial has one flush packet.                                          *)

\* Packets that are put are no flush packets, packets may be discarded, and a
\* codec may lose its first.
LEMMA FlushOnceKept ==
    ASSUME TypeOK, NEW t \in Streams, FlushOnce(t),
           serial'[t] = serial[t], pkt_serial'[t] = pkt_serial[t],
           \/ pkts'[t] = pkts[t] \/ pkts'[t] = <<>>
           \/ \E e : e.kind # "flush" /\ AppendOf(pkts'[t], pkts[t], e),
           codec'[t] = codec[t] \/ TailOf(codec'[t], codec[t]),
           dpc'[t] # "check" \/ (dpc'[t] = dpc[t] /\ pkt'[t] = pkt[t])
    PROVE  FlushOnce(t)'
<1>0. Len(pkts[t]) \in Nat /\ Len(codec[t]) \in Nat
  <2>1. pkts[t] \in Seq(Packet) /\ codec[t] \in Seq(Packet)
        BY DEF TypeOK, QueueTypes, DecoderTypes
  <2> QED
      BY <2>1
<1>1. ASSUME NEW i \in 1 .. Len(pkts'[t]), pkts'[t][i].kind = "flush"
      PROVE  i = 1 /\ pkt_serial'[t] < serial'[t]
  <2>1. CASE pkts'[t] = pkts[t]
        BY <1>1, <2>1 DEF FlushOnce
  <2>2. CASE pkts'[t] = <<>>
        BY <2>2
  <2>3. ASSUME NEW e, e.kind # "flush", AppendOf(pkts'[t], pkts[t], e)
        PROVE  i \in 1 .. Len(pkts[t]) /\ pkts'[t][i] = pkts[t][i]
        BY <1>0, <1>1, <2>3 DEF AppendOf
  <2> QED
      BY <1>1, <2>1, <2>2, <2>3 DEF FlushOnce
<1>2. ASSUME NEW i \in 1 .. Len(codec'[t])
      PROVE  \E j \in 1 .. Len(codec[t]) : codec'[t][i] = codec[t][j]
  <2>1. CASE codec'[t] = codec[t]
        BY <2>1
  <2>2. CASE TailOf(codec'[t], codec[t])
    <3>1. i + 1 \in 1 .. Len(codec[t]) /\ codec'[t][i] = codec[t][i + 1]
          BY <1>0, <2>2 DEF TailOf
    <3> QED
        BY <3>1
  <2> QED
      BY <2>1, <2>2
<1>3. ASSUME NEW i \in 1 .. Len(codec'[t])
      PROVE  /\ codec'[t][i].serial <= pkt_serial'[t]
             /\ dpc'[t] = "check" /\ pkt'[t].kind = "flush" =>
                   codec'[t][i].serial < pkt_serial'[t]
  <2>1. PICK j \in 1 .. Len(codec[t]) : codec'[t][i] = codec[t][j]
        BY <1>2
  <2> QED
      BY <2>1 DEF FlushOnce
<1> QED
    BY <1>1, <1>3 DEF FlushOnce

\* The flush packet of a new serial is the first in its queue.
LEMMA ReadFlushOnce ==
    ASSUME TypeOK, PhaseInv, NEW t \in Streams, FlushOnce(t), ShutInv(t),
           SerialOf(t), read_thread
    PROVE  FlushOnce(t)'
<1>0. UNCHANGED <<pkt, pkt_serial, codec>>
      BY ReadLeaves
<1>1. CASE ReadsElsewhere(t)
      BY <1>0, <1>1, FlushOnceKept DEF ReadsElsewhere
<1>2. CASE ReadsFlush(t)
      BY <1>0, <1>2, FlushOnceKept DEF ReadsFlush
<1>3. CASE ReadsPacket(t)
  <2>1. PICK e : /\ AppendOf(pkts'[t], pkts[t], e)
                 /\ e.kind = "data" \/ e.kind = "null"
        BY <1>3 DEF ReadsPacket
  <2>2. e.kind # "flush"
        BY <2>1
  <2> QED
      BY <1>0, <1>3, <2>1, <2>2, FlushOnceKept DEF ReadsPacket
<1>4. CASE ReadsSerial(t)
  <2>1. Len(pkts'[t]) = 1
        BY <1>4 DEF ReadsSerial, AppendOf
  <2>2. serial[t] \in Nat /\ pkt_serial[t] \in Int
        BY DEF TypeOK, QueueTypes, DecoderTypes
  <2>3. pkt_serial'[t] < serial'[t]
        BY <1>0, <1>4, <2>2 DEF SerialOf, ReadsSerial
  <2>4. dpc'[t] = "check" => dpc[t] = "check"
        BY <1>4 DEF ReadsSerial
  <2> QED
      BY <1>0, <2>1, <2>3, <2>4 DEF FlushOnce
<1> QED
    BY <1>1, <1>2, <1>3, <1>4, ReadEffect

\* A decoder that takes the flush packet has nothing of its serial yet.
LEMMA DecoderFlushOnce ==
    ASSUME TypeOK, NEW t \in Streams, t # "video", FlushOnce(t), SerialOf(t),
           NEW s \in Streams, decoder_thread(s)
    PROVE  FlushOnce(t)'
<1>0. serial'[t] = serial[t]
      BY DecoderLeaves
<1>1. CASE t # s \/ DropEarly
      BY <1>0, <1>1, DecoderElsewhere, FlushOnceKept
<1>2. CASE Decode(t)
  <2>1. UNCHANGED <<pkts, pkt, pkt_serial>> /\ dpc'[t] # "check"
        BY <1>2, DecodeElements DEF queueVars
  <2>2. codec'[t] = codec[t] \/ TailOf(codec'[t], codec[t])
        BY <1>2, DecodeElements
  <2> QED
      BY <1>0, <2>1, <2>2, FlushOnceKept
<1>3. CASE QueueFrame(t)
  <2>1. UNCHANGED <<pkts, pkt, pkt_serial, codec>> /\ dpc'[t] # "check"
        BY <1>3, FrameElements DEF queueVars
  <2> QED
      BY <1>0, <2>1, FlushOnceKept
<1>4. CASE UsePacket(t)
  <2>1. UNCHANGED <<pkts, pkt_serial>> /\ dpc'[t] # "check" /\ dpc[t] = "check"
        BY <1>4, UseElements DEF queueVars
  <2>2. CASE codec'[t] = codec[t]
        BY <1>0, <2>1, <2>2, FlushOnceKept
  <2>3. CASE codec'[t] = <<>>
        BY <1>0, <2>1, <2>3 DEF FlushOnce
  <2>4. CASE AppendOf(codec'[t], codec[t], pkt[t])
    <3>1. Len(codec[t]) \in Nat /\ pkt_serial[t] \in Int
          BY DEF TypeOK, DecoderTypes
    <3>2. pkt[t].serial = pkt_serial[t]
          BY <2>1 DEF SerialOf
    <3>3. ASSUME NEW i \in 1 .. Len(codec'[t])
          PROVE  codec'[t][i].serial <= pkt_serial[t]
      <4>1. CASE i \in 1 .. Len(codec[t])
            BY <2>4, <4>1 DEF AppendOf, FlushOnce
      <4>2. CASE i = Len(codec[t]) + 1
            BY <2>4, <3>1, <3>2, <4>2 DEF AppendOf
      <4> QED
          BY <2>4, <3>1, <4>1, <4>2 DEF AppendOf
    <3> QED
        BY <1>0, <2>1, <3>3 DEF FlushOnce
  <2> QED
      BY <1>4, <2>2, <2>3, <2>4, UseElements
<1>5. CASE packet_queue_get(t)
  <2>0. codec' = codec
        BY <1>5 DEF packet_queue_get
  <2>1. CASE UNCHANGED <<pkts, pkt, pkt_serial>> /\ dpc'[t] \in {"get", "exit"}
        BY <1>0, <2>0, <2>1, FlushOnceKept
  <2>2. CASE /\ pkts[t] # <<>> /\ dpc'[t] = "check"
             /\ TailOf(pkts'[t], pkts[t]) /\ pkt'[t] = pkts[t][1]
             /\ pkt_serial'[t] = pkts[t][1].serial
    <3>1. /\ Len(pkts[t]) \in Nat /\ Len(codec[t]) \in Nat
          /\ serial[t] \in Nat /\ pkt_serial[t] \in Int
      <4>1. pkts[t] \in Seq(Packet) /\ codec[t] \in Seq(Packet)
            BY DEF TypeOK, QueueTypes, DecoderTypes
      <4> QED
          BY <4>1 DEF TypeOK, QueueTypes, DecoderTypes
    <3>2. \A i \in 1 .. Len(codec[t]) : codec[t][i].serial \in Int
      <4>1. codec[t] \in Seq(Packet)
            BY DEF TypeOK, DecoderTypes
      <4>2. \A p \in Packet : p.serial \in Int
            BY DEF Packet
      <4> QED
          BY <4>1, <4>2
    <3>3. 1 \in 1 .. Len(pkts[t])
          BY <2>2, <3>1 DEF TailOf
    <3>4. pkt_serial'[t] = serial[t] /\ pkt_serial[t] <= serial[t]
          BY <2>2, <3>3 DEF SerialOf
    <3>5. pkt'[t].kind = "flush" => pkt_serial[t] < serial[t]
          BY <2>2, <3>3 DEF FlushOnce
    <3>6. ASSUME NEW i \in 1 .. Len(pkts'[t]), pkts'[t][i].kind = "flush"
          PROVE  FALSE
      <4>1. i + 1 \in 1 .. Len(pkts[t]) /\ pkts'[t][i] = pkts[t][i + 1]
            BY <2>2, <3>1 DEF TailOf
      <4> QED
          BY <3>6, <4>1 DEF FlushOnce
    <3>7. ASSUME NEW i \in 1 .. Len(codec[t])
          PROVE  /\ codec[t][i].serial <= pkt_serial'[t]
                 /\ pkt'[t].kind = "flush" => codec[t][i].serial < pkt_serial'[t]
      <4>1. codec[t][i].serial <= pkt_serial[t] /\ codec[t][i].serial \in Int
            BY <3>2 DEF FlushOnce
      <4> QED
          BY <3>1, <3>4, <3>5, <4>1
    <3> QED
        BY <2>0, <3>6, <3>7 DEF FlushOnce
  <2> QED
      BY <1>5, <2>1, <2>2, GetElements
<1> QED
    BY <1>1, <1>2, <1>3, <1>4, <1>5 DEF decoder_thread

\* Every step keeps it so.
LEMMA FlushOnceStep ==
    ASSUME TypeOK, PhaseInv, NEW t \in Streams, t # "video", FlushOnce(t),
           ShutInv(t), SerialOf(t), [Next]_vars
    PROVE  FlushOnce(t)'
<1>1. CASE read_thread
      BY <1>1, ReadFlushOnce
<1>2. ASSUME NEW s \in Streams, decoder_thread(s) PROVE FlushOnce(t)'
      BY <1>2, DecoderFlushOnce
<1>3. CASE \/ sdl_audio_callback \/ event_loop \/ stream_seek \/ UserStop
           \/ UNCHANGED vars
      BY <1>3, EventLeaves, FlushOnceKept
<1> QED
    BY <1>1, <1>2, <1>3 DEF Next

-----------------------------------------------------------------------------
(* A stream that is not open has an aborted queue.                         *)

\* No step opens a stream but Open, and JoinDecoder drops only aborted ones.
LEMMA ShutStep ==
    ASSUME TypeOK, EventInv, PhaseInv, NEW t \in Streams, ShutInv(t), [Next]_vars
    PROVE  ShutInv(t)'
<1>1. CASE read_thread
  <2>1. rpc # "exit" /\ UNCHANGED <<epc, closing>>
        BY <1>1, ReadLeaves DEF read_thread, Open, SeekFlush, PutNull,
           OpenFails, LoopTop, SeekPutFlush, SeekDone, ClearEof, ReadFrame, SetEof
  <2>2. epc \notin {"close", "joinDecoder", "closed"}
        BY <2>1 DEF PhaseInv
  <2>3. rpc' = "open" => pos' = 1
    <3>1. rpc' = "open" => \E s \in Streams : Open(s)
          BY <1>1 DEF read_thread, Open, SeekFlush, PutNull, OpenFails, LoopTop,
             SeekPutFlush, SeekDone, ClearEof, ReadFrame, SetEof
    <3> QED
        BY <3>1 DEF Open, ShutInv
  <2>4. dpc'[t] = "off" => dpc[t] = "off" /\ qabort'[t] = qabort[t]
        BY <1>1, ReadEffect DEF ReadsElsewhere, ReadsFlush, ReadsSerial, ReadsPacket
  <2> QED
      BY <2>1, <2>2, <2>3, <2>4 DEF ShutInv
<1>2. ASSUME NEW s \in Streams, decoder_thread(s) PROVE ShutInv(t)'
  <2>1. UNCHANGED <<rpc, pos, qabort, epc, closing>>
        BY <1>2, DecoderLeaves
  <2>2. \/ dpc' = dpc
        \/ \E u \in Streams, x \in {"decode", "get", "check", "emit", "exit"} :
              dpc' = [dpc EXCEPT ![u] = x]
        BY <1>2 DEF decoder_thread, Decode, packet_queue_get, UsePacket,
           QueueFrame, DropEarly
  <2>3. dpc'[t] = "off" => dpc[t] = "off"
        BY <2>2 DEF TypeOK, DecoderTypes
  <2> QED
      BY <2>1, <2>3 DEF ShutInv
<1>3. CASE JoinReadThread
  <2>1. /\ closing' = {s \in Streams : dpc[s] # "off"}
        /\ UNCHANGED <<rpc, pos, dpc, qabort>>
        BY <1>3 DEF JoinReadThread, readVars, queueVars, decoderVars
  <2> QED
      BY <2>1 DEF ShutInv
<1>4. CASE JoinDecoder
  <2>1. /\ closing' = closing \ {Closed1st} /\ epc = "joinDecoder"
        /\ UNCHANGED <<rpc, pos, dpc, qabort>>
        BY <1>4 DEF JoinDecoder, readVars, decoderVars
  <2>2. qabort[Closed1st] = 1
        BY <2>1 DEF PhaseInv
  <2> QED
      BY <2>1, <2>2 DEF ShutInv
<1>5. CASE AbortDecoder
  <2>1. /\ epc = "close" /\ UNCHANGED <<rpc, pos, dpc, closing>>
        /\ qabort' = [qabort EXCEPT ![Closed1st] = 1]
        BY <1>5 DEF AbortDecoder, packet_queue_abort, readVars, decoderVars
  <2>2. qabort'[t] = qabort[t] \/ qabort'[t] = 1
        BY <2>1 DEF TypeOK, QueueTypes
  <2> QED
      BY <2>1, <2>2 DEF ShutInv
<1>6. CASE \/ RefreshIdle \/ RefreshStale \/ RefreshDue
           \/ VideoShow \/ CheckEnd \/ BeginClose
  <2>1. /\ UNCHANGED <<rpc, pos, dpc, qabort>>
        /\ epc' \notin {"close", "joinDecoder", "closed"}
        BY <1>6 DEF RefreshIdle, RefreshStale, RefreshDue, VideoShow, CheckEnd,
           BeginClose, readVars, queueVars, decoderVars
  <2> QED
      BY <2>1 DEF ShutInv
<1>7. CASE sdl_audio_callback \/ stream_seek \/ UserStop \/ UNCHANGED vars
  <2>1. UNCHANGED <<rpc, pos, dpc, qabort, epc, closing>>
        BY <1>7 DEF sdl_audio_callback, AudioTake, AudioPlay, stream_seek,
           UserStop, vars, readVars, queueVars, decoderVars, eventVars
  <2> QED
      BY <2>1 DEF ShutInv
<1> QED
    BY <1>1, <1>2, <1>3, <1>4, <1>5, <1>6, <1>7 DEF Next, event_loop

-----------------------------------------------------------------------------
(* Nothing of the current serial is missing.                               *)

\* Where something is carried behind the packet queue.
Taken(t, q) ==
    InPkt(t, q) \/ InCodec(t, q) \/ InFrm(t, q) \/ InUnread(t, q) \/ InHeld(t, q)

\* It is below what is in the packet queue, and of no later serial.
LEMMA TakenBelow ==
    ASSUME NEW t \in Streams, OrderOf(t)
    PROVE  /\ dpc[t] = "check" /\ pkt[t].kind = "data" =>
                 Place(pkt[t]) \in BelowPkts(t)
           /\ \A i \in 1 .. Len(codec[t]) : Place(codec[t][i]) \in BelowPkts(t)
           /\ dpc[t] = "emit" => <<frm[t].of, frm[t].at>> \in BelowPkts(t)
           /\ \A i \in 1 .. Len(unread[t]) : Place(unread[t][i]) \in BelowPkts(t)
           /\ held[t] # NoFrame => Place(held[t]) \in BelowPkts(t)
<1>1. /\ BelowPkt(t) \subseteq BelowPkts(t) /\ BelowCodec(t) \subseteq BelowPkts(t)
      /\ BelowFrm(t) \subseteq BelowPkts(t) /\ BelowUnread(t) \subseteq BelowPkts(t)
      BY DEF BelowPkt, BelowCodec, BelowFrm, BelowUnread
<1> QED
    BY <1>1 DEF OrderOf, PktOrd, CodecOrd, FrmOrd, UnreadOrd, HeldOrd

\* ... so it was read before the packets that are still there.
LEMMA TakenEarlier ==
    ASSUME NEW t \in Streams, OrderOf(t), NEW q, Taken(t, q)
    PROVE  /\ q \in Int /\ (InSeek(t) \/ q < pos)
           /\ \A p : InPkts(t, p) => q < p
<1> DEFINE x == <<serial[t], q>>
<1>1. x \in BelowPkts(t)
      BY TakenBelow DEF Taken, InPkt, InCodec, InFrm, InUnread, InHeld
<1>2. q \in Int
      BY <1>1 DEF BelowPkts
<1>3. x[1] = serial[t] /\ x[2] = q
      OBVIOUS
<1>4. InSeek(t) \/ q < pos
      BY <1>1, <1>3 DEF BelowPkts
<1>5. ASSUME NEW p, InPkts(t, p) PROVE q < p
  <2>1. PICK i \in 1 .. Len(pkts[t]) : pkts[t][i].kind = "data" /\ pkts[t][i].at = p
        BY <1>5 DEF InPkts
  <2> QED
      BY <1>1, <1>3, <2>1 DEF BelowPkts
<1> QED
    BY <1>2, <1>4, <1>5

\* As long as packets only move from stage to stage, or are played, nothing is
\* missing.
LEMMA CoverKept ==
    ASSUME TypeOK, NEW t \in Streams, Covered(t),
           serial'[t] = serial[t], base'[t] = base[t],
           qabort'[t] = 0 => qabort[t] = 0,
           \/ InSeek(t)'
           \/ ~InSeek(t) /\ (pos' = pos \/ (pos' = pos + 1 /\ File[pos] # t)),
           \A q : Carried(t, q)' => Carried(t, q),
           \A p \in Int : Carried(t, p) \/ WasShown(t, p) =>
              Carried(t, p)' \/ WasShown(t, p)'
    PROVE  Covered(t)'
<1> SUFFICES ASSUME qabort'[t] = 0,
                    NEW p \in base'[t][serial'[t]] .. Len(File), File[p] = t,
                    \/ ~InSeek(t)' /\ p < pos'
                    \/ \E q \in p + 1 .. Len(File) : Carried(t, q)'
             PROVE  Carried(t, p)' \/ WasShown(t, p)'
    BY DEF Covered
<1>1. pos \in Nat /\ p \in Int
      BY DEF TypeOK, ReadTypes, Positions
<1>2. \/ ~InSeek(t) /\ p < pos
      \/ \E q \in p + 1 .. Len(File) : Carried(t, q)
      BY <1>1
<1>3. Carried(t, p) \/ WasShown(t, p)
      BY <1>2 DEF Covered
<1> QED
    BY <1>3

\* The read thread.
LEMMA ReadCovered ==
    ASSUME TypeOK, PhaseInv, NEW t \in Streams, ShutInv(t), Covered(t),
           OrderOf(t), read_thread
    PROVE  Covered(t)'
<1>0. /\ UNCHANGED <<pkt, codec, frm, unread, held, shown>>
      /\ pos \in Nat /\ serial[t] \in Nat /\ Len(pkts[t]) \in Nat
      BY ReadLeaves, QueueFacts DEF TypeOK, ReadTypes, Positions
<1>1. CASE ReadsElsewhere(t)
  <2>1. \A q : /\ Carried(t, q)' <=> Carried(t, q)
               /\ WasShown(t, q)' <=> WasShown(t, q)
        BY <1>0, <1>1 DEF ReadsElsewhere, Carried, InPkts, InPkt, InCodec,
           InFrm, InUnread, InHeld, WasShown, Place
  <2> QED
      BY <1>1, <2>1, CoverKept DEF ReadsElsewhere
<1>2. CASE ReadsFlush(t)
  <2>1. \A q : /\ Taken(t, q)' <=> Taken(t, q)
               /\ WasShown(t, q)' <=> WasShown(t, q)
        BY <1>0, <1>2 DEF ReadsFlush, Taken, InPkt, InCodec, InFrm, InUnread,
           InHeld, WasShown, Place
  <2>2. \A q : /\ Carried(t, q)' <=> Taken(t, q)'
               /\ Carried(t, q) <=> Taken(t, q) \/ InPkts(t, q)
    <3>1. \A q : ~InPkts(t, q)'
      <4>1. Len(pkts'[t]) = 0
            BY <1>2 DEF ReadsFlush
      <4> QED
          BY <4>1 DEF InPkts
    <3> QED
        BY <3>1 DEF Carried, Taken
  <2> SUFFICES ASSUME qabort'[t] = 0,
                      NEW p \in base'[t][serial'[t]] .. Len(File), File[p] = t,
                      NEW q \in p + 1 .. Len(File), Carried(t, q)'
               PROVE  Carried(t, p)' \/ WasShown(t, p)'
      BY <1>2 DEF Covered, ReadsFlush
  <2>3. Taken(t, q) /\ Carried(t, q)
        BY <2>1, <2>2
  <2>4. Carried(t, p) \/ WasShown(t, p)
        BY <1>2, <2>3 DEF Covered, ReadsFlush
  <2>5. InPkts(t, p) => q < p
        BY <2>3, TakenEarlier
  <2> QED
      BY <2>1, <2>2, <2>4, <2>5
<1>3. CASE ReadsPacket(t)
  <2>1. PICK e : /\ AppendOf(pkts'[t], pkts[t], e)
                 /\ \/ e.kind = "data" /\ e.at = pos /\ pos' = pos + 1
                    \/ e.kind = "null" /\ pos' = pos
        BY <1>3 DEF ReadsPacket
  <2>2. \A q : InPkts(t, q)' <=>
                  InPkts(t, q) \/ (e.kind = "data" /\ q = pos)
    <3>1. \A i \in 1 .. Len(pkts'[t]) :
             \/ i \in 1 .. Len(pkts[t]) /\ pkts'[t][i] = pkts[t][i]
             \/ i = Len(pkts[t]) + 1 /\ pkts'[t][i] = e
          BY <1>0, <2>1 DEF AppendOf
    <3>2. \A i \in 1 .. Len(pkts[t]) :
             i \in 1 .. Len(pkts'[t]) /\ pkts'[t][i] = pkts[t][i]
          BY <1>0, <2>1 DEF AppendOf
    <3>3. LET n == Len(pkts[t]) + 1
          IN  n \in 1 .. Len(pkts'[t]) /\ pkts'[t][n] = e
          BY <1>0, <2>1 DEF AppendOf
    <3> QED
        BY <2>1, <3>1, <3>2, <3>3 DEF InPkts
  <2>3. \A q : /\ Carried(t, q)' <=>
                     Carried(t, q) \/ (e.kind = "data" /\ q = pos)
               /\ WasShown(t, q)' <=> WasShown(t, q)
        BY <1>0, <1>3, <2>2 DEF ReadsPacket, Carried, InPkt, InCodec, InFrm,
           InUnread, InHeld, WasShown, Place
  <2> SUFFICES ASSUME qabort'[t] = 0,
                      NEW p \in base'[t][serial'[t]] .. Len(File), File[p] = t,
                      \/ ~InSeek(t)' /\ p < pos'
                      \/ \E q \in p + 1 .. Len(File) : Carried(t, q)'
               PROVE  Carried(t, p)' \/ WasShown(t, p)'
      BY DEF Covered
  <2>4. \/ p < pos \/ (p = pos /\ e.kind = "data")
        \/ \E q \in p + 1 .. Len(File) : Carried(t, q)
        BY <1>0, <2>1, <2>3
  <2>5. CASE p = pos /\ e.kind = "data"
        BY <2>3, <2>5
  <2>6. CASE p < pos \/ \E q \in p + 1 .. Len(File) : Carried(t, q)
    <3>1. Carried(t, p) \/ WasShown(t, p)
          BY <1>3, <2>6 DEF Covered, ReadsPacket
    <3> QED
        BY <2>3, <3>1
  <2> QED
      BY <2>4, <2>5, <2>6
<1>4. CASE ReadsSerial(t)
  <2>1. \A q : ~InPkts(t, q)'
    <3>1. Len(pkts'[t]) = 1 /\ pkts'[t][1].kind = "flush"
          BY <1>4 DEF ReadsSerial, AppendOf
    <3> QED
        BY <3>1 DEF InPkts
  <2>2. \A x \in BelowPkts(t) : x[1] <= serial[t] /\ x[1] \in Int
        BY DEF BelowPkts
  <2>3. ASSUME NEW q, Taken(t, q)' PROVE FALSE
    <3>1. <<serial'[t], q>> \in BelowPkts(t)
          BY <1>0, <1>4, <2>3, TakenBelow DEF ReadsSerial, Taken, InPkt,
             InCodec, InFrm, InUnread, InHeld, Place
    <3>2. serial'[t] <= serial[t]
          BY <2>2, <3>1
    <3> QED
        BY <1>0, <1>4, <3>2 DEF ReadsSerial
  <2>4. \A q : ~Carried(t, q)'
        BY <2>1, <2>3 DEF Carried, Taken
  <2> SUFFICES ASSUME NEW p \in base'[t][serial'[t]] .. Len(File), p < pos'
               PROVE  FALSE
      BY <2>4 DEF Covered
  <2> QED
      BY <1>0, <1>4 DEF ReadsSerial
<1> QED
    BY <1>1, <1>2, <1>3, <1>4, ReadEffect

\* What is left of a sequence without its first element.
LEMMA TailElements ==
    ASSUME NEW r, NEW q, Len(q) \in Nat, TailOf(r, q)
    PROVE  /\ 1 \in 1 .. Len(q)
           /\ \A i \in 1 .. Len(q) : i # 1 =>
                 i - 1 \in 1 .. Len(r) /\ r[i - 1] = q[i]
           /\ \A i \in 1 .. Len(r) : i + 1 \in 1 .. Len(q) /\ r[i] = q[i + 1]
<1>1. Len(r) = Len(q) - 1 /\ Len(q) >= 1 /\ 1 \in 1 .. Len(q)
      BY DEF TailOf
<1>2. ASSUME NEW i \in 1 .. Len(q), i # 1
      PROVE  i - 1 \in 1 .. Len(r) /\ r[i - 1] = q[i]
  <2>1. i - 1 \in 1 .. Len(r) /\ (i - 1) + 1 = i
        BY <1>1, <1>2
  <2> QED
      BY <2>1 DEF TailOf
<1>3. ASSUME NEW i \in 1 .. Len(r)
      PROVE  i + 1 \in 1 .. Len(q) /\ r[i] = q[i + 1]
      BY <1>1 DEF TailOf
<1> QED
    BY <1>1, <1>2, <1>3

\* A decoder moves a packet on, and discards what is of an older serial.
LEMMA DecoderCarries ==
    ASSUME TypeOK, NEW t \in Streams, t # "video", qabort[t] = 0, FlushOnce(t),
           SerialOf(t), NEW s \in Streams, decoder_thread(s)
    PROVE  \A p : Carried(t, p)' <=> Carried(t, p)
<1>0. UNCHANGED <<serial, qabort, held>>
      BY DecoderLeaves
<1>1. CASE t # s \/ DropEarly
  <2>1. /\ pkts'[t] = pkts[t] /\ pkt'[t] = pkt[t] /\ dpc'[t] = dpc[t]
        /\ codec'[t] = codec[t] /\ frm'[t] = frm[t] /\ unread'[t] = unread[t]
        BY <1>1, DecoderElsewhere
  <2> QED
      BY <1>0, <2>1 DEF Carried, InPkts, InPkt, InCodec, InFrm, InUnread,
         InHeld, Place
<1>2. CASE Decode(t)
  <2>1. UNCHANGED <<pkts, pkt, pkt_serial, unread>> /\ dpc[t] = "decode"
        BY <1>2, DecodeElements DEF Decode, queueVars, frameVars
  <2>2. \A p : /\ InPkts(t, p)' <=> InPkts(t, p)
               /\ InUnread(t, p)' <=> InUnread(t, p)
               /\ InHeld(t, p)' <=> InHeld(t, p)
        BY <1>0, <2>1 DEF InPkts, InUnread, InHeld, Place
  <2>3. CASE UNCHANGED <<codec, frm>> /\ dpc'[t] \in {"decode", "get", "exit"}
        BY <1>0, <2>1, <2>2, <2>3 DEF Carried, InPkt, InCodec, InFrm, Place
  <2>4. CASE /\ dpc'[t] = "emit" /\ TailOf(codec'[t], codec[t])
             /\ frm'[t].of = codec[t][1].serial /\ frm'[t].at = codec[t][1].at
    <3>1. Len(codec[t]) \in Nat
          BY DEF TypeOK, DecoderTypes
    <3>2. \A p : InFrm(t, p)' <=> Place(codec[t][1]) = <<serial[t], p>>
          BY <1>0, <2>4 DEF InFrm, Place
    <3>3. \A i \in 1 .. Len(codec'[t]) :
             i + 1 \in 1 .. Len(codec[t]) /\ codec'[t][i] = codec[t][i + 1]
          BY <2>4, <3>1 DEF TailOf
    <3>4. /\ 1 \in 1 .. Len(codec[t])
          /\ \A i \in 1 .. Len(codec[t]) : i # 1 =>
                i - 1 \in 1 .. Len(codec'[t]) /\ codec'[t][i - 1] = codec[t][i]
          BY <2>4, <3>1 DEF TailOf
    <3>5. ASSUME NEW p PROVE InCodec(t, p) <=> InCodec(t, p)' \/ InFrm(t, p)'
      <4>1. InCodec(t, p) => InCodec(t, p)' \/ InFrm(t, p)'
        <5> SUFFICES ASSUME NEW i \in 1 .. Len(codec[t]),
                            Place(codec[t][i]) = <<serial[t], p>>
                     PROVE  InCodec(t, p)' \/ InFrm(t, p)'
            BY DEF InCodec
        <5>1. CASE i = 1
              BY <3>2, <5>1
        <5>2. CASE i # 1
              BY <1>0, <3>4, <5>2 DEF InCodec, Place
        <5> QED
            BY <5>1, <5>2
      <4>2. InCodec(t, p)' => InCodec(t, p)
            BY <1>0, <3>3 DEF InCodec, Place
      <4>3. InFrm(t, p)' => InCodec(t, p)
            BY <3>2, <3>4 DEF InCodec
      <4> QED
          BY <4>1, <4>2, <4>3
    <3>6. \A p : ~InPkt(t, p) /\ ~InFrm(t, p) /\ ~InPkt(t, p)'
          BY <2>1, <2>4 DEF InPkt, InFrm
    <3> QED
        BY <2>2, <3>5, <3>6 DEF Carried
  <2> QED
      BY <1>2, <2>3, <2>4, DecodeElements
<1>3. CASE packet_queue_get(t)
  <2>1. UNCHANGED <<codec, frm, unread>> /\ dpc[t] = "get"
        BY <1>3, GetElements DEF packet_queue_get, frameVars
  <2>2. \A p : /\ InCodec(t, p)' <=> InCodec(t, p)
               /\ InUnread(t, p)' <=> InUnread(t, p)
               /\ InHeld(t, p)' <=> InHeld(t, p)
        BY <1>0, <2>1 DEF InCodec, InUnread, InHeld, Place
  <2>3. \A p : ~InPkt(t, p) /\ ~InFrm(t, p)
        BY <2>1 DEF InPkt, InFrm
  <2>4. CASE UNCHANGED <<pkts, pkt, pkt_serial>> /\ dpc'[t] \in {"get", "exit"}
    <3>1. \A p : /\ ~InPkt(t, p)' /\ ~InFrm(t, p)'
                 /\ InPkts(t, p)' <=> InPkts(t, p)
          BY <2>4 DEF InPkt, InFrm, InPkts
    <3> QED
        BY <2>2, <2>3, <3>1 DEF Carried
  <2>5. CASE /\ pkts[t] # <<>> /\ dpc'[t] = "check"
             /\ TailOf(pkts'[t], pkts[t]) /\ pkt'[t] = pkts[t][1]
    <3>1. Len(pkts[t]) \in Nat /\ TailOf(pkts'[t], pkts[t])
          BY <2>5, QueueFacts
    <3>2. /\ 1 \in 1 .. Len(pkts[t])
          /\ \A i \in 1 .. Len(pkts[t]) : i # 1 =>
                i - 1 \in 1 .. Len(pkts'[t]) /\ pkts'[t][i - 1] = pkts[t][i]
          /\ \A i \in 1 .. Len(pkts'[t]) :
                i + 1 \in 1 .. Len(pkts[t]) /\ pkts'[t][i] = pkts[t][i + 1]
          BY <3>1, TailElements
    <3>3. pkts[t][1].serial = serial[t]
          BY <3>2 DEF SerialOf
    <3>4. \A p : InPkt(t, p)' <=> pkts[t][1].kind = "data" /\ pkts[t][1].at = p
          BY <1>0, <2>5, <3>3 DEF InPkt, Place
    <3>5. ASSUME NEW p PROVE InPkts(t, p) <=> InPkts(t, p)' \/ InPkt(t, p)'
      <4>1. InPkts(t, p) => InPkts(t, p)' \/ InPkt(t, p)'
        <5> SUFFICES ASSUME NEW i \in 1 .. Len(pkts[t]),
                            pkts[t][i].kind = "data", pkts[t][i].at = p
                     PROVE  InPkts(t, p)' \/ InPkt(t, p)'
            BY DEF InPkts
        <5>1. CASE i = 1
              BY <3>4, <5>1
        <5>2. CASE i # 1
              BY <3>2, <5>2 DEF InPkts
        <5> QED
            BY <5>1, <5>2
      <4>2. InPkts(t, p)' => InPkts(t, p)
            BY <3>2 DEF InPkts
      <4>3. InPkt(t, p)' => InPkts(t, p)
            BY <3>2, <3>4 DEF InPkts
      <4> QED
          BY <4>1, <4>2, <4>3
    <3>6. \A p : ~InFrm(t, p)'
          BY <2>5 DEF InFrm
    <3> QED
        BY <2>2, <2>3, <3>5, <3>6 DEF Carried
  <2> QED
      BY <1>3, <2>4, <2>5, GetElements
<1>4. CASE UsePacket(t)
  <2>1. /\ UNCHANGED <<pkts, pkt_serial, frm, unread>> /\ dpc[t] = "check"
        /\ dpc'[t] \in {"decode", "get"}
        BY <1>4, UseElements DEF UsePacket, queueVars, frameVars
  <2>2. \A p : /\ InPkts(t, p)' <=> InPkts(t, p)
               /\ InUnread(t, p)' <=> InUnread(t, p)
               /\ InHeld(t, p)' <=> InHeld(t, p)
               /\ ~InFrm(t, p) /\ ~InFrm(t, p)' /\ ~InPkt(t, p)'
        BY <1>0, <2>1 DEF InPkts, InUnread, InHeld, InFrm, InPkt, Place
  <2>3. CASE codec' = codec /\ serial[t] # pkt_serial[t]
    <3>1. \A p : ~InPkt(t, p)
          BY <2>1, <2>3 DEF InPkt, Place, SerialOf
    <3>2. \A p : InCodec(t, p)' <=> InCodec(t, p)
          BY <1>0, <2>3 DEF InCodec, Place
    <3> QED
        BY <2>2, <3>1, <3>2 DEF Carried
  <2>4. CASE codec'[t] = codec[t] /\ pkt[t].kind = "null"
    <3>1. \A p : ~InPkt(t, p)
          BY <2>4 DEF InPkt
    <3>2. \A p : InCodec(t, p)' <=> InCodec(t, p)
          BY <1>0, <2>4 DEF InCodec, Place
    <3> QED
        BY <2>2, <3>1, <3>2 DEF Carried
  <2>5. CASE /\ codec'[t] = <<>> /\ pkt[t].kind = "flush"
             /\ serial[t] = pkt_serial[t]
    <3>1. \A p : ~InPkt(t, p)
          BY <2>5 DEF InPkt
    <3>2. \A i \in 1 .. Len(codec[t]) :
             codec[t][i].serial < serial[t] /\ codec[t][i].serial \in Int
      <4>1. codec[t] \in Seq(Packet)
            BY DEF TypeOK, DecoderTypes
      <4>2. \A p \in Packet : p.serial \in Int
            BY DEF Packet
      <4> QED
          BY <2>1, <2>5, <4>1, <4>2 DEF FlushOnce
    <3>3. serial[t] \in Int
          BY QueueFacts
    <3>4. \A p : ~InCodec(t, p)
          BY <3>2, <3>3 DEF InCodec, Place
    <3>5. \A p : ~InCodec(t, p)'
      <4>1. Len(codec'[t]) = 0
            BY <2>5
      <4> QED
          BY <4>1 DEF InCodec
    <3> QED
        BY <2>2, <3>1, <3>4, <3>5 DEF Carried
  <2>6. CASE pkt[t].kind = "data" /\ AppendOf(codec'[t], codec[t], pkt[t])
    <3>1. Len(codec[t]) \in Nat
          BY DEF TypeOK, DecoderTypes
    <3>2. /\ \A i \in 1 .. Len(codec'[t]) :
                \/ i \in 1 .. Len(codec[t]) /\ codec'[t][i] = codec[t][i]
                \/ codec'[t][i] = pkt[t]
          /\ \A i \in 1 .. Len(codec[t]) :
                i \in 1 .. Len(codec'[t]) /\ codec'[t][i] = codec[t][i]
          /\ \E i \in 1 .. Len(codec'[t]) : codec'[t][i] = pkt[t]
          BY <2>6, <3>1 DEF AppendOf
    <3>3. \A p : InPkt(t, p) <=> Place(pkt[t]) = <<serial[t], p>>
          BY <2>1, <2>6 DEF InPkt
    <3>4. \A p : InCodec(t, p)' <=> InCodec(t, p) \/ InPkt(t, p)
          BY <1>0, <3>2, <3>3 DEF InCodec, Place
    <3> QED
        BY <2>2, <3>4 DEF Carried
  <2> QED
      BY <1>4, <2>3, <2>4, <2>5, <2>6, UseElements
<1>5. CASE QueueFrame(t)
  <2>1. /\ UNCHANGED <<pkts, pkt, pkt_serial, codec>> /\ dpc[t] = "emit"
        /\ dpc'[t] \in {"decode", "exit"}
        BY <1>5, FrameElements DEF queueVars
  <2>2. \A p : /\ InPkts(t, p)' <=> InPkts(t, p)
               /\ InCodec(t, p)' <=> InCodec(t, p)
               /\ InHeld(t, p)' <=> InHeld(t, p)
               /\ ~InPkt(t, p) /\ ~InPkt(t, p)' /\ ~InFrm(t, p)'
        BY <1>0, <2>1 DEF InPkts, InCodec, InHeld, InFrm, InPkt, Place
  <2> DEFINE f == Stamped(t, pkt_serial[t])
  <2>3. Len(unread[t]) \in Nat /\ unread \in [Streams -> Seq(Frame)]
        BY DEF TypeOK, FrameTypes
  <2>4. AppendOf(unread'[t], unread[t], f)
    <3>1. unread' = [unread EXCEPT ![t] = Append(unread[t], f)]
          BY <1>5 DEF QueueFrame
    <3>2. Len(unread'[t]) = Len(unread[t]) + 1
          BY <2>3, <3>1
    <3> QED
        BY <1>5, <2>3, <3>2, FrameElements
  <2>5. Place(f) = <<frm[t].of, frm[t].at>>
        BY <2>1 DEF SerialOf, Stamped, Place
  <2> HIDE DEF f
  <2>6. /\ \A i \in 1 .. Len(unread'[t]) :
              \/ i \in 1 .. Len(unread[t]) /\ unread'[t][i] = unread[t][i]
              \/ unread'[t][i] = f
        /\ \A i \in 1 .. Len(unread[t]) :
              i \in 1 .. Len(unread'[t]) /\ unread'[t][i] = unread[t][i]
        /\ \E i \in 1 .. Len(unread'[t]) : unread'[t][i] = f
        BY <2>3, <2>4 DEF AppendOf
  <2>7. \A p : InFrm(t, p) <=> Place(f) = <<serial[t], p>>
        BY <2>1, <2>5 DEF InFrm
  <2>8. \A p : InUnread(t, p)' <=> InUnread(t, p) \/ InFrm(t, p)
        BY <1>0, <2>6, <2>7 DEF InUnread, Place
  <2> QED
      BY <2>2, <2>8 DEF Carried
<1> QED
    BY <1>1, <1>2, <1>3, <1>4, <1>5 DEF decoder_thread

\* The decoder threads.
LEMMA DecoderCovered ==
    ASSUME TypeOK, NEW t \in Streams, t # "video", Covered(t), FlushOnce(t),
           SerialOf(t), NEW s \in Streams, decoder_thread(s)
    PROVE  Covered(t)'
<1>1. UNCHANGED <<rpc, todo, pos, serial, qabort, base, shown>>
      BY DecoderLeaves
<1>2. CASE qabort[t] = 0
  <2>1. \A p : /\ Carried(t, p)' <=> Carried(t, p)
               /\ WasShown(t, p)' <=> WasShown(t, p)
        BY <1>1, <1>2, DecoderCarries DEF WasShown
  <2>2. InSeek(t)' \/ ~InSeek(t)
        BY <1>1 DEF InSeek
  <2> QED
      BY <1>1, <2>1, <2>2, CoverKept
<1>3. CASE qabort[t] # 0
      BY <1>1, <1>3 DEF Covered
<1> QED
    BY <1>2, <1>3

-----------------------------------------------------------------------------
(* Presentation and closing.                                               *)

\* The callback moves a frame on, and plays it if it is of the current serial.
LEMMA CallbackCovered ==
    ASSUME TypeOK, PhaseInv, NEW t \in Streams, t # "video", Covered(t),
           OrderOf(t), sdl_audio_callback
    PROVE  Covered(t)'
<1>0. /\ UNCHANGED <<rpc, todo, pos, pkts, serial, qabort, base, dpc, pkt, codec,
                     frm>>
      /\ t = "audio"
      BY DEF sdl_audio_callback, AudioTake, AudioPlay, readVars, queueVars,
         decoderVars
<1>1. InSeek(t)' \/ ~InSeek(t)
      BY <1>0 DEF InSeek
<1>2. \A p : /\ InPkts(t, p)' <=> InPkts(t, p)
             /\ InPkt(t, p)' <=> InPkt(t, p)
             /\ InCodec(t, p)' <=> InCodec(t, p)
             /\ InFrm(t, p)' <=> InFrm(t, p)
      BY <1>0 DEF InPkts, InPkt, InCodec, InFrm, Place
<1>3. CASE AudioTake
  <2>1. /\ unread[t] # <<>> /\ held[t] = NoFrame /\ qabort[t] = 0
        /\ frame_queue_next("audio") /\ shown' = shown
        /\ held' = [held EXCEPT !["audio"] = Head(unread["audio"])]
        BY <1>0, <1>3 DEF AudioTake
  <2>2. TailOf(unread'[t], unread[t]) /\ Head(unread[t]) = unread[t][1]
        BY <1>0, <2>1, NextElements
  <2>3. held'[t] = unread[t][1]
        BY <1>0, <2>1, <2>2 DEF TypeOK, FrameTypes
  <2>4. Len(unread[t]) \in Nat /\ serial[t] # 0
        BY <2>1 DEF TypeOK, FrameTypes, PhaseInv
  <2>5. /\ 1 \in 1 .. Len(unread[t])
        /\ \A i \in 1 .. Len(unread[t]) : i # 1 =>
              i - 1 \in 1 .. Len(unread'[t]) /\ unread'[t][i - 1] = unread[t][i]
        /\ \A i \in 1 .. Len(unread'[t]) :
              i + 1 \in 1 .. Len(unread[t]) /\ unread'[t][i] = unread[t][i + 1]
        BY <2>2, <2>4, TailElements
  <2>6. \A p : InHeld(t, p)' <=> Place(unread[t][1]) = <<serial[t], p>>
        BY <1>0, <2>3, <2>4 DEF InHeld, Place, NoFrame
  <2>7. ASSUME NEW p PROVE InUnread(t, p) <=> InUnread(t, p)' \/ InHeld(t, p)'
    <3>1. InUnread(t, p) => InUnread(t, p)' \/ InHeld(t, p)'
      <4> SUFFICES ASSUME NEW i \in 1 .. Len(unread[t]),
                          Place(unread[t][i]) = <<serial[t], p>>
                   PROVE  InUnread(t, p)' \/ InHeld(t, p)'
          BY DEF InUnread
      <4>1. CASE i = 1
            BY <2>6, <4>1
      <4>2. CASE i # 1
        <5>1. i - 1 \in 1 .. Len(unread'[t]) /\ unread'[t][i - 1] = unread[t][i]
              BY <2>5, <4>2
        <5>2. Place(unread'[t][i - 1]) = <<serial'[t], p>>
              BY <1>0, <5>1
        <5> QED
            BY <5>1, <5>2 DEF InUnread, Place
      <4> QED
          BY <4>1, <4>2
    <3>2. InUnread(t, p)' => InUnread(t, p)
      <4> SUFFICES ASSUME NEW i \in 1 .. Len(unread'[t]),
                          Place(unread'[t][i]) = <<serial[t], p>>
                   PROVE  InUnread(t, p)
          BY <1>0 DEF InUnread, Place
      <4>1. i + 1 \in 1 .. Len(unread[t]) /\ unread'[t][i] = unread[t][i + 1]
            BY <2>5
      <4> QED
          BY <4>1 DEF InUnread
    <3>3. InHeld(t, p)' => InUnread(t, p)
          BY <2>5, <2>6 DEF InUnread
    <3> QED
        BY <3>1, <3>2, <3>3
  <2>8. \A p : /\ ~InHeld(t, p)
               /\ WasShown(t, p)' <=> WasShown(t, p)
        BY <1>0, <2>1 DEF InHeld, WasShown
  <2>9. \A p : Carried(t, p)' <=> Carried(t, p)
        BY <1>2, <2>7, <2>8 DEF Carried
  <2> QED
      BY <1>0, <1>1, <2>8, <2>9, CoverKept
<1>4. CASE AudioPlay
  <2>1. /\ held[t] # NoFrame /\ unread' = unread
        /\ held'[t] = NoFrame
        /\ IF held[t].serial = serial[t] THEN shown'[t] = held[t]
                                         ELSE shown'[t] = shown[t]
        BY <1>0, <1>4 DEF AudioPlay, TypeOK, FrameTypes
  <2>2. \A p : InUnread(t, p)' <=> InUnread(t, p)
        BY <1>0, <2>1 DEF InUnread, Place
  <2>3. \A p : ~InHeld(t, p)'
        BY <2>1 DEF InHeld
  <2>4. \A p : Carried(t, p)' => Carried(t, p)
        BY <1>2, <2>2, <2>3 DEF Carried
  <2>5. held[t].at \in Int /\ shown[t].at \in Int
    <3>1. held[t] \in Frame /\ shown[t] \in Frame
          BY DEF TypeOK, FrameTypes
    <3>2. \A f \in Frame : f.at \in Int
          BY DEF Frame
    <3> QED
        BY <3>1, <3>2
  <2>6. ASSUME NEW p \in Int, Carried(t, p) \/ WasShown(t, p)
        PROVE  Carried(t, p)' \/ WasShown(t, p)'
    <3>1. CASE Carried(t, p) /\ ~InHeld(t, p)
          BY <1>2, <2>2, <3>1 DEF Carried
    <3>2. CASE InHeld(t, p)
      <4>1. held[t].serial = serial[t] /\ held[t].at = p
            BY <3>2 DEF InHeld, Place
      <4> QED
          BY <1>0, <2>1, <2>5, <4>1 DEF WasShown
    <3>3. CASE WasShown(t, p) /\ held[t].serial # serial[t]
          BY <1>0, <2>1, <3>3 DEF WasShown
    <3>4. CASE WasShown(t, p) /\ held[t].serial = serial[t]
      <4>1. Earlier(Place(shown[t]), Place(held[t]))
            BY <2>1, <3>4 DEF OrderOf, ShownOrd, BelowHeld, WasShown
      <4>2. p <= shown[t].at /\ shown[t].at < held[t].at
        <5>1. serial[t] \in Int
              BY QueueFacts
        <5> QED
            BY <3>4, <4>1, <5>1 DEF Earlier, Place, WasShown
      <4>3. p <= held[t].at
            BY <2>5, <4>2
      <4> QED
          BY <1>0, <2>1, <3>4, <4>3 DEF WasShown
    <3> QED
        BY <2>6, <3>1, <3>2, <3>3, <3>4
  <2> QED
      BY <1>0, <1>1, <2>4, <2>6, CoverKept
<1> QED
    BY <1>3, <1>4 DEF sdl_audio_callback

\* Unless it is being closed a stream other than the pictures' keeps all its
\* frames.
LEMMA EventKeeps ==
    ASSUME TypeOK, EventInv, PhaseInv, NEW t \in Streams, t # "video", ShutInv(t),
           event_loop \/ stream_seek \/ UserStop \/ UNCHANGED vars
    PROVE  /\ held' = held /\ shown'[t] = shown[t]
           /\ qabort'[t] = 0 =>
                 qabort[t] = 0 /\ pkts'[t] = pkts[t] /\ unread'[t] = unread[t]
<1>0. /\ unread \in [Streams -> Seq(Frame)] /\ shown \in [Streams -> Frame]
      /\ pkts \in [Streams -> Seq(Packet)] /\ qabort \in [Streams -> {0, 1}]
      BY DEF TypeOK, FrameTypes, QueueTypes
<1>1. CASE RefreshStale \/ VideoShow
  <2>1. /\ UNCHANGED <<queueVars, held>>
        /\ unread' = [unread EXCEPT !["video"] = Tail(@)]
        /\ \/ shown' = shown
           \/ shown' = [shown EXCEPT !["video"] = Head(unread["video"])]
        BY <1>1 DEF RefreshStale, VideoShow, frame_queue_next
  <2> QED
      BY <1>0, <2>1 DEF queueVars
<1>2. CASE JoinDecoder
  <2>1. /\ UNCHANGED <<qabort, held, shown>> /\ epc = "joinDecoder"
        /\ pkts' = [pkts EXCEPT ![Closed1st] = <<>>]
        /\ closing' = closing \ {Closed1st}
        /\ closing' = {} \/ unread' = unread
        BY <1>2 DEF JoinDecoder, packet_queue_flush
  <2>2. qabort[t] = 0 => t # Closed1st /\ t \in closing
        BY <2>1 DEF PhaseInv, ShutInv
  <2> QED
      BY <1>0, <2>1, <2>2
<1>3. CASE AbortDecoder
  <2>1. /\ UNCHANGED <<pkts, unread, held, shown>>
        /\ qabort' = [qabort EXCEPT ![Closed1st] = 1]
        BY <1>3 DEF AbortDecoder, packet_queue_abort, frameVars
  <2> QED
      BY <1>0, <2>1
<1>4. CASE \/ RefreshIdle \/ RefreshDue \/ CheckEnd \/ BeginClose
           \/ JoinReadThread \/ stream_seek \/ UserStop \/ UNCHANGED vars
  <2>1. UNCHANGED <<queueVars, frameVars>>
        BY <1>4 DEF RefreshIdle, RefreshDue, CheckEnd, BeginClose,
           JoinReadThread, stream_seek, UserStop, vars
  <2> QED
      BY <2>1 DEF queueVars, frameVars
<1> QED
    BY <1>1, <1>2, <1>3, <1>4 DEF event_loop

\* The event thread and the user.
LEMMA EventCovered ==
    ASSUME TypeOK, EventInv, PhaseInv, NEW t \in Streams, t # "video", ShutInv(t),
           Covered(t), event_loop \/ stream_seek \/ UserStop \/ UNCHANGED vars
    PROVE  Covered(t)'
<1>1. UNCHANGED <<rpc, todo, pos, serial, base, dpc, pkt, codec, frm>>
      BY EventLeaves
<1>2. /\ held' = held /\ shown'[t] = shown[t]
      /\ qabort'[t] = 0 =>
            qabort[t] = 0 /\ pkts'[t] = pkts[t] /\ unread'[t] = unread[t]
      BY EventKeeps
<1>3. CASE qabort'[t] = 0
  <2>1. \A p : /\ Carried(t, p)' <=> Carried(t, p)
               /\ WasShown(t, p)' <=> WasShown(t, p)
        BY <1>1, <1>2, <1>3 DEF Carried, InPkts, InPkt, InCodec, InFrm,
           InUnread, InHeld, WasShown, Place
  <2>2. InSeek(t)' \/ ~InSeek(t)
        BY <1>1 DEF InSeek
  <2> QED
      BY <1>1, <1>2, <1>3, <2>1, <2>2, CoverKept
<1>4. CASE qabort'[t] # 0
      BY <1>4 DEF Covered
<1> QED
    BY <1>3, <1>4

-----------------------------------------------------------------------------
(* The frame in the callback's hand is the next to play.                   *)

\* What the callback takes is the first of what is carried, and nothing before
\* it is missing.
LEMMA TakeIsNext ==
    ASSUME TypeOK, PhaseInv, NEW t \in Streams, t # "video", Covered(t),
           OrderOf(t), AudioTake
    PROVE  HeldIsNext(t)'
<1>1. /\ t = "audio" /\ unread[t] # <<>> /\ held[t] = NoFrame /\ qabort[t] = 0
      /\ UNCHANGED <<serial, base, shown>> /\ frame_queue_next("audio")
      /\ held' = [held EXCEPT !["audio"] = Head(unread["audio"])]
      BY DEF AudioTake, queueVars
<1>2. Head(unread[t]) = unread[t][1] /\ TailOf(unread'[t], unread[t])
      BY <1>1, NextElements
<1>3. held'[t] = unread[t][1]
      BY <1>1, <1>2 DEF TypeOK, FrameTypes
<1>4. Len(unread[t]) \in Nat /\ 1 \in 1 .. Len(unread[t])
  <2>1. unread[t] \in Seq(Frame)
        BY DEF TypeOK, FrameTypes
  <2> QED
      BY <1>2, <2>1 DEF TailOf
<1> DEFINE f == unread[t][1]
<1>5. f \in Frame
  <2>1. unread[t] \in Seq(Frame)
        BY DEF TypeOK, FrameTypes
  <2> QED
      BY <1>4, <2>1
<1>6. f.at \in 0 .. Len(File) /\ f.at \in Int
      BY <1>5 DEF Frame
<1> SUFFICES ASSUME f.serial = serial[t],
                    NEW p \in base[t][serial[t]] .. f.at - 1, File[p] = t
             PROVE  WasShown(t, p)
    BY <1>1, <1>3 DEF HeldIsNext, WasShown
<1>7. Place(f) = <<serial[t], f.at>>
      BY DEF Place
<1>8. InUnread(t, f.at)
      BY <1>4, <1>7 DEF InUnread
<1>9. p \in base[t][serial[t]] .. Len(File) /\ f.at \in p + 1 .. Len(File)
      BY <1>6
<1>10. Carried(t, p) \/ WasShown(t, p)
       BY <1>1, <1>8, <1>9 DEF Covered, Carried
<1>11. ASSUME Carried(t, p) PROVE FALSE
  <2>1. ~Earlier(Place(f), <<serial[t], p>>)
    <3>1. serial[t] \in Int
          BY QueueFacts
    <3>2. p < f.at /\ p \in Int
          BY <1>6
    <3> QED
        BY <1>6, <1>7, <3>1, <3>2 DEF Earlier
  <2>2. Place(f) # <<serial[t], p>>
        BY <1>6, <1>7, <1>9
  <2>3. Place(f) \in BelowFrm(t)
        BY <1>4 DEF OrderOf, UnreadOrd
  <2>4. CASE InUnread(t, p)
    <3>1. PICK i \in 1 .. Len(unread[t]) : Place(unread[t][i]) = <<serial[t], p>>
          BY <2>4 DEF InUnread
    <3>2. i # 1
          BY <2>2, <3>1
    <3>3. i \in 1 + 1 .. Len(unread[t])
          BY <3>2
    <3>4. Earlier(Place(f), Place(unread[t][i]))
          BY <1>4, <3>3 DEF OrderOf, UnreadOrd
    <3> QED
        BY <2>1, <3>1, <3>4
  <2>5. CASE InFrm(t, p)
        BY <2>1, <2>3, <2>5 DEF InFrm, BelowFrm
  <2>6. CASE InCodec(t, p)
    <3>1. PICK i \in 1 .. Len(codec[t]) : Place(codec[t][i]) = <<serial[t], p>>
          BY <2>6 DEF InCodec
    <3>2. Earlier(Place(f), Place(codec[t][i]))
          BY <2>3 DEF BelowFrm, BelowCodec
    <3> QED
        BY <2>1, <3>1, <3>2
  <2>7. CASE InPkt(t, p)
        BY <2>1, <2>3, <2>7 DEF InPkt, BelowFrm, BelowCodec, BelowPkt
  <2>8. CASE InPkts(t, p)
    <3>1. Taken(t, f.at)
          BY <1>8 DEF Taken
    <3>2. f.at < p
          BY <2>8, <3>1, TakenEarlier
    <3> QED
        BY <1>6, <1>9, <3>2
  <2>9. ~InHeld(t, p)
        BY <1>1 DEF InHeld
  <2> QED
      BY <1>11, <2>4, <2>5, <2>6, <2>7, <2>8, <2>9 DEF Carried
<1> QED
    BY <1>10, <1>11

\* It stays so until the callback plays it or a new serial makes it stale.
LEMMA HeldStep ==
    ASSUME TypeOK, EventInv, PhaseInv, NEW t \in Streams, t # "video",
           ShutInv(t), Covered(t), HeldIsNext(t), OrderOf(t), [Next]_vars
    PROVE  HeldIsNext(t)'
<1>1. CASE /\ held'[t] = held[t] /\ shown'[t] = shown[t]
           /\ serial'[t] = serial[t] /\ base'[t] = base[t]
      BY <1>1 DEF HeldIsNext, WasShown
<1>2. CASE read_thread
  <2>1. UNCHANGED <<held, shown>>
        BY <1>2, ReadLeaves
  <2>2. CASE ReadsSerial(t)
    <3>1. serial[t] \in Nat /\ serial'[t] = serial[t] + 1
          BY <2>2, QueueFacts DEF ReadsSerial
    <3>2. \A x \in BelowPkts(t) : x[1] <= serial[t]
          BY DEF BelowPkts
    <3>3. held[t] # NoFrame => held[t].serial <= serial[t]
      <4>1. held[t] # NoFrame => Place(held[t]) \in BelowPkts(t)
            BY TakenBelow
      <4> QED
          BY <3>2, <4>1 DEF Place
    <3>4. ~(held'[t] # NoFrame /\ held'[t].serial = serial'[t])
          BY <2>1, <3>1, <3>3
    <3> QED
        BY <3>4 DEF HeldIsNext, NoFrame
  <2>3. CASE ReadsElsewhere(t) \/ ReadsFlush(t) \/ ReadsPacket(t)
        BY <1>1, <2>1, <2>3 DEF ReadsElsewhere, ReadsFlush, ReadsPacket
  <2> QED
      BY <1>2, <2>2, <2>3, ReadEffect
<1>3. ASSUME NEW s \in Streams, decoder_thread(s) PROVE HeldIsNext(t)'
      BY <1>1, <1>3, DecoderLeaves
<1>4. CASE AudioTake
      BY <1>4, TakeIsNext
<1>5. CASE AudioPlay
  <2>1. t = "audio" /\ held' = [held EXCEPT !["audio"] = NoFrame]
        BY <1>5 DEF AudioPlay
  <2>2. held'[t] = NoFrame
        BY <2>1 DEF TypeOK, FrameTypes
  <2> QED
      BY <2>2 DEF HeldIsNext, NoFrame
<1>6. CASE event_loop \/ stream_seek \/ UserStop \/ UNCHANGED vars
      BY <1>1, <1>6, EventLeaves, EventKeeps
<1> QED
    BY <1>2, <1>3, <1>4, <1>5, <1>6 DEF Next, sdl_audio_callback

-----------------------------------------------------------------------------
(* The theorems.                                                           *)

\* At first nothing is open.
LEMMA InitCover == Init => CoverInv
<1> SUFFICES ASSUME Init, NEW t \in Streams PROVE CoverOf(t)
    BY DEF CoverInv, CoverOf
<1>1. /\ pkts[t] = <<>> /\ codec[t] = <<>> /\ qabort[t] = 1 /\ held[t] = NoFrame
      /\ pos = 1
      BY DEF Init, All
<1> QED
    BY <1>1 DEF CoverOf, FlushOnce, ShutInv, Covered, HeldIsNext

\* Every step keeps everything covered.
LEMMA CoverStep == IInv /\ OrderInv /\ CoverInv /\ [Next]_vars => CoverInv'
<1> SUFFICES ASSUME IInv, OrderInv, CoverInv, [Next]_vars,
                    NEW t \in Streams, t # "video"
             PROVE  CoverOf(t)'
    BY DEF CoverInv, CoverOf
<1>1. /\ TypeOK /\ EventInv /\ PhaseInv /\ SerialOf(t) /\ OrderOf(t)
      /\ FlushOnce(t) /\ ShutInv(t) /\ Covered(t) /\ HeldIsNext(t)
      BY OrderParts, SerialParts DEF IInv, SerialInv, CoverInv
<1>2. FlushOnce(t)' /\ ShutInv(t)' /\ HeldIsNext(t)'
      BY <1>1, FlushOnceStep, ShutStep, HeldStep
<1>3. Covered(t)'
      BY <1>1, ReadCovered, DecoderCovered, CallbackCovered, EventCovered DEF Next
<1> QED
    BY <1>2, <1>3 DEF CoverOf

\* Of the current serial of a stream of sound every packet that was read is
\* carried by some stage or was played.
THEOREM CoverHolds == Spec => []CoverInv
<1>1. IInv /\ OrderInv /\ CoverInv /\ [Next]_vars => CoverInv'
      BY CoverStep
<1> QED
    BY MediaPipeInv, OrderHolds, InitCover, <1>1, PTL DEF Spec

\* No sample is lost or repeated between two seeks, and the first one after a
\* seek is the first of the file at or after its target.
THEOREM SoundHasNoGap == Spec => SoundIsGapless
<1> DEFINE From(t) == IF shown'[t].serial = shown[t].serial
                      THEN shown[t].at + 1 ELSE base[t][shown'[t].serial]
<1>1. ASSUME IInv, CoverInv, [Next]_vars, NEW t \in Streams, t # "video",
             shown'[t] # shown[t], NEW p \in From(t) .. shown'[t].at - 1
      PROVE  File[p] # t
  <2>1. TypeOK /\ EventInv /\ PhaseInv /\ PlaceInv /\ ShutInv(t) /\ HeldIsNext(t)
        BY <1>1 DEF IInv, CoverInv
  <2>2. AudioPlay
    <3>1. CASE read_thread
          BY <1>1, <3>1, ReadLeaves
    <3>2. ASSUME NEW s \in Streams, decoder_thread(s) PROVE FALSE
          BY <1>1, <3>2, DecoderLeaves
    <3>3. CASE AudioTake
          BY <1>1, <3>3 DEF AudioTake
    <3>4. CASE event_loop \/ stream_seek \/ UserStop \/ UNCHANGED vars
          BY <1>1, <2>1, <3>4, EventKeeps
    <3> QED
        BY <1>1, <3>1, <3>2, <3>3, <3>4 DEF Next, sdl_audio_callback
  <2>3. /\ t = "audio" /\ held[t] # NoFrame /\ shown'[t] = held[t]
        /\ held[t].serial = serial[t]
    <3>1. t = "audio"
          BY <1>1
    <3> QED
        BY <1>1, <2>1, <2>2, <3>1 DEF AudioPlay, TypeOK, FrameTypes
  <2>4. /\ Since(t, held[t].serial, held[t].at)
        /\ shown[t] # NoFrame => Since(t, shown[t].serial, shown[t].at)
        BY <2>1, <2>3 DEF PlaceInv
  <2>5. serial[t] >= 1 /\ serial[t] \in Int
        BY <2>3, <2>4 DEF Since
  <2>6. base[t][serial[t]] \in Int
    <3>1. base[t] \in Seq(Positions) /\ serial[t] \in 1 .. Len(base[t])
          BY <2>1, <2>3, <2>4 DEF Since, TypeOK
    <3> QED
        BY <3>1 DEF Positions
  <2>7. shown[t].at \in Int
    <3>1. shown[t] \in Frame
          BY <2>1 DEF TypeOK, FrameTypes
    <3> QED
        BY <3>1 DEF Frame
  <2>8. CASE shown[t] # NoFrame /\ shown[t].serial = serial[t]
    <3>1. p \in shown[t].at + 1 .. held[t].at - 1
          BY <1>1, <2>3, <2>8
    <3>2. shown[t].at >= base[t][serial[t]]
          BY <2>4, <2>8 DEF Since
    <3>3. p \in base[t][serial[t]] .. held[t].at - 1 /\ ~(p <= shown[t].at)
          BY <2>6, <2>7, <3>1, <3>2
    <3> QED
        BY <2>1, <2>3, <3>3 DEF HeldIsNext, WasShown
  <2>9. CASE shown[t] = NoFrame \/ shown[t].serial # serial[t]
    <3>1. shown'[t].serial # shown[t].serial
          BY <2>3, <2>5, <2>9 DEF NoFrame
    <3>2. p \in base[t][serial[t]] .. held[t].at - 1
          BY <1>1, <2>3, <3>1
    <3> QED
        BY <2>1, <2>3, <2>9, <3>2 DEF HeldIsNext, WasShown
  <2> QED
      BY <2>8, <2>9
<1>2. IInv /\ CoverInv /\ [Next]_vars =>
         [\A s \in Streams \ {"video"} : shown'[s] # shown[s] =>
             LET from == IF shown'[s].serial = shown[s].serial
                         THEN shown[s].at + 1 ELSE base[s][shown'[s].serial]
             IN \A p \in from .. shown'[s].at - 1 : File[p] # s
         ]_vars
      BY <1>1
<1> QED
    BY MediaPipeInv, CoverHolds, <1>2, PTL DEF Spec, SoundIsGapless
=============================================================================
