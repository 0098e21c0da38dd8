--------------------------- MODULE MediaPipeProofs ---------------------------
(***************************************************************************)
(* The serials of MediaPipe keep what is presented apart from what a seek  *)
(* made obsolete, for any streams, file, queue sizes, codec delay, number  *)
(* of seeks and failures: FrameHonest and SeekHonoured are invariants.     *)
(*                                                                         *)
(* Each part of IInv has a lemma that a step preserves it; a lemma takes   *)
(* the parts it relies on as assumptions.                                  *)
(***************************************************************************)
EXTENDS MediaPipe, TLAPS

USE StreamsAssumption, FileAssumption, BoundsAssumption
    DEF StreamsAssumption, FileAssumption, BoundsAssumption

\* An element appended to a sequence is its last one and moves no other:
\* packet_queue_put, avcodec_send_packet and frame_queue_push.
LEMMA AppendElements ==
    ASSUME NEW S, NEW q \in Seq(S), NEW e \in S
    PROVE  /\ Append(q, e) \in Seq(S)
           /\ Len(Append(q, e)) = Len(q) + 1
           /\ \A i \in 1 .. Len(q) : Append(q, e)[i] = q[i]
           /\ Append(q, e)[Len(q) + 1] = e
    OBVIOUS

\* Changing a function at one argument keeps its type.
LEMMA UpdateType ==
    ASSUME NEW S, NEW f \in [Streams -> S], NEW s \in Streams, NEW e \in S
    PROVE  [f EXCEPT ![s] = e] \in [Streams -> S]
    OBVIOUS

\* ... whether it is changed or not.
LEMMA UpdateMayType ==
    ASSUME NEW S, NEW f \in [Streams -> S], NEW s \in Streams, NEW e, NEW g,
           g = f \/ (e \in S /\ g = [f EXCEPT ![s] = e])
    PROVE  g \in [Streams -> S]
    OBVIOUS

\* packet_queue_put keeps the types of the packet queues.
LEMMA PutTypes ==
    ASSUME QueueTypes, NEW s \in Streams, NEW at \in 0 .. Len(File),
           NEW kind \in {"data", "flush", "null"},
           packet_queue_put(s, kind, at)
    PROVE  QueueTypes'
<1>1. CASE qabort[s] = 1
      BY <1>1 DEF packet_queue_put, QueueTypes, queueVars
<1>2. CASE qabort[s] # 1
  <2> DEFINE n == serial[s] + (IF kind = "flush" THEN 1 ELSE 0)
             e == [kind |-> kind, at |-> at, serial |-> n]
  <2>1. n \in Nat
        BY DEF QueueTypes
  <2>2. e \in Packet
        BY <2>1 DEF Packet
  <2>3. Append(pkts[s], e) \in Seq(Packet)
        BY <2>2 DEF QueueTypes
  <2>4. pkts' = [pkts EXCEPT ![s] = Append(@, e)]
        BY <1>2 DEF packet_queue_put
  <2>5. pkts' \in [Streams -> Seq(Packet)]
        BY <2>3, <2>4 DEF QueueTypes
  <2>6. serial' \in [Streams -> Nat]
        BY <1>2, <2>1 DEF packet_queue_put, QueueTypes
  <2>7. asleep' \in [Streams -> {0, 1}] /\ qabort' \in [Streams -> {0, 1}]
        BY <1>2 DEF packet_queue_put, QueueTypes
  <2> QED
      BY <2>5, <2>6, <2>7 DEF QueueTypes
<1> QED
    BY <1>1, <1>2

\* A step of the read thread keeps the types.
LEMMA ReadThreadTypes ==
    TypeOK /\ read_thread => TypeOK'
<1> SUFFICES ASSUME TypeOK, read_thread PROVE TypeOK'
    OBVIOUS
<1> USE DEF TypeOK
<1>1. ASSUME NEW s \in Streams, Open(s) PROVE TypeOK'
  <2>1. ReadTypes' /\ DecoderTypes'
        BY <1>1 DEF Open, ReadTypes, DecoderTypes
  <2>2. [kind |-> "flush", at |-> 0, serial |-> serial[s] + 1] \in Packet
        BY DEF Packet, QueueTypes
  <2>3. QueueTypes'
        BY <1>1, <2>2 DEF Open, packet_queue_start, QueueTypes
  <2>4. <<1>> \in Seq(Positions)
        BY DEF Positions
  <2>5. base' \in [Streams -> Seq(Positions)]
        BY <1>1, <2>4 DEF Open
  <2> QED
      BY <1>1, <2>1, <2>3, <2>5
         DEF Open, flagVars, frameVars, eventVars, FlagTypes, FrameTypes, EventTypes
<1>2. CASE OpenFails
      BY <1>2 DEF OpenFails, ReadTypes, FlagTypes, QueueTypes, DecoderTypes,
         FrameTypes, EventTypes, flagVars, queueVars, decoderVars, frameVars
<1>3. CASE LoopTop
  <2>1. ReadTypes'
        BY <1>3 DEF LoopTop, ReadTypes, FlagTypes
  <2>2. UNCHANGED <<flagVars, queueVars, decoderVars, frameVars, eventVars,
                    base>>
        BY <1>3 DEF LoopTop
  <2>3. FlagTypes' /\ QueueTypes'
        BY <2>2 DEF FlagTypes, QueueTypes, flagVars, queueVars
  <2>4. DecoderTypes' /\ FrameTypes' /\ EventTypes'
        BY <2>2 DEF DecoderTypes, FrameTypes, EventTypes, decoderVars,
           frameVars, eventVars
  <2> QED
      BY <2>1, <2>2, <2>3, <2>4
<1>4. ASSUME NEW s \in Streams, SeekFlush(s) PROVE TypeOK'
  <2>1. ReadTypes'
        BY <1>4 DEF SeekFlush, ReadTypes
  <2>2. QueueTypes'
        BY <1>4 DEF SeekFlush, packet_queue_flush, QueueTypes
  <2>3. UNCHANGED <<flagVars, decoderVars, frameVars, eventVars, base>>
        BY <1>4 DEF SeekFlush
  <2>4. FlagTypes' /\ DecoderTypes'
        BY <2>3 DEF FlagTypes, DecoderTypes, flagVars, decoderVars
  <2>5. FrameTypes' /\ EventTypes'
        BY <2>3 DEF FrameTypes, EventTypes, frameVars, eventVars
  <2> QED
      BY <2>1, <2>2, <2>3, <2>4, <2>5
<1>5. CASE SeekPutFlush
  <2>1. QueueTypes'
        BY <1>5, PutTypes DEF SeekPutFlush, ReadTypes
  <2>2. base' \in [Streams -> Seq(Positions)]
        BY <1>5 DEF SeekPutFlush, ReadTypes, FlagTypes
  <2>3. ReadTypes'
        BY <1>5 DEF SeekPutFlush, ReadTypes
  <2>4. UNCHANGED <<flagVars, decoderVars, frameVars, eventVars>>
        BY <1>5 DEF SeekPutFlush
  <2> QED
      BY <2>1, <2>2, <2>3, <2>4 DEF FlagTypes, DecoderTypes, FrameTypes,
         EventTypes, flagVars, decoderVars, frameVars, eventVars
<1>6. CASE SeekDone \/ ClearEof \/ SetEof
  <2>1. ReadTypes'
        BY <1>6 DEF SeekDone, ClearEof, SetEof, ReadTypes
  <2>2. FlagTypes'
        BY <1>6 DEF SeekDone, ClearEof, SetEof, FlagTypes
  <2>3. UNCHANGED <<queueVars, decoderVars, frameVars, eventVars, base>>
        BY <1>6 DEF SeekDone, ClearEof, SetEof
  <2> QED
      BY <2>1, <2>2, <2>3 DEF QueueTypes, DecoderTypes, FrameTypes, EventTypes,
         queueVars, decoderVars, frameVars, eventVars
<1>7. CASE ReadFrame
  <2>1. QueueTypes'
    <3>1. CASE UNCHANGED queueVars
          BY <3>1 DEF queueVars, QueueTypes
    <3>2. CASE /\ pos <= Len(File) /\ File[pos] \in Streams
               /\ packet_queue_put(File[pos], "data", pos)
      <4>1. pos \in 0 .. Len(File)
            BY <3>2 DEF ReadTypes, Positions
      <4> QED
          BY <3>2, <4>1, PutTypes
    <3> QED
        BY <1>7, <3>1, <3>2 DEF ReadFrame
  <2>2. Len(File) \in Nat
        OBVIOUS
  <2>3. pos' \in Positions
        BY <1>7, <2>2 DEF ReadFrame, ReadTypes, Positions
  <2>4. ReadTypes'
        BY <1>7, <2>3 DEF ReadFrame, ReadTypes
  <2>5. FlagTypes'
        BY <1>7 DEF ReadFrame, FlagTypes
  <2> QED
      BY <1>7, <2>1, <2>4, <2>5 DEF ReadFrame, DecoderTypes, FrameTypes, EventTypes,
         decoderVars, frameVars, eventVars
<1>8. ASSUME NEW s \in Streams, PutNull(s) PROVE TypeOK'
  <2>1. QueueTypes'
        BY <1>8, PutTypes DEF PutNull
  <2> QED
      BY <1>8, <2>1 DEF PutNull, ReadTypes, FlagTypes, DecoderTypes,
         FrameTypes, EventTypes, flagVars, decoderVars, frameVars, eventVars
<1> QED
    BY <1>1, <1>2, <1>3, <1>4, <1>5, <1>6, <1>7, <1>8 DEF read_thread

\* A step of a decoder thread keeps the types.
LEMMA DecoderThreadTypes ==
    ASSUME TypeOK, NEW s \in Streams, decoder_thread(s)
    PROVE  TypeOK'
<1> USE DEF TypeOK
<1> DEFINE Pcs == {"off", "decode", "get", "check", "emit", "exit"}
<1>0. ReadTypes' /\ FlagTypes' /\ EventTypes' /\ base' \in [Streams -> Seq(Positions)]
  <2>1. UNCHANGED <<readVars, flagVars, eventVars, base>>
        BY DEF decoder_thread, Decode, packet_queue_get, UsePacket, QueueFrame,
           DropEarly
  <2>2. ReadTypes'
        BY <2>1 DEF ReadTypes, readVars
  <2>3. FlagTypes'
        BY <2>1 DEF FlagTypes, flagVars
  <2>4. EventTypes'
        BY <2>1 DEF EventTypes, eventVars
  <2> QED
      BY <2>1, <2>2, <2>3, <2>4
<1>1. CASE Decode(s)
  <2> DEFINE f == [at |-> Head(codec[s]).at, of |-> Head(codec[s]).serial,
                   serial |-> 0]
  <2>1. codec[s] \in Seq(Packet)
        BY DEF DecoderTypes
  <2>2. CodecHasFrame(s) => codec[s] # <<>>
        BY <2>1 DEF CodecHasFrame
  <2>3. codec[s] # <<>> => Head(codec[s]) \in Packet /\ Tail(codec[s]) \in Seq(Packet)
        BY <2>1
  <2>4. codec[s] # <<>> => f \in Frame
        BY <2>3 DEF Frame, Packet
  <2>5. \/ UNCHANGED <<codec, frm>>
        \/ /\ codec[s] # <<>>
           /\ codec' = [codec EXCEPT ![s] = Tail(codec[s])]
           /\ frm' = [frm EXCEPT ![s] = f]
        BY <1>1, <2>2 DEF Decode
  <2>6. codec' \in [Streams -> Seq(Packet)] /\ frm' \in [Streams -> Frame]
    <3>1. codec \in [Streams -> Seq(Packet)] /\ frm \in [Streams -> Frame]
          BY DEF DecoderTypes
    <3> HIDE DEF f
    <3> DEFINE q == Tail(codec[s])
    <3>4. codec' = codec \/ (q \in Seq(Packet) /\ codec' = [codec EXCEPT ![s] = q])
          BY <2>3, <2>5
    <3> HIDE DEF q
    <3>2. codec' \in [Streams -> Seq(Packet)]
          BY <3>4, <3>1, UpdateMayType
    <3>3. frm' \in [Streams -> Frame]
          BY <2>4, <2>5, <3>1, UpdateType
    <3> QED
        BY <3>2, <3>3
  <2>7. draining' \in [Streams -> {0, 1}] /\ dpc' \in [Streams -> Pcs]
        BY <1>1 DEF Decode, DecoderTypes
  <2>8. UNCHANGED <<queueVars, pkt, pkt_serial, frameVars>>
        BY <1>1 DEF Decode
  <2>9. QueueTypes' /\ FrameTypes'
        BY <2>8 DEF QueueTypes, FrameTypes, queueVars, frameVars
  <2>10. DecoderTypes'
        BY <2>6, <2>7, <2>8 DEF DecoderTypes
  <2> QED
      BY <1>0, <2>9, <2>10
<1>2. CASE packet_queue_get(s)
  <2>1. pkts[s] \in Seq(Packet)
        BY DEF QueueTypes
  <2>2. pkts[s] # <<>> => /\ Head(pkts[s]) \in Packet
                          /\ Tail(pkts[s]) \in Seq(Packet)
        BY <2>1
  <2>9. pkts[s] # <<>> => Head(pkts[s]).serial \in Nat
        BY <2>2 DEF Packet
  <2>3. \/ UNCHANGED <<pkts, pkt, pkt_serial>>
        \/ /\ pkts[s] # <<>>
           /\ pkts' = [pkts EXCEPT ![s] = Tail(pkts[s])]
           /\ pkt' = [pkt EXCEPT ![s] = Head(pkts[s])]
           /\ pkt_serial' = [pkt_serial EXCEPT ![s] = Head(pkts[s]).serial]
        BY <1>2 DEF packet_queue_get, queueVars
  <2>4. pkts' \in [Streams -> Seq(Packet)] /\ pkt' \in [Streams -> Packet]
    <3>1. pkts \in [Streams -> Seq(Packet)] /\ pkt \in [Streams -> Packet]
          BY DEF QueueTypes, DecoderTypes
    <3> DEFINE q == Tail(pkts[s])
    <3>4. pkts' = pkts \/ (q \in Seq(Packet) /\ pkts' = [pkts EXCEPT ![s] = q])
          BY <2>2, <2>3
    <3> HIDE DEF q
    <3>2. pkts' \in [Streams -> Seq(Packet)]
          BY <3>4, <3>1, UpdateMayType
    <3>3. pkt' \in [Streams -> Packet]
          BY <2>2, <2>3, <3>1, UpdateType
    <3> QED
        BY <3>2, <3>3
  <2>5. pkt_serial' \in [Streams -> Nat \cup {-1}]
        BY <2>9, <2>3 DEF DecoderTypes
  <2>6. dpc' \in [Streams -> Pcs]
        BY <1>2 DEF packet_queue_get, DecoderTypes
  <2>7. asleep' \in [Streams -> {0, 1}] /\ UNCHANGED <<serial, qabort>>
        BY <1>2 DEF packet_queue_get, QueueTypes, queueVars
  <2>8. UNCHANGED <<codec, draining, frm, frameVars>>
        BY <1>2 DEF packet_queue_get
  <2>10. QueueTypes'
        BY <2>4, <2>7 DEF QueueTypes
  <2>11. DecoderTypes'
        BY <2>4, <2>5, <2>6, <2>8 DEF DecoderTypes
  <2>12. FrameTypes'
        BY <2>8 DEF FrameTypes, frameVars
  <2> QED
      BY <1>0, <2>10, <2>11, <2>12
<1>3. CASE UsePacket(s)
  <2>1. codec[s] \in Seq(Packet) /\ pkt[s] \in Packet
        BY DEF DecoderTypes
  <2>2. Append(codec[s], pkt[s]) \in Seq(Packet) /\ <<>> \in Seq(Packet)
        BY <2>1, AppendElements
  <2>3. pkt[s].kind \in {"data", "flush", "null"} /\ NoPacket \in Packet
        BY <2>1 DEF Packet, NoPacket
  <2>4. \/ codec' = codec
        \/ codec' = [codec EXCEPT ![s] = <<>>]
        \/ codec' = [codec EXCEPT ![s] = Append(codec[s], pkt[s])]
        \/ codec' = [codec EXCEPT ![s] = codec[s]]
        BY <1>3, <2>3 DEF UsePacket
  <2>5. codec' \in [Streams -> Seq(Packet)]
    <3>1. codec \in [Streams -> Seq(Packet)]
          BY DEF DecoderTypes
    <3> DEFINE q == Append(codec[s], pkt[s])
    <3>2. q \in Seq(Packet)
          BY <2>2
    <3>3. \/ codec' = codec
          \/ codec' = [codec EXCEPT ![s] = <<>>]
          \/ codec' = [codec EXCEPT ![s] = q]
          \/ codec' = [codec EXCEPT ![s] = codec[s]]
          BY <2>4
    <3> HIDE DEF q
    <3>4. CASE codec' = [codec EXCEPT ![s] = q]
          BY <3>1, <3>2, <3>4, UpdateMayType
    <3>5. CASE codec' = [codec EXCEPT ![s] = <<>>]
          BY <2>2, <3>1, <3>5, UpdateMayType
    <3>6. CASE codec' = codec \/ codec' = [codec EXCEPT ![s] = codec[s]]
          BY <2>1, <3>1, <3>6, UpdateMayType
    <3> QED
        BY <3>3, <3>4, <3>5, <3>6
  <2>6. /\ dpc' \in [Streams -> Pcs] /\ draining' \in [Streams -> {0, 1}]
        /\ pkt' \in [Streams -> Packet]
        BY <1>3, <2>3 DEF UsePacket, DecoderTypes
  <2>7. UNCHANGED <<queueVars, pkt_serial, frm, frameVars>>
        BY <1>3 DEF UsePacket
  <2>8. QueueTypes' /\ FrameTypes'
        BY <2>7 DEF QueueTypes, FrameTypes, queueVars, frameVars
  <2>9. DecoderTypes'
        BY <2>5, <2>6, <2>7 DEF DecoderTypes
  <2> QED
      BY <1>0, <2>8, <2>9
<1>4. CASE QueueFrame(s)
  <2> DEFINE f == Stamped(s, pkt_serial[s])
  <2>1. f \in Frame /\ NoFrame \in Frame
    <3>1. frm[s] \in Frame /\ pkt_serial[s] \in Nat \cup {-1}
          BY DEF DecoderTypes
    <3> QED
        BY <3>1 DEF Frame, NoFrame, Stamped
  <2>2. unread[s] \in Seq(Frame)
        BY DEF FrameTypes
  <2>3. Append(unread[s], f) \in Seq(Frame)
        BY <2>1, <2>2, AppendElements
  <2>4. \/ unread' = unread
        \/ unread' = [unread EXCEPT ![s] = Append(unread[s], f)]
        BY <1>4 DEF QueueFrame
  <2>5. unread' \in [Streams -> Seq(Frame)]
        BY <2>3, <2>4 DEF FrameTypes
  <2>6. dpc' \in [Streams -> Pcs] /\ frm' \in [Streams -> Frame]
        BY <1>4, <2>1 DEF QueueFrame, DecoderTypes
  <2>7. UNCHANGED <<queueVars, pkt, pkt_serial, codec, draining, kept, held,
                    shown>>
        BY <1>4 DEF QueueFrame
  <2>8. QueueTypes'
        BY <2>7 DEF QueueTypes, queueVars
  <2>9. DecoderTypes'
        BY <2>6, <2>7 DEF DecoderTypes
  <2>10. FrameTypes'
        BY <2>5, <2>7 DEF FrameTypes
  <2> QED
      BY <1>0, <2>8, <2>9, <2>10
<1>5. CASE DropEarly
  <2>1. NoFrame \in Frame
        BY DEF Frame, NoFrame
  <2>2. frm' \in [Streams -> Frame] /\ dpc' \in [Streams -> Pcs]
        BY <1>5, <2>1 DEF DropEarly, DecoderTypes
  <2>3. UNCHANGED <<queueVars, pkt, pkt_serial, codec, draining, frameVars>>
        BY <1>5 DEF DropEarly
  <2>4. QueueTypes' /\ FrameTypes'
        BY <2>3 DEF QueueTypes, FrameTypes, queueVars, frameVars
  <2>5. DecoderTypes'
        BY <2>2, <2>3 DEF DecoderTypes
  <2> QED
      BY <1>0, <2>4, <2>5
<1> QED
    BY <1>1, <1>2, <1>3, <1>4, <1>5 DEF decoder_thread

\* frame_queue_next on a queue that is not empty keeps its type and gives a
\* frame; the callers have looked that it is not.
LEMMA NextFrameTypes ==
    ASSUME FrameTypes, NEW s \in Streams, unread[s] # <<>>, frame_queue_next(s)
    PROVE  /\ unread' \in [Streams -> Seq(Frame)] /\ kept' \in [Streams -> {0, 1}]
           /\ Head(unread[s]) \in Frame
<1> DEFINE q == Tail(unread[s])
<1>1. unread[s] \in Seq(Frame) /\ unread \in [Streams -> Seq(Frame)]
      BY DEF FrameTypes
<1>2. q \in Seq(Frame) /\ Head(unread[s]) \in Frame
      BY <1>1
<1>3. unread' = [unread EXCEPT ![s] = q]
      BY DEF frame_queue_next
<1>4. kept' \in [Streams -> {0, 1}]
      BY DEF frame_queue_next, FrameTypes
<1> HIDE DEF q
<1> QED
    BY <1>1, <1>2, <1>3, <1>4, UpdateType

\* A step of the audio callback keeps the types.
LEMMA CallbackTypes ==
    TypeOK /\ sdl_audio_callback => TypeOK'
<1> SUFFICES ASSUME TypeOK, sdl_audio_callback PROVE TypeOK'
    OBVIOUS
<1> USE DEF TypeOK
<1>1. CASE AudioTake
  <2>1. /\ "audio" \in Streams /\ unread["audio"] # <<>>
        /\ frame_queue_next("audio")
        /\ held' = [held EXCEPT !["audio"] = Head(unread["audio"])]
        BY <1>1 DEF AudioTake
  <2> DEFINE f == Head(unread["audio"])
  <2>2. /\ unread' \in [Streams -> Seq(Frame)] /\ kept' \in [Streams -> {0, 1}]
        /\ f \in Frame
        BY <2>1, NextFrameTypes
  <2> HIDE DEF f
  <2>3. held' \in [Streams -> Frame]
        BY <2>1, <2>2, UpdateType DEF FrameTypes, f
  <2>4. UNCHANGED <<readVars, flagVars, queueVars, decoderVars, shown,
                    eventVars, base>>
        BY <1>1 DEF AudioTake
  <2> QED
      BY <2>2, <2>3, <2>4 DEF ReadTypes, FlagTypes, QueueTypes, DecoderTypes,
         FrameTypes, EventTypes, readVars, flagVars, queueVars, decoderVars,
         eventVars
<1>2. CASE AudioPlay
  <2>1. NoFrame \in Frame
        BY DEF NoFrame, Frame
  <2>2. held' \in [Streams -> Frame] /\ shown' \in [Streams -> Frame]
        BY <1>2, <2>1 DEF AudioPlay, FrameTypes
  <2>3. UNCHANGED <<readVars, flagVars, queueVars, decoderVars, unread, kept,
                    eventVars, base>>
        BY <1>2 DEF AudioPlay
  <2> QED
      BY <2>2, <2>3 DEF ReadTypes, FlagTypes, QueueTypes, DecoderTypes,
         FrameTypes, EventTypes, readVars, flagVars, queueVars, decoderVars,
         eventVars
<1> QED
    BY <1>1, <1>2 DEF sdl_audio_callback

\* While streams are being closed there is one to close: what
\* stream_component_close is called with is an open stream.
LEMMA ClosedIsStream ==
    ASSUME TypeOK, EventInv, epc \in {"close", "joinDecoder"}
    PROVE  Closed1st \in Streams /\ Closed1st \in closing
    BY DEF TypeOK, EventTypes, EventInv, Closed1st

\* A step of the event thread, a seek and a stop keep the types; EventInv says
\* that the picture video_refresh shows is there.
LEMMA EventLoopTypes ==
    TypeOK /\ EventInv /\ (event_loop \/ stream_seek \/ UserStop) => TypeOK'
<1> SUFFICES ASSUME TypeOK, EventInv, event_loop \/ stream_seek \/ UserStop
             PROVE  TypeOK'
    OBVIOUS
<1> USE DEF TypeOK
<1>1. CASE RefreshIdle \/ RefreshDue \/ CheckEnd
  <2>1. (Picture => Head(unread["video"]) \in Frame)
        BY DEF Picture, FrameTypes
  <2>2. RefreshDue => Head(unread["video"]).serial = serial["video"] /\ "video" \in Streams
        BY DEF RefreshDue, DuePicture, Picture
  <2>3. vidclk_serial' \in Nat \cup {-1}
        BY <1>1, <2>2 DEF RefreshIdle, RefreshDue, CheckEnd, EventTypes, QueueTypes
  <2>4. epc' \in {"eof?", "show", "video?", "audio?", "loop", "end"}
        BY <1>1 DEF RefreshIdle, RefreshDue, CheckEnd
  <2>5. UNCHANGED <<readVars, flagVars, queueVars, decoderVars, frameVars,
                    closing, quit, nseeks, base>>
        BY <1>1 DEF RefreshIdle, RefreshDue, CheckEnd
  <2> QED
      BY <2>3, <2>4, <2>5 DEF ReadTypes, FlagTypes, QueueTypes, DecoderTypes,
         FrameTypes, EventTypes, readVars, flagVars, queueVars, decoderVars,
         frameVars
<1>2. CASE RefreshStale
  <2>1. "video" \in Streams /\ unread["video"] # <<>> /\ frame_queue_next("video")
        BY <1>2 DEF RefreshStale, StalePicture, Picture
  <2>2. unread' \in [Streams -> Seq(Frame)] /\ kept' \in [Streams -> {0, 1}]
        BY <2>1, NextFrameTypes
  <2>3. /\ epc' = "refresh"
        /\ UNCHANGED <<readVars, flagVars, queueVars, decoderVars, held, shown,
                       closing, vidclk_serial, quit, nseeks, base>>
        BY <1>2 DEF RefreshStale
  <2> QED
      BY <2>2, <2>3 DEF ReadTypes, FlagTypes, QueueTypes, DecoderTypes,
         FrameTypes, EventTypes, readVars, flagVars, queueVars, decoderVars
<1>3. CASE VideoShow
  <2> DEFINE f == Head(unread["video"])
  <2>1. "video" \in Streams /\ unread["video"] # <<>> /\ frame_queue_next("video")
        BY <1>3 DEF VideoShow, EventInv, Picture
  <2>2. /\ unread' \in [Streams -> Seq(Frame)] /\ kept' \in [Streams -> {0, 1}]
        /\ f \in Frame
        BY <2>1, NextFrameTypes
  <2>3. shown' = shown \/ shown' = [shown EXCEPT !["video"] = f]
        BY <1>3 DEF VideoShow
  <2> HIDE DEF f
  <2>4. shown' \in [Streams -> Frame]
        BY <2>1, <2>2, <2>3, UpdateType DEF FrameTypes
  <2>5. /\ epc' \in {"eof?", "refresh"}
        /\ UNCHANGED <<readVars, flagVars, queueVars, decoderVars, held,
                       closing, vidclk_serial, quit, nseeks, base>>
        BY <1>3 DEF VideoShow
  <2> QED
      BY <2>2, <2>4, <2>5 DEF ReadTypes, FlagTypes, QueueTypes, DecoderTypes,
         FrameTypes, EventTypes, readVars, flagVars, queueVars, decoderVars
<1>4. CASE BeginClose \/ JoinReadThread
  <2>1. /\ epc' \in {"join", "close", "closed"} /\ closing' \subseteq Streams
        /\ abort_request' \in {0, 1}
        BY <1>4 DEF BeginClose, JoinReadThread, EventTypes, FlagTypes, flagVars
  <2>2. UNCHANGED <<readVars, seek_req, seek_pos, eof, queueVars, decoderVars,
                    frameVars, vidclk_serial, quit, nseeks, base>>
        BY <1>4 DEF BeginClose, JoinReadThread, flagVars
  <2> QED
      BY <2>1, <2>2 DEF ReadTypes, FlagTypes, QueueTypes, DecoderTypes,
         FrameTypes, EventTypes, readVars, queueVars, decoderVars, frameVars
<1>5. CASE AbortDecoder
  <2>1. Closed1st \in Streams
        BY <1>5, ClosedIsStream DEF AbortDecoder
  <2>2. QueueTypes'
        BY <1>5, <2>1 DEF AbortDecoder, packet_queue_abort, QueueTypes
  <2>3. /\ epc' = "joinDecoder"
        /\ UNCHANGED <<readVars, flagVars, decoderVars, frameVars, closing,
                       vidclk_serial, quit, nseeks, base>>
        BY <1>5 DEF AbortDecoder
  <2> QED
      BY <2>2, <2>3 DEF ReadTypes, FlagTypes, DecoderTypes, FrameTypes,
         EventTypes, readVars, flagVars, decoderVars, frameVars
<1>6. CASE JoinDecoder
  <2>1. Closed1st \in Streams
        BY <1>6, ClosedIsStream DEF JoinDecoder
  <2>2. pkts' \in [Streams -> Seq(Packet)]
        BY <1>6, <2>1 DEF JoinDecoder, packet_queue_flush, QueueTypes
  <2>3. unread' \in [Streams -> Seq(Frame)] /\ kept' \in [Streams -> {0, 1}]
    <3>1. All(<<>>) \in [Streams -> Seq(Frame)] /\ All(0) \in [Streams -> {0, 1}]
          BY DEF All
    <3>2. (unread' = All(<<>>) /\ kept' = All(0)) \/ UNCHANGED <<unread, kept>>
          BY <1>6 DEF JoinDecoder
    <3> QED
        BY <3>1, <3>2 DEF FrameTypes
  <2>4. epc' \in {"close", "closed"} /\ closing' \subseteq Streams
        BY <1>6 DEF JoinDecoder, EventTypes
  <2>5. UNCHANGED <<readVars, flagVars, serial, qabort, asleep, decoderVars,
                    held, shown, vidclk_serial, quit, nseeks, base>>
        BY <1>6 DEF JoinDecoder
  <2> QED
      BY <2>2, <2>3, <2>4, <2>5 DEF ReadTypes, FlagTypes, QueueTypes,
         DecoderTypes, FrameTypes, EventTypes, readVars, flagVars, decoderVars
<1>7. CASE stream_seek \/ UserStop
  <2>1. FlagTypes'
    <3>1. Targets \subseteq Positions
          BY DEF Positions
    <3> QED
        BY <1>7, <3>1 DEF stream_seek, UserStop, FlagTypes, flagVars
  <2>2. quit' \in {0, 1} /\ nseeks' \in 0 .. MaxSeeks
        BY <1>7 DEF stream_seek, UserStop, EventTypes
  <2>3. UNCHANGED <<readVars, queueVars, decoderVars, frameVars, epc, closing,
                    vidclk_serial, base>>
        BY <1>7 DEF stream_seek, UserStop
  <2> QED
      BY <2>1, <2>2, <2>3 DEF ReadTypes, QueueTypes, DecoderTypes, FrameTypes,
         EventTypes, readVars, queueVars, decoderVars, frameVars
<1> QED
    BY <1>1, <1>2, <1>3, <1>4, <1>5, <1>6, <1>7 DEF event_loop

\* Every step keeps the types.
LEMMA TypeStep ==
    TypeOK /\ EventInv /\ [Next]_vars => TypeOK'
<1> SUFFICES ASSUME TypeOK, EventInv, [Next]_vars PROVE TypeOK'
    OBVIOUS
<1>1. CASE UNCHANGED vars
      BY <1>1 DEF vars, TypeOK, ReadTypes, FlagTypes, QueueTypes, DecoderTypes,
         FrameTypes, EventTypes, readVars, flagVars, queueVars, decoderVars,
         frameVars, eventVars
<1> QED
    BY <1>1, ReadThreadTypes, DecoderThreadTypes, CallbackTypes,
       EventLoopTypes DEF Next

-----------------------------------------------------------------------------
(* Who moves when.                                                         *)

\* Only the event thread takes pictures, so the one it found due stays there;
\* the streams being closed are never none.
LEMMA EventStep ==
    TypeOK /\ EventInv /\ [Next]_vars => EventInv'
<1> SUFFICES ASSUME TypeOK, EventInv, [Next]_vars PROVE EventInv'
    OBVIOUS
<1> USE DEF EventInv
<1>1. CASE UNCHANGED <<epc, closing, unread>>
      BY <1>1 DEF Picture
<1>2. ASSUME NEW s \in Streams, QueueFrame(s) PROVE EventInv'
  <2>1. unread[s] \in Seq(Frame) /\ unread \in [Streams -> Seq(Frame)]
        BY DEF TypeOK, FrameTypes
  <2>2. \A f : Append(unread[s], f) # <<>>
        BY <2>1
  <2>3. /\ UNCHANGED <<epc, closing>>
        /\ \/ unread' = unread
           \/ unread' = [unread EXCEPT ![s] = Append(unread[s], Stamped(s, pkt_serial[s]))]
        BY <1>2 DEF QueueFrame, eventVars
  <2> QED
      BY <2>1, <2>2, <2>3 DEF Picture
<1>3. CASE AudioTake
  <2>1. /\ UNCHANGED <<epc, closing>>
        /\ unread' = [unread EXCEPT !["audio"] = Tail(unread["audio"])]
        BY <1>3 DEF AudioTake, frame_queue_next, eventVars
  <2> QED
      BY <2>1 DEF Picture, TypeOK, FrameTypes
<1>4. CASE event_loop
      BY <1>4 DEF event_loop, RefreshIdle, RefreshStale, RefreshDue, VideoShow,
         CheckEnd, BeginClose, JoinReadThread, AbortDecoder, JoinDecoder,
         DuePicture, Picture, frameVars
<1>5. CASE read_thread
      BY <1>1, <1>5 DEF read_thread, Open, SeekFlush, PutNull, OpenFails, LoopTop,
         SeekPutFlush, SeekDone, ClearEof, ReadFrame, SetEof, eventVars, frameVars
<1>6. ASSUME NEW s \in Streams,
             Decode(s) \/ packet_queue_get(s) \/ UsePacket(s) \/ DropEarly
      PROVE  EventInv'
      BY <1>1, <1>6 DEF Decode, packet_queue_get, UsePacket, DropEarly,
         eventVars, frameVars
<1>7. CASE AudioPlay \/ stream_seek \/ UserStop \/ UNCHANGED vars
      BY <1>1, <1>7 DEF AudioPlay, stream_seek, UserStop, vars, eventVars, frameVars
<1> QED
    BY <1>2, <1>3, <1>4, <1>5, <1>6, <1>7
       DEF Next, decoder_thread, sdl_audio_callback

\* packet_queue_put changes nothing of an aborted queue, nor of another one.
LEMMA PutEffect ==
    ASSUME QueueTypes, NEW s \in Streams, NEW at \in 0 .. Len(File),
           NEW kind \in {"data", "flush", "null"},
           packet_queue_put(s, kind, at)
    PROVE  /\ \A t \in Streams \ {s} : pkts'[t] = pkts[t] /\ serial'[t] = serial[t]
           /\ kind # "flush" => serial' = serial
           /\ kind = "flush" /\ qabort[s] = 0 => serial'[s] = serial[s] + 1
           /\ qabort[s] = 1 => UNCHANGED <<pkts, serial>>
           /\ qabort[s] = 0 =>
                pkts'[s] = Append(pkts[s],
                    [kind |-> kind, at |-> at, serial |-> serial'[s]])
           /\ UNCHANGED qabort
<1>1. CASE qabort[s] = 1
      BY <1>1 DEF packet_queue_put, QueueTypes, queueVars
<1>2. CASE qabort[s] = 0
  <2> DEFINE n == serial[s] + (IF kind = "flush" THEN 1 ELSE 0)
             q == Append(pkts[s], [kind |-> kind, at |-> at, serial |-> n])
  <2>1. /\ serial' = [serial EXCEPT ![s] = n] /\ UNCHANGED qabort
        /\ pkts' = [pkts EXCEPT ![s] = q]
        BY <1>2 DEF packet_queue_put
  <2>2. pkts'[s] = q /\ serial'[s] = n
        BY <2>1 DEF QueueTypes
  <2>3. \A t \in Streams \ {s} : pkts'[t] = pkts[t] /\ serial'[t] = serial[t]
        BY <2>1 DEF QueueTypes
  <2>4. kind # "flush" => serial' = serial
        BY <2>1 DEF QueueTypes
  <2>5. kind = "flush" => n = serial[s] + 1
        OBVIOUS
  <2> HIDE DEF n
  <2> QED
      BY <1>2, <2>1, <2>2, <2>3, <2>4, <2>5
<1> QED
    BY <1>1, <1>2 DEF QueueTypes

PhaseVars == <<epc, closing, rpc, todo, cur, pos, seek_req, seek_pos, pkts, serial, base,
               pkt_serial, dpc, qabort>>

\* Every step keeps the phases in which a PacketQueue may be touched: the read
\* thread stops before any queue is aborted, and it is alone between emptying a
\* queue and giving it the flush packet.
LEMMA PhaseStep ==
    TypeOK /\ EventInv /\ PhaseInv /\ [Next]_vars => PhaseInv'
<1> SUFFICES ASSUME TypeOK, EventInv, PhaseInv, [Next]_vars PROVE PhaseInv'
    OBVIOUS
<1>0. CASE UNCHANGED PhaseVars
      BY <1>0 DEF PhaseVars, PhaseInv, Closed1st
<1>1. ASSUME NEW s \in Streams, Open(s) PROVE PhaseInv'
  <2>1. \A t \in Streams : Len(base'[t]) = serial'[t]
        BY <1>1 DEF Open, packet_queue_start, PhaseInv, TypeOK, QueueTypes
  <2> QED
      BY <1>1, <2>1 DEF Open, packet_queue_start, PhaseInv, TypeOK, QueueTypes,
         DecoderTypes, flagVars, eventVars
<1>2. CASE OpenFails \/ LoopTop \/ SeekDone \/ ClearEof \/ SetEof
      BY <1>2 DEF OpenFails, LoopTop, SeekDone, ClearEof, SetEof, PhaseInv,
         readVars, flagVars, queueVars, decoderVars, eventVars
<1>3. ASSUME NEW s \in Streams, SeekFlush(s) PROVE PhaseInv'
      BY <1>3 DEF SeekFlush, packet_queue_flush, PhaseInv, flagVars,
         decoderVars, eventVars, TypeOK, QueueTypes
<1>4. CASE SeekPutFlush
  <2>1. cur \in Streams /\ qabort[cur] = 0
        BY <1>4 DEF SeekPutFlush, PhaseInv, TypeOK, ReadTypes
  <2>2. /\ \A t \in Streams \ {cur} : serial'[t] = serial[t]
        /\ serial'[cur] = serial[cur] + 1 /\ UNCHANGED qabort
    <3>1. 0 \in 0 .. Len(File) /\ QueueTypes /\ packet_queue_put(cur, "flush", 0)
          BY <1>4 DEF SeekPutFlush, TypeOK
    <3> QED
        BY <2>1, <3>1, PutEffect
  <2>3. base[cur] \in Seq(Positions) /\ base \in [Streams -> Seq(Positions)]
        BY <2>1 DEF TypeOK
  <2>4. /\ Len(base'[cur]) = Len(base[cur]) + 1
        /\ \A t \in Streams \ {cur} : base'[t] = base[t]
        BY <1>4, <2>1, <2>3 DEF SeekPutFlush, TypeOK, FlagTypes
  <2>5. \A t \in Streams : Len(base'[t]) = serial'[t]
        BY <2>2, <2>4 DEF PhaseInv
  <2>6. /\ rpc = "putflush" /\ rpc' \in {"seeked", "flush"}
        /\ UNCHANGED <<pos, epc, seek_req, seek_pos>>
        BY <1>4 DEF SeekPutFlush, flagVars, eventVars
  <2> QED
      BY <2>2, <2>5, <2>6 DEF PhaseInv
<1>5. CASE ReadFrame
  <2>1. UNCHANGED <<serial, qabort>>
    <3>1. CASE UNCHANGED queueVars
          BY <3>1 DEF queueVars
    <3>2. CASE /\ pos <= Len(File) /\ File[pos] \in Streams
               /\ packet_queue_put(File[pos], "data", pos)
      <4>1. pos \in 0 .. Len(File)
            BY <3>2 DEF TypeOK, ReadTypes, Positions
      <4> QED
          BY <3>2, <4>1, PutEffect DEF TypeOK
    <3> QED
        BY <1>5, <3>1, <3>2 DEF ReadFrame
  <2>2. /\ rpc = "read" /\ rpc' \in {"top", "putnull", "exit"}
        /\ UNCHANGED <<epc, seek_req, base>>
        BY <1>5 DEF ReadFrame, eventVars
  <2> QED
      BY <2>1, <2>2 DEF PhaseInv
<1>6. ASSUME NEW s \in Streams, PutNull(s) PROVE PhaseInv'
  <2>1. UNCHANGED <<serial, qabort>>
    <3>1. 0 \in 0 .. Len(File) /\ QueueTypes /\ packet_queue_put(s, "null", 0)
          BY <1>6 DEF PutNull, TypeOK
    <3> QED
        BY <3>1, PutEffect
  <2>2. /\ rpc = "putnull" /\ rpc' \in {"putnull", "seteof"}
        /\ UNCHANGED <<epc, seek_req, base>>
        BY <1>6 DEF PutNull, flagVars, eventVars
  <2> QED
      BY <2>1, <2>2 DEF PhaseInv
<1>7. ASSUME NEW s \in Streams, decoder_thread(s) PROVE PhaseInv'
  <2>1. dpc[s] # "off" /\ \A t \in Streams \ {s} :
           /\ dpc'[t] = dpc[t] /\ pkts'[t] = pkts[t]
           /\ pkt_serial'[t] = pkt_serial[t]
    <3> USE DEF TypeOK, DecoderTypes, QueueTypes
    <3>1. CASE Decode(s)
          BY <3>1 DEF Decode, queueVars
    <3>2. CASE packet_queue_get(s)
          BY <3>2 DEF packet_queue_get, queueVars
    <3>3. CASE UsePacket(s)
          BY <3>3 DEF UsePacket, queueVars
    <3>4. CASE QueueFrame(s)
          BY <3>4 DEF QueueFrame, queueVars
    <3>5. CASE s = "video" /\ DropEarly
          BY <3>5 DEF DropEarly, queueVars
    <3> QED
        BY <1>7, <3>1, <3>2, <3>3, <3>4, <3>5 DEF decoder_thread
  <2>2. UNCHANGED <<epc, readVars, flagVars, serial, base, qabort>>
        BY <1>7 DEF decoder_thread, Decode, packet_queue_get, UsePacket,
           QueueFrame, DropEarly, queueVars, eventVars
  <2>3. pkts[s] = <<>> => pkts'[s] = <<>>
        BY <1>7 DEF decoder_thread, Decode, packet_queue_get, UsePacket,
           QueueFrame, DropEarly, queueVars
  <2>4. UNCHANGED closing
        BY <1>7 DEF decoder_thread, Decode, packet_queue_get, UsePacket,
           QueueFrame, DropEarly, eventVars
  <2>5. Closed1st' = Closed1st /\ UNCHANGED <<epc, qabort, rpc, cur, todo, pos,
                                 seek_req, seek_pos, serial, base>>
        BY <2>2, <2>4 DEF Closed1st, readVars, flagVars
  <2>6. rpc' = "putflush" => cur' \in todo' /\ pkts'[cur'] = <<>>
        BY <2>1, <2>3, <2>5 DEF PhaseInv, TypeOK, ReadTypes
  <2>7. ASSUME NEW t \in Streams, rpc' = "open", t \in todo'
        PROVE  /\ pkts'[t] = <<>> /\ serial'[t] = 0 /\ base'[t] = <<>>
               /\ pkt_serial'[t] = -1 /\ dpc'[t] = "off"
        BY <2>1, <2>5, <2>7 DEF PhaseInv
  <2> QED
      BY <2>5, <2>6, <2>7 DEF PhaseInv
<1>8. CASE sdl_audio_callback \/ UNCHANGED vars
      BY <1>0, <1>8 DEF sdl_audio_callback, AudioTake, AudioPlay, PhaseVars,
         vars, readVars, flagVars, queueVars, decoderVars, eventVars
<1>9. CASE event_loop \/ stream_seek \/ UserStop
  <2>1. CASE AbortDecoder
    <3>1. Closed1st \in Streams /\ rpc = "exit" /\ epc' = "joinDecoder"
          BY <2>1, ClosedIsStream DEF AbortDecoder, PhaseInv
    <3>2. Closed1st' = Closed1st /\ qabort'[Closed1st] = 1
          BY <2>1, <3>1 DEF AbortDecoder, packet_queue_abort, Closed1st,
             TypeOK, QueueTypes
    <3> QED
        BY <2>1, <3>1, <3>2 DEF AbortDecoder, packet_queue_abort, PhaseInv,
           readVars, flagVars, decoderVars
  <2>2. CASE JoinDecoder
    <3>1. rpc = "exit"
          BY <2>2 DEF JoinDecoder, PhaseInv
    <3> QED
        BY <2>2, <3>1 DEF JoinDecoder, packet_queue_flush, PhaseInv, readVars,
           flagVars, decoderVars
  <2>3. CASE JoinReadThread
        BY <2>3 DEF JoinReadThread, PhaseInv, readVars, flagVars, queueVars,
           decoderVars
  <2>4. CASE stream_seek
        BY <2>4 DEF stream_seek, PhaseInv, readVars, queueVars, decoderVars
  <2>5. CASE UserStop
        BY <1>0, <2>5 DEF UserStop, PhaseVars, readVars, flagVars, queueVars,
           decoderVars
  <2>6. CASE \/ RefreshIdle \/ RefreshStale \/ RefreshDue \/ VideoShow
             \/ CheckEnd \/ BeginClose
    <3>1. /\ epc' \notin {"close", "joinDecoder", "closed"}
          /\ UNCHANGED <<readVars, seek_req, seek_pos, queueVars, decoderVars,
                         base>>
          BY <2>6 DEF RefreshIdle, RefreshStale, RefreshDue, VideoShow,
             CheckEnd, BeginClose, flagVars
    <3> QED
        BY <3>1 DEF PhaseInv, readVars, queueVars, decoderVars
  <2> QED
      BY <1>9, <2>1, <2>2, <2>3, <2>4, <2>5, <2>6 DEF event_loop
<1> QED
    BY <1>1, <1>2, <1>3, <1>4, <1>5, <1>6, <1>7, <1>8, <1>9 DEF Next, read_thread

-----------------------------------------------------------------------------
(* What each operation on a queue, a codec or a frame does to the elements. *)

\* Sequence r is q without its first element, or with e after its last.
TailOf(r, q) == /\ Len(q) >= 1 /\ Len(r) = Len(q) - 1
                /\ \A i \in 1 .. Len(r) : r[i] = q[i + 1]
AppendOf(r, q, e) == /\ Len(r) = Len(q) + 1 /\ r[Len(q) + 1] = e
                     /\ \A i \in 1 .. Len(q) : r[i] = q[i]
\* Function g differs from f at s only.
OnlyAt(g, f, s) == \A t \in Streams \ {s} : g[t] = f[t]

\* Tail is TailOf.
LEMMA TailIs ==
    ASSUME NEW S, NEW q \in Seq(S), q # <<>>
    PROVE  TailOf(Tail(q), q) /\ Head(q) = q[1] /\ Len(q) \in Nat
    BY DEF TailOf

\* Append is AppendOf.
LEMMA AppendIs ==
    ASSUME NEW S, NEW q \in Seq(S), NEW e \in S
    PROVE  AppendOf(Append(q, e), q, e)
    BY DEF AppendOf

\* Changing a function at one argument changes it there only.
LEMMA UpdateAt ==
    ASSUME NEW S, NEW f \in [Streams -> S], NEW s \in Streams, NEW e
    PROVE  [f EXCEPT ![s] = e][s] = e /\ OnlyAt([f EXCEPT ![s] = e], f, s)
    BY DEF OnlyAt

\* What packet_queue_put does to a started queue.
LEMMA PutElements ==
    ASSUME QueueTypes, NEW s \in Streams, NEW at \in 0 .. Len(File),
           NEW kind \in {"data", "flush", "null"},
           packet_queue_put(s, kind, at), qabort[s] = 0
    PROVE  /\ AppendOf(pkts'[s], pkts[s],
                        [kind |-> kind, at |-> at, serial |-> serial'[s]])
           /\ OnlyAt(pkts', pkts, s)
<1> DEFINE e == [kind |-> kind, at |-> at, serial |-> serial'[s]]
<1>1. QueueTypes'
      BY PutTypes
<1>2. e \in Packet /\ pkts[s] \in Seq(Packet)
      BY <1>1 DEF QueueTypes, Packet
<1>3. pkts'[s] = Append(pkts[s], e) /\ OnlyAt(pkts', pkts, s)
  <2> DEFINE n == serial[s] + (IF kind = "flush" THEN 1 ELSE 0)
             q == Append(pkts[s], [kind |-> kind, at |-> at, serial |-> n])
  <2>1. serial' = [serial EXCEPT ![s] = n] /\ pkts' = [pkts EXCEPT ![s] = q]
        BY DEF packet_queue_put
  <2>2. serial'[s] = n /\ pkts'[s] = q /\ OnlyAt(pkts', pkts, s)
        BY <2>1 DEF OnlyAt, QueueTypes
  <2> QED
      BY <2>2
<1> HIDE DEF e
<1>4. AppendOf(pkts'[s], pkts[s], e)
      BY <1>2, <1>3, AppendIs
<1> QED
    BY <1>3, <1>4 DEF e

\* What packet_queue_get does: nothing, or it moves the first packet and its
\* serial into the decoder's hands.
LEMMA GetElements ==
    ASSUME TypeOK, NEW s \in Streams, packet_queue_get(s)
    PROVE  /\ OnlyAt(pkts', pkts, s) /\ OnlyAt(pkt', pkt, s)
           /\ OnlyAt(pkt_serial', pkt_serial, s) /\ OnlyAt(dpc', dpc, s)
           /\ dpc[s] = "get" /\ UNCHANGED <<serial, qabort>>
           /\ \/ UNCHANGED <<pkts, pkt, pkt_serial>> /\ dpc'[s] \in {"get", "exit"}
              \/ /\ qabort[s] = 0 /\ pkts[s] # <<>> /\ dpc'[s] = "check"
                 /\ TailOf(pkts'[s], pkts[s]) /\ pkt'[s] = pkts[s][1]
                 /\ pkt_serial'[s] = pkts[s][1].serial
<1> DEFINE q == Tail(pkts[s])
<1>1. /\ pkts \in [Streams -> Seq(Packet)] /\ pkts[s] \in Seq(Packet)
      /\ pkt \in [Streams -> Packet] /\ dpc \in [Streams -> {"off", "decode", "get", "check", "emit", "exit"}]
      /\ pkt_serial \in [Streams -> Nat \cup {-1}]
      BY DEF TypeOK, QueueTypes, DecoderTypes
<1>2. pkts[s] # <<>> => TailOf(q, pkts[s]) /\ Head(pkts[s]) = pkts[s][1]
      BY <1>1, TailIs
<1> HIDE DEF q
<1>3. CASE UNCHANGED <<pkts, pkt, pkt_serial>> /\ dpc'[s] \in {"get", "exit"}
      BY <1>1, <1>3 DEF packet_queue_get, OnlyAt, queueVars
<1>4. CASE qabort[s] = 0 /\ pkts[s] # <<>>
  <2>1. /\ pkts' = [pkts EXCEPT ![s] = q] /\ pkt' = [pkt EXCEPT ![s] = pkts[s][1]]
        /\ pkt_serial' = [pkt_serial EXCEPT ![s] = pkts[s][1].serial]
        /\ dpc' = [dpc EXCEPT ![s] = "check"] /\ UNCHANGED <<serial, qabort>>
        /\ dpc[s] = "get"
        BY <1>2, <1>4 DEF packet_queue_get, q
  <2>2. pkts'[s] = q /\ OnlyAt(pkts', pkts, s)
        BY <1>1, <2>1, UpdateAt
  <2>3. pkt'[s] = pkts[s][1] /\ OnlyAt(pkt', pkt, s)
        BY <1>1, <2>1 DEF OnlyAt
  <2>4. pkt_serial'[s] = pkts[s][1].serial /\ OnlyAt(pkt_serial', pkt_serial, s)
        BY <1>1, <2>1 DEF OnlyAt
  <2>5. dpc'[s] = "check" /\ OnlyAt(dpc', dpc, s)
        BY <1>1, <2>1 DEF OnlyAt
  <2> QED
      BY <1>2, <1>4, <2>1, <2>2, <2>3, <2>4, <2>5
<1>5. qabort[s] = 1 \/ (qabort[s] = 0 /\ pkts[s] = <<>>) =>
         UNCHANGED <<pkts, pkt, pkt_serial>> /\ dpc'[s] \in {"get", "exit"}
      BY <1>1 DEF packet_queue_get, queueVars
<1> QED
    BY <1>3, <1>4, <1>5 DEF TypeOK, QueueTypes

\* What a decoding step does: nothing to the codec, or it turns the codec's
\* first packet into the frame in hand.
LEMMA DecodeElements ==
    ASSUME TypeOK, NEW s \in Streams, Decode(s)
    PROVE  /\ OnlyAt(codec', codec, s) /\ OnlyAt(frm', frm, s)
           /\ OnlyAt(dpc', dpc, s) /\ dpc[s] = "decode"
           /\ UNCHANGED <<queueVars, pkt, pkt_serial>>
           /\ \/ UNCHANGED <<codec, frm>> /\ dpc'[s] \in {"decode", "get", "exit"}
              \/ /\ serial[s] = pkt_serial[s] /\ dpc'[s] = "emit"
                 /\ codec[s] # <<>> /\ TailOf(codec'[s], codec[s])
                 /\ frm'[s].of = codec[s][1].serial /\ frm'[s].at = codec[s][1].at
<1> DEFINE q == Tail(codec[s])
           f == [at |-> Head(codec[s]).at, of |-> Head(codec[s]).serial,
                 serial |-> 0]
<1>1. /\ codec \in [Streams -> Seq(Packet)] /\ codec[s] \in Seq(Packet)
      /\ frm \in [Streams -> Frame]
      /\ dpc \in [Streams -> {"off", "decode", "get", "check", "emit", "exit"}]
      BY DEF TypeOK, DecoderTypes
<1>2. codec[s] # <<>> => TailOf(q, codec[s]) /\ Head(codec[s]) = codec[s][1]
      BY <1>1, TailIs
<1>3. CodecHasFrame(s) => codec[s] # <<>>
      BY <1>1 DEF CodecHasFrame
<1>4. \/ UNCHANGED <<codec, frm>> /\ dpc'[s] \in {"decode", "get", "exit"}
      \/ /\ codec[s] # <<>> /\ serial[s] = pkt_serial[s]
         /\ codec' = [codec EXCEPT ![s] = q] /\ frm' = [frm EXCEPT ![s] = f]
         /\ dpc' = [dpc EXCEPT ![s] = "emit"]
      BY <1>1, <1>3 DEF Decode
<1>5. OnlyAt(dpc', dpc, s)
      BY <1>1 DEF Decode, OnlyAt
<1>6. codec[s] # <<>> =>
         f.of = codec[s][1].serial /\ f.at = codec[s][1].at
      BY <1>2
<1> HIDE DEF q, f
<1>7. dpc[s] = "decode" /\ UNCHANGED <<queueVars, pkt, pkt_serial>>
      BY DEF Decode
<1>8. CASE UNCHANGED <<codec, frm>> /\ dpc'[s] \in {"decode", "get", "exit"}
      BY <1>5, <1>7, <1>8 DEF OnlyAt
<1>9. CASE /\ codec[s] # <<>> /\ serial[s] = pkt_serial[s]
           /\ codec' = [codec EXCEPT ![s] = q] /\ frm' = [frm EXCEPT ![s] = f]
           /\ dpc' = [dpc EXCEPT ![s] = "emit"]
  <2>1. codec'[s] = q /\ OnlyAt(codec', codec, s)
        BY <1>1, <1>9, UpdateAt
  <2>2. frm'[s] = f /\ OnlyAt(frm', frm, s)
        BY <1>1, <1>9, UpdateAt
  <2>3. dpc'[s] = "emit"
        BY <1>1, <1>9
  <2> QED
      BY <1>2, <1>5, <1>6, <1>7, <1>9, <2>1, <2>2, <2>3
<1> QED
    BY <1>4, <1>8, <1>9

\* What a decoder does with the packet in hand: drop it, empty the codec or feed
\* it.
LEMMA UseElements ==
    ASSUME TypeOK, NEW s \in Streams, UsePacket(s)
    PROVE  /\ OnlyAt(codec', codec, s) /\ OnlyAt(dpc', dpc, s)
           /\ OnlyAt(pkt', pkt, s) /\ pkt'[s] = NoPacket
           /\ dpc[s] = "check" /\ dpc'[s] \in {"decode", "get"}
           /\ UNCHANGED <<queueVars, pkt_serial, frm>>
           /\ \/ serial[s] # pkt_serial[s] /\ codec' = codec
              \/ /\ serial[s] = pkt_serial[s]
                 /\ \/ pkt[s].kind = "flush" /\ codec'[s] = <<>>
                    \/ pkt[s].kind = "null" /\ codec'[s] = codec[s]
                    \/ /\ pkt[s].kind = "data"
                       /\ AppendOf(codec'[s], codec[s], pkt[s])
<1> DEFINE q == Append(codec[s], pkt[s])
<1>1. /\ codec \in [Streams -> Seq(Packet)] /\ codec[s] \in Seq(Packet)
      /\ pkt \in [Streams -> Packet] /\ pkt[s] \in Packet
      /\ dpc \in [Streams -> {"off", "decode", "get", "check", "emit", "exit"}]
      BY DEF TypeOK, DecoderTypes
<1>2. AppendOf(q, codec[s], pkt[s])
      BY <1>1, AppendIs
<1>3. pkt[s].kind \in {"data", "flush", "null"}
      BY <1>1 DEF Packet
<1>4. \/ serial[s] # pkt_serial[s] /\ codec' = codec
      \/ /\ serial[s] = pkt_serial[s]
         /\ \/ pkt[s].kind = "flush" /\ codec' = [codec EXCEPT ![s] = <<>>]
            \/ pkt[s].kind = "null" /\ codec' = [codec EXCEPT ![s] = codec[s]]
            \/ pkt[s].kind = "data" /\ codec' = [codec EXCEPT ![s] = q]
      BY <1>1, <1>3 DEF UsePacket
<1> HIDE DEF q
<1>5. /\ OnlyAt(codec', codec, s)
      /\ \/ serial[s] # pkt_serial[s] /\ codec' = codec
         \/ /\ serial[s] = pkt_serial[s]
            /\ \/ pkt[s].kind = "flush" /\ codec'[s] = <<>>
               \/ pkt[s].kind = "null" /\ codec'[s] = codec[s]
               \/ pkt[s].kind = "data" /\ codec'[s] = q
      BY <1>1, <1>4 DEF OnlyAt
<1>6. /\ OnlyAt(dpc', dpc, s) /\ OnlyAt(pkt', pkt, s) /\ pkt'[s] = NoPacket
      /\ dpc[s] = "check" /\ dpc'[s] \in {"decode", "get"}
      BY <1>1 DEF UsePacket, OnlyAt
<1>7. UNCHANGED <<queueVars, pkt_serial, frm>>
      BY DEF UsePacket
<1> QED
    BY <1>2, <1>5, <1>6, <1>7

\* What queueing a frame does: nothing, or it appends the stamped frame.
LEMMA FrameElements ==
    ASSUME TypeOK, NEW s \in Streams, QueueFrame(s)
    PROVE  /\ OnlyAt(unread', unread, s) /\ OnlyAt(dpc', dpc, s)
           /\ OnlyAt(frm', frm, s)
           /\ dpc[s] = "emit" /\ dpc'[s] \in {"decode", "exit"}
           /\ UNCHANGED <<queueVars, pkt, pkt_serial, codec, held, shown>>
           /\ \/ unread' = unread
              \/ AppendOf(unread'[s], unread[s], Stamped(s, pkt_serial[s]))
<1> DEFINE f == Stamped(s, pkt_serial[s])
           q == Append(unread[s], f)
<1>1. /\ unread \in [Streams -> Seq(Frame)] /\ unread[s] \in Seq(Frame)
      /\ frm \in [Streams -> Frame] /\ frm[s] \in Frame
      /\ pkt_serial[s] \in Nat \cup {-1}
      /\ dpc \in [Streams -> {"off", "decode", "get", "check", "emit", "exit"}]
      BY DEF TypeOK, DecoderTypes, FrameTypes
<1>2. f \in Frame
      BY <1>1 DEF Frame, Stamped
<1>3. unread' = unread \/ unread' = [unread EXCEPT ![s] = q]
      BY DEF QueueFrame
<1> HIDE DEF f
<1>4. AppendOf(q, unread[s], f)
      BY <1>1, <1>2, AppendIs
<1> HIDE DEF q
<1>5. OnlyAt(unread', unread, s) /\ (unread' = unread \/ unread'[s] = q)
      BY <1>1, <1>3 DEF OnlyAt
<1>6. /\ OnlyAt(dpc', dpc, s) /\ OnlyAt(frm', frm, s) /\ dpc[s] = "emit"
      /\ dpc'[s] \in {"decode", "exit"}
      BY <1>1 DEF QueueFrame, OnlyAt
<1>7. UNCHANGED <<queueVars, pkt, pkt_serial, codec, held, shown>>
      BY DEF QueueFrame
<1> QED
    BY <1>4, <1>5, <1>6, <1>7 DEF f

\* What frame_queue_next does to the unread frames.
LEMMA NextElements ==
    ASSUME TypeOK, NEW s \in Streams, unread[s] # <<>>, frame_queue_next(s)
    PROVE  /\ OnlyAt(unread', unread, s) /\ TailOf(unread'[s], unread[s])
           /\ Head(unread[s]) = unread[s][1]
<1> DEFINE q == Tail(unread[s])
<1>1. unread \in [Streams -> Seq(Frame)] /\ unread[s] \in Seq(Frame)
      BY DEF TypeOK, FrameTypes
<1>2. TailOf(q, unread[s]) /\ Head(unread[s]) = unread[s][1]
      BY <1>1, TailIs
<1>3. unread' = [unread EXCEPT ![s] = q]
      BY DEF frame_queue_next
<1> HIDE DEF q
<1> QED
    BY <1>1, <1>2, <1>3 DEF OnlyAt

-----------------------------------------------------------------------------
(* The serials in the packet queues and in the decoders.                   *)

SerialInv == QueueInv /\ FlushInv /\ CodecInv /\ FrameInv

\* Of stream t nothing changes that the serials depend on.
SameStream(t) ==
    /\ pkts'[t] = pkts[t] /\ serial'[t] = serial[t] /\ qabort'[t] = qabort[t]
    /\ dpc'[t] = dpc[t] /\ pkt'[t] = pkt[t] /\ pkt_serial'[t] = pkt_serial[t]
    /\ codec'[t] = codec[t] /\ frm'[t] = frm[t] /\ unread'[t] = unread[t]

\* SerialInv for one stream.
SerialOf(t) ==
    /\ \A i \in 1 .. Len(pkts[t]) : pkts[t][i].serial = serial[t]
    /\ pkt_serial[t] <= serial[t]
    /\ dpc[t] = "check" => pkt[t].serial = pkt_serial[t]
    /\ pkt_serial[t] < serial[t] =>
          /\ pkts[t] # <<>> => pkts[t][1].kind = "flush"
          /\ pkts[t] = <<>> /\ qabort[t] = 0 => rpc = "putflush" /\ cur = t
    /\ pkt_serial[t] = serial[t] =>
          \/ \A i \in 1 .. Len(codec[t]) : codec[t][i].serial = serial[t]
          \/ dpc[t] = "check" /\ pkt[t].kind = "flush"
    /\ dpc[t] = "emit" => frm[t].of = pkt_serial[t]
    /\ \A i \in 1 .. Len(unread[t]) : unread[t][i].of = unread[t][i].serial

\* SerialInv is SerialOf for every stream.
LEMMA SerialParts == SerialInv <=> \A t \in Streams : SerialOf(t)
    BY DEF SerialInv, QueueInv, FlushInv, CodecInv, FrameInv, SerialOf

\* A stream of which nothing changes keeps SerialOf, unless the read thread
\* leaves it between its two critical sections.
LEMMA SerialSame ==
    ASSUME NEW t \in Streams, SerialOf(t), SameStream(t),
           rpc = "putflush" /\ cur = t => rpc' = "putflush" /\ cur' = t
    PROVE  SerialOf(t)'
    BY DEF SerialOf, SameStream

\* A packet that packet_queue_put appends has the serial of the ones before
\* it, and stands behind the flush packet a decoder has still to meet.
LEMMA PutSerial ==
    ASSUME TypeOK, NEW t \in Streams, SerialOf(t), qabort[t] = 0,
           NEW at \in 0 .. Len(File), NEW kind \in {"data", "null"},
           packet_queue_put(t, kind, at), rpc # "putflush",
           UNCHANGED <<dpc, pkt, pkt_serial, codec, frm, unread>>
    PROVE  SerialOf(t)'
<1> DEFINE e == [kind |-> kind, at |-> at, serial |-> serial'[t]]
<1>1. /\ QueueTypes /\ kind \in {"data", "flush", "null"} /\ kind # "flush"
      /\ packet_queue_put(t, kind, at)
      BY DEF TypeOK
<1>2. AppendOf(pkts'[t], pkts[t], e)
      BY <1>1, PutElements
<1>3. serial' = serial /\ UNCHANGED qabort
  <2>1. serial \in [Streams -> Nat]
        BY <1>1 DEF QueueTypes
  <2>2. serial' = [serial EXCEPT ![t] = serial[t] + 0] /\ UNCHANGED qabort
        BY <1>1 DEF packet_queue_put
  <2> QED
      BY <2>1, <2>2
<1>4. e.serial = serial[t] /\ pkts[t] \in Seq(Packet) /\ Len(pkts[t]) \in Nat
      BY <1>3 DEF TypeOK, QueueTypes
<1> HIDE DEF e
<1>5. \A i \in 1 .. Len(pkts'[t]) : pkts'[t][i].serial = serial[t]
  <2> SUFFICES ASSUME NEW i \in 1 .. Len(pkts'[t])
               PROVE  pkts'[t][i].serial = serial[t]
      OBVIOUS
  <2>1. Len(pkts'[t]) = Len(pkts[t]) + 1 /\ pkts'[t][Len(pkts[t]) + 1] = e
        BY <1>2 DEF AppendOf
  <2>2. CASE i \in 1 .. Len(pkts[t])
        BY <1>2, <2>2 DEF AppendOf, SerialOf
  <2>3. CASE i = Len(pkts[t]) + 1
        BY <1>4, <2>1, <2>3
  <2> QED
      BY <1>4, <2>1, <2>2, <2>3
<1>6. ASSUME pkt_serial[t] < serial[t] PROVE pkts'[t] # <<>> /\ pkts'[t][1].kind = "flush"
  <2>1. pkts[t] # <<>> /\ pkts[t][1].kind = "flush"
        BY <1>6 DEF SerialOf
  <2>2. Len(pkts[t]) >= 1
        BY <1>4, <2>1
  <2>3. pkts'[t][1] = pkts[t][1] /\ Len(pkts'[t]) >= 2
        BY <1>2, <1>4, <2>2 DEF AppendOf
  <2> QED
      BY <2>1, <2>3
<1> QED
    BY <1>3, <1>5, <1>6 DEF SerialOf

\* packet_queue_put leaves every other stream alone.
LEMMA PutElsewhere ==
    ASSUME TypeOK, NEW s \in Streams, NEW t \in Streams, t # s,
           NEW kind, NEW at, packet_queue_put(s, kind, at),
           UNCHANGED <<dpc, pkt, pkt_serial, codec, frm, unread>>
    PROVE  SameStream(t)
<1> DEFINE n == serial[s] + (IF kind = "flush" THEN 1 ELSE 0)
           q == Append(pkts[s], [kind |-> kind, at |-> at, serial |-> n])
<1>1. /\ UNCHANGED qabort
      /\ pkts' = pkts \/ pkts' = [pkts EXCEPT ![s] = q]
      /\ serial' = serial \/ serial' = [serial EXCEPT ![s] = n]
      BY DEF packet_queue_put, queueVars
<1> HIDE DEF n, q
<1> QED
    BY <1>1 DEF SameStream, TypeOK, QueueTypes

\* The read thread keeps the serials in order: the queue it gives a flush
\* packet is empty, and it puts nothing else between flushing and that packet.
LEMMA ReadSerials ==
    ASSUME TypeOK, PhaseInv, NEW t \in Streams, SerialOf(t), read_thread
    PROVE  SerialOf(t)'
<1>0. UNCHANGED <<pkt, pkt_serial, codec, frm, unread>>
      BY DEF read_thread, Open, SeekFlush, PutNull, OpenFails, LoopTop,
         SeekPutFlush, SeekDone, ClearEof, ReadFrame, SetEof, decoderVars,
         frameVars
<1>1. ASSUME NEW s \in Streams, Open(s) PROVE SerialOf(t)'
  <2>1. CASE t # s
        BY <1>0, <1>1, <2>1, SerialSame DEF Open, packet_queue_start,
           SameStream, TypeOK, QueueTypes, DecoderTypes
  <2>2. CASE t = s
    <3>1. /\ pkts[t] = <<>> /\ serial[t] = 0 /\ pkt_serial[t] = -1
          BY <1>1, <2>2 DEF Open, PhaseInv
    <3>2. serial'[t] = 1 /\ dpc'[t] = "decode"
          BY <1>1, <2>2, <3>1 DEF Open, packet_queue_start, TypeOK, QueueTypes,
             DecoderTypes
    <3>3. pkts'[t] = <<[kind |-> "flush", at |-> 0, serial |-> 1]>>
      <4> DEFINE q == Append(pkts[t],
                        [kind |-> "flush", at |-> 0, serial |-> serial[t] + 1])
      <4>1. pkts' = [pkts EXCEPT ![t] = q]
            BY <1>1, <2>2 DEF Open, packet_queue_start
      <4>2. q = <<[kind |-> "flush", at |-> 0, serial |-> 1]>>
            BY <3>1
      <4> HIDE DEF q
      <4> QED
          BY <4>1, <4>2 DEF TypeOK, QueueTypes
    <3> QED
        BY <1>0, <3>1, <3>2, <3>3 DEF SerialOf
  <2> QED
      BY <2>1, <2>2
<1>2. CASE OpenFails \/ LoopTop \/ SeekDone \/ ClearEof \/ SetEof
  <2>1. SameStream(t) /\ rpc # "putflush"
        BY <1>2 DEF OpenFails, LoopTop, SeekDone, ClearEof, SetEof, SameStream,
           queueVars, decoderVars, frameVars
  <2> QED
      BY <2>1, SerialSame
<1>3. ASSUME NEW s \in Streams, SeekFlush(s) PROVE SerialOf(t)'
  <2>1. /\ rpc = "flush" /\ rpc' = "putflush" /\ cur' = s
        /\ UNCHANGED <<serial, qabort, dpc>>
        /\ pkts' = [pkts EXCEPT ![s] = <<>>]
        BY <1>3 DEF SeekFlush, packet_queue_flush, decoderVars
  <2>2. pkts'[s] = <<>> /\ (t # s => pkts'[t] = pkts[t])
        BY <2>1 DEF TypeOK, QueueTypes
  <2> QED
      BY <1>0, <2>1, <2>2 DEF SerialOf
<1>4. CASE SeekPutFlush
  <2>1. /\ cur \in Streams /\ qabort[cur] = 0 /\ pkts[cur] = <<>>
        /\ rpc = "putflush" /\ dpc' = dpc
        BY <1>4 DEF SeekPutFlush, PhaseInv, TypeOK, ReadTypes, decoderVars
  <2>2. 0 \in 0 .. Len(File) /\ QueueTypes /\ packet_queue_put(cur, "flush", 0)
        BY <1>4 DEF SeekPutFlush, TypeOK
  <2>3. CASE t # cur
    <3>1. SameStream(t)
          BY <1>0, <2>1, <2>2, <2>3, PutElsewhere
    <3> QED
        BY <2>3, <3>1, SerialSame
  <2>4. CASE t = cur
    <3>1. /\ serial'[t] = serial[t] + 1
          /\ pkts'[t] = Append(pkts[t],
                [kind |-> "flush", at |-> 0, serial |-> serial'[t]])
          BY <2>1, <2>2, <2>4, PutEffect
    <3>2. pkts'[t] = <<[kind |-> "flush", at |-> 0, serial |-> serial'[t]]>>
          BY <2>1, <2>4, <3>1
    <3>3. serial[t] \in Nat /\ pkt_serial[t] \in Nat \cup {-1}
          BY DEF TypeOK, QueueTypes, DecoderTypes
    <3>4. Len(pkts'[t]) = 1 /\ pkts'[t][1].serial = serial'[t]
          /\ pkts'[t][1].kind = "flush" /\ pkts'[t] # <<>>
          BY <3>2
    <3>5. pkt_serial[t] < serial'[t] /\ pkt_serial[t] # serial'[t]
          BY <3>1, <3>3 DEF SerialOf
    <3>6. \A i \in 1 .. Len(pkts'[t]) : pkts'[t][i].serial = serial'[t]
          BY <3>4
    <3>7. pkt_serial[t] <= serial'[t]
          BY <3>1, <3>3 DEF SerialOf
    <3> QED
        BY <1>0, <2>1, <3>4, <3>5, <3>6, <3>7 DEF SerialOf
  <2> QED
      BY <2>3, <2>4
<1>5. CASE ReadFrame
  <2>1. rpc = "read" /\ UNCHANGED dpc
        BY <1>5 DEF ReadFrame, decoderVars
  <2>2. CASE UNCHANGED queueVars
        BY <1>0, <2>1, <2>2, SerialSame DEF SameStream, queueVars
  <2>3. CASE /\ pos <= Len(File) /\ File[pos] \in Streams
             /\ packet_queue_put(File[pos], "data", pos)
    <3>1. pos \in 0 .. Len(File) /\ qabort[File[pos]] = 0
      <4>1. \A s \in Streams : qabort[s] = 0
            BY <2>1 DEF PhaseInv
      <4>2. Len(File) \in Nat
            OBVIOUS
      <4>3. pos \in 0 .. Len(File)
            BY <2>3, <4>2 DEF TypeOK, ReadTypes, Positions
      <4> QED
          BY <2>3, <4>1, <4>3
    <3>2. CASE t # File[pos]
      <4>1. SameStream(t)
            BY <1>0, <2>1, <2>3, <3>2, PutElsewhere
      <4> QED
          BY <2>1, <4>1, SerialSame
    <3>3. CASE t = File[pos]
      <4>1. packet_queue_put(t, "data", pos) /\ qabort[t] = 0
            BY <2>3, <3>1, <3>3
      <4> QED
          BY <1>0, <2>1, <3>1, <4>1, PutSerial
    <3> QED
        BY <3>2, <3>3
  <2> QED
      BY <1>5, <2>2, <2>3 DEF ReadFrame
<1>6. ASSUME NEW s \in Streams, PutNull(s) PROVE SerialOf(t)'
  <2>1. /\ rpc = "putnull" /\ UNCHANGED dpc /\ packet_queue_put(s, "null", 0)
        BY <1>6 DEF PutNull, decoderVars
  <2>2. /\ 0 \in 0 .. Len(File) /\ QueueTypes /\ qabort[s] = 0
        BY <2>1 DEF TypeOK, PhaseInv
  <2>3. CASE t # s
    <3>1. SameStream(t)
          BY <1>0, <2>1, <2>2, <2>3, PutElsewhere
    <3> QED
        BY <2>1, <3>1, SerialSame
  <2>4. CASE t = s
        BY <1>0, <2>1, <2>2, <2>4, PutSerial
  <2> QED
      BY <2>3, <2>4
<1> QED
    BY <1>1, <1>2, <1>3, <1>4, <1>5, <1>6 DEF read_thread

\* A decoder thread keeps the serials in order: it takes the serial of the
\* packet it gets, empties the codec at a flush packet before it decodes
\* anything of the new serial, and stamps what it decoded with its own serial.
LEMMA DecoderSerials ==
    ASSUME TypeOK, NEW t \in Streams, SerialOf(t), NEW s \in Streams,
           decoder_thread(s)
    PROVE  SerialOf(t)'
<1>0. UNCHANGED <<rpc, cur, serial, qabort>>
      BY DEF decoder_thread, Decode, packet_queue_get, UsePacket, QueueFrame,
         DropEarly, readVars, queueVars
<1>1. CASE t # s
  <2>1. SameStream(t)
    <3>1. CASE Decode(s)
          BY <1>1, <3>1, DecodeElements DEF SameStream, OnlyAt, Decode,
             queueVars, frameVars
    <3>2. CASE packet_queue_get(s)
      <4>1. /\ OnlyAt(pkts', pkts, s) /\ OnlyAt(pkt', pkt, s)
            /\ OnlyAt(pkt_serial', pkt_serial, s) /\ OnlyAt(dpc', dpc, s)
            BY <3>2, GetElements
      <4>2. UNCHANGED <<codec, frm, unread>>
            BY <3>2 DEF packet_queue_get, frameVars
      <4> QED
          BY <1>0, <1>1, <4>1, <4>2 DEF SameStream, OnlyAt
    <3>3. CASE UsePacket(s)
      <4>1. /\ OnlyAt(codec', codec, s) /\ OnlyAt(pkt', pkt, s)
            /\ OnlyAt(dpc', dpc, s)
            BY <3>3, UseElements
      <4>2. UNCHANGED <<pkts, pkt_serial, frm, unread>>
            BY <3>3 DEF UsePacket, queueVars, frameVars
      <4> QED
          BY <1>0, <1>1, <4>1, <4>2 DEF SameStream, OnlyAt
    <3>4. CASE QueueFrame(s)
      <4>1. /\ OnlyAt(unread', unread, s) /\ OnlyAt(dpc', dpc, s)
            /\ OnlyAt(frm', frm, s)
            BY <3>4, FrameElements
      <4>2. UNCHANGED <<pkts, pkt, pkt_serial, codec>>
            BY <3>4 DEF QueueFrame, queueVars
      <4> QED
          BY <1>0, <1>1, <4>1, <4>2 DEF SameStream, OnlyAt
    <3>5. CASE s = "video" /\ DropEarly
          BY <1>1, <3>5 DEF SameStream, DropEarly, queueVars, frameVars,
             TypeOK, DecoderTypes
    <3> QED
        BY <3>1, <3>2, <3>3, <3>4, <3>5 DEF decoder_thread
  <2> QED
      BY <1>0, <2>1, SerialSame
<1>2. CASE t = s
  <2>0. /\ serial[t] \in Nat /\ pkt_serial[t] \in Nat \cup {-1}
        /\ codec[t] \in Seq(Packet) /\ Len(codec[t]) \in Nat
        /\ pkts[t] \in Seq(Packet) /\ Len(pkts[t]) \in Nat
        /\ unread[t] \in Seq(Frame) /\ Len(unread[t]) \in Nat
        BY DEF TypeOK, QueueTypes, DecoderTypes, FrameTypes
  <2>1. CASE Decode(s)
    <3>1. UNCHANGED <<queueVars, pkt, pkt_serial, unread>> /\ dpc[t] = "decode"
          BY <1>2, <2>1, DecodeElements DEF Decode, frameVars
    <3>2. CASE UNCHANGED <<codec, frm>> /\ dpc'[t] \in {"decode", "get", "exit"}
          BY <1>0, <3>1, <3>2 DEF SerialOf, queueVars
    <3>3. CASE /\ serial[t] = pkt_serial[t] /\ dpc'[t] = "emit"
               /\ codec[t] # <<>> /\ TailOf(codec'[t], codec[t])
               /\ frm'[t].of = codec[t][1].serial
      <4>1. \A i \in 1 .. Len(codec[t]) : codec[t][i].serial = serial[t]
            BY <3>1, <3>3 DEF SerialOf
      <4>2. frm'[t].of = pkt_serial[t]
            BY <2>0, <3>3, <4>1 DEF TailOf
      <4>3. ASSUME NEW i \in 1 .. Len(codec'[t])
            PROVE  codec'[t][i].serial = serial[t]
        <5>1. i + 1 \in 1 .. Len(codec[t]) /\ codec'[t][i] = codec[t][i + 1]
              BY <2>0, <3>3 DEF TailOf
        <5> QED
            BY <4>1, <5>1
      <4> QED
          BY <1>0, <3>1, <3>3, <4>2, <4>3 DEF SerialOf, queueVars
    <3> QED
        BY <1>2, <2>1, <3>2, <3>3, DecodeElements
  <2>2. CASE packet_queue_get(s)
    <3>1. UNCHANGED <<codec, frm, unread>> /\ dpc[t] = "get"
          BY <1>2, <2>2, GetElements DEF packet_queue_get, frameVars
    <3>2. CASE UNCHANGED <<pkts, pkt, pkt_serial>> /\ dpc'[t] \in {"get", "exit"}
          BY <1>0, <3>1, <3>2 DEF SerialOf
    <3>3. CASE /\ pkts[t] # <<>> /\ dpc'[t] = "check"
               /\ TailOf(pkts'[t], pkts[t]) /\ pkt'[t] = pkts[t][1]
               /\ pkt_serial'[t] = pkts[t][1].serial
      <4>1. pkts[t][1].serial = serial[t]
            BY <2>0, <3>3 DEF TailOf, SerialOf
      <4>2. ASSUME NEW i \in 1 .. Len(pkts'[t])
            PROVE  pkts'[t][i].serial = serial[t]
        <5>1. i + 1 \in 1 .. Len(pkts[t]) /\ pkts'[t][i] = pkts[t][i + 1]
              BY <2>0, <3>3 DEF TailOf
        <5> QED
            BY <5>1 DEF SerialOf
      <4>3. \/ \A i \in 1 .. Len(codec[t]) : codec[t][i].serial = serial[t]
            \/ pkts[t][1].kind = "flush"
            BY <2>0, <3>1, <3>3 DEF SerialOf
      <4> QED
          BY <1>0, <2>0, <3>1, <3>3, <4>1, <4>2, <4>3 DEF SerialOf
    <3> QED
        BY <1>2, <2>2, <3>2, <3>3, GetElements
  <2>3. CASE UsePacket(s)
    <3>1. /\ UNCHANGED <<queueVars, pkt_serial, frm, unread>>
          /\ dpc[t] = "check" /\ dpc'[t] \in {"decode", "get"}
          BY <1>2, <2>3, UseElements DEF UsePacket, frameVars
    <3>2. ASSUME pkt_serial[t] = serial[t]
          PROVE  \A i \in 1 .. Len(codec'[t]) : codec'[t][i].serial = serial[t]
      <4>1. CASE pkt[t].kind = "flush" /\ codec'[t] = <<>>
            BY <4>1
      <4>2. CASE pkt[t].kind = "null" /\ codec'[t] = codec[t]
            BY <3>2, <4>2 DEF SerialOf
      <4>3. CASE pkt[t].kind = "data" /\ AppendOf(codec'[t], codec[t], pkt[t])
        <5>1. pkt[t].serial = serial[t]
              BY <3>1, <3>2 DEF SerialOf
        <5>2. \A i \in 1 .. Len(codec[t]) : codec[t][i].serial = serial[t]
              BY <3>2, <4>3 DEF SerialOf
        <5> SUFFICES ASSUME NEW i \in 1 .. Len(codec'[t])
                     PROVE  codec'[t][i].serial = serial[t]
            OBVIOUS
        <5>3. /\ i \in 1 .. Len(codec[t]) => codec'[t][i] = codec[t][i]
              /\ i = Len(codec[t]) + 1 => codec'[t][i] = pkt[t]
              /\ i \in 1 .. Len(codec[t]) \/ i = Len(codec[t]) + 1
              BY <2>0, <4>3 DEF AppendOf
        <5> QED
            BY <5>1, <5>2, <5>3
      <4> QED
          BY <1>2, <2>3, <3>2, <4>1, <4>2, <4>3, UseElements
    <3> QED
        BY <1>0, <3>1, <3>2 DEF SerialOf, queueVars
  <2>4. CASE QueueFrame(s)
    <3>1. /\ UNCHANGED <<queueVars, pkt, pkt_serial, codec>>
          /\ dpc[t] = "emit" /\ dpc'[t] \in {"decode", "exit"}
          BY <1>2, <2>4, FrameElements
    <3>2. \A i \in 1 .. Len(unread'[t]) : unread'[t][i].of = unread'[t][i].serial
      <4>1. CASE unread' = unread
            BY <4>1 DEF SerialOf
      <4>2. CASE AppendOf(unread'[t], unread[t], Stamped(t, pkt_serial[t]))
        <5> DEFINE f == Stamped(t, pkt_serial[t])
        <5>1. f.of = f.serial
              BY <3>1 DEF Stamped, SerialOf
        <5>2. AppendOf(unread'[t], unread[t], f)
              BY <4>2
        <5>3. \A i \in 1 .. Len(unread[t]) : unread[t][i].of = unread[t][i].serial
              BY DEF SerialOf
        <5> HIDE DEF f
        <5> SUFFICES ASSUME NEW i \in 1 .. Len(unread'[t])
                     PROVE  unread'[t][i].of = unread'[t][i].serial
            OBVIOUS
        <5>4. CASE i \in 1 .. Len(unread[t])
              BY <5>2, <5>3, <5>4 DEF AppendOf
        <5>5. CASE i \notin 1 .. Len(unread[t])
          <6>1. unread'[t][i] = f
                BY <2>0, <5>2, <5>5 DEF AppendOf
          <6> QED
              BY <5>1, <6>1
        <5> QED
            BY <5>4, <5>5
      <4> QED
          BY <1>2, <2>4, <4>1, <4>2, FrameElements
    <3> QED
        BY <1>0, <3>1, <3>2 DEF SerialOf, queueVars
  <2>5. CASE s = "video" /\ DropEarly
    <3>1. /\ UNCHANGED <<queueVars, pkt, pkt_serial, codec, unread>>
          /\ dpc[t] = "emit" /\ dpc'[t] = "decode"
          BY <1>2, <2>5 DEF DropEarly, frameVars, TypeOK, DecoderTypes
    <3> QED
        BY <1>0, <3>1 DEF SerialOf, queueVars
  <2> QED
      BY <2>1, <2>2, <2>3, <2>4, <2>5 DEF decoder_thread
<1> QED
    BY <1>1, <1>2

\* Taking a frame off a frame queue leaves the others as they were.
LEMMA NextSerial ==
    ASSUME TypeOK, NEW t \in Streams, SerialOf(t), NEW s \in Streams,
           unread[s] # <<>>, frame_queue_next(s),
           UNCHANGED <<rpc, cur, queueVars, decoderVars>>
    PROVE  SerialOf(t)'
<1>1. OnlyAt(unread', unread, s) /\ TailOf(unread'[s], unread[s])
      BY NextElements
<1>2. unread[t] \in Seq(Frame) /\ Len(unread[t]) \in Nat
      BY DEF TypeOK, FrameTypes
<1>3. \A i \in 1 .. Len(unread'[t]) : unread'[t][i].of = unread'[t][i].serial
  <2>1. CASE t # s
        BY <1>1, <2>1 DEF OnlyAt, SerialOf
  <2>2. CASE t = s
    <3> SUFFICES ASSUME NEW i \in 1 .. Len(unread'[t])
                 PROVE  unread'[t][i].of = unread'[t][i].serial
        OBVIOUS
    <3>1. i + 1 \in 1 .. Len(unread[t]) /\ unread'[t][i] = unread[t][i + 1]
          BY <1>1, <1>2, <2>2 DEF TailOf
    <3> QED
        BY <3>1 DEF SerialOf
  <2> QED
      BY <2>1, <2>2
<1> QED
    BY <1>3 DEF SerialOf, queueVars, decoderVars

\* What presents frames, handles events and closes keeps the serials in order.
LEMMA EventSerials ==
    ASSUME TypeOK, EventInv, PhaseInv, NEW t \in Streams, SerialOf(t),
           \/ sdl_audio_callback \/ event_loop \/ stream_seek \/ UserStop
           \/ UNCHANGED vars
    PROVE  SerialOf(t)'
<1>1. CASE AudioTake
      BY <1>1, NextSerial DEF AudioTake, readVars
<1>2. CASE RefreshStale
      BY <1>2, NextSerial DEF RefreshStale, StalePicture, Picture, readVars
<1>3. CASE VideoShow
      BY <1>3, NextSerial DEF VideoShow, EventInv, Picture, readVars
<1>4. CASE \/ AudioPlay \/ RefreshIdle \/ RefreshDue \/ CheckEnd \/ BeginClose
           \/ JoinReadThread \/ stream_seek \/ UserStop \/ UNCHANGED vars
  <2>1. UNCHANGED <<readVars, queueVars, decoderVars, unread>>
        BY <1>4 DEF AudioPlay, RefreshIdle, RefreshDue, CheckEnd, BeginClose,
           JoinReadThread, stream_seek, UserStop, vars, frameVars
  <2> QED
      BY <2>1, SerialSame DEF SameStream, readVars, queueVars, decoderVars
<1>5. CASE AbortDecoder
  <2>1. UNCHANGED <<readVars, decoderVars, frameVars, pkts, serial>>
        BY <1>5 DEF AbortDecoder, packet_queue_abort
  <2>2. qabort'[t] = qabort[t] \/ qabort'[t] = 1
        BY <1>5, ClosedIsStream DEF AbortDecoder, packet_queue_abort, TypeOK,
           QueueTypes
  <2> QED
      BY <2>1, <2>2 DEF SerialOf, readVars, decoderVars, frameVars
<1>6. CASE JoinDecoder
  <2>1. /\ UNCHANGED <<readVars, decoderVars, serial, qabort>>
        /\ pkts' = [pkts EXCEPT ![Closed1st] = <<>>]
        /\ unread' = unread \/ unread' = All(<<>>)
        BY <1>6 DEF JoinDecoder, packet_queue_flush
  <2>2. qabort[Closed1st] = 1 /\ Closed1st \in Streams
        BY <1>6, ClosedIsStream DEF JoinDecoder, PhaseInv
  <2>3. pkts'[t] = pkts[t] \/ (pkts'[t] = <<>> /\ qabort[t] = 1)
        BY <2>1, <2>2 DEF TypeOK, QueueTypes
  <2>4. unread'[t] = unread[t] \/ unread'[t] = <<>>
        BY <2>1 DEF All
  <2> QED
      BY <2>1, <2>3, <2>4 DEF SerialOf, readVars, decoderVars
<1> QED
    BY <1>1, <1>2, <1>3, <1>4, <1>5, <1>6
       DEF sdl_audio_callback, event_loop

\* Every step keeps the serials of every stream in order.
LEMMA SerialStep ==
    TypeOK /\ EventInv /\ PhaseInv /\ SerialInv /\ [Next]_vars => SerialInv'
<1> SUFFICES ASSUME TypeOK, EventInv, PhaseInv, SerialInv, [Next]_vars
             PROVE  SerialInv'
    OBVIOUS
<1>1. \A t \in Streams : SerialOf(t)
      BY SerialParts
<1>2. ASSUME NEW t \in Streams PROVE SerialOf(t)'
      BY <1>1, <1>2, ReadSerials, DecoderSerials, EventSerials DEF Next
<1> QED
    BY <1>2 DEF SerialInv, QueueInv, FlushInv, CodecInv, FrameInv, SerialOf

-----------------------------------------------------------------------------
(* Where the things that carry a serial were read.                         *)

PosAt(t) == serial[t] > 0 /\ (rpc \in {"flush", "putflush"} => t \notin todo) =>
                Since(t, serial[t], pos)
PktsAt(t) == \A i \in 1 .. Len(pkts[t]) :
                pkts[t][i].kind = "data" => Since(t, serial[t], pkts[t][i].at)
PktAt(t) == pkt[t].kind = "data" => Since(t, pkt[t].serial, pkt[t].at)
CodecAt(t) == \A i \in 1 .. Len(codec[t]) :
                Since(t, codec[t][i].serial, codec[t][i].at)
FrmAt(t) == dpc[t] = "emit" => Since(t, frm[t].of, frm[t].at)
UnreadAt(t) == \A i \in 1 .. Len(unread[t]) :
                Since(t, unread[t][i].serial, unread[t][i].at)
HeldAt(t) == held[t] # NoFrame => Since(t, held[t].serial, held[t].at)
ShownAt(t) == shown[t] # NoFrame => Since(t, shown[t].serial, shown[t].at)

\* PlaceInv for one stream, part by part.
PlaceOf(t) ==
    /\ PosAt(t) /\ PktsAt(t) /\ PktAt(t) /\ CodecAt(t)
    /\ FrmAt(t) /\ UnreadAt(t) /\ HeldAt(t) /\ ShownAt(t)

\* The history of stream t is only ever extended.
BaseKept(t) ==
    /\ Len(base[t]) \in Nat /\ Len(base'[t]) \in Nat
    /\ Len(base'[t]) >= Len(base[t])
    /\ \A k \in 1 .. Len(base[t]) : base'[t][k] = base[t][k]

\* Every step keeps the history.
LEMMA BaseStep ==
    ASSUME TypeOK, PhaseInv, [Next]_vars, NEW t \in Streams
    PROVE  BaseKept(t)
<1>0. /\ base \in [Streams -> Seq(Positions)] /\ base[t] \in Seq(Positions)
      /\ Len(base[t]) \in Nat
      BY DEF TypeOK
<1>1. ASSUME NEW s \in Streams, Open(s) PROVE BaseKept(t)
  <2>1. base[s] = <<>> /\ base' = [base EXCEPT ![s] = <<1>>]
        BY <1>1 DEF Open, PhaseInv
  <2>2. CASE t = s
    <3>1. base'[t] = <<1>>
          BY <1>0, <2>1, <2>2
    <3> QED
        BY <2>1, <2>2, <3>1 DEF BaseKept
  <2>3. CASE t # s
        BY <1>0, <2>1, <2>3 DEF BaseKept
  <2> QED
      BY <2>2, <2>3
<1>2. CASE SeekPutFlush
  <2>1. cur \in Streams /\ seek_pos \in Positions
        BY DEF TypeOK, ReadTypes, FlagTypes
  <2> DEFINE q == Append(base[cur], seek_pos)
  <2>2. base' = [base EXCEPT ![cur] = q]
        BY <1>2 DEF SeekPutFlush
  <2>3. t = cur => AppendOf(q, base[t], seek_pos)
        BY <1>0, <2>1, AppendIs
  <2> HIDE DEF q
  <2>4. base'[t] = base[t] \/ AppendOf(base'[t], base[t], seek_pos)
        BY <1>0, <2>2, <2>3
  <2> QED
      BY <1>0, <2>4 DEF AppendOf, BaseKept
<1>3. CASE UNCHANGED base
      BY <1>0, <1>3 DEF BaseKept
<1>4. CASE \/ OpenFails \/ LoopTop \/ SeekDone \/ ClearEof \/ ReadFrame \/ SetEof
           \/ \E s \in Streams : SeekFlush(s) \/ PutNull(s)
      BY <1>3, <1>4 DEF OpenFails, LoopTop, SeekDone, ClearEof, ReadFrame,
         SetEof, SeekFlush, PutNull
<1>5. ASSUME NEW s \in Streams, decoder_thread(s) PROVE BaseKept(t)
      BY <1>3, <1>5 DEF decoder_thread, Decode, packet_queue_get, UsePacket,
         QueueFrame, DropEarly
<1>6. CASE \/ sdl_audio_callback \/ event_loop \/ stream_seek \/ UserStop
           \/ UNCHANGED vars
      BY <1>3, <1>6 DEF sdl_audio_callback, AudioTake, AudioPlay, event_loop,
         RefreshIdle, RefreshStale, RefreshDue, VideoShow, CheckEnd,
         BeginClose, JoinReadThread, AbortDecoder, JoinDecoder, stream_seek,
         UserStop, vars
<1> QED
    BY <1>1, <1>2, <1>4, <1>5, <1>6 DEF Next, read_thread

\* A place in the history stays one.
LEMMA SinceKept ==
    ASSUME NEW t \in Streams, BaseKept(t), NEW k, NEW p, Since(t, k, p)
    PROVE  k \in 1 .. Len(base'[t]) /\ p >= base'[t][k]
    BY DEF BaseKept, Since

\* A part of PlaceOf holds as long as what it speaks of does not change.
LEMMA PartsKept ==
    ASSUME NEW t \in Streams, BaseKept(t), PlaceOf(t)
    PROVE  /\ UNCHANGED <<rpc, todo, pos>> /\ serial'[t] = serial[t] => PosAt(t)'
           /\ pkts'[t] = pkts[t] /\ serial'[t] = serial[t] => PktsAt(t)'
           /\ pkt'[t] = pkt[t] => PktAt(t)'
           /\ codec'[t] = codec[t] => CodecAt(t)'
           /\ dpc'[t] = dpc[t] /\ frm'[t] = frm[t] => FrmAt(t)'
           /\ unread'[t] = unread[t] => UnreadAt(t)'
           /\ held'[t] = held[t] => HeldAt(t)'
           /\ shown'[t] = shown[t] => ShownAt(t)'
<1>0. \A k, p : Since(t, k, p) => k \in 1 .. Len(base'[t]) /\ p >= base'[t][k]
      BY SinceKept
<1> USE DEF PlaceOf
<1>1. UNCHANGED <<rpc, todo, pos>> /\ serial'[t] = serial[t] => PosAt(t)'
      BY <1>0 DEF PosAt, Since
<1>2. pkts'[t] = pkts[t] /\ serial'[t] = serial[t] => PktsAt(t)'
  <2> SUFFICES ASSUME pkts'[t] = pkts[t], serial'[t] = serial[t],
                      NEW i \in 1 .. Len(pkts[t]), pkts[t][i].kind = "data"
               PROVE  Since(t, serial[t], pkts[t][i].at)'
      BY DEF PktsAt, Since
  <2>1. Since(t, serial[t], pkts[t][i].at)
        BY DEF PktsAt
  <2> QED
      BY <1>0, <2>1 DEF Since
<1>3. pkt'[t] = pkt[t] => PktAt(t)'
      BY <1>0 DEF PktAt, Since
<1>4. codec'[t] = codec[t] => CodecAt(t)'
  <2> SUFFICES ASSUME codec'[t] = codec[t], NEW i \in 1 .. Len(codec[t])
               PROVE  Since(t, codec[t][i].serial, codec[t][i].at)'
      BY DEF CodecAt, Since
  <2>1. Since(t, codec[t][i].serial, codec[t][i].at)
        BY DEF CodecAt
  <2> QED
      BY <1>0, <2>1 DEF Since
<1>5. dpc'[t] = dpc[t] /\ frm'[t] = frm[t] => FrmAt(t)'
      BY <1>0 DEF FrmAt, Since
<1>6. unread'[t] = unread[t] => UnreadAt(t)'
  <2> SUFFICES ASSUME unread'[t] = unread[t], NEW i \in 1 .. Len(unread[t])
               PROVE  Since(t, unread[t][i].serial, unread[t][i].at)'
      BY DEF UnreadAt, Since
  <2>1. Since(t, unread[t][i].serial, unread[t][i].at)
        BY DEF UnreadAt
  <2> QED
      BY <1>0, <2>1 DEF Since
<1>7. held'[t] = held[t] => HeldAt(t)'
      BY <1>0 DEF HeldAt, Since
<1>8. shown'[t] = shown[t] => ShownAt(t)'
      BY <1>0 DEF ShownAt, Since
<1> QED
    BY <1>1, <1>2, <1>3, <1>4, <1>5, <1>6, <1>7, <1>8

\* What holds a place before the step in every slot holds one after it.
LEMMA PlacesAfter ==
    ASSUME NEW t \in Streams, BaseKept(t)
    PROVE  /\ (\A i \in 1 .. Len(codec'[t]) :
                  Since(t, codec'[t][i].serial, codec'[t][i].at)) => CodecAt(t)'
           /\ (\A i \in 1 .. Len(unread'[t]) :
                  Since(t, unread'[t][i].serial, unread'[t][i].at)) => UnreadAt(t)'
<1>1. ASSUME \A i \in 1 .. Len(codec'[t]) :
                Since(t, codec'[t][i].serial, codec'[t][i].at)
      PROVE  CodecAt(t)'
  <2> SUFFICES ASSUME NEW i \in 1 .. Len(codec'[t])
               PROVE  Since(t, codec[t][i].serial, codec[t][i].at)'
      BY DEF CodecAt
  <2>1. Since(t, codec'[t][i].serial, codec'[t][i].at)
        BY <1>1
  <2> QED
      BY <2>1 DEF Since, BaseKept
<1>2. ASSUME \A i \in 1 .. Len(unread'[t]) :
                Since(t, unread'[t][i].serial, unread'[t][i].at)
      PROVE  UnreadAt(t)'
  <2> SUFFICES ASSUME NEW i \in 1 .. Len(unread'[t])
               PROVE  Since(t, unread[t][i].serial, unread[t][i].at)'
      BY DEF UnreadAt
  <2>1. Since(t, unread'[t][i].serial, unread'[t][i].at)
        BY <1>2
  <2> QED
      BY <2>1 DEF Since, BaseKept
<1> QED
    BY <1>1, <1>2

\* A data packet put into a queue was read at the demultiplexer's position,
\* which is at or after the place the serial was opened at.
LEMMA PutPlace ==
    ASSUME TypeOK, NEW t \in Streams, BaseKept(t), PlaceOf(t), qabort[t] = 0,
           NEW at \in 0 .. Len(File), NEW kind \in {"data", "null"},
           packet_queue_put(t, kind, at),
           kind = "data" => Since(t, serial[t], at)
    PROVE  PktsAt(t)' /\ UNCHANGED serial
<1> DEFINE e == [kind |-> kind, at |-> at, serial |-> serial'[t]]
<1>1. /\ QueueTypes /\ kind \in {"data", "flush", "null"}
      /\ packet_queue_put(t, kind, at)
      BY DEF TypeOK
<1>2. AppendOf(pkts'[t], pkts[t], e)
      BY <1>1, PutElements
<1>3. serial' = serial
  <2>1. serial \in [Streams -> Nat]
        BY <1>1 DEF QueueTypes
  <2>2. serial' = [serial EXCEPT ![t] = serial[t] + 0]
        BY <1>1 DEF packet_queue_put
  <2> QED
      BY <2>1, <2>2
<1>4. e.kind = kind /\ e.at = at /\ Len(pkts[t]) \in Nat
      BY DEF TypeOK, QueueTypes
<1> HIDE DEF e
<1>5. ASSUME NEW i \in 1 .. Len(pkts'[t]), pkts'[t][i].kind = "data"
      PROVE  /\ serial[t] \in 1 .. Len(base'[t])
             /\ pkts'[t][i].at >= base'[t][serial[t]]
  <2>1. CASE i \in 1 .. Len(pkts[t])
    <3>1. pkts'[t][i] = pkts[t][i]
          BY <1>2, <2>1 DEF AppendOf
    <3>2. Since(t, serial[t], pkts'[t][i].at)
          BY <1>5, <2>1, <3>1 DEF PlaceOf, PktsAt
    <3> QED
        BY <3>2, SinceKept
  <2>2. CASE i = Len(pkts[t]) + 1
    <3>1. pkts'[t][i] = e
          BY <1>2, <2>2 DEF AppendOf
    <3>2. Since(t, serial[t], pkts'[t][i].at)
          BY <1>4, <1>5, <3>1
    <3> QED
        BY <3>2, SinceKept
  <2>3. i \in 1 .. Len(pkts[t]) \/ i = Len(pkts[t]) + 1
        BY <1>2, <1>4 DEF AppendOf
  <2> QED
      BY <2>1, <2>2, <2>3
<1> QED
    BY <1>3, <1>5 DEF PktsAt, Since

\* Emptying or leaving a queue keeps the places of its packets.
LEMMA FlushPlace ==
    ASSUME TypeOK, NEW t \in Streams, BaseKept(t), PlaceOf(t),
           NEW s \in Streams, packet_queue_flush(s), UNCHANGED serial
    PROVE  PktsAt(t)'
<1>1. CASE t = s
  <2>1. pkts'[t] = <<>>
        BY <1>1 DEF packet_queue_flush, TypeOK, QueueTypes
  <2> QED
      BY <2>1 DEF PktsAt
<1>2. CASE t # s
  <2>1. pkts'[t] = pkts[t]
        BY <1>2 DEF packet_queue_flush, TypeOK, QueueTypes
  <2> QED
      BY <2>1, PartsKept
<1> QED
    BY <1>1, <1>2

\* The parts of PlaceOf that the read thread does not touch.
RestAt(t) == /\ PktAt(t) /\ CodecAt(t) /\ FrmAt(t)
             /\ UnreadAt(t) /\ HeldAt(t) /\ ShownAt(t)

\* The read thread keeps the places: it opens a serial at the place it has
\* gone to, and reads on from there.
LEMMA ReadPlaces ==
    ASSUME TypeOK, PhaseInv, NEW t \in Streams, BaseKept(t), PlaceOf(t),
           read_thread
    PROVE  PlaceOf(t)'
<1>0. PosAt(t)' /\ PktsAt(t)' /\ RestAt(t)' => PlaceOf(t)'
      BY DEF PlaceOf, RestAt
<1> DEFINE Rest == UNCHANGED <<pkt, codec, dpc, frm, unread, held, shown>>
<1>a. Rest => RestAt(t)'
      BY PartsKept DEF RestAt
<1>b. Len(File) \in Nat /\ pos \in Nat
      BY DEF TypeOK, ReadTypes, Positions
<1>1. ASSUME NEW s \in Streams, Open(s) PROVE PlaceOf(t)'
  <2>1. /\ UNCHANGED <<pkt, codec, frm, unread, held, shown, pos>>
        /\ dpc' = [dpc EXCEPT ![s] = "decode"]
        /\ rpc' \notin {"flush", "putflush"} /\ rpc = "open"
        BY <1>1 DEF Open, frameVars
  <2>2. FrmAt(t)'
    <3>1. dpc'[t] = dpc[t] \/ dpc'[t] # "emit"
          BY <2>1 DEF TypeOK, DecoderTypes
    <3>2. CASE dpc'[t] = dpc[t]
          BY <2>1, <3>2, PartsKept
    <3>3. CASE dpc'[t] # "emit"
          BY <3>3 DEF FrmAt
    <3> QED
        BY <3>1, <3>2, <3>3
  <2>3. RestAt(t)'
        BY <2>1, <2>2, PartsKept DEF RestAt
  <2>4. CASE t # s
    <3>1. pkts'[t] = pkts[t] /\ serial'[t] = serial[t]
          BY <1>1, <2>4 DEF Open, packet_queue_start, TypeOK, QueueTypes
    <3>2. PktsAt(t)'
          BY <3>1, PartsKept
    <3>3. PosAt(t)'
          BY <2>1, <3>1 DEF PlaceOf, PosAt, Since, BaseKept
    <3> QED
        BY <1>0, <2>3, <3>2, <3>3
  <2>5. CASE t = s
    <3>1. pkts[t] = <<>> /\ serial[t] = 0
          BY <1>1, <2>5 DEF Open, PhaseInv
    <3>2. serial'[t] = 1 /\ base'[t] = <<1>>
          BY <1>1, <2>5, <3>1 DEF Open, packet_queue_start, TypeOK, QueueTypes
    <3>3. Len(pkts'[t]) = 1 /\ pkts'[t][1].kind = "flush"
      <4> DEFINE q == Append(pkts[t],
                        [kind |-> "flush", at |-> 0, serial |-> serial[t] + 1])
      <4>1. pkts' = [pkts EXCEPT ![t] = q]
            BY <1>1, <2>5 DEF Open, packet_queue_start
      <4>2. Len(q) = 1 /\ q[1].kind = "flush"
            BY <3>1
      <4> HIDE DEF q
      <4> QED
          BY <4>1, <4>2 DEF TypeOK, QueueTypes
    <3>4. PktsAt(t)'
          BY <3>3 DEF PktsAt
    <3>5. pos' >= 1
          BY <2>1 DEF TypeOK, ReadTypes, Positions
    <3>6. PosAt(t)'
          BY <3>2, <3>5 DEF PosAt, Since
    <3> QED
        BY <1>0, <2>3, <3>4, <3>6
  <2> QED
      BY <2>4, <2>5
<1>2. CASE OpenFails \/ SeekDone \/ ClearEof \/ SetEof \/ LoopTop
  <2>1. Rest /\ UNCHANGED <<pkts, serial>>
        BY <1>2 DEF OpenFails, SeekDone, ClearEof, SetEof, LoopTop, queueVars,
           decoderVars, frameVars
  <2>2. /\ rpc \notin {"flush", "putflush"}
        /\ \/ rpc' = "flush" /\ todo' = Streams
           \/ pos' = pos
        BY <1>2 DEF OpenFails, SeekDone, ClearEof, SetEof, LoopTop
  <2>3. PosAt(t)'
        BY <2>1, <2>2 DEF PlaceOf, PosAt, Since, BaseKept
  <2> QED
      BY <1>0, <1>a, <2>1, <2>3, PartsKept
<1>3. ASSUME NEW s \in Streams, SeekFlush(s) PROVE PlaceOf(t)'
  <2>1. /\ Rest /\ packet_queue_flush(s) /\ UNCHANGED <<serial, todo, pos>>
        /\ rpc = "flush" /\ rpc' = "putflush"
        BY <1>3 DEF SeekFlush, decoderVars, frameVars
  <2>2. PosAt(t)'
        BY <2>1 DEF PlaceOf, PosAt, Since, BaseKept
  <2> QED
      BY <1>0, <1>a, <2>1, <2>2, FlushPlace
<1>4. CASE SeekPutFlush
  <2>1. /\ Rest /\ UNCHANGED pos /\ rpc = "putflush" /\ todo' = todo \ {cur}
        BY <1>4 DEF SeekPutFlush, decoderVars, frameVars
  <2>2. /\ cur \in Streams /\ qabort[cur] = 0 /\ pkts[cur] = <<>>
        /\ pos = seek_pos /\ Len(base[cur]) = serial[cur]
        BY <2>1 DEF PhaseInv, TypeOK, ReadTypes
  <2>3. 0 \in 0 .. Len(File) /\ QueueTypes /\ packet_queue_put(cur, "flush", 0)
        BY <1>4 DEF SeekPutFlush, TypeOK
  <2>4. CASE t # cur
    <3>1. pkts'[t] = pkts[t] /\ serial'[t] = serial[t]
          BY <2>2, <2>3, <2>4, PutEffect
    <3>2. PktsAt(t)'
          BY <3>1, PartsKept
    <3>3. rpc' \in {"flush", "seeked"} /\ (rpc' = "seeked" => todo = {cur})
          BY <1>4 DEF SeekPutFlush
    <3>4. serial'[t] > 0 /\ (rpc' \in {"flush", "putflush"} => t \notin todo') =>
             t \notin todo
          BY <2>1, <2>4, <3>3
    <3>5. PosAt(t)'
          BY <2>1, <3>1, <3>4 DEF PlaceOf, PosAt, Since, BaseKept
    <3> QED
        BY <1>0, <1>a, <2>1, <3>2, <3>5
  <2>5. CASE t = cur
    <3>1. /\ serial'[t] = serial[t] + 1
          /\ pkts'[t] = Append(pkts[t],
                [kind |-> "flush", at |-> 0, serial |-> serial'[t]])
          BY <2>2, <2>3, <2>5, PutEffect
    <3>2. Len(pkts'[t]) = 1 /\ pkts'[t][1].kind = "flush"
          BY <2>2, <2>5, <3>1
    <3>3. PktsAt(t)'
          BY <3>2 DEF PktsAt
    <3>4. AppendOf(base'[t], base[t], seek_pos)
      <4>1. base[t] \in Seq(Positions) /\ seek_pos \in Positions
            BY DEF TypeOK, FlagTypes
      <4> DEFINE q == Append(base[cur], seek_pos)
      <4>2. base' = [base EXCEPT ![cur] = q]
            BY <1>4 DEF SeekPutFlush
      <4>3. AppendOf(q, base[t], seek_pos)
            BY <2>5, <4>1, AppendIs
      <4> HIDE DEF q
      <4> QED
          BY <2>5, <4>2, <4>3 DEF TypeOK
    <3>5. base'[t][serial'[t]] = pos /\ serial'[t] \in 1 .. Len(base'[t])
          BY <2>2, <2>5, <3>1, <3>4 DEF AppendOf, TypeOK, QueueTypes
    <3>6. PosAt(t)'
          BY <1>b, <2>1, <3>5 DEF PosAt, Since
    <3> QED
        BY <1>0, <1>a, <2>1, <3>3, <3>6
  <2> QED
      BY <2>4, <2>5
<1>5. CASE ReadFrame
  <2>1. Rest /\ rpc = "read" /\ rpc' \notin {"flush", "putflush"} /\ pos' >= pos
        BY <1>5, <1>b DEF ReadFrame, decoderVars, frameVars
  <2>2. qabort[t] = 0 /\ serial[t] > 0
        BY <2>1 DEF PhaseInv
  <2>3. Since(t, serial[t], pos)
        BY <2>1, <2>2 DEF PlaceOf, PosAt
  <2>4. PktsAt(t)' /\ serial'[t] = serial[t]
    <3>1. CASE UNCHANGED queueVars
          BY <3>1, PartsKept DEF queueVars
    <3>2. CASE /\ pos <= Len(File) /\ File[pos] = t
               /\ packet_queue_put(File[pos], "data", pos)
      <4>1. pos \in 0 .. Len(File)
            BY <1>b, <3>2
      <4> QED
          BY <2>2, <2>3, <3>2, <4>1, PutPlace
    <3>3. CASE /\ File[pos] \in Streams /\ File[pos] # t
               /\ packet_queue_put(File[pos], "data", pos)
      <4>1. SameStream(t)
            BY <2>1, <3>3, PutElsewhere, <1>5 DEF ReadFrame, decoderVars
      <4> QED
          BY <4>1 DEF SameStream, PlaceOf, PktsAt, Since, BaseKept
    <3> QED
        BY <1>5, <3>1, <3>2, <3>3 DEF ReadFrame
  <2>5. PosAt(t)'
    <3>1. serial[t] \in 1 .. Len(base'[t]) /\ pos >= base'[t][serial[t]]
          BY <2>3, SinceKept
    <3>2. base'[t][serial[t]] \in Nat
      <4>1. base'[t][serial[t]] = base[t][serial[t]]
            BY <2>3 DEF Since, BaseKept
      <4>2. base[t] \in Seq(Positions) /\ serial[t] \in 1 .. Len(base[t])
            BY <2>3 DEF Since, TypeOK
      <4>3. base[t][serial[t]] \in Positions
            BY <4>2
      <4> QED
          BY <1>b, <4>1, <4>3 DEF Positions
    <3>3. pos' = pos \/ pos' = pos + 1
          BY <1>5 DEF ReadFrame
    <3>4. pos' >= base'[t][serial[t]]
          BY <1>b, <3>1, <3>2, <3>3
    <3> QED
        BY <2>4, <3>1, <3>4 DEF PosAt, Since
  <2> QED
      BY <1>0, <1>a, <2>1, <2>4, <2>5
<1>6. ASSUME NEW s \in Streams, PutNull(s) PROVE PlaceOf(t)'
  <2>1. /\ Rest /\ rpc = "putnull" /\ rpc' \notin {"flush", "putflush"}
        /\ UNCHANGED <<pos, decoderVars, unread>> /\ packet_queue_put(s, "null", 0)
        BY <1>6 DEF PutNull, decoderVars, frameVars
  <2>2. qabort[t] = 0 /\ 0 \in 0 .. Len(File)
        BY <2>1 DEF PhaseInv
  <2>3. PktsAt(t)' /\ serial'[t] = serial[t]
    <3>1. CASE t = s
          BY <2>1, <2>2, <3>1, PutPlace
    <3>2. CASE t # s
      <4>1. SameStream(t)
            BY <2>1, <3>2, PutElsewhere DEF decoderVars
      <4> QED
          BY <4>1 DEF SameStream, PlaceOf, PktsAt, Since, BaseKept
    <3> QED
        BY <3>1, <3>2
  <2>4. PosAt(t)'
        BY <2>1, <2>3 DEF PlaceOf, PosAt, Since, BaseKept
  <2> QED
      BY <1>0, <1>a, <2>1, <2>3, <2>4
<1> QED
    BY <1>1, <1>2, <1>3, <1>4, <1>5, <1>6 DEF read_thread

\* A decoder thread keeps the places: what it hands on carries the serial and
\* the position of the packet it got.
LEMMA DecoderPlaces ==
    ASSUME TypeOK, NEW t \in Streams, BaseKept(t), PlaceOf(t), SerialOf(t),
           NEW s \in Streams, decoder_thread(s)
    PROVE  PlaceOf(t)'
<1>0. /\ UNCHANGED <<rpc, todo, pos, serial, held, shown>>
      /\ PosAt(t)' /\ HeldAt(t)' /\ ShownAt(t)'
  <2>1. UNCHANGED <<rpc, todo, pos, serial, held, shown>>
        BY DEF decoder_thread, Decode, packet_queue_get, UsePacket, QueueFrame,
           DropEarly, readVars, queueVars, frameVars
  <2> QED
      BY <2>1, PartsKept
<1>1. /\ serial[t] \in Nat /\ pkt_serial[t] \in Nat \cup {-1}
      /\ codec[t] \in Seq(Packet) /\ Len(codec[t]) \in Nat
      /\ pkts[t] \in Seq(Packet) /\ Len(pkts[t]) \in Nat
      /\ unread[t] \in Seq(Frame) /\ Len(unread[t]) \in Nat
      BY DEF TypeOK, QueueTypes, DecoderTypes, FrameTypes
<1>2. CASE Decode(s)
  <2>1. UNCHANGED <<pkts, pkt, unread>>
        BY <1>2 DEF Decode, queueVars, frameVars
  <2>2. CodecAt(t)' /\ FrmAt(t)'
    <3>0. /\ OnlyAt(codec', codec, s) /\ OnlyAt(frm', frm, s)
          /\ OnlyAt(dpc', dpc, s)
          BY <1>2, DecodeElements
    <3>1. CASE t # s
          BY <3>0, <3>1, PartsKept DEF OnlyAt
    <3>2. CASE t = s /\ UNCHANGED <<codec, frm>> /\ dpc'[t] # "emit"
          BY <3>2, PartsKept DEF FrmAt
    <3>3. CASE /\ t = s /\ codec[t] # <<>> /\ TailOf(codec'[t], codec[t])
               /\ frm'[t].of = codec[t][1].serial /\ frm'[t].at = codec[t][1].at
      <4>0. Len(codec[t]) >= 1 /\ Len(codec'[t]) = Len(codec[t]) - 1
            BY <3>3 DEF TailOf
      <4>5. Len(codec[t]) \in Nat /\ 1 \in 1 .. Len(codec[t])
            BY <1>1, <4>0
      <4>1. Since(t, frm'[t].of, frm'[t].at)
            BY <3>3, <4>5 DEF PlaceOf, CodecAt
      <4>2. FrmAt(t)'
            BY <4>1 DEF FrmAt, Since, BaseKept
      <4>3. ASSUME NEW i \in 1 .. Len(codec'[t])
            PROVE  Since(t, codec'[t][i].serial, codec'[t][i].at)
        <5>1. i + 1 \in 1 .. Len(codec[t])
              BY <4>0, <4>5
        <5>2. codec'[t][i] = codec[t][i + 1]
              BY <3>3 DEF TailOf
        <5> QED
            BY <5>1, <5>2 DEF PlaceOf, CodecAt
      <4>4. CodecAt(t)'
            BY <4>3, PlacesAfter
      <4> QED
          BY <4>2, <4>4
    <3>4. dpc'[s] \in {"decode", "get", "exit"} => dpc'[s] # "emit"
          OBVIOUS
    <3> QED
        BY <1>2, <3>1, <3>2, <3>3, <3>4, DecodeElements
  <2> QED
      BY <1>0, <2>1, <2>2, PartsKept DEF PlaceOf
<1>3. CASE packet_queue_get(s)
  <2>1. UNCHANGED <<codec, frm, unread>> /\ (dpc'[t] = "emit" => dpc[t] = "emit")
        BY <1>3 DEF packet_queue_get, frameVars, TypeOK, DecoderTypes
  <2>2. FrmAt(t)'
        BY <2>1 DEF PlaceOf, FrmAt, Since, BaseKept
  <2>3. PktsAt(t)' /\ PktAt(t)'
    <3>1. CASE pkts'[t] = pkts[t] /\ pkt'[t] = pkt[t]
          BY <1>0, <3>1, PartsKept
    <3>2. CASE /\ pkts[t] # <<>> /\ TailOf(pkts'[t], pkts[t])
               /\ pkt'[t] = pkts[t][1]
      <4>1. 1 \in 1 .. Len(pkts[t])
            BY <1>1, <3>2 DEF TailOf
      <4>2. pkt'[t].serial = serial[t]
            BY <3>2, <4>1 DEF SerialOf
      <4>3. pkt'[t].kind = "data" => Since(t, pkt'[t].serial, pkt'[t].at)
            BY <3>2, <4>1, <4>2 DEF PlaceOf, PktsAt
      <4>4. PktAt(t)'
            BY <4>3 DEF PktAt, Since, BaseKept
      <4>5. ASSUME NEW i \in 1 .. Len(pkts'[t]), pkts'[t][i].kind = "data"
            PROVE  Since(t, serial[t], pkts'[t][i].at)
        <5>1. i + 1 \in 1 .. Len(pkts[t]) /\ pkts'[t][i] = pkts[t][i + 1]
              BY <1>1, <3>2 DEF TailOf
        <5> QED
            BY <4>5, <5>1 DEF PlaceOf, PktsAt
      <4>6. PktsAt(t)'
            BY <1>0, <4>5 DEF PktsAt, Since, BaseKept
      <4> QED
          BY <4>4, <4>6
    <3> QED
        BY <1>3, <3>1, <3>2, GetElements DEF OnlyAt
  <2> QED
      BY <1>0, <2>1, <2>2, <2>3, PartsKept DEF PlaceOf
<1>4. CASE UsePacket(s)
  <2>1. /\ UNCHANGED <<pkts, frm, unread>>
        /\ (dpc'[t] = "emit" => dpc[t] = "emit")
        BY <1>4 DEF UsePacket, queueVars, frameVars, TypeOK, DecoderTypes
  <2>2. FrmAt(t)'
        BY <2>1 DEF PlaceOf, FrmAt, Since, BaseKept
  <2>3. PktAt(t)'
    <3>1. pkt'[t] = pkt[t] \/ pkt'[t] = NoPacket
          BY <1>4, UseElements DEF OnlyAt
    <3>2. CASE pkt'[t] = NoPacket
          BY <3>2 DEF NoPacket, PktAt
    <3> QED
        BY <3>1, <3>2, PartsKept
  <2>4. CodecAt(t)'
    <3>1. CASE codec'[t] = codec[t]
          BY <3>1, PartsKept
    <3>2. CASE codec'[t] = <<>>
          BY <3>2 DEF CodecAt
    <3>3. CASE pkt[t].kind = "data" /\ AppendOf(codec'[t], codec[t], pkt[t])
      <4>1. ASSUME NEW i \in 1 .. Len(codec'[t])
            PROVE  Since(t, codec'[t][i].serial, codec'[t][i].at)
        <5>1. /\ i \in 1 .. Len(codec[t]) => codec'[t][i] = codec[t][i]
              /\ i = Len(codec[t]) + 1 => codec'[t][i] = pkt[t]
              /\ i \in 1 .. Len(codec[t]) \/ i = Len(codec[t]) + 1
              BY <1>1, <3>3 DEF AppendOf
        <5> QED
            BY <3>3, <5>1 DEF PlaceOf, CodecAt, PktAt
      <4> QED
          BY <4>1, PlacesAfter
    <3> QED
        BY <1>4, <3>1, <3>2, <3>3, UseElements DEF OnlyAt
  <2> QED
      BY <1>0, <2>1, <2>2, <2>3, <2>4, PartsKept DEF PlaceOf
<1>5. CASE QueueFrame(s)
  <2>1. UNCHANGED <<pkts, pkt, codec>>
        BY <1>5 DEF QueueFrame, queueVars
  <2>2. FrmAt(t)'
    <3>1. CASE t # s
      <4>1. OnlyAt(dpc', dpc, s) /\ OnlyAt(frm', frm, s)
            BY <1>5, FrameElements
      <4>2. dpc'[t] = dpc[t] /\ frm'[t] = frm[t]
            BY <3>1, <4>1 DEF OnlyAt
      <4> QED
          BY <4>2, PartsKept
    <3>2. CASE t = s
          BY <1>5, <3>2, FrameElements DEF FrmAt
    <3> QED
        BY <3>1, <3>2
  <2>3. UnreadAt(t)'
    <3>1. CASE unread'[t] = unread[t]
          BY <3>1, PartsKept
    <3>2. CASE /\ dpc[t] = "emit"
               /\ AppendOf(unread'[t], unread[t], Stamped(t, pkt_serial[t]))
      <4> DEFINE f == Stamped(t, pkt_serial[t])
      <4>1. Since(t, f.serial, f.at)
            BY <3>2 DEF Stamped, SerialOf, PlaceOf, FrmAt
      <4> HIDE DEF f
      <4>2. ASSUME NEW i \in 1 .. Len(unread'[t])
            PROVE  Since(t, unread'[t][i].serial, unread'[t][i].at)
        <5>1. /\ i \in 1 .. Len(unread[t]) => unread'[t][i] = unread[t][i]
              /\ i = Len(unread[t]) + 1 => unread'[t][i] = f
              /\ i \in 1 .. Len(unread[t]) \/ i = Len(unread[t]) + 1
              BY <1>1, <3>2 DEF AppendOf, f
        <5> QED
            BY <4>1, <5>1 DEF PlaceOf, UnreadAt
      <4> QED
          BY <4>2, PlacesAfter
    <3> QED
        BY <1>5, <3>1, <3>2, FrameElements DEF OnlyAt
  <2> QED
      BY <1>0, <2>1, <2>2, <2>3, PartsKept DEF PlaceOf
<1>6. CASE s = "video" /\ DropEarly
  <2>1. /\ UNCHANGED <<pkts, pkt, codec, unread>>
        /\ t = s => dpc'[t] = "decode"
        /\ t # s => dpc'[t] = dpc[t] /\ frm'[t] = frm[t]
        BY <1>6 DEF DropEarly, queueVars, frameVars, TypeOK, DecoderTypes
  <2>2. FrmAt(t)'
    <3>1. CASE t = s
          BY <2>1, <3>1 DEF FrmAt
    <3> QED
        BY <2>1, <3>1, PartsKept
  <2> QED
      BY <1>0, <2>1, <2>2, PartsKept DEF PlaceOf
<1> QED
    BY <1>2, <1>3, <1>4, <1>5, <1>6 DEF decoder_thread

\* Taking a frame off a frame queue keeps the places of the others, and the
\* one taken has its own.
LEMMA NextPlace ==
    ASSUME TypeOK, NEW t \in Streams, BaseKept(t), PlaceOf(t),
           NEW s \in Streams, unread[s] # <<>>, frame_queue_next(s)
    PROVE  /\ UnreadAt(t)'
           /\ t = s => Since(t, Head(unread[s]).serial, Head(unread[s]).at)
<1>1. /\ OnlyAt(unread', unread, s) /\ TailOf(unread'[s], unread[s])
      /\ Head(unread[s]) = unread[s][1]
      BY NextElements
<1>2. Len(unread[s]) \in Nat /\ Len(unread[s]) >= 1
      BY <1>1 DEF TailOf, TypeOK, FrameTypes
<1>3. t = s => Since(t, Head(unread[s]).serial, Head(unread[s]).at)
      BY <1>1, <1>2 DEF PlaceOf, UnreadAt
<1>4. CASE t # s
      BY <1>1, <1>3, <1>4, PartsKept DEF OnlyAt
<1>5. CASE t = s
  <2>1. ASSUME NEW i \in 1 .. Len(unread'[t])
        PROVE  Since(t, unread'[t][i].serial, unread'[t][i].at)
    <3>1. i + 1 \in 1 .. Len(unread[t])
          BY <1>1, <1>2, <1>5 DEF TailOf
    <3>2. unread'[t][i] = unread[t][i + 1]
          BY <1>1, <1>5 DEF TailOf
    <3> QED
        BY <3>1, <3>2 DEF PlaceOf, UnreadAt
  <2> QED
      BY <1>3, <2>1, PlacesAfter
<1> QED
    BY <1>4, <1>5

\* What is presented, and what the event thread does, keeps the places.
LEMMA EventPlaces ==
    ASSUME TypeOK, EventInv, PhaseInv, NEW t \in Streams, BaseKept(t), PlaceOf(t),
           \/ sdl_audio_callback \/ event_loop \/ stream_seek \/ UserStop
           \/ UNCHANGED vars
    PROVE  PlaceOf(t)'
<1> DEFINE Upstream == UNCHANGED <<readVars, queueVars, decoderVars>>
<1>0. Upstream => PosAt(t)' /\ PktsAt(t)' /\ PktAt(t)' /\ CodecAt(t)' /\ FrmAt(t)'
      BY PartsKept DEF readVars, queueVars, decoderVars
<1>1. CASE AudioTake
  <2>1. /\ Upstream /\ UNCHANGED shown /\ "audio" \in Streams
        /\ unread["audio"] # <<>> /\ frame_queue_next("audio")
        /\ held' = [held EXCEPT !["audio"] = Head(unread["audio"])]
        BY <1>1 DEF AudioTake
  <2>2. /\ UnreadAt(t)'
        /\ t = "audio" => Since(t, Head(unread["audio"]).serial,
                                   Head(unread["audio"]).at)
        BY <2>1, NextPlace
  <2> DEFINE f == Head(unread["audio"])
  <2>3. t = "audio" => Since(t, f.serial, f.at)
        BY <2>2
  <2> HIDE DEF f
  <2>4. held'[t] = held[t] \/ (t = "audio" /\ held'[t] = f)
        BY <2>1 DEF TypeOK, FrameTypes, f
  <2>5. HeldAt(t)'
    <3>1. CASE held'[t] = held[t]
          BY <3>1, PartsKept
    <3>2. CASE Since(t, held'[t].serial, held'[t].at)
          BY <3>2 DEF HeldAt, Since, BaseKept
    <3> QED
        BY <2>3, <2>4, <3>1, <3>2
  <2> QED
      BY <1>0, <2>1, <2>2, <2>5, PartsKept DEF PlaceOf
<1>2. CASE AudioPlay
  <2>1. /\ Upstream /\ UNCHANGED unread
        /\ shown'[t] = shown[t] \/ (shown'[t] = held[t] /\ held[t] # NoFrame)
        /\ held'[t] = held[t] \/ held'[t] = NoFrame
        BY <1>2 DEF AudioPlay, TypeOK, FrameTypes
  <2>2. ShownAt(t)'
    <3>1. CASE shown'[t] = shown[t]
          BY <3>1, PartsKept
    <3>2. CASE shown'[t] = held[t] /\ held[t] # NoFrame
      <4>1. Since(t, shown'[t].serial, shown'[t].at)
            BY <3>2 DEF PlaceOf, HeldAt
      <4> QED
          BY <4>1 DEF ShownAt, Since, BaseKept
    <3> QED
        BY <2>1, <3>1, <3>2
  <2>3. HeldAt(t)'
    <3>1. CASE held'[t] = held[t]
          BY <3>1, PartsKept
    <3>2. CASE held'[t] = NoFrame
          BY <3>2 DEF HeldAt, NoFrame
    <3> QED
        BY <2>1, <3>1, <3>2
  <2> QED
      BY <1>0, <2>1, <2>2, <2>3, PartsKept DEF PlaceOf
<1>3. CASE RefreshStale
  <2>1. /\ Upstream /\ UNCHANGED <<held, shown>> /\ "video" \in Streams
        /\ unread["video"] # <<>> /\ frame_queue_next("video")
        BY <1>3 DEF RefreshStale, StalePicture, Picture
  <2>2. UnreadAt(t)'
        BY <2>1, NextPlace
  <2> QED
      BY <1>0, <2>1, <2>2, PartsKept DEF PlaceOf
<1>4. CASE VideoShow
  <2>1. /\ Upstream /\ UNCHANGED held /\ "video" \in Streams
        /\ unread["video"] # <<>> /\ frame_queue_next("video")
        /\ \/ shown' = shown
           \/ shown' = [shown EXCEPT !["video"] = Head(unread["video"])]
        BY <1>4 DEF VideoShow, EventInv, Picture
  <2>2. /\ UnreadAt(t)'
        /\ t = "video" => Since(t, Head(unread["video"]).serial,
                                   Head(unread["video"]).at)
        BY <2>1, NextPlace
  <2> DEFINE f == Head(unread["video"])
  <2>3. t = "video" => Since(t, f.serial, f.at)
        BY <2>2
  <2> HIDE DEF f
  <2>4. shown'[t] = shown[t] \/ (t = "video" /\ shown'[t] = f)
        BY <2>1 DEF TypeOK, FrameTypes, f
  <2>5. ShownAt(t)'
    <3>1. CASE shown'[t] = shown[t]
          BY <3>1, PartsKept
    <3>2. CASE Since(t, shown'[t].serial, shown'[t].at)
          BY <3>2 DEF ShownAt, Since, BaseKept
    <3> QED
        BY <2>3, <2>4, <3>1, <3>2
  <2> QED
      BY <1>0, <2>1, <2>2, <2>5, PartsKept DEF PlaceOf
<1>5. CASE \/ RefreshIdle \/ RefreshDue \/ CheckEnd \/ BeginClose
           \/ JoinReadThread \/ stream_seek \/ UserStop \/ UNCHANGED vars
  <2>1. Upstream /\ UNCHANGED frameVars
        BY <1>5 DEF RefreshIdle, RefreshDue, CheckEnd, BeginClose,
           JoinReadThread, stream_seek, UserStop, vars
  <2> QED
      BY <1>0, <2>1, PartsKept DEF PlaceOf, frameVars
<1>6. CASE AbortDecoder
  <2>1. UNCHANGED <<readVars, decoderVars, frameVars, pkts, serial>>
        BY <1>6 DEF AbortDecoder, packet_queue_abort
  <2> QED
      BY <2>1, PartsKept DEF PlaceOf, readVars, decoderVars, frameVars
<1>7. CASE JoinDecoder
  <2>1. /\ UNCHANGED <<readVars, decoderVars, serial, held, shown>>
        /\ packet_queue_flush(Closed1st) /\ Closed1st \in Streams
        /\ unread' = unread \/ unread' = All(<<>>)
        BY <1>7, ClosedIsStream DEF JoinDecoder
  <2>2. PktsAt(t)'
        BY <2>1, FlushPlace
  <2>3. UnreadAt(t)'
    <3>1. CASE unread' = All(<<>>)
      <4>1. unread'[t] = <<>>
            BY <3>1 DEF All
      <4> QED
          BY <4>1 DEF UnreadAt
    <3> QED
        BY <2>1, <3>1, PartsKept
  <2> QED
      BY <2>1, <2>2, <2>3, PartsKept DEF PlaceOf, readVars, decoderVars
<1> QED
    BY <1>1, <1>2, <1>3, <1>4, <1>5, <1>6, <1>7 DEF sdl_audio_callback, event_loop

\* PlaceInv is PlaceOf for every stream.
LEMMA PlaceParts == PlaceInv <=> \A t \in Streams : PlaceOf(t)
    BY DEF PlaceInv, PlaceOf, PosAt, PktsAt, PktAt, CodecAt, FrmAt, UnreadAt,
       HeldAt, ShownAt

\* Every step keeps the places of every stream.
LEMMA PlaceStep ==
    TypeOK /\ EventInv /\ PhaseInv /\ SerialInv /\ PlaceInv /\ [Next]_vars
       => PlaceInv'
<1> SUFFICES ASSUME TypeOK, EventInv, PhaseInv, SerialInv, PlaceInv, [Next]_vars
             PROVE  PlaceInv'
    OBVIOUS
<1>1. \A t \in Streams : BaseKept(t) /\ PlaceOf(t) /\ SerialOf(t)
      BY SerialParts, PlaceParts, BaseStep
<1>2. ASSUME NEW t \in Streams PROVE PlaceOf(t)'
      BY <1>1, <1>2, ReadPlaces, DecoderPlaces, EventPlaces DEF Next
<1> QED
    BY <1>2 DEF PlaceInv, PlaceOf, PosAt, PktsAt, PktAt, CodecAt, FrmAt,
       UnreadAt, HeldAt, ShownAt

-----------------------------------------------------------------------------
(* Who sleeps, and what is left when a stream is closed.                   *)

\* packet_queue_put leaves a stream alone or wakes its decoder.
LEMMA PutWakes ==
    ASSUME QueueTypes, NEW s \in Streams, NEW at \in 0 .. Len(File),
           NEW kind \in {"data", "flush", "null"},
           packet_queue_put(s, kind, at), NEW t \in Streams
    PROVE  /\ qabort' = qabort
           /\ asleep'[t] = 0 \/ (asleep'[t] = asleep[t] /\ pkts'[t] = pkts[t])
           /\ qabort[t] = 1 => pkts'[t] = pkts[t]
<1>1. CASE qabort[s] = 1
      BY <1>1 DEF packet_queue_put, queueVars
<1>2. CASE qabort[s] # 1
  <2>1. asleep' = [asleep EXCEPT ![s] = 0] /\ qabort' = qabort
        BY <1>2 DEF packet_queue_put
  <2>2. \A u \in Streams \ {s} : pkts'[u] = pkts[u]
    <3>1. \E q : pkts' = [pkts EXCEPT ![s] = q]
          BY <1>2 DEF packet_queue_put
    <3> QED
        BY <3>1 DEF QueueTypes
  <2> QED
      BY <1>2, <2>1, <2>2 DEF QueueTypes
<1> QED
    BY <1>1, <1>2

\* What the read thread does to stream t that sleep and rest depend on: it opens
\* a stream that was not, empties its queue, or puts something into it.
LEMMA ReadTouches ==
    ASSUME TypeOK, PhaseInv, read_thread, NEW t \in Streams
    PROVE  /\ rpc # "exit" /\ UNCHANGED <<epc, closing, held, unread>>
           /\ \/ dpc[t] = "off" /\ dpc'[t] = "decode" /\ asleep'[t] = asleep[t]
              \/ /\ dpc'[t] = dpc[t] /\ qabort'[t] = qabort[t]
                 /\ \/ asleep'[t] = 0
                    \/ asleep'[t] = asleep[t] /\ pkts'[t] \in {<<>>, pkts[t]}
                 /\ qabort[t] = 1 => pkts'[t] \in {<<>>, pkts[t]}
<1>1. rpc # "exit" /\ UNCHANGED <<epc, closing, held, unread>>
      BY DEF read_thread, Open, SeekFlush, PutNull, OpenFails, LoopTop,
         SeekPutFlush, SeekDone, ClearEof, ReadFrame, SetEof, eventVars, frameVars
<1>2. QueueTypes /\ dpc \in [Streams -> {"off", "decode", "get", "check", "emit", "exit"}]
      BY DEF TypeOK, DecoderTypes
<1>3. ASSUME NEW s \in Streams, Open(s)
      PROVE  \/ dpc[t] = "off" /\ dpc'[t] = "decode" /\ asleep'[t] = asleep[t]
             \/ /\ dpc'[t] = dpc[t] /\ qabort'[t] = qabort[t]
                /\ asleep'[t] = asleep[t] /\ pkts'[t] = pkts[t]
  <2>1. dpc[s] = "off" /\ asleep' = asleep
        BY <1>3 DEF Open, packet_queue_start, PhaseInv
  <2>2. /\ dpc' = [dpc EXCEPT ![s] = "decode"] /\ qabort' = [qabort EXCEPT ![s] = 0]
        /\ \A u \in Streams \ {s} : pkts'[u] = pkts[u]
        BY <1>2, <1>3 DEF Open, packet_queue_start, QueueTypes
  <2> QED
      BY <1>2, <2>1, <2>2
<1>4. ASSUME NEW s \in Streams, NEW at \in 0 .. Len(File),
             NEW kind \in {"data", "flush", "null"},
             packet_queue_put(s, kind, at), dpc' = dpc
      PROVE  /\ dpc'[t] = dpc[t] /\ qabort'[t] = qabort[t]
             /\ asleep'[t] = 0 \/ (asleep'[t] = asleep[t] /\ pkts'[t] = pkts[t])
             /\ qabort[t] = 1 => pkts'[t] = pkts[t]
      BY <1>2, <1>4, PutWakes
<1>5. CASE SeekPutFlush \/ \E s \in Streams : PutNull(s)
  <2>1. 0 \in 0 .. Len(File) /\ cur \in Streams /\ dpc' = dpc
        BY <1>5 DEF SeekPutFlush, PutNull, TypeOK, ReadTypes, decoderVars
  <2> QED
      BY <1>1, <1>4, <1>5, <2>1 DEF SeekPutFlush, PutNull
<1>6. CASE ReadFrame
  <2>1. dpc' = dpc
        BY <1>6 DEF ReadFrame, decoderVars
  <2>2. \/ UNCHANGED queueVars
        \/ /\ pos \in 0 .. Len(File) /\ File[pos] \in Streams
           /\ packet_queue_put(File[pos], "data", pos)
        BY <1>6 DEF ReadFrame, TypeOK, ReadTypes, Positions
  <2> QED
      BY <1>1, <1>4, <2>1, <2>2 DEF queueVars
<1>7. CASE \E s \in Streams : SeekFlush(s)
      BY <1>1, <1>2, <1>7 DEF SeekFlush, packet_queue_flush, decoderVars, QueueTypes
<1>8. CASE OpenFails \/ LoopTop \/ SeekDone \/ ClearEof \/ SetEof
      BY <1>1, <1>8 DEF OpenFails, LoopTop, SeekDone, ClearEof, SetEof, queueVars,
         decoderVars
<1> QED
    BY <1>1, <1>3, <1>5, <1>6, <1>7, <1>8 DEF read_thread

\* What a decoder does to stream t: nothing to another one; its own was running
\* and does not become one that was never opened.
LEMMA DecoderTouches ==
    ASSUME TypeOK, NEW s \in Streams, decoder_thread(s), NEW t \in Streams
    PROVE  /\ UNCHANGED <<rpc, epc, closing, held, qabort>>
           /\ dpc[s] \notin {"off", "exit"} /\ dpc'[s] # "off"
           /\ t # s => /\ dpc'[t] = dpc[t] /\ asleep'[t] = asleep[t]
                       /\ pkts'[t] = pkts[t] /\ unread'[t] = unread[t]
           /\ \/ asleep'[s] = asleep[s] /\ (dpc[s] # "get" \/ asleep[s] = 0)
              \/ dpc'[s] = "get" /\ pkts'[s] = <<>> /\ qabort[s] = 0
<1>1. /\ dpc \in [Streams -> {"off", "decode", "get", "check", "emit", "exit"}]
      /\ QueueTypes /\ unread \in [Streams -> Seq(Frame)]
      BY DEF TypeOK, DecoderTypes, FrameTypes
<1>2. UNCHANGED <<rpc, epc, closing, held, qabort>>
      BY DEF decoder_thread, Decode, packet_queue_get, UsePacket, QueueFrame,
         DropEarly, readVars, eventVars, queueVars, frameVars
<1>3. CASE Decode(s)
      BY <1>1, <1>2, <1>3 DEF Decode, queueVars, frameVars
<1>4. CASE packet_queue_get(s)
      BY <1>1, <1>2, <1>4 DEF packet_queue_get, queueVars, frameVars, QueueTypes
<1>5. CASE UsePacket(s)
      BY <1>1, <1>2, <1>5 DEF UsePacket, queueVars, frameVars
<1>6. CASE QueueFrame(s)
  <2>1. /\ OnlyAt(unread', unread, s) /\ OnlyAt(dpc', dpc, s)
        /\ dpc[s] = "emit" /\ dpc'[s] \in {"decode", "exit"} /\ UNCHANGED queueVars
        BY <1>6, FrameElements
  <2> QED
      BY <1>2, <2>1 DEF OnlyAt, queueVars
<1>7. CASE s = "video" /\ DropEarly
      BY <1>1, <1>2, <1>7 DEF DropEarly, queueVars, frameVars
<1> QED
    BY <1>3, <1>4, <1>5, <1>6, <1>7 DEF decoder_thread

\* Every step keeps sleepers where there is nothing to do and somebody to wake
\* them.
LEMMA SleepStep ==
    TypeOK /\ EventInv /\ PhaseInv /\ SleepInv /\ [Next]_vars => SleepInv'
<1> SUFFICES ASSUME TypeOK, EventInv, PhaseInv, SleepInv, [Next]_vars,
                    NEW t \in Streams, asleep'[t] = 1
             PROVE  dpc'[t] = "get" /\ pkts'[t] = <<>> /\ qabort'[t] = 0
    BY DEF SleepInv
<1>0. asleep[t] = 1 => dpc[t] = "get" /\ pkts[t] = <<>> /\ qabort[t] = 0
      BY DEF SleepInv
<1>1. CASE read_thread
      BY <1>0, <1>1, ReadTouches
<1>2. ASSUME NEW s \in Streams, decoder_thread(s)
      PROVE  dpc'[t] = "get" /\ pkts'[t] = <<>> /\ qabort'[t] = 0
      BY <1>0, <1>2, DecoderTouches
<1>3. CASE AbortDecoder
  <2>1. Closed1st \in Streams
        BY <1>3, ClosedIsStream DEF AbortDecoder
  <2>2. /\ asleep' = [asleep EXCEPT ![Closed1st] = 0]
        /\ qabort' = [qabort EXCEPT ![Closed1st] = 1] /\ pkts' = pkts /\ dpc' = dpc
        BY <1>3 DEF AbortDecoder, packet_queue_abort, decoderVars
  <2> QED
      BY <1>0, <2>1, <2>2 DEF TypeOK, QueueTypes
<1>4. CASE JoinDecoder
      BY <1>0, <1>4 DEF JoinDecoder, packet_queue_flush, decoderVars, TypeOK, QueueTypes
<1>5. CASE \/ sdl_audio_callback \/ stream_seek \/ UserStop \/ UNCHANGED vars
           \/ RefreshIdle \/ RefreshStale \/ RefreshDue \/ VideoShow
           \/ CheckEnd \/ BeginClose \/ JoinReadThread
  <2>1. UNCHANGED <<asleep, dpc, pkts, qabort>>
        BY <1>5 DEF sdl_audio_callback, AudioTake, AudioPlay, stream_seek, UserStop,
           vars, RefreshIdle, RefreshStale, RefreshDue, VideoShow, CheckEnd,
           BeginClose, JoinReadThread, queueVars, decoderVars
  <2> QED
      BY <1>0, <2>1
<1> QED
    BY <1>1, <1>2, <1>3, <1>4, <1>5 DEF Next, event_loop

Closes == {"close", "joinDecoder", "closed"}

\* Every step keeps what was never opened, or was closed, at rest.
LEMMA CloseStep ==
    TypeOK /\ EventInv /\ PhaseInv /\ CloseInv /\ [Next]_vars => CloseInv'
<1> SUFFICES ASSUME TypeOK, EventInv, PhaseInv, CloseInv, [Next]_vars
             PROVE  CloseInv'
    OBVIOUS
<1> USE DEF Closes
<1>0. /\ \A t \in Streams : dpc[t] = "off" => AtRest(t) /\ unread[t] = <<>>
      /\ epc \in Closes => \A t \in Streams \ closing : AtRest(t)
      /\ epc = "closed" => closing = {} /\ \A t \in Streams : unread[t] = <<>>
      /\ epc \in Closes => rpc = "exit"
      BY DEF CloseInv, PhaseInv
<1>1. CASE read_thread
  <2>1. epc' \notin Closes
        BY <1>0, <1>1, ReadTouches
  <2>2. ASSUME NEW t \in Streams, dpc'[t] = "off"
        PROVE  AtRest(t)' /\ unread'[t] = <<>>
        BY <1>0, <1>1, <2>2, ReadTouches DEF AtRest
  <2> QED
      BY <2>1, <2>2 DEF CloseInv
<1>2. ASSUME NEW s \in Streams, decoder_thread(s) PROVE CloseInv'
  <2>1. ~AtRest(s) /\ dpc'[s] # "off" /\ UNCHANGED <<epc, closing>>
        BY <1>2, DecoderTouches DEF AtRest
  <2>2. ASSUME NEW t \in Streams, t # s
        PROVE  /\ AtRest(t) => AtRest(t)'
               /\ dpc'[t] = dpc[t] /\ unread'[t] = unread[t]
        BY <1>2, <2>2, DecoderTouches DEF AtRest
  <2>3. epc \in Closes => s \in closing
        BY <1>0, <2>1
  <2>4. epc # "closed"
        BY <1>0, <2>3
  <2> QED
      BY <1>0, <2>1, <2>2, <2>3, <2>4 DEF CloseInv
<1>3. CASE AudioTake \/ AudioPlay
  <2>1. /\ "audio" \in Streams /\ ~AtRest("audio")
        /\ UNCHANGED <<epc, closing, dpc, qabort, pkts>>
        BY <1>3 DEF AudioTake, AudioPlay, AtRest, eventVars, decoderVars, queueVars
  <2>2. /\ held \in [Streams -> Frame] /\ unread \in [Streams -> Seq(Frame)]
        BY DEF TypeOK, FrameTypes
  <2>3. ASSUME NEW t \in Streams, t # "audio"
        PROVE  held'[t] = held[t] /\ unread'[t] = unread[t]
        BY <1>3, <2>2, <2>3 DEF AudioTake, AudioPlay, frame_queue_next
  <2>4. ASSUME NEW t \in Streams, t # "audio" PROVE AtRest(t) => AtRest(t)'
        BY <2>1, <2>3, <2>4 DEF AtRest
  <2>5. epc \in Closes => "audio" \in closing
        BY <1>0, <2>1
  <2>6. epc # "closed" /\ dpc["audio"] # "off"
        BY <1>0, <2>1, <2>5
  <2> QED
      BY <1>0, <2>1, <2>3, <2>4, <2>5, <2>6 DEF CloseInv
<1>4. CASE \/ RefreshIdle \/ RefreshStale \/ RefreshDue \/ VideoShow
           \/ CheckEnd \/ BeginClose
  <2>1. epc' \notin Closes /\ UNCHANGED <<dpc, qabort, pkts, held>>
        BY <1>4 DEF RefreshIdle, RefreshStale, RefreshDue, VideoShow, CheckEnd,
           BeginClose, decoderVars, queueVars, frameVars
  <2>2. \/ unread' = unread
        \/ /\ "video" \in Streams /\ unread["video"] # <<>>
           /\ \A t \in Streams \ {"video"} : unread'[t] = unread[t]
    <3>1. CASE RefreshStale \/ VideoShow
      <4>1. Picture /\ frame_queue_next("video")
            BY <3>1 DEF RefreshStale, StalePicture, VideoShow, EventInv
      <4> QED
          BY <4>1 DEF Picture, frame_queue_next, TypeOK, FrameTypes
    <3> QED
        BY <1>4, <3>1 DEF RefreshIdle, RefreshDue, CheckEnd, BeginClose, frameVars
  <2>3. ASSUME NEW t \in Streams, dpc'[t] = "off"
        PROVE  AtRest(t)' /\ unread'[t] = <<>>
    <3>1. AtRest(t) /\ unread[t] = <<>>
          BY <1>0, <2>1, <2>3
    <3>2. unread'[t] = unread[t]
          BY <2>2, <3>1
    <3> QED
        BY <2>1, <3>1, <3>2 DEF AtRest
  <2> QED
      BY <2>1, <2>3 DEF CloseInv
<1>5. CASE JoinReadThread
  <2>1. /\ closing' = {t \in Streams : dpc[t] # "off"}
        /\ epc' = "closed" => closing' = {}
        /\ UNCHANGED <<dpc, qabort, pkts, held, unread>>
        BY <1>5 DEF JoinReadThread, decoderVars, queueVars, frameVars
  <2>2. \A t \in Streams : AtRest(t)' <=> AtRest(t)
        BY <2>1 DEF AtRest
  <2>3. \A t \in Streams \ closing' : dpc[t] = "off"
        BY <2>1
  <2> QED
      BY <1>0, <2>1, <2>2, <2>3 DEF CloseInv
<1>6. CASE AbortDecoder
  <2>1. Closed1st \in Streams
        BY <1>6, ClosedIsStream DEF AbortDecoder
  <2>2. /\ qabort' = [qabort EXCEPT ![Closed1st] = 1] /\ epc' = "joinDecoder"
        /\ epc = "close" /\ UNCHANGED <<closing, dpc, pkts, held, unread>>
        BY <1>6 DEF AbortDecoder, packet_queue_abort, decoderVars, frameVars
  <2>3. \A t \in Streams : AtRest(t) => AtRest(t)'
        BY <2>1, <2>2 DEF AtRest, TypeOK, QueueTypes
  <2> QED
      BY <1>0, <2>2, <2>3 DEF CloseInv
<1>7. CASE JoinDecoder
  <2>1. PICK c \in Streams : c = Closed1st
        BY <1>7, ClosedIsStream DEF JoinDecoder
  <2>2. /\ epc = "joinDecoder" /\ dpc[c] = "exit"
        /\ held[c] = NoFrame /\ qabort[c] = 1
        /\ closing' = closing \ {c}
        /\ pkts' = [pkts EXCEPT ![c] = <<>>]
        /\ UNCHANGED <<dpc, qabort, held>>
        BY <1>7, <2>1 DEF JoinDecoder, packet_queue_flush, decoderVars, PhaseInv
  <2>3. \/ epc' = "closed" /\ closing' = {} /\ unread' = All(<<>>)
        \/ epc' = "close" /\ unread' = unread
        BY <1>7 DEF JoinDecoder
  <2>4. \A t \in Streams : AtRest(t) => AtRest(t)'
        BY <2>1, <2>2 DEF AtRest, TypeOK, QueueTypes
  <2>5. AtRest(c)'
    <3>1. /\ dpc'[c] = "exit" /\ held'[c] = NoFrame
          /\ qabort'[c] = 1 /\ pkts'[c] = <<>>
          BY <2>1, <2>2 DEF TypeOK, QueueTypes
    <3> QED
        BY <2>2, <2>4, <3>1 DEF AtRest
  <2>6. \A t \in Streams : unread'[t] \in {<<>>, unread[t]}
        BY <2>3 DEF All
  <2>7. epc' = "closed" => closing' = {} /\ \A t \in Streams : unread'[t] = <<>>
        BY <2>3 DEF All
  <2>8. \A t \in Streams \ closing' : AtRest(t)'
        BY <1>0, <2>2, <2>4, <2>5
  <2> QED
      BY <1>0, <2>2, <2>4, <2>6, <2>7, <2>8 DEF CloseInv
<1>8. CASE stream_seek \/ UserStop \/ UNCHANGED vars
  <2>1. UNCHANGED <<epc, closing, dpc, qabort, pkts, held, unread>>
        BY <1>8 DEF stream_seek, UserStop, vars, eventVars, decoderVars, queueVars,
           frameVars
  <2> QED
      BY <1>0, <2>1 DEF CloseInv, AtRest
<1> QED
    BY <1>1, <1>2, <1>3, <1>4, <1>5, <1>6, <1>7, <1>8
       DEF Next, event_loop, sdl_audio_callback

-----------------------------------------------------------------------------
(* The theorems.                                                           *)

\* stream_open establishes the invariant: no queue is started, nothing is read.
LEMMA InitInv == Init => IInv
<1> SUFFICES ASSUME Init PROVE IInv
    OBVIOUS
<1> USE DEF Init, All
<1>1. NoPacket \in Packet /\ NoFrame \in Frame
      BY DEF NoPacket, Packet, NoFrame, Frame
<1>2. Len(File) \in Nat
      OBVIOUS
<1>3. ReadTypes /\ FlagTypes /\ EventTypes
      BY <1>2 DEF ReadTypes, FlagTypes, EventTypes, Positions
<1>4. QueueTypes
      BY DEF QueueTypes
<1>5. DecoderTypes
      BY <1>1 DEF DecoderTypes
<1>6. FrameTypes
      BY <1>1 DEF FrameTypes
<1>7. TypeOK
      BY <1>3, <1>4, <1>5, <1>6 DEF TypeOK
<1>8. EventInv /\ PhaseInv
      BY DEF EventInv, PhaseInv
<1>9. QueueInv /\ FlushInv /\ CodecInv /\ FrameInv
      BY DEF QueueInv, FlushInv, CodecInv, FrameInv
<1>10. PlaceInv
  <2> SUFFICES ASSUME NEW t \in Streams PROVE PlaceOf(t)
      BY PlaceParts
  <2>1. serial[t] = 0 /\ pkts[t] = <<>> /\ pkt[t].kind = "null" /\ dpc[t] = "off"
        BY DEF NoPacket
  <2>2. codec[t] = <<>> /\ unread[t] = <<>>
        OBVIOUS
  <2>3. held[t] = NoFrame /\ shown[t] = NoFrame
        OBVIOUS
  <2> USE DEF PlaceOf
  <2>4. PosAt(t) /\ PktsAt(t) /\ PktAt(t) /\ FrmAt(t)
        BY <2>1 DEF PosAt, PktsAt, PktAt, FrmAt
  <2>5. CodecAt(t) /\ UnreadAt(t)
        BY <2>2 DEF CodecAt, UnreadAt
  <2>6. HeldAt(t) /\ ShownAt(t)
        BY <2>3 DEF HeldAt, ShownAt
  <2> QED
      BY <2>4, <2>5, <2>6
<1>11. SleepInv
      BY DEF SleepInv
<1>12. CloseInv
      BY DEF CloseInv, AtRest
<1> QED
    BY <1>7, <1>8, <1>9, <1>10, <1>11, <1>12 DEF IInv

\* What every state satisfies, whatever is seeked, stopped or fails: the types,
\* who may touch a PacketQueue when, and the order of serials and places in
\* the queues, the codecs and the frames.
THEOREM MediaPipeInv == Spec => []IInv
<1>1. IInv /\ [Next]_vars => IInv'
  <2> SUFFICES ASSUME IInv, [Next]_vars PROVE IInv'
      OBVIOUS
  <2>1. /\ TypeOK /\ EventInv /\ PhaseInv /\ PlaceInv
        /\ SerialInv /\ SleepInv /\ CloseInv
        BY DEF IInv, SerialInv
  <2>2. TypeOK' /\ EventInv' /\ PhaseInv' /\ SerialInv' /\ PlaceInv'
        BY <2>1, TypeStep, EventStep, PhaseStep, SerialStep, PlaceStep
  <2>3. SleepInv' /\ CloseInv'
        BY <2>1, SleepStep, CloseStep
  <2> QED
      BY <2>2, <2>3 DEF IInv, SerialInv
<1> QED
    BY InitInv, <1>1, PTL DEF Spec

\* The serial a decoder thread stamps on a frame is that of the packet the
\* frame was decoded from, although it reads serials outside the queue's mutex.
THEOREM FramesAreHonest == Spec => []FrameHonest
<1>1. IInv => FrameHonest
  <2> SUFFICES ASSUME IInv, NEW s \in Streams, NEW i \in DOMAIN unread[s]
               PROVE  unread[s][i].of = unread[s][i].serial
      BY DEF FrameHonest
  <2>1. unread[s] \in Seq(Frame)
        BY DEF IInv, TypeOK, FrameTypes
  <2>2. i \in 1 .. Len(unread[s])
        BY <2>1
  <2> QED
      BY <2>2 DEF IInv, FrameInv
<1> QED
    BY MediaPipeInv, <1>1, PTL

\* No picture or sample read before a seek is presented as one of after it.
THEOREM SeeksAreHonoured == Spec => []SeekHonoured
<1>1. IInv => SeekHonoured
      BY DEF IInv, PlaceInv, SeekHonoured, Since
<1> QED
    BY MediaPipeInv, <1>1, PTL

\* When stream_close is done no thread works or sleeps on the VideoState it
\* frees, and its queues are empty, whatever was open and wherever it was stopped.
THEOREM CloseLeavesNothing == Spec => []ClosedIsOver
<1>1. IInv => ClosedIsOver
  <2> SUFFICES ASSUME IInv, epc = "closed"
               PROVE  /\ rpc = "exit"
                      /\ \A s \in Streams :
                            /\ dpc[s] \in {"off", "exit"} /\ held[s] = NoFrame
                            /\ asleep[s] = 0 /\ pkts[s] = <<>> /\ unread[s] = <<>>
      BY DEF ClosedIsOver
  <2>1. rpc = "exit"
        BY DEF IInv, PhaseInv
  <2>2. \A s \in Streams : AtRest(s) /\ unread[s] = <<>>
        BY DEF IInv, CloseInv
  <2>3. ASSUME NEW s \in Streams PROVE asleep[s] = 0
        BY <2>2, <2>3 DEF IInv, SleepInv, AtRest, TypeOK, QueueTypes
  <2> QED
      BY <2>1, <2>2, <2>3 DEF AtRest
<1> QED
    BY MediaPipeInv, <1>1, PTL

\* Every variable keeps its type.
THEOREM TypesHold == Spec => []TypeOK
<1>1. IInv => TypeOK
      BY DEF IInv
<1> QED
    BY MediaPipeInv, <1>1, PTL
=============================================================================
