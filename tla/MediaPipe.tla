----------------------------- MODULE MediaPipe -----------------------------
(***************************************************************************)
(* One playback of Player/ffplay.h, from stream_open to stream_close: the  *)
(* read thread demultiplexes packets into one PacketQueue per stream, a    *)
(* decoder thread per stream turns them into frames, the audio callback    *)
(* and the event thread's video_refresh show them, and the event thread    *)
(* serves seeks, detects the end and closes everything.                    *)
(*                                                                         *)
(* Nobody stops the pipeline for a seek.  A PacketQueue numbers its        *)
(* contents with a serial that the flush packet of a seek increments, and  *)
(* every thread compares the serial of what it holds with the queue's,     *)
(* without the queue's mutex, at the points this module keeps as separate  *)
(* steps.  What happens under one mutex is one step.                       *)
(*                                                                         *)
(* A packet is the position in the file it was read from.  The frame       *)
(* queues are the abstract queue of FrameFifo, which FrameQueue implements.*)
(***************************************************************************)
EXTENDS Integers, Sequences

CONSTANTS
    Streams,     \* the streams opened, among "audio" and "video"
    File,        \* the stream of the packet at each position of the file
    MIN_FRAMES,  \* packets that are enough for a stream
    Capacity,    \* slots of a frame queue
    Delay,       \* packets a codec holds back before it gives a frame
    Targets,     \* positions the user seeks to
    MaxSeeks,    \* how many times
    MaxStops,    \* 0 or 1: whether the user stops the playback
    Failures     \* which of "open", "seek" and "io" may fail

ASSUME StreamsAssumption ==
    Streams \subseteq {"audio", "video"} /\ Streams # {}
ASSUME FileAssumption ==
    /\ File \in Seq({"audio", "video"})
    /\ Targets \subseteq 1 .. Len(File)
ASSUME BoundsAssumption ==
    /\ MIN_FRAMES \in Nat /\ Delay \in Nat
    /\ MaxSeeks \in Nat /\ MaxStops \in {0, 1}
    /\ Capacity \in Nat /\ Capacity > 1
    /\ Failures \subseteq {"open", "seek", "io"}

VARIABLES
    \* the read thread
    rpc, todo, cur,  \* where it is; streams left in a loop over them; the current
    pos,             \* the demultiplexer's position in the file
    \* plain fields of VideoState shared by the threads
    seek_req, seek_pos, eof, abort_request,
    \* per stream, the PacketQueue
    pkts, serial, qabort, asleep,
    \* per stream, the decoder thread
    dpc, pkt, pkt_serial, codec, draining, frm,
    \* per stream, the frame queue and what was presented
    unread, kept, held, shown,
    \* the event thread; the serial of the video clock; a quit event waiting
    epc, closing, vidclk_serial, quit, nseeks,
    \* history: per stream, the position each serial was started at
    base

readVars == <<rpc, todo, cur, pos>>
flagVars == <<seek_req, seek_pos, eof, abort_request>>
queueVars == <<pkts, serial, qabort, asleep>>
decoderVars == <<dpc, pkt, pkt_serial, codec, draining, frm>>
frameVars == <<unread, kept, held, shown>>
eventVars == <<epc, closing, vidclk_serial, quit, nseeks>>

vars == <<readVars, flagVars, queueVars, decoderVars, frameVars, eventVars,
          base>>

\* A data packet, the static flush_pkt and an empty packet ("null") as they
\* stand in a queue, with the serial packet_queue_put_private gave them.
Positions == 1 .. Len(File) + 1
Packet == [kind : {"data", "flush", "null"}, at : 0 .. Len(File), serial : Nat]
\* A frame, with the serial of the packet it was decoded from (of) and the
\* one the decoder thread wrote into it (serial).
Frame == [at : 0 .. Len(File), of : Nat, serial : Nat \cup {-1}]
NoPacket == [kind |-> "null", at |-> 0, serial |-> 0]
NoFrame == [at |-> 0, of |-> 0, serial |-> 0]

ReadTypes ==
    /\ rpc \in {"open", "top", "flush", "putflush", "seeked", "uneof", "read",
                "putnull", "seteof", "exit"}
    /\ todo \subseteq Streams /\ cur \in Streams /\ pos \in Positions

FlagTypes ==
    /\ seek_req \in {0, 1} /\ seek_pos \in Positions
    /\ eof \in {0, 1} /\ abort_request \in {0, 1}

QueueTypes ==
    /\ pkts \in [Streams -> Seq(Packet)] /\ serial \in [Streams -> Nat]
    /\ qabort \in [Streams -> {0, 1}] /\ asleep \in [Streams -> {0, 1}]

DecoderTypes ==
    /\ dpc \in [Streams -> {"off", "decode", "get", "check", "emit", "exit"}]
    /\ pkt \in [Streams -> Packet]
    /\ pkt_serial \in [Streams -> Nat \cup {-1}]
    /\ codec \in [Streams -> Seq(Packet)]
    /\ draining \in [Streams -> {0, 1}]
    /\ frm \in [Streams -> Frame]

FrameTypes ==
    /\ unread \in [Streams -> Seq(Frame)] /\ kept \in [Streams -> {0, 1}]
    /\ held \in [Streams -> Frame] /\ shown \in [Streams -> Frame]

EventTypes ==
    /\ epc \in {"loop", "refresh", "show", "eof?", "video?", "audio?", "end",
                "join", "close", "joinDecoder", "closed"}
    /\ closing \subseteq Streams
    /\ vidclk_serial \in Nat \cup {-1}
    /\ quit \in {0, 1} /\ nseeks \in 0 .. MaxSeeks

TypeOK ==
    /\ ReadTypes /\ FlagTypes /\ QueueTypes /\ DecoderTypes /\ FrameTypes
    /\ EventTypes
    /\ base \in [Streams -> Seq(Positions)]

All(v) == [s \in Streams |-> v]

\* stream_open: packet_queue_init leaves the queues aborted until a decoder
\* starts them; decoder_init sets pkt_serial to -1.
Init ==
    /\ rpc = "open" /\ todo = Streams /\ cur \in Streams /\ pos = 1
    /\ seek_req = 0 /\ seek_pos = 1 /\ eof = 0 /\ abort_request = 0
    /\ pkts = All(<<>>) /\ serial = All(0) /\ qabort = All(1) /\ asleep = All(0)
    /\ dpc = All("off") /\ pkt = All(NoPacket) /\ pkt_serial = All(-1)
    /\ codec = All(<<>>) /\ draining = All(0) /\ frm = All(NoFrame)
    /\ unread = All(<<>>) /\ kept = All(0) /\ held = All(NoFrame)
    /\ shown = All(NoFrame)
    /\ epc = "loop" /\ closing = {} /\ vidclk_serial = -1
    /\ quit = 0 /\ nseeks = 0
    /\ base = All(<<>>)

-----------------------------------------------------------------------------
(* The PacketQueue, under its mutex.                                       *)

\* Defects the properties are tried against have the name of the definition
\* they would replace and a suffix; no behaviour uses them.

\* Defect: a flush packet does not open a new serial.
packet_queue_put_SameSerial(s, kind, at) ==
    IF qabort[s] = 1 THEN UNCHANGED queueVars
    ELSE /\ pkts' = [pkts EXCEPT ![s] =
                Append(@, [kind |-> kind, at |-> at, serial |-> serial[s]])]
         /\ asleep' = [asleep EXCEPT ![s] = 0]
         /\ UNCHANGED <<serial, qabort>>

\* Defect: the consumer is not woken.
packet_queue_put_Silent(s, kind, at) ==
    IF qabort[s] = 1 THEN UNCHANGED queueVars
    ELSE LET n == serial[s] + (IF kind = "flush" THEN 1 ELSE 0)
         IN /\ serial' = [serial EXCEPT ![s] = n]
            /\ pkts' = [pkts EXCEPT ![s] =
                           Append(@, [kind |-> kind, at |-> at, serial |-> n])]
            /\ UNCHANGED <<asleep, qabort>>

\* packet_queue_put: dropped once the queue is aborted; otherwise the packet
\* is appended, a flush packet after it has incremented the serial, and the
\* consumer is woken.
packet_queue_put(s, kind, at) ==
    IF qabort[s] = 1 THEN UNCHANGED queueVars
    ELSE LET n == serial[s] + (IF kind = "flush" THEN 1 ELSE 0)
         IN /\ serial' = [serial EXCEPT ![s] = n]
            /\ pkts' = [pkts EXCEPT ![s] =
                           Append(@, [kind |-> kind, at |-> at, serial |-> n])]
            /\ asleep' = [asleep EXCEPT ![s] = 0]
            /\ UNCHANGED qabort

packet_queue_flush(s) == pkts' = [pkts EXCEPT ![s] = <<>>]

\* packet_queue_start: clears abort_request and puts the first flush packet.
packet_queue_start(s) ==
    /\ qabort' = [qabort EXCEPT ![s] = 0]
    /\ serial' = [serial EXCEPT ![s] = @ + 1]
    /\ pkts' = [pkts EXCEPT ![s] = Append(@,
           [kind |-> "flush", at |-> 0, serial |-> serial[s] + 1])]
    /\ UNCHANGED asleep

\* Defect: the waiting decoder is not woken.
packet_queue_abort_Silent(s) ==
    /\ qabort' = [qabort EXCEPT ![s] = 1]
    /\ UNCHANGED <<pkts, serial, asleep>>

packet_queue_abort(s) ==
    /\ qabort' = [qabort EXCEPT ![s] = 1]
    /\ asleep' = [asleep EXCEPT ![s] = 0]
    /\ UNCHANGED <<pkts, serial>>

-----------------------------------------------------------------------------
(* The read thread.                                                        *)

\* stream_component_open and decoder_start for each stream found.
Open(s) ==
    /\ rpc = "open" /\ s \in todo
    /\ packet_queue_start(s)
    /\ dpc' = [dpc EXCEPT ![s] = "decode"]
    /\ base' = [base EXCEPT ![s] = <<1>>]
    /\ todo' = todo \ {s}
    /\ rpc' = IF todo = {s} THEN "top" ELSE "open"
    /\ UNCHANGED <<cur, pos, flagVars, pkt, pkt_serial, codec, draining, frm,
                   frameVars, eventVars>>

\* The file cannot be opened, the interrupt callback saw abort_request, or no
\* stream has a decoder: ret # 0, FILE_INVALID and FF_QUIT_EVENT are sent.
OpenFails ==
    /\ rpc = "open" /\ todo = Streams
    /\ "open" \in Failures \/ abort_request = 1
    /\ rpc' = "exit"
    /\ quit' = 1
    /\ UNCHANGED <<todo, cur, pos, flagVars, queueVars, decoderVars, frameVars,
                   epc, closing, vidclk_serial, nseeks, base>>

\* The head of the loop: abort, a pending seek, or on to reading.
LoopTop ==
    /\ rpc = "top"
    /\ \/ /\ abort_request = 1
          /\ rpc' = "exit"
          /\ UNCHANGED <<todo, pos>>
       \/ /\ abort_request = 0 /\ seek_req = 1
          /\ \/ rpc' = "flush" /\ todo' = Streams /\ pos' = seek_pos
             \/ /\ "seek" \in Failures
                /\ rpc' = "seeked"
                /\ UNCHANGED <<todo, pos>>
       \/ /\ abort_request = 0 /\ seek_req = 0
          /\ rpc' = "read"
          /\ UNCHANGED <<todo, pos>>
    /\ UNCHANGED <<cur, flagVars, queueVars, decoderVars, frameVars, eventVars,
                   base>>

\* After a seek, for each stream: empty the queue ...
SeekFlush(s) ==
    /\ rpc = "flush" /\ s \in todo
    /\ packet_queue_flush(s)
    /\ cur' = s
    /\ rpc' = "putflush"
    /\ UNCHANGED <<todo, pos, flagVars, serial, qabort, asleep, decoderVars,
                   frameVars, eventVars, base>>

\* ... and, in another critical section, put the flush packet.
SeekPutFlush ==
    /\ rpc = "putflush"
    /\ packet_queue_put(cur, "flush", 0)
    /\ base' = [base EXCEPT ![cur] = Append(@, seek_pos)]
    /\ todo' = todo \ {cur}
    /\ rpc' = IF todo = {cur} THEN "seeked" ELSE "flush"
    /\ UNCHANGED <<cur, pos, flagVars, decoderVars, frameVars, eventVars>>

\* seek_req = 0 and eof = 0 are two plain stores.
SeekDone ==
    /\ rpc = "seeked"
    /\ seek_req' = 0
    /\ rpc' = "uneof"
    /\ UNCHANGED <<todo, cur, pos, seek_pos, eof, abort_request, queueVars,
                   decoderVars, frameVars, eventVars, base>>

ClearEof ==
    /\ rpc = "uneof"
    /\ eof' = 0
    /\ rpc' = "read"
    /\ UNCHANGED <<todo, cur, pos, seek_req, seek_pos, abort_request,
                   queueVars, decoderVars, frameVars, eventVars, base>>

\* The part of stream_has_enough_packets that packets without a duration meet.
stream_has_enough_packets(s) ==
    qabort[s] = 1 \/ Len(pkts[s]) > MIN_FRAMES

\* av_read_frame and the queue of its stream; a packet of a stream that is not
\* played is dropped.  Full queues, the end of the file and a failure wait
\* 10 ms at most and start the loop again.  A failure may look like the end of
\* the file (avio_feof), and is the end of the thread where pb->error is set.
ReadFrame ==
    /\ rpc = "read"
    /\ \/ /\ \A s \in Streams : stream_has_enough_packets(s)
          /\ rpc' = "top"
          /\ UNCHANGED <<pos, todo, eof, queueVars>>
       \/ /\ \E s \in Streams : ~stream_has_enough_packets(s)
          /\ \/ /\ pos <= Len(File)
                /\ eof' = 0
                /\ pos' = pos + 1
                /\ rpc' = "top"
                /\ IF File[pos] \in Streams
                   THEN packet_queue_put(File[pos], "data", pos)
                   ELSE UNCHANGED queueVars
                /\ UNCHANGED todo
             \/ /\ pos > Len(File) \/ "io" \in Failures
                /\ eof = 0
                /\ rpc' = "putnull"
                /\ todo' = Streams
                /\ UNCHANGED <<pos, eof, queueVars>>
             \/ /\ pos > Len(File) /\ eof = 1
                /\ rpc' = "top"
                /\ UNCHANGED <<pos, todo, eof, queueVars>>
             \/ /\ "io" \in Failures
                /\ rpc' \in {"top", "exit"}
                /\ UNCHANGED <<pos, todo, eof, queueVars>>
    /\ UNCHANGED <<cur, seek_req, seek_pos, abort_request, decoderVars,
                   frameVars, eventVars, base>>

\* packet_queue_put_nullpacket for each stream makes the codecs drain.
PutNull(s) ==
    /\ rpc = "putnull" /\ s \in todo
    /\ packet_queue_put(s, "null", 0)
    /\ todo' = todo \ {s}
    /\ rpc' = IF todo = {s} THEN "seteof" ELSE "putnull"
    /\ UNCHANGED <<cur, pos, flagVars, decoderVars, frameVars, eventVars, base>>

\* eof = 1, and then the look at pb->error.
SetEof ==
    /\ rpc = "seteof"
    /\ eof' = 1
    /\ rpc' \in IF "io" \in Failures THEN {"top", "exit"} ELSE {"top"}
    /\ UNCHANGED <<todo, cur, pos, seek_req, seek_pos, abort_request,
                   queueVars, decoderVars, frameVars, eventVars, base>>

read_thread ==
    \/ \E s \in Streams : Open(s) \/ SeekFlush(s) \/ PutNull(s)
    \/ OpenFails \/ LoopTop \/ SeekPutFlush \/ SeekDone \/ ClearEof
    \/ ReadFrame \/ SetEof

-----------------------------------------------------------------------------
(* The decoder thread of stream s: decoder_decode_frame, then queue_picture *)
(* or the frame queue part of audio_thread.  The codec is external: a FIFO  *)
(* that gives a frame once it holds more than Delay packets, gives all of   *)
(* them once drained by an empty packet, then end of file.                  *)

CodecHasFrame(s) ==
    \/ Len(codec[s]) > Delay
    \/ draining[s] = 1 /\ codec[s] # <<>>

\* While the serials agree: avcodec_receive_frame until it needs a packet.
Decode(s) ==
    /\ dpc[s] = "decode"
    /\ \/ /\ serial[s] # pkt_serial[s]
          /\ dpc' = [dpc EXCEPT ![s] = "get"]
          /\ UNCHANGED <<codec, draining, frm>>
       \/ /\ serial[s] = pkt_serial[s] /\ qabort[s] = 1
          /\ dpc' = [dpc EXCEPT ![s] = "exit"]
          /\ UNCHANGED <<codec, draining, frm>>
       \/ /\ serial[s] = pkt_serial[s] /\ qabort[s] = 0
          /\ \/ /\ CodecHasFrame(s)
                /\ frm' = [frm EXCEPT ![s] = [at |-> Head(codec[s]).at,
                                             of |-> Head(codec[s]).serial,
                                             serial |-> 0]]
                /\ codec' = [codec EXCEPT ![s] = Tail(@)]
                /\ dpc' = [dpc EXCEPT ![s] = "emit"]
                /\ UNCHANGED draining
             \/ /\ draining[s] = 1 /\ codec[s] = <<>>
                /\ draining' = [draining EXCEPT ![s] = 0]
                /\ UNCHANGED <<codec, frm, dpc>>
             \/ /\ draining[s] = 0 /\ Len(codec[s]) <= Delay
                /\ dpc' = [dpc EXCEPT ![s] = "get"]
                /\ UNCHANGED <<codec, draining, frm>>
    /\ UNCHANGED <<readVars, flagVars, queueVars, pkt, pkt_serial, frameVars,
                   eventVars, base>>

\* packet_queue_get, blocking: aborted, asleep on the condition variable, or
\* the first packet and its serial.
packet_queue_get(s) ==
    /\ dpc[s] = "get" /\ asleep[s] = 0
    /\ \/ /\ qabort[s] = 1
          /\ dpc' = [dpc EXCEPT ![s] = "exit"]
          /\ UNCHANGED <<queueVars, pkt, pkt_serial>>
       \/ /\ qabort[s] = 0 /\ pkts[s] = <<>>
          /\ asleep' = [asleep EXCEPT ![s] = 1]
          /\ UNCHANGED <<pkts, serial, qabort, dpc, pkt, pkt_serial>>
       \/ /\ qabort[s] = 0 /\ pkts[s] # <<>>
          /\ pkt' = [pkt EXCEPT ![s] = Head(pkts[s])]
          /\ pkt_serial' = [pkt_serial EXCEPT ![s] = Head(pkts[s]).serial]
          /\ pkts' = [pkts EXCEPT ![s] = Tail(@)]
          /\ dpc' = [dpc EXCEPT ![s] = "check"]
          /\ UNCHANGED <<serial, qabort, asleep>>
    /\ UNCHANGED <<readVars, flagVars, codec, draining, frm, frameVars,
                   eventVars, base>>

\* Defect: a flush packet leaves the codec as it is.
UsePacket_KeepCodec(s) ==
    /\ dpc[s] = "check"
    /\ \/ /\ serial[s] # pkt_serial[s]
          /\ dpc' = [dpc EXCEPT ![s] = "get"]
          /\ UNCHANGED <<codec, draining>>
       \/ /\ serial[s] = pkt_serial[s]
          /\ dpc' = [dpc EXCEPT ![s] = "decode"]
          /\ codec' = [codec EXCEPT ![s] =
                          IF pkt[s].kind = "data" THEN Append(@, pkt[s]) ELSE @]
          /\ draining' = [draining EXCEPT ![s] =
                             IF pkt[s].kind = "null" THEN 1 ELSE 0]
    /\ pkt' = [pkt EXCEPT ![s] = NoPacket]
    /\ UNCHANGED <<readVars, flagVars, queueVars, pkt_serial, frm, frameVars,
                   eventVars, base>>

\* Outside the mutex the serial is compared once more: a packet of an older
\* serial is dropped, a flush packet empties the codec, others go into it.
UsePacket(s) ==
    /\ dpc[s] = "check"
    /\ \/ /\ serial[s] # pkt_serial[s]
          /\ dpc' = [dpc EXCEPT ![s] = "get"]
          /\ UNCHANGED <<codec, draining>>
       \/ /\ serial[s] = pkt_serial[s]
          /\ dpc' = [dpc EXCEPT ![s] = "decode"]
          /\ codec' = [codec EXCEPT ![s] =
                          CASE pkt[s].kind = "flush" -> <<>>
                            [] pkt[s].kind = "data" -> Append(@, pkt[s])
                            [] pkt[s].kind = "null" -> @]
          /\ draining' = [draining EXCEPT ![s] =
                             IF pkt[s].kind = "null" THEN 1 ELSE 0]
    /\ pkt' = [pkt EXCEPT ![s] = NoPacket]
    /\ UNCHANGED <<readVars, flagVars, queueVars, pkt_serial, frm, frameVars,
                   eventVars, base>>

\* The frame in hand, as the frame queue gets it.
Stamped(s, n) == [at |-> frm[s].at, of |-> frm[s].of, serial |-> n]

\* Defect: the frame gets the serial the queue has by then.
QueueFrame_LateSerial(s) ==
    /\ dpc[s] = "emit"
    /\ \/ /\ qabort[s] = 1
          /\ dpc' = [dpc EXCEPT ![s] = "exit"]
          /\ UNCHANGED unread
       \/ /\ qabort[s] = 0 /\ Len(unread[s]) + kept[s] < Capacity
          /\ unread' = [unread EXCEPT ![s] =
                 Append(@, Stamped(s, serial[s]))]
          /\ dpc' = [dpc EXCEPT ![s] = "decode"]
    /\ frm' = [frm EXCEPT ![s] = NoFrame]
    /\ UNCHANGED <<readVars, flagVars, queueVars, pkt, pkt_serial, codec,
                   draining, kept, held, shown, eventVars, base>>

\* Defect: a frame that finds no room is dropped.
QueueFrame_NoWait(s) ==
    /\ dpc[s] = "emit"
    /\ \/ /\ qabort[s] = 1
          /\ dpc' = [dpc EXCEPT ![s] = "exit"]
          /\ UNCHANGED unread
       \/ /\ qabort[s] = 0
          /\ unread' = IF Len(unread[s]) + kept[s] < Capacity
                THEN [unread EXCEPT ![s] =
                        Append(@, Stamped(s, pkt_serial[s]))]
                ELSE unread
          /\ dpc' = [dpc EXCEPT ![s] = "decode"]
    /\ frm' = [frm EXCEPT ![s] = NoFrame]
    /\ UNCHANGED <<readVars, flagVars, queueVars, pkt, pkt_serial, codec,
                   draining, kept, held, shown, eventVars, base>>

\* frame_queue_peek_writable, the serial of the frame, frame_queue_push.
QueueFrame(s) ==
    /\ dpc[s] = "emit"
    /\ \/ /\ qabort[s] = 1
          /\ dpc' = [dpc EXCEPT ![s] = "exit"]
          /\ UNCHANGED unread
       \/ /\ qabort[s] = 0 /\ Len(unread[s]) + kept[s] < Capacity
          /\ unread' = [unread EXCEPT ![s] =
                 Append(@, Stamped(s, pkt_serial[s]))]
          /\ dpc' = [dpc EXCEPT ![s] = "decode"]
    /\ frm' = [frm EXCEPT ![s] = NoFrame]
    /\ UNCHANGED <<readVars, flagVars, queueVars, pkt, pkt_serial, codec,
                   draining, kept, held, shown, eventVars, base>>

\* get_video_frame drops a picture that is late already by the master clock,
\* which is that of the sound or, without sound, the external one, but never
\* the first one of a serial nor the last one queued.
DropEarly ==
    /\ "video" \in Streams
    /\ dpc["video"] = "emit"
    /\ pkt_serial["video"] = vidclk_serial
    /\ pkts["video"] # <<>>
    /\ dpc' = [dpc EXCEPT !["video"] = "decode"]
    /\ frm' = [frm EXCEPT !["video"] = NoFrame]
    /\ UNCHANGED <<readVars, flagVars, queueVars, pkt, pkt_serial, codec,
                   draining, frameVars, eventVars, base>>

decoder_thread(s) ==
    \/ Decode(s) \/ packet_queue_get(s) \/ UsePacket(s) \/ QueueFrame(s)
    \/ s = "video" /\ DropEarly

-----------------------------------------------------------------------------
(* Presentation.                                                           *)

\* frame_queue_next: the first unread frame becomes the one kept.
frame_queue_next(s) ==
    /\ unread' = [unread EXCEPT ![s] = Tail(@)]
    /\ kept' = [kept EXCEPT ![s] = 1]

\* audio_decode_frame takes a frame off the queue ...
AudioTake ==
    /\ "audio" \in Streams
    /\ qabort["audio"] = 0
    /\ held["audio"] = NoFrame /\ unread["audio"] # <<>>
    /\ held' = [held EXCEPT !["audio"] = Head(unread["audio"])]
    /\ frame_queue_next("audio")
    /\ UNCHANGED <<readVars, flagVars, queueVars, decoderVars, shown,
                   eventVars, base>>

\* ... and then looks whether it is still the current serial.
AudioPlay ==
    /\ "audio" \in Streams
    /\ held["audio"] # NoFrame
    /\ shown' = IF held["audio"].serial = serial["audio"]
                THEN [shown EXCEPT !["audio"] = held["audio"]] ELSE shown
    /\ held' = [held EXCEPT !["audio"] = NoFrame]
    /\ UNCHANGED <<readVars, flagVars, queueVars, decoderVars, unread, kept,
                   eventVars, base>>

sdl_audio_callback == AudioTake \/ AudioPlay

Picture == "video" \in Streams /\ unread["video"] # <<>>
StalePicture == Picture /\ Head(unread["video"]).serial # serial["video"]
DuePicture == Picture /\ Head(unread["video"]).serial = serial["video"]

\* video_refresh runs when no event waits, and again after a picture is
\* passed over (retry).
Refreshing == epc = "refresh" \/ (epc = "loop" /\ quit = 0)

\* video_refresh: no picture, or the next one is not due.
RefreshIdle ==
    /\ Refreshing
    /\ ~StalePicture
    /\ epc' = "eof?"
    /\ UNCHANGED <<readVars, flagVars, queueVars, decoderVars, frameVars,
                   closing, vidclk_serial, quit, nseeks, base>>

\* A picture of an older serial is passed over.
RefreshStale ==
    /\ Refreshing
    /\ StalePicture
    /\ frame_queue_next("video")
    /\ epc' = "refresh"
    /\ UNCHANGED <<readVars, flagVars, queueVars, decoderVars, held, shown,
                   closing, vidclk_serial, quit, nseeks, base>>

\* The next picture is due: the video clock takes its serial.
RefreshDue ==
    /\ Refreshing
    /\ DuePicture
    /\ epc' = "show"
    /\ vidclk_serial' = Head(unread["video"]).serial
    /\ UNCHANGED <<readVars, flagVars, queueVars, decoderVars, frameVars,
                   closing, quit, nseeks, base>>

\* It is displayed, or dropped because another one is waiting and late too.
VideoShow ==
    /\ epc = "show"
    /\ frame_queue_next("video")
    /\ \/ /\ shown' = [shown EXCEPT !["video"] = Head(unread["video"])]
          /\ epc' = "eof?"
       \/ /\ Len(unread["video"]) > 1
          /\ epc' = "refresh"
          /\ UNCHANGED shown
    /\ UNCHANGED <<readVars, flagVars, queueVars, decoderVars, held, closing,
                   vidclk_serial, quit, nseeks, base>>

-----------------------------------------------------------------------------
(* The event thread: refresh_loop_wait_event, event_loop, do_exit.         *)

nb_packets(s) == IF s \in Streams THEN Len(pkts[s]) ELSE 0

\* After every refresh: is->eof && videoq.nb_packets == 0 &&
\* audioq.nb_packets == 0, three fields of three owners read in a row.
CheckEnd ==
    /\ \/ epc = "eof?" /\ epc' = IF eof = 1 THEN "video?" ELSE "loop"
       \/ epc = "video?" /\ epc' = IF nb_packets("video") = 0
                                   THEN "audio?" ELSE "loop"
       \/ epc = "audio?" /\ epc' = IF nb_packets("audio") = 0
                                   THEN "end" ELSE "loop"
    /\ UNCHANGED <<readVars, flagVars, queueVars, decoderVars, frameVars,
                   closing, vidclk_serial, quit, nseeks, base>>

\* A seek event: stream_seek does nothing while an earlier seek is pending.
stream_seek ==
    /\ epc = "loop" /\ nseeks < MaxSeeks
    /\ nseeks' = nseeks + 1
    /\ \/ /\ seek_req = 0
          /\ seek_req' = 1
          /\ \E p \in Targets : seek_pos' = p
       \/ seek_req = 1 /\ UNCHANGED <<seek_req, seek_pos>>
    /\ UNCHANGED <<readVars, eof, abort_request, queueVars, decoderVars,
                   frameVars, epc, closing, vidclk_serial, quit, base>>

\* CFFPlayer::Stop queues a quit event.
UserStop ==
    /\ quit = 0 /\ epc # "closed" /\ MaxStops = 1
    /\ quit' = 1
    /\ UNCHANGED <<readVars, flagVars, queueVars, decoderVars, frameVars, epc,
                   closing, vidclk_serial, nseeks, base>>

\* stream_close: raise abort_request and join the read thread.
BeginClose ==
    /\ epc = "end" \/ (epc = "loop" /\ quit = 1)
    /\ abort_request' = 1
    /\ epc' = "join"
    /\ UNCHANGED <<readVars, seek_req, seek_pos, eof, queueVars, decoderVars,
                   frameVars, closing, vidclk_serial, quit, nseeks, base>>

JoinReadThread ==
    /\ epc = "join" /\ rpc = "exit"
    /\ closing' = {s \in Streams : dpc[s] # "off"}
    /\ epc' = IF closing' = {} THEN "closed" ELSE "close"
    /\ UNCHANGED <<readVars, flagVars, queueVars, decoderVars, frameVars,
                   vidclk_serial, quit, nseeks, base>>

\* stream_component_close takes audio before video.
Closed1st == IF "audio" \in closing THEN "audio" ELSE "video"

\* decoder_abort: packet_queue_abort and frame_queue_signal, ...
AbortDecoder ==
    /\ epc = "close"
    /\ packet_queue_abort(Closed1st)
    /\ epc' = "joinDecoder"
    /\ UNCHANGED <<readVars, flagVars, decoderVars, frameVars, closing,
                   vidclk_serial, quit, nseeks, base>>

\* ... SDL_WaitThread, packet_queue_flush; SDL_CloseAudioDevice waits for the
\* callback; the frame queues are destroyed at the end.
JoinDecoder ==
    /\ epc = "joinDecoder"
    /\ dpc[Closed1st] = "exit" /\ held[Closed1st] = NoFrame
    /\ packet_queue_flush(Closed1st)
    /\ closing' = closing \ {Closed1st}
    /\ IF closing' = {}
       THEN epc' = "closed" /\ unread' = All(<<>>) /\ kept' = All(0)
       ELSE epc' = "close" /\ UNCHANGED <<unread, kept>>
    /\ UNCHANGED <<readVars, flagVars, serial, qabort, asleep, decoderVars,
                   held, shown, vidclk_serial, quit, nseeks, base>>

event_loop ==
    \/ RefreshIdle \/ RefreshStale \/ RefreshDue \/ VideoShow
    \/ CheckEnd \/ BeginClose \/ JoinReadThread \/ AbortDecoder \/ JoinDecoder

Next ==
    \/ read_thread
    \/ \E s \in Streams : decoder_thread(s)
    \/ sdl_audio_callback
    \/ event_loop
    \/ stream_seek \/ UserStop

Spec == Init /\ [][Next]_vars

\* The threads are scheduled by the system.  A picture that is looked at again
\* and again becomes due, since time passes: strong fairness of RefreshDue.
\* The user owes nothing.
FairSpec ==
    /\ Spec
    /\ WF_vars(read_thread)
    /\ \A s \in Streams : WF_vars(decoder_thread(s))
    /\ WF_vars(sdl_audio_callback)
    /\ WF_vars(event_loop)
    /\ SF_vars(RefreshDue)

-----------------------------------------------------------------------------
(* Properties.                                                             *)

\* The serial written into a frame is that of the packet it was decoded from,
\* although the thread reads the queue's serial without its mutex and the
\* codec holds packets back across seeks.
FrameHonest ==
    \A s \in Streams : \A i \in DOMAIN unread[s] :
        unread[s][i].of = unread[s][i].serial

\* A picture or sample that passes the serial test was read after the seek
\* that opened its serial: nothing from before a seek is presented as new.
SeekHonoured ==
    \A s \in Streams :
        shown[s] # NoFrame => shown[s].at >= base[s][shown[s].serial]

\* Presentation never goes back except by a seek.
ShownAdvances ==
    [][\A s \in Streams : shown'[s] # shown[s] =>
           \/ shown'[s].serial > shown[s].serial
           \/ shown'[s].serial = shown[s].serial /\ shown'[s].at > shown[s].at
      ]_vars

\* The first sound after a seek is the first one at or after its target, and
\* every later one is the next of the file: no sample is lost or repeated
\* between the queues, whatever the threads interleave.
SoundIsGapless ==
    [][\A s \in Streams \ {"video"} : shown'[s] # shown[s] =>
           LET from == IF shown'[s].serial = shown[s].serial
                       THEN shown[s].at + 1 ELSE base[s][shown'[s].serial]
           IN \A p \in from .. shown'[s].at - 1 : File[p] # s
      ]_vars

\* Without a failure every playback comes to its end and is closed, whatever
\* seeks were made: no thread waits for ever on another.
PlaybackEnds == <>(epc = "closed")

\* A stop asked for at any moment, the opening included, closes everything.
StopCloses == quit = 1 ~> epc = "closed"

\* stream_close frees the VideoState when it has joined the read thread and the
\* decoders and closed the audio device: no thread is at work on it then, or
\* asleep on it, and nothing is left in a queue.
ClosedIsOver ==
    epc = "closed" =>
        /\ rpc = "exit"
        /\ \A s \in Streams :
              /\ dpc[s] \in {"off", "exit"} /\ held[s] = NoFrame /\ asleep[s] = 0
              /\ pkts[s] = <<>> /\ unread[s] = <<>>

\* EPLAYERMSG_END is "playback over": sent when the file was read to its end.
EndAtEndOfFile == epc = "end" => pos > Len(File)

-----------------------------------------------------------------------------
(* The inductive invariant behind FrameHonest, SeekHonoured, ClosedIsOver. *)

\* The picture found due is still there when it is shown, and there is a
\* stream to close while the streams are being closed.
EventInv ==
    /\ epc = "show" => Picture
    /\ epc \in {"close", "joinDecoder"} => closing # {}

\* Who may touch a PacketQueue when.  A queue is aborted only before it is
\* started and after the read thread is gone, and a seek stays requested
\* while it is served, so seek_pos does not move under the read thread.
PhaseInv ==
    /\ epc \in {"close", "joinDecoder", "closed"} => rpc = "exit"
    /\ epc = "joinDecoder" => qabort[Closed1st] = 1
    /\ rpc \in {"flush", "putflush"} => seek_req = 1 /\ pos = seek_pos
    /\ rpc = "seeked" => seek_req = 1
    /\ rpc = "putflush" => cur \in todo /\ pkts[cur] = <<>>
    /\ \A s \in Streams :
          /\ rpc = "open" /\ s \in todo =>
                /\ pkts[s] = <<>> /\ serial[s] = 0 /\ base[s] = <<>>
                /\ pkt_serial[s] = -1 /\ dpc[s] = "off"
          /\ rpc # "exit" /\ (rpc = "open" => s \notin todo) => qabort[s] = 0
          /\ qabort[s] = 0 => serial[s] > 0
          /\ Len(base[s]) = serial[s]

\* All packets in a queue are of its current serial; none of a later one is
\* in the decoder's hands.
QueueInv ==
    \A s \in Streams :
        /\ \A i \in 1 .. Len(pkts[s]) : pkts[s][i].serial = serial[s]
        /\ pkt_serial[s] <= serial[s]
        /\ dpc[s] = "check" => pkt[s].serial = pkt_serial[s]

\* A decoder that has not met the current serial will meet its flush packet
\* first, and cannot fall asleep without one on its way.
FlushInv ==
    \A s \in Streams : pkt_serial[s] < serial[s] =>
        /\ pkts[s] # <<>> => pkts[s][1].kind = "flush"
        /\ pkts[s] = <<>> /\ qabort[s] = 0 => rpc = "putflush" /\ cur = s

\* Once it has met it, the codec holds packets of that serial only, or the
\* flush packet that will empty it is in hand.
CodecInv ==
    \A s \in Streams : pkt_serial[s] = serial[s] =>
        \/ \A i \in 1 .. Len(codec[s]) : codec[s][i].serial = serial[s]
        \/ dpc[s] = "check" /\ pkt[s].kind = "flush"

\* What was decoded from a packet keeps its serial.
FrameInv ==
    \A s \in Streams :
        /\ dpc[s] = "emit" => frm[s].of = pkt_serial[s]
        /\ \A i \in 1 .. Len(unread[s]) : unread[s][i].of = unread[s][i].serial

\* Position p may carry serial k of stream s.
Since(s, k, p) == k \in 1 .. Len(base[s]) /\ p >= base[s][k]

\* What carries a serial was read at or after the place its seek went to.
PlaceInv ==
    \A s \in Streams :
        /\ serial[s] > 0 /\ (rpc \in {"flush", "putflush"} => s \notin todo) =>
              Since(s, serial[s], pos)
        /\ \A i \in 1 .. Len(pkts[s]) :
              pkts[s][i].kind = "data" => Since(s, serial[s], pkts[s][i].at)
        /\ pkt[s].kind = "data" => Since(s, pkt[s].serial, pkt[s].at)
        /\ \A i \in 1 .. Len(codec[s]) :
              Since(s, codec[s][i].serial, codec[s][i].at)
        /\ dpc[s] = "emit" => Since(s, frm[s].of, frm[s].at)
        /\ \A i \in 1 .. Len(unread[s]) :
              Since(s, unread[s][i].serial, unread[s][i].at)
        /\ held[s] # NoFrame => Since(s, held[s].serial, held[s].at)
        /\ shown[s] # NoFrame => Since(s, shown[s].serial, shown[s].at)

\* A decoder sleeps only on an empty queue that is in use: whoever puts a packet
\* or aborts wakes it, and nobody starts a queue somebody sleeps on.
SleepInv ==
    \A s \in Streams : asleep[s] = 1 =>
        dpc[s] = "get" /\ pkts[s] = <<>> /\ qabort[s] = 0

\* Nobody works on stream s, and nothing is left in it but decoded frames.
AtRest(s) ==
    /\ dpc[s] \in {"off", "exit"} /\ held[s] = NoFrame
    /\ qabort[s] = 1 /\ pkts[s] = <<>>

\* A stream that was never opened is at rest and empty; one that was closed is
\* at rest, and in the end all of them are and the frames are gone.
CloseInv ==
    /\ \A s \in Streams : dpc[s] = "off" => AtRest(s) /\ unread[s] = <<>>
    /\ epc \in {"close", "joinDecoder", "closed"} =>
          \A s \in Streams \ closing : AtRest(s)
    /\ epc = "closed" => closing = {} /\ \A s \in Streams : unread[s] = <<>>

IInv ==
    /\ TypeOK /\ EventInv /\ PhaseInv /\ QueueInv /\ FlushInv /\ CodecInv
    /\ FrameInv /\ PlaceInv /\ SleepInv /\ CloseInv

-----------------------------------------------------------------------------
(* The invariant behind ShownAdvances: what is on its way from the file to *)
(* the screen is in order.  A place is a serial and a position; a place is *)
(* below a stage if it comes before all that stage and those behind it     *)
(* hold or have still to read.                                             *)

Place(f) == <<f.serial, f.at>>
Earlier(x, y) == x[1] < y[1] \/ (x[1] = y[1] /\ x[2] < y[2])

\* The demultiplexer is where the seek went, the stream's serial is not.
InSeek(s) == rpc \in {"flush", "putflush"} /\ s \in todo

BelowPkts(s) ==
    {x \in Int \X Int :
        /\ x[1] <= serial[s]
        /\ x[1] = serial[s] =>
              /\ InSeek(s) \/ x[2] < pos
              /\ \A i \in 1 .. Len(pkts[s]) :
                    pkts[s][i].kind = "data" => x[2] < pkts[s][i].at}
BelowPkt(s) ==
    {x \in BelowPkts(s) :
        dpc[s] = "check" /\ pkt[s].kind = "data" => Earlier(x, Place(pkt[s]))}
BelowCodec(s) ==
    {x \in BelowPkt(s) :
        \A i \in 1 .. Len(codec[s]) : Earlier(x, Place(codec[s][i]))}
BelowFrm(s) ==
    {x \in BelowCodec(s) :
        dpc[s] = "emit" => Earlier(x, <<frm[s].of, frm[s].at>>)}
BelowUnread(s) ==
    {x \in BelowFrm(s) :
        \A i \in 1 .. Len(unread[s]) : Earlier(x, Place(unread[s][i]))}
BelowHeld(s) ==
    {x \in BelowUnread(s) : held[s] # NoFrame => Earlier(x, Place(held[s]))}

\* Every stage is in order, and all of it is below the stages before it.
OrderInv ==
    \A s \in Streams :
        /\ \A i \in 1 .. Len(pkts[s]) : pkts[s][i].kind = "data" =>
              /\ InSeek(s) \/ pkts[s][i].at < pos
              /\ \A j \in i + 1 .. Len(pkts[s]) :
                    pkts[s][j].kind = "data" => pkts[s][i].at < pkts[s][j].at
        /\ dpc[s] = "check" /\ pkt[s].kind = "data" =>
              Place(pkt[s]) \in BelowPkts(s)
        /\ \A i \in 1 .. Len(codec[s]) :
              /\ Place(codec[s][i]) \in BelowPkt(s)
              /\ \A j \in i + 1 .. Len(codec[s]) :
                    Earlier(Place(codec[s][i]), Place(codec[s][j]))
        /\ dpc[s] = "emit" => <<frm[s].of, frm[s].at>> \in BelowCodec(s)
        /\ \A i \in 1 .. Len(unread[s]) :
              /\ Place(unread[s][i]) \in BelowFrm(s)
              /\ \A j \in i + 1 .. Len(unread[s]) :
                    Earlier(Place(unread[s][i]), Place(unread[s][j]))
        /\ held[s] # NoFrame =>
              s # "video" /\ Place(held[s]) \in BelowUnread(s)
        /\ shown[s] # NoFrame => Place(shown[s]) \in BelowHeld(s)
-----------------------------------------------------------------------------
(* The invariant behind SoundIsGapless: of the current serial everything   *)
(* that was read is still carried by some stage or was shown.              *)

InPkts(s, p) ==
    \E i \in 1 .. Len(pkts[s]) : pkts[s][i].kind = "data" /\ pkts[s][i].at = p
InPkt(s, p) ==
    dpc[s] = "check" /\ pkt[s].kind = "data" /\ Place(pkt[s]) = <<serial[s], p>>
InCodec(s, p) ==
    \E i \in 1 .. Len(codec[s]) : Place(codec[s][i]) = <<serial[s], p>>
InFrm(s, p) == dpc[s] = "emit" /\ <<frm[s].of, frm[s].at>> = <<serial[s], p>>
InUnread(s, p) ==
    \E i \in 1 .. Len(unread[s]) : Place(unread[s][i]) = <<serial[s], p>>
InHeld(s, p) == held[s] # NoFrame /\ Place(held[s]) = <<serial[s], p>>

Carried(s, p) ==
    \/ InPkts(s, p) \/ InPkt(s, p) \/ InCodec(s, p) \/ InFrm(s, p)
    \/ InUnread(s, p) \/ InHeld(s, p)
WasShown(s, p) ==
    shown[s] # NoFrame /\ shown[s].serial = serial[s] /\ p <= shown[s].at

\* A serial has one flush packet, before anything else of it.
FlushOnce(s) ==
    /\ \A i \in 1 .. Len(pkts[s]) : pkts[s][i].kind = "flush" =>
          i = 1 /\ pkt_serial[s] < serial[s]
    /\ \A i \in 1 .. Len(codec[s]) :
          /\ codec[s][i].serial <= pkt_serial[s]
          /\ dpc[s] = "check" /\ pkt[s].kind = "flush" =>
                codec[s][i].serial < pkt_serial[s]

\* A stream that is not open, or no longer, has an aborted queue.
ShutInv(s) ==
    /\ rpc = "open" => pos = 1
    /\ dpc[s] = "off" => qabort[s] = 1
    /\ epc \in {"close", "joinDecoder", "closed"} /\ s \notin closing =>
          qabort[s] = 1

\* Nothing is missing before the demultiplexer's position or, while that has
\* moved and the serial has not, before anything that is still carried.
Covered(s) ==
    qabort[s] = 0 =>
        \A p \in base[s][serial[s]] .. Len(File) :
            /\ File[p] = s
            /\ \/ ~InSeek(s) /\ p < pos
               \/ \E q \in p + 1 .. Len(File) : Carried(s, q)
            => Carried(s, p) \/ WasShown(s, p)

\* Nothing is missing between what was shown last and what the callback holds.
HeldIsNext(s) ==
    held[s] # NoFrame /\ held[s].serial = serial[s] =>
        \A p \in base[s][serial[s]] .. held[s].at - 1 :
            File[p] = s => WasShown(s, p)

\* All of this for every stream that drops no frames by itself.
CoverInv ==
    \A s \in Streams \ {"video"} :
        FlushOnce(s) /\ ShutInv(s) /\ Covered(s) /\ HeldIsNext(s)
=============================================================================
