------------------------ MODULE MediaPipeOrderProofs ------------------------
(***************************************************************************)
(* What is on its way from the file to the screen is in order, so that     *)
(* presentation never goes back but by a seek: OrderInv is an invariant    *)
(* and ShownAdvances holds, for any streams, file, sizes, seeks and        *)
(* failures.                                                               *)
(*                                                                         *)
(* The places below a stage only grow, whatever a thread does to the       *)
(* stages behind it; so what stays where it is stays in order, and what    *)
(* moves was below the stage it leaves.                                    *)
(***************************************************************************)
EXTENDS MediaPipeProofs

USE StreamsAssumption, FileAssumption, BoundsAssumption
    DEF StreamsAssumption, FileAssumption, BoundsAssumption

\* OrderInv for one stream, part by part.
PktsOrd(t) ==
    \A i \in 1 .. Len(pkts[t]) : pkts[t][i].kind = "data" =>
        /\ InSeek(t) \/ pkts[t][i].at < pos
        /\ \A j \in i + 1 .. Len(pkts[t]) :
              pkts[t][j].kind = "data" => pkts[t][i].at < pkts[t][j].at
PktOrd(t) ==
    dpc[t] = "check" /\ pkt[t].kind = "data" => Place(pkt[t]) \in BelowPkts(t)
CodecOrd(t) ==
    \A i \in 1 .. Len(codec[t]) :
        /\ Place(codec[t][i]) \in BelowPkt(t)
        /\ \A j \in i + 1 .. Len(codec[t]) :
              Earlier(Place(codec[t][i]), Place(codec[t][j]))
FrmOrd(t) == dpc[t] = "emit" => <<frm[t].of, frm[t].at>> \in BelowCodec(t)
UnreadOrd(t) ==
    \A i \in 1 .. Len(unread[t]) :
        /\ Place(unread[t][i]) \in BelowFrm(t)
        /\ \A j \in i + 1 .. Len(unread[t]) :
              Earlier(Place(unread[t][i]), Place(unread[t][j]))
HeldOrd(t) ==
    held[t] # NoFrame => t # "video" /\ Place(held[t]) \in BelowUnread(t)
ShownOrd(t) == shown[t] # NoFrame => Place(shown[t]) \in BelowHeld(t)

OrderOf(t) ==
    /\ PktsOrd(t) /\ PktOrd(t) /\ CodecOrd(t) /\ FrmOrd(t)
    /\ UnreadOrd(t) /\ HeldOrd(t) /\ ShownOrd(t)

\* OrderInv is OrderOf for every stream.
LEMMA OrderParts == OrderInv <=> \A t \in Streams : OrderOf(t)
    BY DEF OrderInv, OrderOf, PktsOrd, PktOrd, CodecOrd, FrmOrd, UnreadOrd,
       HeldOrd, ShownOrd

-----------------------------------------------------------------------------
(* What a stage that stays as it is, or only loses elements, keeps.        *)

\* What lies below the packet in hand.
LEMMA PktStays ==
    ASSUME NEW t \in Streams, PktOrd(t), BelowPkts(t) \subseteq BelowPkts(t)',
           \/ dpc'[t] # "check"
           \/ dpc'[t] = dpc[t] /\ pkt'[t] = pkt[t]
    PROVE  PktOrd(t)' /\ BelowPkt(t) \subseteq BelowPkt(t)'
    BY DEF PktOrd, BelowPkt, Place

\* The codec, which only a decoder changes.
LEMMA CodecStays ==
    ASSUME NEW t \in Streams, CodecOrd(t), BelowPkt(t) \subseteq BelowPkt(t)',
           codec'[t] = codec[t]
    PROVE  CodecOrd(t)' /\ BelowCodec(t) \subseteq BelowCodec(t)'
    BY DEF CodecOrd, BelowCodec, Place

\* The frame in a decoder's hand.
LEMMA FrmStays ==
    ASSUME NEW t \in Streams, FrmOrd(t), BelowCodec(t) \subseteq BelowCodec(t)',
           \/ dpc'[t] # "emit"
           \/ dpc'[t] = dpc[t] /\ frm'[t] = frm[t]
    PROVE  FrmOrd(t)' /\ BelowFrm(t) \subseteq BelowFrm(t)'
    BY DEF FrmOrd, BelowFrm

\* The frame queue, of which a frame may be taken.
LEMMA UnreadStays ==
    ASSUME NEW t \in Streams, UnreadOrd(t), BelowFrm(t) \subseteq BelowFrm(t)',
           Len(unread[t]) \in Nat, Len(unread'[t]) \in Nat,
           \/ unread'[t] = unread[t] \/ unread'[t] = <<>>
           \/ TailOf(unread'[t], unread[t])
    PROVE  UnreadOrd(t)' /\ BelowUnread(t) \subseteq BelowUnread(t)'
<1>1. CASE unread'[t] = unread[t]
      BY <1>1 DEF UnreadOrd, BelowUnread, Place
<1>2. CASE unread'[t] = <<>>
  <2>1. Len(unread'[t]) = 0
        BY <1>2
  <2> QED
      BY <2>1 DEF UnreadOrd, BelowUnread
<1>3. CASE TailOf(unread'[t], unread[t])
  <2>1. \A i \in 1 .. Len(unread'[t]) :
           i + 1 \in 1 .. Len(unread[t]) /\ unread'[t][i] = unread[t][i + 1]
        BY <1>3 DEF TailOf
  <2>2. BelowUnread(t) \subseteq BelowUnread(t)'
        BY <2>1 DEF BelowUnread, Place
  <2>3. ASSUME NEW i \in 1 .. Len(unread'[t])
        PROVE  /\ Place(unread'[t][i]) \in BelowFrm(t)'
               /\ \A j \in i + 1 .. Len(unread'[t]) :
                     Earlier(Place(unread'[t][i]), Place(unread'[t][j]))
    <3>1. Place(unread[t][i + 1]) \in BelowFrm(t)
          BY <2>1 DEF UnreadOrd
    <3>2. ASSUME NEW j \in i + 1 .. Len(unread'[t])
          PROVE  Earlier(Place(unread'[t][i]), Place(unread'[t][j]))
      <4>1. /\ i + 1 \in 1 .. Len(unread[t])
            /\ j + 1 \in (i + 1) + 1 .. Len(unread[t])
            /\ unread'[t][i] = unread[t][i + 1] /\ unread'[t][j] = unread[t][j + 1]
            BY <1>3, <2>1 DEF TailOf
      <4>2. Earlier(Place(unread[t][i + 1]), Place(unread[t][j + 1]))
            BY <4>1 DEF UnreadOrd
      <4> QED
          BY <4>1, <4>2
    <3> QED
        BY <2>1, <3>1, <3>2
  <2> QED
      BY <2>2, <2>3 DEF UnreadOrd, Place, Earlier
<1> QED
    BY <1>1, <1>2, <1>3

\* The frame the callback holds.
LEMMA HeldStays ==
    ASSUME NEW t \in Streams, HeldOrd(t), BelowUnread(t) \subseteq BelowUnread(t)',
           held'[t] = held[t] \/ held'[t] = NoFrame
    PROVE  HeldOrd(t)' /\ BelowHeld(t) \subseteq BelowHeld(t)'
    BY DEF HeldOrd, BelowHeld, Place, NoFrame

\* The frame shown last.
LEMMA ShownStays ==
    ASSUME NEW t \in Streams, ShownOrd(t), BelowHeld(t) \subseteq BelowHeld(t)',
           shown'[t] = shown[t]
    PROVE  ShownOrd(t)'
    BY DEF ShownOrd, Place, NoFrame
-----------------------------------------------------------------------------
(* The read thread.                                                        *)

\* The types of what the packet queues are made of.
LEMMA QueueFacts ==
    ASSUME TypeOK, NEW t \in Streams
    PROVE  /\ pos \in Int /\ serial[t] \in Nat /\ Len(pkts[t]) \in Nat
           /\ \A i \in 1 .. Len(pkts[t]) :
                 pkts[t][i] \in Packet /\ pkts[t][i].at \in Int
<1>1. pos \in Int /\ serial[t] \in Nat
      BY DEF TypeOK, ReadTypes, QueueTypes, Positions
<1>2. pkts[t] \in Seq(Packet)
      BY DEF TypeOK, QueueTypes
<1>3. \A p \in Packet : p.at \in Int
      BY DEF Packet
<1> QED
    BY <1>1, <1>2, <1>3

\* ... after a step.
LEMMA QueueFactsNext ==
    ASSUME TypeOK', NEW t \in Streams
    PROVE  pos' \in Int /\ Len(pkts'[t]) \in Nat
<1>1. pos' \in Int
      BY DEF TypeOK, ReadTypes, Positions
<1>2. pkts'[t] \in Seq(Packet)
      BY DEF TypeOK, QueueTypes
<1> QED
    BY <1>1, <1>2

\* A packet queue that stays as it is, loses its first element or is emptied.
LEMMA QueueStays ==
    ASSUME TypeOK, TypeOK', NEW t \in Streams, PktsOrd(t), serial'[t] = serial[t],
           InSeek(t)' \/ (~InSeek(t) /\ pos' >= pos),
           \/ pkts'[t] = pkts[t] \/ pkts'[t] = <<>>
           \/ TailOf(pkts'[t], pkts[t])
    PROVE  PktsOrd(t)' /\ BelowPkts(t) \subseteq BelowPkts(t)'
<1>0. /\ pos \in Int /\ pos' \in Int /\ serial[t] \in Nat
      /\ Len(pkts[t]) \in Nat /\ Len(pkts'[t]) \in Nat
      /\ \A i \in 1 .. Len(pkts[t]) : pkts[t][i].at \in Int
      BY QueueFacts, QueueFactsNext
<1>1. \A i \in 1 .. Len(pkts'[t]) : \E d \in {0, 1} :
         i + d \in 1 .. Len(pkts[t]) /\ pkts'[t][i] = pkts[t][i + d]
  <2>1. CASE pkts'[t] = pkts[t]
        BY <1>0, <2>1
  <2>2. CASE pkts'[t] = <<>>
        BY <1>0, <2>2
  <2>3. CASE TailOf(pkts'[t], pkts[t])
        BY <1>0, <2>3 DEF TailOf
  <2> QED
      BY <2>1, <2>2, <2>3
<1>2. ASSUME NEW x \in BelowPkts(t) PROVE x \in BelowPkts(t)'
  <2>1. /\ x \in Int \X Int /\ x[1] \in Int /\ x[2] \in Int
        /\ x[1] <= serial[t]
        BY <1>2 DEF BelowPkts
  <2>2. x[1] = serial[t] => InSeek(t)' \/ x[2] < pos'
        BY <1>0, <1>2, <2>1 DEF BelowPkts
  <2>3. ASSUME x[1] = serial[t], NEW i \in 1 .. Len(pkts'[t]),
               pkts'[t][i].kind = "data"
        PROVE  x[2] < pkts'[t][i].at
    <3>1. PICK d \in {0, 1} :
             i + d \in 1 .. Len(pkts[t]) /\ pkts'[t][i] = pkts[t][i + d]
          BY <1>1
    <3> QED
        BY <1>2, <2>3, <3>1 DEF BelowPkts
  <2> QED
      BY <2>1, <2>2, <2>3 DEF BelowPkts
<1>3. ASSUME NEW i \in 1 .. Len(pkts'[t]), pkts'[t][i].kind = "data"
      PROVE  InSeek(t)' \/ pkts'[t][i].at < pos'
  <2>1. PICK d \in {0, 1} :
           i + d \in 1 .. Len(pkts[t]) /\ pkts'[t][i] = pkts[t][i + d]
        BY <1>1
  <2>2. InSeek(t) \/ pkts[t][i + d].at < pos
        BY <1>3, <2>1 DEF PktsOrd
  <2> QED
      BY <1>0, <2>1, <2>2
<1>4. ASSUME NEW i \in 1 .. Len(pkts'[t]), NEW j \in i + 1 .. Len(pkts'[t]),
             pkts'[t][i].kind = "data", pkts'[t][j].kind = "data"
      PROVE  pkts'[t][i].at < pkts'[t][j].at
  <2>1. CASE pkts'[t] = pkts[t]
        BY <1>0, <1>4, <2>1 DEF PktsOrd
  <2>2. CASE pkts'[t] = <<>>
        BY <1>0, <2>2
  <2>3. CASE TailOf(pkts'[t], pkts[t])
    <3>1. /\ Len(pkts'[t]) = Len(pkts[t]) - 1
          /\ \A k \in 1 .. Len(pkts'[t]) : pkts'[t][k] = pkts[t][k + 1]
          BY <2>3 DEF TailOf
    <3>2. /\ i + 1 \in 1 .. Len(pkts[t]) /\ j + 1 \in (i + 1) + 1 .. Len(pkts[t])
          /\ j \in 1 .. Len(pkts'[t])
      <4> DEFINE m == Len(pkts'[t])
                 n == Len(pkts[t])
      <4>1. m \in Nat /\ n \in Nat /\ m = n - 1 /\ i \in 1 .. m /\ j \in i + 1 .. m
            BY <1>0, <3>1
      <4> QED
          BY ONLY <4>1
    <3>3. pkts'[t][i] = pkts[t][i + 1] /\ pkts'[t][j] = pkts[t][j + 1]
          BY <3>1, <3>2
    <3> QED
        BY <1>4, <3>2, <3>3 DEF PktsOrd
  <2> QED
      BY <2>1, <2>2, <2>3
<1> QED
    BY <1>2, <1>3, <1>4 DEF PktsOrd

\* A packet queue that gets an element: a packet read at the demultiplexer's
\* position, which then moves on, or one without data.
LEMMA QueueGets ==
    ASSUME TypeOK, TypeOK', NEW t \in Streams, PktsOrd(t), serial'[t] = serial[t],
           ~InSeek(t), ~InSeek(t)', NEW e, AppendOf(pkts'[t], pkts[t], e),
           \/ e.kind = "data" /\ e.at = pos /\ pos' = pos + 1
           \/ e.kind # "data" /\ pos' = pos
    PROVE  PktsOrd(t)' /\ BelowPkts(t) \subseteq BelowPkts(t)'
<1>0. /\ pos \in Int /\ pos' \in Int /\ serial[t] \in Nat
      /\ Len(pkts[t]) \in Nat /\ Len(pkts'[t]) \in Nat
      /\ \A i \in 1 .. Len(pkts[t]) : pkts[t][i].at \in Int
      BY QueueFacts, QueueFactsNext
<1>1. \A i \in 1 .. Len(pkts'[t]) :
         \/ i \in 1 .. Len(pkts[t]) /\ pkts'[t][i] = pkts[t][i]
         \/ i = Len(pkts[t]) + 1 /\ pkts'[t][i] = e
      BY <1>0 DEF AppendOf
<1>2. ASSUME NEW x \in BelowPkts(t) PROVE x \in BelowPkts(t)'
  <2>1. /\ x \in Int \X Int /\ x[1] \in Int /\ x[2] \in Int
        /\ x[1] <= serial[t]
        BY <1>2 DEF BelowPkts
  <2>2. x[1] = serial[t] => x[2] < pos /\ x[2] < pos'
        BY <1>0, <1>2, <2>1 DEF BelowPkts
  <2>3. ASSUME x[1] = serial[t], NEW i \in 1 .. Len(pkts'[t]),
               pkts'[t][i].kind = "data"
        PROVE  x[2] < pkts'[t][i].at
        BY <1>1, <1>2, <2>2, <2>3 DEF BelowPkts
  <2> QED
      BY <2>1, <2>2, <2>3 DEF BelowPkts
<1>3. ASSUME NEW i \in 1 .. Len(pkts'[t]), pkts'[t][i].kind = "data"
      PROVE  pkts'[t][i].at < pos'
  <2>1. CASE i \in 1 .. Len(pkts[t]) /\ pkts'[t][i] = pkts[t][i]
    <3>1. pkts[t][i].at < pos
          BY <1>3, <2>1 DEF PktsOrd
    <3>2. pkts[t][i].at \in Int /\ pos <= pos'
          BY <1>0, <2>1
    <3> QED
        BY <1>0, <2>1, <3>1, <3>2
  <2>2. CASE pkts'[t][i] = e
        BY <1>0, <1>3, <2>2
  <2> QED
      BY <1>1, <2>1, <2>2
<1>4. ASSUME NEW i \in 1 .. Len(pkts'[t]), NEW j \in i + 1 .. Len(pkts'[t]),
             pkts'[t][i].kind = "data", pkts'[t][j].kind = "data"
      PROVE  pkts'[t][i].at < pkts'[t][j].at
  <2>1. i \in 1 .. Len(pkts[t]) /\ pkts'[t][i] = pkts[t][i]
        BY <1>0, <1>1 DEF AppendOf
  <2>2. pkts[t][i].at < pos
        BY <1>4, <2>1 DEF PktsOrd
  <2>3. CASE j \in 1 .. Len(pkts[t]) /\ pkts'[t][j] = pkts[t][j]
        BY <1>0, <1>4, <2>1, <2>3 DEF PktsOrd
  <2>4. CASE pkts'[t][j] = e
        BY <1>4, <2>1, <2>2, <2>4
  <2> QED
      BY <1>1, <2>3, <2>4
<1> QED
    BY <1>2, <1>3, <1>4 DEF PktsOrd

\* A packet queue of which a new serial begins holds no data yet.
LEMMA QueueFlushed ==
    ASSUME TypeOK, NEW t \in Streams, serial'[t] = serial[t] + 1,
           pkts[t] = <<>>, NEW e, AppendOf(pkts'[t], pkts[t], e), e.kind = "flush"
    PROVE  PktsOrd(t)' /\ BelowPkts(t) \subseteq BelowPkts(t)'
<1>1. serial[t] \in Nat
      BY DEF TypeOK, QueueTypes
<1>2. Len(pkts'[t]) = 1 /\ pkts'[t][1] = e
      BY DEF AppendOf
<1>3. \A x \in BelowPkts(t) : x \in Int \X Int /\ x[1] <= serial[t]
      BY DEF BelowPkts
<1>4. \A x \in BelowPkts(t) : x[1] < serial'[t]
      BY <1>1, <1>3
<1> QED
    BY <1>1, <1>2, <1>3, <1>4 DEF PktsOrd, BelowPkts
\* A packet that is put leaves the queues of the other streams as they are.
LEMMA PutKeepsOthers ==
    ASSUME TypeOK, NEW s \in Streams, NEW t \in Streams, t # s,
           NEW kind \in {"data", "flush", "null"}, NEW at \in 0 .. Len(File),
           packet_queue_put(s, kind, at)
    PROVE  pkts'[t] = pkts[t] /\ serial'[t] = serial[t]
    BY PutEffect DEF TypeOK

\* A step of the read thread keeps the order in a packet queue: what it puts
\* was read last, and a jump of the position is followed by a new serial.
LEMMA ReadQueue ==
    ASSUME TypeOK, TypeOK', PhaseInv, NEW t \in Streams, PktsOrd(t), read_thread
    PROVE  PktsOrd(t)' /\ BelowPkts(t) \subseteq BelowPkts(t)'
<1> DEFINE Goal == PktsOrd(t)' /\ BelowPkts(t) \subseteq BelowPkts(t)'
<1>0. Len(File) \in Nat /\ pos \in Nat /\ 0 \in 0 .. Len(File)
      BY DEF TypeOK, ReadTypes, Positions
<1>1. ASSUME NEW s \in Streams, Open(s) PROVE Goal
  <2>1. /\ pos' = pos /\ ~InSeek(t) /\ ~InSeek(t)'
        /\ pkts[s] = <<>> /\ serial[s] = 0 /\ packet_queue_start(s)
        BY <1>1 DEF Open, PhaseInv, InSeek
  <2> DEFINE e == [kind |-> "flush", at |-> 0, serial |-> serial[s] + 1]
             q == Append(pkts[s], e)
  <2>2. /\ pkts' = [pkts EXCEPT ![s] = q]
        /\ serial' = [serial EXCEPT ![s] = serial[s] + 1]
        BY <2>1 DEF packet_queue_start
  <2>3. e \in Packet /\ e.kind = "flush" /\ pkts[s] \in Seq(Packet)
        BY <1>0, <2>1 DEF Packet, TypeOK, QueueTypes
  <2> HIDE DEF e
  <2>4. AppendOf(q, pkts[s], e)
        BY <2>3, AppendIs
  <2> HIDE DEF q
  <2>5. CASE t = s
    <3>1. AppendOf(pkts'[t], pkts[t], e) /\ serial'[t] = serial[t] + 1
          BY <2>2, <2>4, <2>5 DEF TypeOK, QueueTypes
    <3> QED
        BY <2>1, <2>3, <2>5, <3>1, QueueFlushed
  <2>6. CASE t # s
    <3>1. pkts'[t] = pkts[t] /\ serial'[t] = serial[t]
          BY <2>2, <2>6 DEF TypeOK, QueueTypes
    <3>2. pos' >= pos
          BY <1>0, <2>1
    <3> QED
        BY <2>1, <3>1, <3>2, QueueStays
  <2> QED
      BY <2>5, <2>6
<1>2. CASE OpenFails \/ SeekDone \/ ClearEof \/ SetEof \/ LoopTop
  <2>1. UNCHANGED <<pkts, serial>> /\ ~InSeek(t)
        BY <1>2 DEF OpenFails, SeekDone, ClearEof, SetEof, LoopTop, queueVars,
           InSeek
  <2>2. InSeek(t)' \/ pos' = pos
        BY <1>2 DEF OpenFails, SeekDone, ClearEof, SetEof, LoopTop, InSeek
  <2> QED
      BY <1>0, <2>1, <2>2, QueueStays
<1>3. ASSUME NEW s \in Streams, SeekFlush(s) PROVE Goal
  <2>1. /\ UNCHANGED <<serial, todo, pos>> /\ InSeek(t)' = InSeek(t)
        /\ pkts' = [pkts EXCEPT ![s] = <<>>]
        BY <1>3 DEF SeekFlush, InSeek, packet_queue_flush
  <2>2. pkts'[t] = pkts[t] \/ pkts'[t] = <<>>
        BY <2>1 DEF TypeOK, QueueTypes
  <2> QED
      BY <1>0, <2>1, <2>2, QueueStays
<1>4. CASE SeekPutFlush
  <2>1. /\ UNCHANGED pos /\ rpc = "putflush" /\ todo' = todo \ {cur}
        /\ packet_queue_put(cur, "flush", 0)
        /\ rpc' = IF todo = {cur} THEN "seeked" ELSE "flush"
        BY <1>4 DEF SeekPutFlush
  <2>2. cur \in Streams /\ qabort[cur] = 0 /\ pkts[cur] = <<>>
        BY <2>1 DEF PhaseInv, TypeOK, ReadTypes
  <2>3. CASE t # cur
    <3>1. pkts'[t] = pkts[t] /\ serial'[t] = serial[t]
          BY <1>0, <2>1, <2>2, <2>3, PutKeepsOthers
    <3>2. InSeek(t) = InSeek(t)'
          BY <2>1, <2>3 DEF InSeek
    <3> QED
        BY <1>0, <2>1, <3>1, <3>2, QueueStays
  <2>4. CASE t = cur
    <3> DEFINE e == [kind |-> "flush", at |-> 0, serial |-> serial'[t]]
    <3>1. serial'[t] = serial[t] + 1 /\ AppendOf(pkts'[t], pkts[t], e)
          BY <1>0, <2>1, <2>2, <2>4, PutEffect, PutElements DEF TypeOK
    <3> QED
        BY <2>2, <2>4, <3>1, QueueFlushed
  <2> QED
      BY <2>3, <2>4
<1>5. CASE ReadFrame
  <2>1. /\ ~InSeek(t) /\ ~InSeek(t)' /\ rpc = "read"
        BY <1>5 DEF ReadFrame, InSeek
  <2>2. qabort[t] = 0
        BY <2>1 DEF PhaseInv
  <2>3. CASE UNCHANGED queueVars
    <3>1. pos' = pos \/ pos' = pos + 1
          BY <1>5 DEF ReadFrame
    <3> QED
        BY <1>0, <2>1, <2>3, <3>1, QueueStays DEF queueVars
  <2>4. CASE /\ pos <= Len(File) /\ pos' = pos + 1 /\ File[pos] \in Streams
             /\ packet_queue_put(File[pos], "data", pos)
    <3>1. pos \in 0 .. Len(File)
          BY <1>0, <2>4
    <3>2. CASE t = File[pos]
      <4> DEFINE e == [kind |-> "data", at |-> pos, serial |-> serial'[t]]
      <4>1. serial'[t] = serial[t] /\ AppendOf(pkts'[t], pkts[t], e)
            BY <2>2, <2>4, <3>1, <3>2, PutEffect, PutElements DEF TypeOK
      <4> QED
          BY <2>1, <2>4, <4>1, QueueGets
    <3>3. CASE t # File[pos]
      <4>1. pkts'[t] = pkts[t] /\ serial'[t] = serial[t]
            BY <2>4, <3>1, <3>3, PutKeepsOthers
      <4> QED
          BY <1>0, <2>1, <2>4, <4>1, QueueStays
    <3> QED
        BY <3>2, <3>3
  <2> QED
      BY <1>5, <2>3, <2>4 DEF ReadFrame
<1>6. ASSUME NEW s \in Streams, PutNull(s) PROVE Goal
  <2>1. /\ ~InSeek(t) /\ ~InSeek(t)' /\ rpc = "putnull" /\ pos' = pos
        /\ packet_queue_put(s, "null", 0)
        BY <1>6 DEF PutNull, InSeek
  <2>2. qabort[t] = 0
        BY <2>1 DEF PhaseInv
  <2>3. CASE t = s
    <3> DEFINE e == [kind |-> "null", at |-> 0, serial |-> serial'[t]]
    <3>1. serial'[t] = serial[t] /\ AppendOf(pkts'[t], pkts[t], e)
          BY <1>0, <2>1, <2>2, <2>3, PutEffect, PutElements DEF TypeOK
    <3> QED
        BY <2>1, <3>1, QueueGets
  <2>4. CASE t # s
    <3>1. pkts'[t] = pkts[t] /\ serial'[t] = serial[t]
          BY <1>0, <2>1, <2>4, PutKeepsOthers
    <3>2. pos' >= pos
          BY <1>0, <2>1
    <3> QED
        BY <2>1, <3>1, <3>2, QueueStays
  <2> QED
      BY <2>3, <2>4
<1> QED
    BY <1>1, <1>2, <1>3, <1>4, <1>5, <1>6 DEF read_thread

\* What comes after the packet queue stays in order as long as a step changes
\* nothing there but takes or discards.
LEMMA Downstream ==
    ASSUME TypeOK, TypeOK', NEW t \in Streams, OrderOf(t),
           PktsOrd(t)', BelowPkts(t) \subseteq BelowPkts(t)',
           \/ dpc'[t] = dpc[t] /\ pkt'[t] = pkt[t] /\ frm'[t] = frm[t]
           \/ dpc'[t] \notin {"check", "emit"},
           codec'[t] = codec[t],
           \/ unread'[t] = unread[t] \/ unread'[t] = <<>>
           \/ TailOf(unread'[t], unread[t])
    PROVE  /\ PktOrd(t)' /\ CodecOrd(t)' /\ FrmOrd(t)' /\ UnreadOrd(t)'
           /\ BelowUnread(t) \subseteq BelowUnread(t)'
<1>0. Len(unread[t]) \in Nat /\ Len(unread'[t]) \in Nat
  <2>1. unread[t] \in Seq(Frame) /\ unread'[t] \in Seq(Frame)
        BY DEF TypeOK, FrameTypes
  <2> QED
      BY <2>1
<1>1. PktOrd(t)' /\ BelowPkt(t) \subseteq BelowPkt(t)'
      BY PktStays DEF OrderOf
<1>2. CodecOrd(t)' /\ BelowCodec(t) \subseteq BelowCodec(t)'
      BY <1>1, CodecStays DEF OrderOf
<1>3. FrmOrd(t)' /\ BelowFrm(t) \subseteq BelowFrm(t)'
      BY <1>2, FrmStays DEF OrderOf
<1>4. UnreadOrd(t)' /\ BelowUnread(t) \subseteq BelowUnread(t)'
      BY <1>0, <1>3, UnreadStays DEF OrderOf
<1> QED
    BY <1>1, <1>2, <1>3, <1>4

\* ... and so does all of it if nothing is presented.
LEMMA Undisturbed ==
    ASSUME TypeOK, TypeOK', NEW t \in Streams, OrderOf(t),
           PktsOrd(t)', BelowPkts(t) \subseteq BelowPkts(t)',
           \/ dpc'[t] = dpc[t] /\ pkt'[t] = pkt[t] /\ frm'[t] = frm[t]
           \/ dpc'[t] \notin {"check", "emit"},
           codec'[t] = codec[t],
           \/ unread'[t] = unread[t] \/ unread'[t] = <<>>
           \/ TailOf(unread'[t], unread[t]),
           held'[t] = held[t] \/ held'[t] = NoFrame, shown'[t] = shown[t]
    PROVE  OrderOf(t)'
<1>1. /\ PktOrd(t)' /\ CodecOrd(t)' /\ FrmOrd(t)' /\ UnreadOrd(t)'
      /\ BelowUnread(t) \subseteq BelowUnread(t)'
      BY Downstream
<1>2. HeldOrd(t)' /\ BelowHeld(t) \subseteq BelowHeld(t)'
      BY <1>1, HeldStays DEF OrderOf
<1>3. ShownOrd(t)'
      BY <1>2, ShownStays DEF OrderOf
<1> QED
    BY <1>1, <1>2, <1>3 DEF OrderOf

\* The read thread.
LEMMA ReadOrder ==
    ASSUME TypeOK, TypeOK', PhaseInv, NEW t \in Streams, OrderOf(t), read_thread
    PROVE  OrderOf(t)'
<1>1. PktsOrd(t)' /\ BelowPkts(t) \subseteq BelowPkts(t)'
      BY ReadQueue DEF OrderOf
<1>2. /\ UNCHANGED <<pkt, codec, frm, unread, held, shown>>
      /\ dpc' = dpc \/ \E s \in Streams : dpc' = [dpc EXCEPT ![s] = "decode"]
      BY DEF read_thread, Open, SeekFlush, PutNull, OpenFails, LoopTop,
         SeekPutFlush, SeekDone, ClearEof, ReadFrame, SetEof, decoderVars,
         frameVars
<1>3. dpc'[t] = dpc[t] \/ dpc'[t] = "decode"
      BY <1>2 DEF TypeOK, DecoderTypes
<1> QED
    BY <1>1, <1>2, <1>3, Undisturbed
-----------------------------------------------------------------------------
(* The decoder threads.                                                    *)

\* No decoder step moves the demultiplexer or opens a serial.
LEMMA DecoderQueue ==
    ASSUME TypeOK, TypeOK', NEW t \in Streams, PktsOrd(t), NEW s \in Streams,
           decoder_thread(s),
           pkts'[t] = pkts[t] \/ TailOf(pkts'[t], pkts[t])
    PROVE  PktsOrd(t)' /\ BelowPkts(t) \subseteq BelowPkts(t)'
<1>1. UNCHANGED <<rpc, todo, pos, serial>>
      BY DEF decoder_thread, Decode, packet_queue_get, UsePacket, QueueFrame,
         DropEarly, readVars, queueVars
<1>2. pos \in Int /\ InSeek(t)' = InSeek(t)
      BY <1>1, QueueFacts DEF InSeek
<1>3. serial'[t] = serial[t] /\ pos' >= pos
      BY <1>1, <1>2
<1>4. InSeek(t)' \/ (~InSeek(t) /\ pos' >= pos)
      BY <1>2, <1>3
<1> QED
    BY <1>3, <1>4, QueueStays

\* A packet that a decoder takes was the first of its queue.
LEMMA GetOrder ==
    ASSUME TypeOK, TypeOK', NEW t \in Streams, OrderOf(t), SerialOf(t),
           packet_queue_get(t)
    PROVE  OrderOf(t)'
<1>1. UNCHANGED <<codec, frm, unread, held, shown, rpc, todo, pos>>
      BY DEF packet_queue_get, frameVars, readVars
<1>2. CASE UNCHANGED <<pkts, pkt, pkt_serial>> /\ dpc'[t] \in {"get", "exit"}
  <2>1. PktsOrd(t)' /\ BelowPkts(t) \subseteq BelowPkts(t)'
        BY <1>2, DecoderQueue DEF decoder_thread, OrderOf
  <2> QED
      BY <1>1, <1>2, <2>1, Undisturbed
<1>3. CASE /\ pkts[t] # <<>> /\ dpc'[t] = "check"
           /\ TailOf(pkts'[t], pkts[t]) /\ pkt'[t] = pkts[t][1]
  <2> DEFINE p == pkts[t][1]
  <2>1. PktsOrd(t)' /\ BelowPkts(t) \subseteq BelowPkts(t)'
        BY <1>3, DecoderQueue DEF decoder_thread, OrderOf
  <2>0. Len(pkts[t]) >= 1 /\ Len(pkts[t]) \in Nat
        BY <1>3, QueueFacts DEF TailOf
  <2>2. /\ p \in Packet /\ p.at \in Int /\ p.serial = serial[t]
        /\ serial[t] \in Nat /\ 1 \in 1 .. Len(pkts[t])
    <3>1. 1 \in 1 .. Len(pkts[t])
          BY <2>0
    <3>2. p \in Packet /\ p.at \in Int /\ serial[t] \in Nat
          BY <3>1, QueueFacts
    <3>3. p.serial = serial[t]
          BY <3>1 DEF SerialOf
    <3> QED
        BY <3>1, <3>2, <3>3
  <2>3. ASSUME p.kind = "data" PROVE <<p.serial, p.at>> \in BelowPkts(t)'
    <3>1. InSeek(t)' \/ p.at < pos'
          BY <1>1, <2>2, <2>3 DEF OrderOf, PktsOrd, InSeek
    <3>2. ASSUME NEW i \in 1 .. Len(pkts'[t]), pkts'[t][i].kind = "data"
          PROVE  p.at < pkts'[t][i].at
      <4>1. /\ i + 1 \in 1 + 1 .. Len(pkts[t])
            /\ pkts'[t][i] = pkts[t][i + 1]
            BY <1>3, QueueFacts DEF TailOf
      <4> QED
          BY <2>2, <2>3, <3>2, <4>1 DEF OrderOf, PktsOrd
    <3>3. serial' = serial
          BY GetElements
    <3> QED
        BY <2>2, <3>1, <3>2, <3>3 DEF BelowPkts
  <2>4. PktOrd(t)'
        BY <1>3, <2>3 DEF PktOrd, Place
  <2>5. ASSUME NEW x \in BelowPkt(t), p.kind = "data"
        PROVE  Earlier(x, <<p.serial, p.at>>)
    <3>1. x \in BelowPkts(t)
          BY <2>5 DEF BelowPkt
    <3>2. x[1] \in Int /\ x[1] <= serial[t] /\ (x[1] = serial[t] => x[2] < p.at)
          BY <2>2, <2>5, <3>1 DEF BelowPkts
    <3> QED
        BY <2>2, <3>2 DEF Earlier
  <2>6. BelowPkt(t) \subseteq BelowPkt(t)'
        BY <1>3, <2>1, <2>5 DEF BelowPkt, Place
  <2>7. CodecOrd(t)' /\ BelowCodec(t) \subseteq BelowCodec(t)'
        BY <1>1, <2>6, CodecStays DEF OrderOf
  <2>8. FrmOrd(t)' /\ BelowFrm(t) \subseteq BelowFrm(t)'
        BY <1>3, <2>7, FrmStays DEF OrderOf
  <2>9. Len(unread[t]) \in Nat /\ Len(unread'[t]) \in Nat
        BY <1>1 DEF TypeOK, FrameTypes
  <2>10. UnreadOrd(t)' /\ BelowUnread(t) \subseteq BelowUnread(t)'
        BY <1>1, <2>8, <2>9, UnreadStays DEF OrderOf
  <2>11. HeldOrd(t)' /\ BelowHeld(t) \subseteq BelowHeld(t)'
        BY <1>1, <2>10, HeldStays DEF OrderOf
  <2>12. ShownOrd(t)'
        BY <1>1, <2>11, ShownStays DEF OrderOf
  <2> QED
      BY <2>1, <2>4, <2>7, <2>8, <2>10, <2>11, <2>12 DEF OrderOf
<1> QED
    BY <1>2, <1>3, GetElements

\* What comes after the codec stays in order as long as its frames do.
LEMMA AfterCodec ==
    ASSUME TypeOK, TypeOK', NEW t \in Streams, OrderOf(t), dpc'[t] # "emit",
           BelowCodec(t) \subseteq BelowCodec(t)',
           UNCHANGED <<unread, held, shown>>
    PROVE  FrmOrd(t)' /\ UnreadOrd(t)' /\ HeldOrd(t)' /\ ShownOrd(t)'
<1>1. FrmOrd(t)' /\ BelowFrm(t) \subseteq BelowFrm(t)'
      BY FrmStays DEF OrderOf
<1>2. Len(unread[t]) \in Nat /\ Len(unread'[t]) \in Nat
      BY DEF TypeOK, FrameTypes
<1>3. UnreadOrd(t)' /\ BelowUnread(t) \subseteq BelowUnread(t)'
      BY <1>1, <1>2, UnreadStays DEF OrderOf
<1>4. HeldOrd(t)' /\ BelowHeld(t) \subseteq BelowHeld(t)'
      BY <1>3, HeldStays DEF OrderOf
<1>5. ShownOrd(t)'
      BY <1>4, ShownStays DEF OrderOf
<1> QED
    BY <1>1, <1>3, <1>4, <1>5

\* A packet that goes into the codec is the last one there.
LEMMA UseOrder ==
    ASSUME TypeOK, TypeOK', NEW t \in Streams, OrderOf(t), UsePacket(t)
    PROVE  OrderOf(t)'
<1>1. /\ UNCHANGED <<unread, held, shown, pkts>> /\ dpc[t] = "check"
      /\ dpc'[t] \in {"decode", "get"}
      BY UseElements DEF UsePacket, frameVars, queueVars
<1>2. PktsOrd(t)' /\ BelowPkts(t) \subseteq BelowPkts(t)'
      BY <1>1, DecoderQueue DEF decoder_thread, OrderOf
<1>3. PktOrd(t)' /\ BelowPkt(t) \subseteq BelowPkt(t)'
      BY <1>1, <1>2, PktStays DEF OrderOf
<1>4. CodecOrd(t)' /\ BelowCodec(t) \subseteq BelowCodec(t)'
  <2>1. CASE codec'[t] = codec[t]
        BY <1>3, <2>1, CodecStays DEF OrderOf
  <2>2. CASE codec'[t] = <<>>
        BY <1>3, <2>2 DEF CodecOrd, BelowCodec
  <2>3. CASE pkt[t].kind = "data" /\ AppendOf(codec'[t], codec[t], pkt[t])
    <3>1. Len(codec[t]) \in Nat
          BY DEF TypeOK, DecoderTypes
    <3>2. \A x \in BelowPkt(t) : Earlier(x, Place(pkt[t]))
          BY <1>1, <2>3 DEF BelowPkt
    <3>3. \A i \in 1 .. Len(codec'[t]) :
             \/ i \in 1 .. Len(codec[t]) /\ codec'[t][i] = codec[t][i]
             \/ i = Len(codec[t]) + 1 /\ codec'[t][i] = pkt[t]
          BY <2>3, <3>1 DEF AppendOf
    <3>4. BelowCodec(t) \subseteq BelowCodec(t)'
      <4>1. ASSUME NEW x \in BelowCodec(t), NEW i \in 1 .. Len(codec'[t])
            PROVE  Earlier(x, Place(codec'[t][i]))
            BY <3>2, <3>3, <4>1 DEF BelowCodec
      <4> QED
          BY <1>3, <4>1 DEF BelowCodec, Place
    <3>5. Place(pkt[t]) \in BelowPkt(t)'
      <4>1. Place(pkt[t]) \in BelowPkts(t)
            BY <1>1, <2>3 DEF OrderOf, PktOrd
      <4> QED
          BY <1>1, <1>2, <4>1 DEF BelowPkt
    <3>6. ASSUME NEW i \in 1 .. Len(codec'[t])
          PROVE  Place(codec'[t][i]) \in BelowPkt(t)'
          BY <1>3, <3>3, <3>5 DEF OrderOf, CodecOrd
    <3>7. ASSUME NEW i \in 1 .. Len(codec'[t]), NEW j \in i + 1 .. Len(codec'[t])
          PROVE  Earlier(Place(codec'[t][i]), Place(codec'[t][j]))
      <4>1. i \in 1 .. Len(codec[t]) /\ codec'[t][i] = codec[t][i]
            BY <2>3, <3>1 DEF AppendOf
      <4>2. CASE j \in 1 .. Len(codec[t]) /\ codec'[t][j] = codec[t][j]
            BY <4>1, <4>2 DEF OrderOf, CodecOrd
      <4>3. CASE codec'[t][j] = pkt[t]
            BY <3>2, <4>1, <4>3 DEF OrderOf, CodecOrd
      <4>4. j \in 1 .. Len(codec'[t])
            BY <2>3, <3>1 DEF AppendOf
      <4> QED
          BY <3>3, <4>2, <4>3, <4>4
    <3> QED
        BY <3>4, <3>6, <3>7 DEF CodecOrd, Place, Earlier
  <2> QED
      BY <2>1, <2>2, <2>3, UseElements
<1>5. FrmOrd(t)' /\ UnreadOrd(t)' /\ HeldOrd(t)' /\ ShownOrd(t)'
      BY <1>1, <1>4, AfterCodec
<1> QED
    BY <1>2, <1>3, <1>4, <1>5 DEF OrderOf

\* The frame that a decoder takes out of the codec was the first there.
LEMMA DecodeOrder ==
    ASSUME TypeOK, TypeOK', NEW t \in Streams, OrderOf(t), Decode(t)
    PROVE  OrderOf(t)'
<1>1. UNCHANGED <<pkts, pkt, unread, held, shown>> /\ dpc[t] = "decode"
      BY DecodeElements DEF Decode, frameVars, queueVars
<1>2. PktsOrd(t)' /\ BelowPkts(t) \subseteq BelowPkts(t)'
      BY <1>1, DecoderQueue DEF decoder_thread, OrderOf
<1>3. CASE UNCHANGED <<codec, frm>> /\ dpc'[t] \in {"decode", "get", "exit"}
      BY <1>1, <1>2, <1>3, Undisturbed
<1>4. CASE /\ dpc'[t] = "emit" /\ TailOf(codec'[t], codec[t])
           /\ frm'[t].of = codec[t][1].serial /\ frm'[t].at = codec[t][1].at
  <2> DEFINE y == Place(codec[t][1])
  <2>0. Len(codec[t]) \in Nat /\ Len(codec'[t]) \in Nat /\ 1 \in 1 .. Len(codec[t])
    <3>1. codec[t] \in Seq(Packet) /\ codec'[t] \in Seq(Packet)
          BY DEF TypeOK, DecoderTypes
    <3> QED
        BY <1>4, <3>1 DEF TailOf
  <2>1. \A i \in 1 .. Len(codec'[t]) :
           i + 1 \in 1 .. Len(codec[t]) /\ codec'[t][i] = codec[t][i + 1]
        BY <1>4, <2>0 DEF TailOf
  <2>2. y = <<frm'[t].of, frm'[t].at>> /\ y = <<frm[t].of, frm[t].at>>'
        BY <1>4 DEF Place
  <2>3. PktOrd(t)' /\ BelowPkt(t) \subseteq BelowPkt(t)'
        BY <1>2, <1>4, PktStays DEF OrderOf
  <2>4. CodecOrd(t)'
    <3>1. ASSUME NEW i \in 1 .. Len(codec'[t])
          PROVE  Place(codec'[t][i]) \in BelowPkt(t)'
          BY <2>1, <2>3 DEF OrderOf, CodecOrd
    <3>2. ASSUME NEW i \in 1 .. Len(codec'[t]), NEW j \in i + 1 .. Len(codec'[t])
          PROVE  Earlier(Place(codec'[t][i]), Place(codec'[t][j]))
      <4>1. /\ i + 1 \in 1 .. Len(codec[t])
            /\ j + 1 \in (i + 1) + 1 .. Len(codec[t])
            /\ codec'[t][i] = codec[t][i + 1] /\ codec'[t][j] = codec[t][j + 1]
            BY <1>4, <2>0, <2>1 DEF TailOf
      <4>2. Earlier(Place(codec[t][i + 1]), Place(codec[t][j + 1]))
            BY <4>1 DEF OrderOf, CodecOrd
      <4> QED
          BY <4>1, <4>2
    <3> QED
        BY <3>1, <3>2 DEF CodecOrd, Place, Earlier
  <2>5. BelowCodec(t) \subseteq BelowCodec(t)'
    <3>1. ASSUME NEW x \in BelowCodec(t), NEW i \in 1 .. Len(codec'[t])
          PROVE  Earlier(x, Place(codec'[t][i]))
          BY <2>1, <3>1 DEF BelowCodec
    <3> QED
        BY <2>3, <3>1 DEF BelowCodec, Place
  <2>6. y \in BelowCodec(t)'
    <3>1. y \in BelowPkt(t)'
          BY <2>0, <2>3 DEF OrderOf, CodecOrd
    <3>2. ASSUME NEW i \in 1 .. Len(codec'[t])
          PROVE  Earlier(y, Place(codec'[t][i]))
      <4>1. i + 1 \in 1 + 1 .. Len(codec[t])
            BY <2>0, <2>1
      <4>2. Earlier(y, Place(codec[t][i + 1]))
            BY <2>0, <4>1 DEF OrderOf, CodecOrd
      <4> QED
          BY <2>1, <4>2
    <3> QED
        BY <3>1, <3>2 DEF BelowCodec, Place
  <2>7. FrmOrd(t)'
        BY <2>2, <2>6 DEF FrmOrd
  <2>8. BelowFrm(t) \subseteq BelowFrm(t)'
    <3>1. \A x \in BelowCodec(t) : Earlier(x, y)
          BY <2>0 DEF BelowCodec
    <3> QED
        BY <2>2, <2>5, <3>1 DEF BelowFrm
  <2>9. Len(unread[t]) \in Nat /\ Len(unread'[t]) \in Nat
        BY <1>1 DEF TypeOK, FrameTypes
  <2>10. UnreadOrd(t)' /\ BelowUnread(t) \subseteq BelowUnread(t)'
        BY <1>1, <2>8, <2>9, UnreadStays DEF OrderOf
  <2>11. HeldOrd(t)' /\ BelowHeld(t) \subseteq BelowHeld(t)'
        BY <1>1, <2>10, HeldStays DEF OrderOf
  <2>12. ShownOrd(t)'
        BY <1>1, <2>11, ShownStays DEF OrderOf
  <2> QED
      BY <1>2, <2>3, <2>4, <2>7, <2>10, <2>11, <2>12 DEF OrderOf
<1> QED
    BY <1>3, <1>4, DecodeElements

\* A frame that is queued is the last one there.
LEMMA QueueOrder ==
    ASSUME TypeOK, TypeOK', NEW t \in Streams, OrderOf(t), SerialOf(t),
           QueueFrame(t)
    PROVE  OrderOf(t)'
<1>1. /\ UNCHANGED <<pkts, pkt, codec, held, shown>>
      /\ dpc[t] = "emit" /\ dpc'[t] \in {"decode", "exit"}
      BY FrameElements DEF queueVars
<1>2. PktsOrd(t)' /\ BelowPkts(t) \subseteq BelowPkts(t)'
      BY <1>1, DecoderQueue DEF decoder_thread, OrderOf
<1>3. CASE unread' = unread
      BY <1>1, <1>2, <1>3, Undisturbed
<1>4. CASE AppendOf(unread'[t], unread[t], Stamped(t, pkt_serial[t]))
  <2> DEFINE f == Stamped(t, pkt_serial[t])
             y == Place(f)
  <2>0. Len(unread[t]) \in Nat /\ Len(unread'[t]) \in Nat
    <3>1. unread[t] \in Seq(Frame) /\ unread'[t] \in Seq(Frame)
          BY DEF TypeOK, FrameTypes
    <3> QED
        BY <3>1
  <2>1. \A i \in 1 .. Len(unread'[t]) :
           \/ i \in 1 .. Len(unread[t]) /\ unread'[t][i] = unread[t][i]
           \/ i = Len(unread[t]) + 1 /\ unread'[t][i] = f
        BY <1>4, <2>0 DEF AppendOf
  <2>2. y = <<frm[t].of, frm[t].at>>
        BY <1>1 DEF SerialOf, Stamped, Place
  <2>3. PktOrd(t)' /\ BelowPkt(t) \subseteq BelowPkt(t)'
        BY <1>1, <1>2, PktStays DEF OrderOf
  <2>4. CodecOrd(t)' /\ BelowCodec(t) \subseteq BelowCodec(t)'
        BY <1>1, <2>3, CodecStays DEF OrderOf
  <2>5. FrmOrd(t)' /\ BelowFrm(t) \subseteq BelowFrm(t)'
        BY <1>1, <2>4, FrmStays DEF OrderOf
  <2>6. \A x \in BelowFrm(t) : Earlier(x, y)
        BY <1>1, <2>2 DEF BelowFrm
  <2>7. y \in BelowFrm(t)'
    <3>1. y \in BelowCodec(t)'
          BY <1>1, <2>2, <2>4 DEF OrderOf, FrmOrd
    <3> QED
        BY <1>1, <3>1 DEF BelowFrm
  <2> HIDE DEF f
  <2>8. UnreadOrd(t)'
    <3>1. ASSUME NEW i \in 1 .. Len(unread'[t])
          PROVE  Place(unread'[t][i]) \in BelowFrm(t)'
          BY <2>1, <2>5, <2>7 DEF OrderOf, UnreadOrd
    <3>2. ASSUME NEW i \in 1 .. Len(unread'[t]), NEW j \in i + 1 .. Len(unread'[t])
          PROVE  Earlier(Place(unread'[t][i]), Place(unread'[t][j]))
      <4>1. i \in 1 .. Len(unread[t]) /\ unread'[t][i] = unread[t][i]
            BY <1>4, <2>0 DEF AppendOf
      <4>2. CASE j \in 1 .. Len(unread[t]) /\ unread'[t][j] = unread[t][j]
            BY <4>1, <4>2 DEF OrderOf, UnreadOrd
      <4>3. CASE unread'[t][j] = f
            BY <2>6, <4>1, <4>3 DEF OrderOf, UnreadOrd
      <4>4. j \in 1 .. Len(unread'[t])
            BY <2>0
      <4> QED
          BY <2>1, <4>2, <4>3, <4>4
    <3> QED
        BY <3>1, <3>2 DEF UnreadOrd, Place, Earlier
  <2>9. BelowUnread(t) \subseteq BelowUnread(t)'
    <3>1. ASSUME NEW x \in BelowUnread(t), NEW i \in 1 .. Len(unread'[t])
          PROVE  Earlier(x, Place(unread'[t][i]))
          BY <2>1, <2>6, <3>1 DEF BelowUnread
    <3> QED
        BY <2>5, <3>1 DEF BelowUnread, Place
  <2>10. HeldOrd(t)' /\ BelowHeld(t) \subseteq BelowHeld(t)'
        BY <1>1, <2>9, HeldStays DEF OrderOf
  <2>11. ShownOrd(t)'
        BY <1>1, <2>10, ShownStays DEF OrderOf
  <2> QED
      BY <1>2, <2>3, <2>4, <2>5, <2>8, <2>10, <2>11 DEF OrderOf
<1> QED
    BY <1>3, <1>4, FrameElements

\* A decoder thread keeps the order in its own stream and in the others.
LEMMA DecoderOrder ==
    ASSUME TypeOK, TypeOK', NEW t \in Streams, OrderOf(t), SerialOf(t),
           NEW s \in Streams, decoder_thread(s)
    PROVE  OrderOf(t)'
<1>1. CASE t = s /\ ~DropEarly
      BY <1>1, DecodeOrder, GetOrder, UseOrder, QueueOrder DEF decoder_thread
<1>2. CASE DropEarly
  <2>1. /\ UNCHANGED <<pkts, pkt, codec, unread, held, shown>>
        /\ dpc' = [dpc EXCEPT !["video"] = "decode"]
        /\ frm' = [frm EXCEPT !["video"] = NoFrame]
        BY <1>2 DEF DropEarly, queueVars, frameVars
  <2>2. \/ dpc'[t] = dpc[t] /\ frm'[t] = frm[t]
        \/ dpc'[t] = "decode"
        BY <2>1 DEF TypeOK, DecoderTypes
  <2>3. PktsOrd(t)' /\ BelowPkts(t) \subseteq BelowPkts(t)'
        BY <2>1, DecoderQueue DEF OrderOf
  <2> QED
      BY <2>1, <2>2, <2>3, Undisturbed
<1>3. CASE t # s /\ ~DropEarly
  <2>1. /\ pkts'[t] = pkts[t] /\ pkt'[t] = pkt[t] /\ dpc'[t] = dpc[t]
        /\ codec'[t] = codec[t] /\ frm'[t] = frm[t] /\ unread'[t] = unread[t]
        /\ held' = held /\ shown' = shown
    <3>1. CASE Decode(s)
          BY <1>3, <3>1, DecodeElements DEF Decode, OnlyAt, queueVars, frameVars
    <3>2. CASE packet_queue_get(s)
      <4>1. UNCHANGED <<codec, frm, unread, held, shown>>
            BY <3>2 DEF packet_queue_get, frameVars
      <4>2. OnlyAt(pkts', pkts, s) /\ OnlyAt(pkt', pkt, s) /\ OnlyAt(dpc', dpc, s)
            BY <3>2, GetElements
      <4>3. pkts'[t] = pkts[t] /\ pkt'[t] = pkt[t] /\ dpc'[t] = dpc[t]
            BY <1>3, <4>2 DEF OnlyAt
      <4> QED
          BY <4>1, <4>3
    <3>3. CASE UsePacket(s)
          BY <1>3, <3>3, UseElements DEF UsePacket, OnlyAt, queueVars, frameVars
    <3>4. CASE QueueFrame(s)
          BY <1>3, <3>4, FrameElements DEF OnlyAt, queueVars
    <3> QED
        BY <1>3, <3>1, <3>2, <3>3, <3>4 DEF decoder_thread
  <2>2. PktsOrd(t)' /\ BelowPkts(t) \subseteq BelowPkts(t)'
        BY <2>1, DecoderQueue DEF OrderOf
  <2> QED
      BY <2>1, <2>2, Undisturbed
<1> QED
    BY <1>1, <1>2, <1>3

-----------------------------------------------------------------------------
(* Presentation, the event thread and the user.                            *)

\* The frame that leaves a frame queue was below what stays there.
LEMMA NextOrder ==
    ASSUME TypeOK, TypeOK', NEW t \in Streams, OrderOf(t),
           unread[t] # <<>>, frame_queue_next(t),
           UNCHANGED <<rpc, todo, pos, queueVars, decoderVars>>
    PROVE  /\ PktsOrd(t)' /\ PktOrd(t)' /\ CodecOrd(t)' /\ FrmOrd(t)'
           /\ UnreadOrd(t)' /\ BelowUnread(t) \subseteq BelowUnread(t)'
           /\ Place(unread[t][1]) \in BelowUnread(t)'
           /\ \A x \in BelowUnread(t) : Earlier(x, Place(unread[t][1]))
<1>0. Len(unread[t]) \in Nat /\ Len(unread'[t]) \in Nat
  <2>1. unread[t] \in Seq(Frame) /\ unread'[t] \in Seq(Frame)
        BY DEF TypeOK, FrameTypes
  <2> QED
      BY <2>1
<1>1. TailOf(unread'[t], unread[t])
      BY NextElements
<1>2. 1 \in 1 .. Len(unread[t])
      BY <1>0, <1>1 DEF TailOf
<1>3. PktsOrd(t)' /\ BelowPkts(t) \subseteq BelowPkts(t)'
      BY DEF OrderOf, PktsOrd, BelowPkts, InSeek, queueVars
<1>4. PktOrd(t)' /\ BelowPkt(t) \subseteq BelowPkt(t)'
      BY <1>3, PktStays DEF OrderOf, decoderVars
<1>5. CodecOrd(t)' /\ BelowCodec(t) \subseteq BelowCodec(t)'
      BY <1>4, CodecStays DEF OrderOf, decoderVars
<1>6. FrmOrd(t)' /\ BelowFrm(t) \subseteq BelowFrm(t)'
      BY <1>5, FrmStays DEF OrderOf, decoderVars
<1>7. UnreadOrd(t)' /\ BelowUnread(t) \subseteq BelowUnread(t)'
      BY <1>0, <1>1, <1>6, UnreadStays DEF OrderOf
<1>8. \A x \in BelowUnread(t) : Earlier(x, Place(unread[t][1]))
      BY <1>2 DEF BelowUnread
<1>9. Place(unread[t][1]) \in BelowUnread(t)'
  <2>1. Place(unread[t][1]) \in BelowFrm(t)'
        BY <1>2, <1>6 DEF OrderOf, UnreadOrd
  <2>2. ASSUME NEW i \in 1 .. Len(unread'[t])
        PROVE  Earlier(Place(unread[t][1]), Place(unread'[t][i]))
    <3>1. i + 1 \in 1 + 1 .. Len(unread[t]) /\ unread'[t][i] = unread[t][i + 1]
          BY <1>0, <1>1 DEF TailOf
    <3> QED
        BY <1>2, <3>1 DEF OrderOf, UnreadOrd
  <2> QED
      BY <2>1, <2>2 DEF BelowUnread, Place
<1> QED
    BY <1>3, <1>4, <1>5, <1>6, <1>7, <1>8, <1>9

\* A stream whose packet queue is not touched keeps it in order while the
\* read thread stands still.
LEMMA QueueSame ==
    ASSUME NEW t \in Streams, PktsOrd(t),
           UNCHANGED <<rpc, todo, pos>>, pkts'[t] = pkts[t], serial'[t] = serial[t]
    PROVE  PktsOrd(t)' /\ BelowPkts(t) \subseteq BelowPkts(t)'
    BY DEF PktsOrd, BelowPkts, InSeek

\* The audio callback.
LEMMA CallbackOrder ==
    ASSUME TypeOK, TypeOK', NEW t \in Streams, OrderOf(t), sdl_audio_callback
    PROVE  OrderOf(t)'
<1>0. /\ UNCHANGED <<rpc, todo, pos, queueVars, decoderVars>>
      /\ UNCHANGED <<pkts, serial, dpc, pkt, frm, codec>>
      BY DEF sdl_audio_callback, AudioTake, AudioPlay, readVars, queueVars,
         decoderVars
<1>1. PktsOrd(t)' /\ BelowPkts(t) \subseteq BelowPkts(t)'
      BY <1>0, QueueSame DEF OrderOf
<1>2. CASE AudioTake
  <2>1. /\ "audio" \in Streams /\ unread["audio"] # <<>> /\ held["audio"] = NoFrame
        /\ frame_queue_next("audio") /\ shown' = shown
        /\ held' = [held EXCEPT !["audio"] = Head(unread["audio"])]
        BY <1>2 DEF AudioTake
  <2>2. /\ OnlyAt(unread', unread, "audio")
        /\ Head(unread["audio"]) = unread["audio"][1]
        BY <2>1, NextElements
  <2>3. CASE t = "audio"
    <3>1. /\ PktsOrd(t)' /\ PktOrd(t)' /\ CodecOrd(t)' /\ FrmOrd(t)'
          /\ UnreadOrd(t)' /\ BelowUnread(t) \subseteq BelowUnread(t)'
          /\ Place(unread[t][1]) \in BelowUnread(t)'
          /\ \A x \in BelowUnread(t) : Earlier(x, Place(unread[t][1]))
          BY <1>0, <2>1, <2>3, NextOrder
    <3>2. held'[t] = unread[t][1]
          BY <2>1, <2>2, <2>3 DEF TypeOK, FrameTypes
    <3>3. HeldOrd(t)'
          BY <2>3, <3>1, <3>2 DEF HeldOrd, Place
    <3>4. BelowHeld(t) \subseteq BelowHeld(t)'
          BY <3>1, <3>2 DEF BelowHeld, Place
    <3>5. ShownOrd(t)'
          BY <2>1, <3>4, ShownStays DEF OrderOf
    <3> QED
        BY <3>1, <3>3, <3>5 DEF OrderOf
  <2>4. CASE t # "audio"
    <3>1. unread'[t] = unread[t] /\ held'[t] = held[t]
          BY <2>1, <2>2, <2>4 DEF OnlyAt, TypeOK, FrameTypes
    <3> QED
        BY <1>0, <1>1, <2>1, <3>1, Undisturbed
  <2> QED
      BY <2>3, <2>4
<1>3. CASE AudioPlay
  <2>1. /\ "audio" \in Streams /\ held["audio"] # NoFrame /\ unread' = unread
        /\ held' = [held EXCEPT !["audio"] = NoFrame]
        /\ \/ shown' = shown
           \/ shown' = [shown EXCEPT !["audio"] = held["audio"]]
        BY <1>3 DEF AudioPlay
  <2>2. held'[t] = held[t] \/ held'[t] = NoFrame
        BY <2>1 DEF TypeOK, FrameTypes
  <2>3. shown'[t] = shown[t] \/ (t = "audio" /\ shown'[t] = held[t])
        BY <2>1 DEF TypeOK, FrameTypes
  <2>4. CASE shown'[t] = shown[t]
        BY <1>0, <1>1, <2>1, <2>2, <2>4, Undisturbed
  <2>5. CASE t = "audio" /\ shown'[t] = held[t]
    <3>1. /\ PktOrd(t)' /\ CodecOrd(t)' /\ FrmOrd(t)' /\ UnreadOrd(t)'
          /\ BelowUnread(t) \subseteq BelowUnread(t)'
          BY <1>0, <1>1, <2>1, Downstream
    <3>2. HeldOrd(t)' /\ BelowHeld(t) \subseteq BelowHeld(t)'
          BY <2>2, <3>1, HeldStays DEF OrderOf
    <3>3. Place(held[t]) \in BelowUnread(t)'
          BY <2>1, <2>5, <3>1 DEF OrderOf, HeldOrd
    <3>4. held'[t] = NoFrame
          BY <2>1, <2>5 DEF TypeOK, FrameTypes
    <3>5. ShownOrd(t)'
          BY <2>5, <3>3, <3>4 DEF ShownOrd, BelowHeld, Place, NoFrame
    <3> QED
        BY <1>1, <3>1, <3>2, <3>5 DEF OrderOf
  <2> QED
      BY <2>3, <2>4, <2>5
<1> QED
    BY <1>2, <1>3 DEF sdl_audio_callback

\* A picture that is shown was the first unread one.
LEMMA ShowOrder ==
    ASSUME TypeOK, TypeOK', EventInv, NEW t \in Streams, OrderOf(t), VideoShow
    PROVE  OrderOf(t)'
<1>0. /\ UNCHANGED <<rpc, todo, pos, queueVars, decoderVars>>
      /\ UNCHANGED <<pkts, serial, dpc, pkt, frm, codec, held>>
      BY DEF VideoShow, readVars, queueVars, decoderVars
<1>1. /\ "video" \in Streams /\ unread["video"] # <<>>
      /\ frame_queue_next("video")
      /\ \/ shown' = shown
         \/ shown' = [shown EXCEPT !["video"] = Head(unread["video"])]
      BY DEF VideoShow, EventInv, Picture
<1>2. /\ OnlyAt(unread', unread, "video")
      /\ TailOf(unread'["video"], unread["video"])
      /\ Head(unread["video"]) = unread["video"][1]
      BY <1>1, NextElements
<1>3. PktsOrd(t)' /\ BelowPkts(t) \subseteq BelowPkts(t)'
      BY <1>0, QueueSame DEF OrderOf
<1>4. unread'[t] = unread[t] \/ TailOf(unread'[t], unread[t])
      BY <1>2 DEF OnlyAt
<1>5. shown'[t] = shown[t] \/ (t = "video" /\ shown'[t] = unread[t][1])
      BY <1>1, <1>2 DEF TypeOK, FrameTypes
<1>6. CASE shown'[t] = shown[t]
      BY <1>0, <1>3, <1>4, <1>6, Undisturbed
<1>7. CASE t = "video" /\ shown'[t] = unread[t][1]
  <2>1. /\ PktsOrd(t)' /\ PktOrd(t)' /\ CodecOrd(t)' /\ FrmOrd(t)'
        /\ UnreadOrd(t)' /\ BelowUnread(t) \subseteq BelowUnread(t)'
        /\ Place(unread[t][1]) \in BelowUnread(t)'
        BY <1>0, <1>1, <1>7, NextOrder
  <2>2. HeldOrd(t)' /\ BelowHeld(t) \subseteq BelowHeld(t)'
        BY <1>0, <2>1, HeldStays DEF OrderOf
  <2>3. held'[t] = NoFrame
        BY <1>0, <1>7 DEF OrderOf, HeldOrd
  <2>4. ShownOrd(t)'
        BY <1>7, <2>1, <2>3 DEF ShownOrd, BelowHeld, Place, NoFrame
  <2> QED
      BY <2>1, <2>2, <2>4 DEF OrderOf
<1> QED
    BY <1>5, <1>6, <1>7

\* The event thread's other steps take or discard, or touch nothing.
LEMMA EventOrder ==
    ASSUME TypeOK, TypeOK', EventInv, PhaseInv, NEW t \in Streams, OrderOf(t),
           event_loop \/ stream_seek \/ UserStop \/ UNCHANGED vars
    PROVE  OrderOf(t)'
<1>1. CASE VideoShow
      BY <1>1, ShowOrder
<1>2. CASE RefreshStale
  <2>1. /\ "video" \in Streams /\ unread["video"] # <<>>
        /\ frame_queue_next("video")
        /\ UNCHANGED <<rpc, todo, pos, pkts, serial, dpc, pkt, frm, codec, held,
                       shown>>
        BY <1>2 DEF RefreshStale, StalePicture, Picture, readVars, queueVars,
           decoderVars
  <2>2. unread'[t] = unread[t] \/ TailOf(unread'[t], unread[t])
        BY <2>1, NextElements DEF OnlyAt
  <2>3. PktsOrd(t)' /\ BelowPkts(t) \subseteq BelowPkts(t)'
        BY <2>1, QueueSame DEF OrderOf
  <2> QED
      BY <2>1, <2>2, <2>3, Undisturbed
<1>3. CASE JoinDecoder
  <2>1. /\ UNCHANGED <<rpc, todo, pos, serial, dpc, pkt, frm, codec, held, shown>>
        /\ pkts' = [pkts EXCEPT ![Closed1st] = <<>>]
        /\ unread' = unread \/ unread' = All(<<>>)
        BY <1>3 DEF JoinDecoder, packet_queue_flush, readVars, decoderVars
  <2>2. unread'[t] = unread[t] \/ unread'[t] = <<>>
        BY <2>1 DEF All
  <2>3. pkts'[t] = pkts[t] \/ pkts'[t] = <<>>
        BY <2>1 DEF TypeOK, QueueTypes
  <2>4. pos' = pos /\ pos \in Int /\ InSeek(t)' = InSeek(t)
    <3>1. pos \in Int
          BY QueueFacts
    <3> QED
        BY <2>1, <3>1 DEF InSeek
  <2>5. PktsOrd(t)' /\ BelowPkts(t) \subseteq BelowPkts(t)'
        BY <2>1, <2>3, <2>4, QueueStays DEF OrderOf
  <2> QED
      BY <2>1, <2>2, <2>5, Undisturbed
<1>4. CASE \/ RefreshIdle \/ RefreshDue \/ CheckEnd \/ BeginClose
           \/ JoinReadThread \/ AbortDecoder \/ stream_seek \/ UserStop
           \/ UNCHANGED vars
  <2>1. UNCHANGED <<rpc, todo, pos, pkts, serial, dpc, pkt, frm, codec, unread,
                    held, shown>>
        BY <1>4 DEF RefreshIdle, RefreshDue, CheckEnd, BeginClose,
           JoinReadThread, AbortDecoder, packet_queue_abort, stream_seek,
           UserStop, vars, readVars, queueVars, decoderVars, frameVars
  <2>2. PktsOrd(t)' /\ BelowPkts(t) \subseteq BelowPkts(t)'
        BY <2>1, QueueSame DEF OrderOf
  <2> QED
      BY <2>1, <2>2, Undisturbed
<1> QED
    BY <1>1, <1>2, <1>3, <1>4 DEF event_loop

-----------------------------------------------------------------------------
(* The theorems.                                                           *)

\* At first nothing is on its way.
LEMMA InitOrder == Init => OrderInv
<1> SUFFICES ASSUME Init, NEW t \in Streams PROVE OrderOf(t)
    BY OrderParts
<1>1. /\ pkts[t] = <<>> /\ codec[t] = <<>> /\ unread[t] = <<>>
      /\ dpc[t] = "off" /\ held[t] = NoFrame /\ shown[t] = NoFrame
      BY DEF Init, All
<1> QED
    BY <1>1 DEF OrderOf, PktsOrd, PktOrd, CodecOrd, FrmOrd, UnreadOrd, HeldOrd,
       ShownOrd

\* Every step keeps the order.
LEMMA OrderStep == IInv /\ IInv' /\ OrderInv /\ [Next]_vars => OrderInv'
<1> SUFFICES ASSUME IInv, IInv', OrderInv, [Next]_vars PROVE OrderInv'
    OBVIOUS
<1>1. TypeOK /\ TypeOK' /\ EventInv /\ PhaseInv /\ SerialInv
      BY DEF IInv, SerialInv
<1>2. ASSUME NEW t \in Streams PROVE OrderOf(t)'
  <2>1. OrderOf(t) /\ SerialOf(t)
        BY <1>1, OrderParts, SerialParts
  <2> QED
      BY <1>1, <2>1, ReadOrder, DecoderOrder, CallbackOrder, EventOrder DEF Next
<1> QED
    BY <1>2 DEF OrderInv, OrderOf, PktsOrd, PktOrd, CodecOrd, FrmOrd, UnreadOrd,
       HeldOrd, ShownOrd

\* What is on its way from the file to the screen is in order, whatever is
\* seeked, stopped or fails.
THEOREM OrderHolds == Spec => []OrderInv
<1>1. IInv /\ OrderInv /\ [Next]_vars /\ IInv' => OrderInv'
      BY OrderStep
<1> QED
    BY MediaPipeInv, InitOrder, <1>1, PTL DEF Spec

\* What is shown of stream t next is later than what was shown last.
Ahead(t) ==
    shown'[t] # shown[t] =>
        \/ shown'[t].serial > shown[t].serial
        \/ shown'[t].serial = shown[t].serial /\ shown'[t].at > shown[t].at

\* A frame later than the one shown last, or the first of all, is an advance.
LEMMA ShowsLater ==
    ASSUME TypeOK, NEW t \in Streams, NEW f \in Frame, shown'[t] = f,
           Since(t, f.serial, f.at),
           shown[t] # NoFrame => Earlier(Place(shown[t]), Place(f))
    PROVE  Ahead(t)
<1>1. /\ shown[t].serial \in Int /\ shown[t].at \in Int
      /\ f.serial \in Int /\ f.at \in Int
  <2>1. shown[t] \in Frame
        BY DEF TypeOK, FrameTypes
  <2>2. \A g \in Frame : g.serial \in Int /\ g.at \in Int
        BY DEF Frame
  <2> QED
      BY <2>1, <2>2
<1>2. CASE shown[t] = NoFrame
  <2>1. f.serial >= 1 /\ shown[t].serial = 0
        BY <1>2 DEF Since, NoFrame
  <2> QED
      BY <1>1, <2>1 DEF Ahead
<1>3. CASE shown[t] # NoFrame
      BY <1>1, <1>3 DEF Place, Earlier, Ahead
<1> QED
    BY <1>2, <1>3

\* What is presented of a stream is never older than what was presented before
\* it, unless a seek came between.
THEOREM PresentationAdvances == Spec => ShownAdvances
<1>1. ASSUME IInv, OrderInv, [Next]_vars, NEW t \in Streams PROVE Ahead(t)
  <2>1. TypeOK /\ EventInv /\ PlaceInv /\ OrderOf(t)
        BY <1>1, OrderParts DEF IInv
  <2>2. CASE AudioPlay
    <3>1. /\ held["audio"] # NoFrame
          /\ \/ shown' = shown
             \/ shown' = [shown EXCEPT !["audio"] = held["audio"]]
          BY <2>2 DEF AudioPlay
    <3>2. CASE shown'[t] = shown[t]
          BY <3>2 DEF Ahead
    <3>3. CASE t = "audio" /\ shown'[t] = held[t]
      <4>1. held[t] \in Frame /\ Since(t, held[t].serial, held[t].at)
            BY <2>1, <3>1, <3>3 DEF TypeOK, FrameTypes, PlaceInv
      <4>2. shown[t] # NoFrame => Earlier(Place(shown[t]), Place(held[t]))
            BY <2>1, <3>1, <3>3 DEF OrderOf, ShownOrd, BelowHeld
      <4> QED
          BY <2>1, <3>3, <4>1, <4>2, ShowsLater
    <3> QED
        BY <2>1, <3>1, <3>2, <3>3 DEF TypeOK, FrameTypes
  <2>3. CASE VideoShow
    <3>1. /\ "video" \in Streams /\ unread["video"] # <<>>
          /\ \/ shown' = shown
             \/ shown' = [shown EXCEPT !["video"] = Head(unread["video"])]
          BY <2>1, <2>3 DEF VideoShow, EventInv, Picture
    <3>2. /\ unread["video"] \in Seq(Frame)
          /\ Head(unread["video"]) = unread["video"][1]
          /\ 1 \in 1 .. Len(unread["video"])
      <4>1. unread["video"] \in Seq(Frame)
            BY <2>1, <3>1 DEF TypeOK, FrameTypes
      <4> QED
          BY <3>1, <4>1
    <3>3. CASE shown'[t] = shown[t]
          BY <3>3 DEF Ahead
    <3>4. CASE t = "video" /\ shown'[t] = unread[t][1]
      <4>1. unread[t][1] \in Frame
            BY <3>2, <3>4
      <4>2. Since(t, unread[t][1].serial, unread[t][1].at)
            BY <2>1, <3>2, <3>4 DEF PlaceInv
      <4>3. shown[t] # NoFrame => Earlier(Place(shown[t]), Place(unread[t][1]))
            BY <2>1, <3>2, <3>4 DEF OrderOf, ShownOrd, BelowHeld, BelowUnread
      <4> QED
          BY <2>1, <3>4, <4>1, <4>2, <4>3, ShowsLater
    <3> QED
        BY <2>1, <3>1, <3>2, <3>3, <3>4 DEF TypeOK, FrameTypes
  <2>4. CASE ~AudioPlay /\ ~VideoShow
    <3>1. read_thread => shown' = shown
          BY DEF read_thread, Open, SeekFlush, PutNull, OpenFails, LoopTop,
             SeekPutFlush, SeekDone, ClearEof, ReadFrame, SetEof, frameVars
    <3>2. \A s \in Streams : decoder_thread(s) => shown' = shown
          BY DEF decoder_thread, Decode, packet_queue_get, UsePacket, QueueFrame,
             DropEarly, frameVars
    <3>3. sdl_audio_callback => shown' = shown
          BY <2>4 DEF sdl_audio_callback, AudioTake
    <3>4. event_loop => shown' = shown
          BY <2>4 DEF event_loop, RefreshIdle, RefreshStale, RefreshDue,
             CheckEnd, BeginClose, JoinReadThread, AbortDecoder, JoinDecoder,
             frameVars
    <3>5. stream_seek \/ UserStop \/ UNCHANGED vars => shown' = shown
          BY DEF stream_seek, UserStop, vars, frameVars
    <3> QED
        BY <1>1, <3>1, <3>2, <3>3, <3>4, <3>5 DEF Next, Ahead
  <2> QED
      BY <2>2, <2>3, <2>4
<1>2. IInv /\ OrderInv /\ [Next]_vars =>
         [\A s \in Streams : shown'[s] # shown[s] =>
             \/ shown'[s].serial > shown[s].serial
             \/ shown'[s].serial = shown[s].serial /\ shown'[s].at > shown[s].at
         ]_vars
      BY <1>1 DEF Ahead
<1> QED
    BY MediaPipeInv, OrderHolds, <1>2, PTL DEF Spec, ShownAdvances
=============================================================================
