-------------------------- MODULE FrameQueueProofs --------------------------
(***************************************************************************)
(* The frame queue is safe for every size, every kind of reader and every  *)
(* set of frames, and implements the abstract queue: windex and rindex,    *)
(* which no lock protects, neither lose nor double nor reorder a frame.    *)
(***************************************************************************)
EXTENDS FrameQueue, SequenceTheorems, TLAPS

USE FrameAssumption, FlagAssumption, SizeAssumption
    DEF FrameAssumption, FlagAssumption, SizeAssumption

\* The only modulus in the ring is applied to an index at most one turn ahead.
LEMMA WrapOnce ==
    ASSUME NEW i \in 0 .. 2 * max_size - 1
    PROVE  i % max_size = IF i < max_size THEN i ELSE i - max_size
<1>1. CASE i < max_size
  BY <1>1
<1>2. CASE i >= max_size
  <2>1. i - max_size \in 0 .. max_size - 1
    BY <1>2
  <2>2. i % max_size = (i - max_size) % max_size
    BY <1>2
  <2>3. QED BY <2>1, <2>2, <1>2
<1>3. QED BY <1>1, <1>2

\* frame_queue_peek points into the ring.
LEMMA PeekIsSlot ==
    ASSUME TypeOK
    PROVE  frame_queue_peek \in Slots
BY WrapOnce DEF TypeOK, frame_queue_peek, Slots

\* A signal only ever removes a waiter.
LEMMA SignalShrinks ==
    ASSUME CondSignal
    PROVE  waiters' \subseteq waiters
BY DEF CondSignal

\* The ring as frame_queue_init leaves it satisfies the inductive invariant.
THEOREM FrameQueueInit == Init => IInv
<1> SUFFICES ASSUME Init PROVE IInv
  OBVIOUS
<1> USE DEF Init, Slots, InUse, frame_queue_nb_remaining
<1>1. TypeOK
  BY DEF TypeOK
<1>2. IndexInv
  BY DEF IndexInv
<1>3. ContentInv
  BY DEF ContentInv, Holds
<1>4. WaitInv
  BY DEF WaitInv
<1>5. QED BY <1>1, <1>2, <1>3, <1>4 DEF IInv

\* Every step of the decoder, the reader and the closing thread keeps it.
THEOREM FrameQueueStep == IInv /\ [Next]_vars => IInv'
<1> SUFFICES ASSUME IInv, [Next]_vars PROVE IInv'
  OBVIOUS
<1> USE DEF IInv, Slots, InUse, frame_queue_nb_remaining
<1>1. CASE PeekWritable
  <2>1. TypeOK'
    BY <1>1 DEF PeekWritable, TypeOK, IndexInv, CondWait
  <2>2. IndexInv'
    <3>1. frame_queue_peek' = frame_queue_peek
      BY <1>1 DEF PeekWritable, frame_queue_peek
    <3>2. QED BY <1>1, <3>1 DEF PeekWritable, TypeOK, IndexInv, WaitInv
  <2>3. ContentInv'
    BY <1>1 DEF PeekWritable, TypeOK, IndexInv, ContentInv, Holds, WaitInv
  <2>4. WaitInv'
    <3>1. ("decoder" \in waiters => dpc = "idle" /\ size >= max_size)'
      BY <1>1 DEF PeekWritable, TypeOK, IndexInv, WaitInv, CondWait
    <3>2. ("reader" \in waiters =>
              /\ reader = "callback" /\ rpc = "idle"
              /\ frame_queue_nb_remaining <= 0)'
      BY <1>1 DEF PeekWritable, TypeOK, IndexInv, WaitInv, CondWait
    <3>3. (kpc \in {"join", "destroyed"} => waiters = {})'
      <4>1. CASE abort_request = 0
        BY <1>1, <4>1 DEF PeekWritable, TypeOK, WaitInv
      <4>2. CASE abort_request = 1
        BY <1>1, <4>2 DEF PeekWritable, WaitInv
      <4>3. QED BY <4>1, <4>2 DEF TypeOK
    <3>4. QED BY <1>1, <3>1, <3>2, <3>3 DEF PeekWritable, TypeOK, WaitInv
  <2>5. QED BY <2>1, <2>2, <2>3, <2>4
<1>2. CASE BeginFill
  <2>1. TypeOK'
    BY <1>2 DEF BeginFill, TypeOK, IndexInv, CondWait
  <2>2. IndexInv'
    <3>1. frame_queue_peek' = frame_queue_peek
      BY <1>2 DEF BeginFill, frame_queue_peek
    <3>2. QED BY <1>2, <3>1 DEF BeginFill, TypeOK, IndexInv, WaitInv
  <2>3. ContentInv'
    BY <1>2 DEF BeginFill, TypeOK, IndexInv, ContentInv, Holds, WaitInv
  <2>4. WaitInv'
    BY <1>2 DEF BeginFill, TypeOK, IndexInv, WaitInv, CondWait
  <2>5. QED BY <2>1, <2>2, <2>3, <2>4
<1>3. CASE EndFill
  <2>1. TypeOK'
    BY <1>3 DEF EndFill, TypeOK, IndexInv, CondWait
  <2>2. IndexInv'
    <3>1. frame_queue_peek' = frame_queue_peek
      BY <1>3 DEF EndFill, frame_queue_peek
    <3>2. QED BY <1>3, <3>1 DEF EndFill, TypeOK, IndexInv, WaitInv
  <2>3. ContentInv'
    BY <1>3 DEF EndFill, TypeOK, IndexInv, ContentInv, Holds, WaitInv
  <2>4. WaitInv'
    BY <1>3 DEF EndFill, TypeOK, IndexInv, WaitInv, CondWait
  <2>5. QED BY <2>1, <2>2, <2>3, <2>4
<1>4. CASE Push
  <2>1. TypeOK'
    <3>1. waiters' \subseteq waiters
      BY <1>4, SignalShrinks DEF Push
    <3>2. size' \in 0 .. max_size
      BY <1>4 DEF Push, TypeOK, IndexInv
    <3>3. QED BY <1>4, <3>1, <3>2 DEF Push, TypeOK
  <2>2. IndexInv'
    <3>1. frame_queue_peek' = frame_queue_peek
      BY <1>4 DEF Push, frame_queue_peek
    <3>2. QED BY <1>4, <3>1 DEF Push, TypeOK, IndexInv, WaitInv
  <2>3. ContentInv'
    BY <1>4 DEF Push, TypeOK, IndexInv, ContentInv, Holds, WaitInv
  <2>4. WaitInv'
    BY <1>4, SignalShrinks DEF Push, TypeOK, IndexInv, WaitInv,
       CondWait, CondSignal
  <2>5. QED BY <2>1, <2>2, <2>3, <2>4
<1>5. CASE Poll
  <2>1. TypeOK'
    BY <1>5, PeekIsSlot DEF Poll, TypeOK
  <2>2. IndexInv'
    <3>1. frame_queue_peek \in Slots
      BY PeekIsSlot
    <3>2. frame_queue_nb_remaining >= 1
      BY <1>5 DEF Poll, TypeOK, IndexInv
    <3>3. frame_queue_peek' = frame_queue_peek
      BY <1>5 DEF Poll, frame_queue_peek
    <3>4. QED BY <1>5, <3>1, <3>2, <3>3 DEF Poll, TypeOK, IndexInv
  <2>3. ContentInv'
    BY <1>5 DEF Poll, TypeOK, IndexInv, ContentInv, Holds, WaitInv
  <2>4. WaitInv'
    <3>1. ("decoder" \in waiters => dpc = "idle" /\ size >= max_size)'
      BY <1>5 DEF Poll, TypeOK, IndexInv, WaitInv
    <3>2. ("reader" \in waiters =>
              /\ reader = "callback" /\ rpc = "idle"
              /\ frame_queue_nb_remaining <= 0)'
      BY <1>5 DEF Poll, TypeOK, IndexInv, WaitInv
    <3>3. (kpc \in {"join", "destroyed"} => waiters = {})'
      BY <1>5 DEF Poll, TypeOK, IndexInv, WaitInv
    <3>4. QED BY <1>5, <3>1, <3>2, <3>3 DEF Poll, TypeOK, WaitInv
  <2>5. QED BY <2>1, <2>2, <2>3, <2>4
<1>6. CASE PeekReadable
  <2>1. TypeOK'
    BY <1>6 DEF PeekReadable, TypeOK, IndexInv, CondWait
  <2>2. IndexInv'
    <3>1. frame_queue_peek' = frame_queue_peek
      BY <1>6 DEF PeekReadable, frame_queue_peek
    <3>2. QED BY <1>6, <3>1 DEF PeekReadable, TypeOK, IndexInv, WaitInv
  <2>3. ContentInv'
    BY <1>6 DEF PeekReadable, TypeOK, IndexInv, ContentInv, Holds, WaitInv
  <2>4. WaitInv'
    <3>1. ("decoder" \in waiters => dpc = "idle" /\ size >= max_size)'
      BY <1>6 DEF PeekReadable, TypeOK, IndexInv, WaitInv, CondWait
    <3>2. ("reader" \in waiters =>
              /\ reader = "callback" /\ rpc = "idle"
              /\ frame_queue_nb_remaining <= 0)'
      BY <1>6 DEF PeekReadable, TypeOK, IndexInv, WaitInv, CondWait
    <3>3. (kpc \in {"join", "destroyed"} => waiters = {})'
      <4>1. CASE abort_request = 0
        BY <1>6, <4>1 DEF PeekReadable, TypeOK, WaitInv
      <4>2. CASE abort_request = 1
        BY <1>6, <4>2 DEF PeekReadable, WaitInv
      <4>3. QED BY <4>1, <4>2 DEF TypeOK
    <3>4. QED BY <1>6, <3>1, <3>2, <3>3 DEF PeekReadable, TypeOK, WaitInv
  <2>5. QED BY <2>1, <2>2, <2>3, <2>4
<1>7. CASE BeginRead
  <2>1. TypeOK'
    BY <1>7, PeekIsSlot DEF BeginRead, TypeOK
  <2>2. IndexInv'
    <3>1. frame_queue_peek' = frame_queue_peek
      BY <1>7 DEF BeginRead, frame_queue_peek
    <3>2. QED BY <1>7, <3>1 DEF BeginRead, TypeOK, IndexInv, WaitInv
  <2>3. ContentInv'
    BY <1>7 DEF BeginRead, TypeOK, IndexInv, ContentInv, Holds, WaitInv
  <2>4. WaitInv'
    BY <1>7 DEF BeginRead, TypeOK, IndexInv, WaitInv, CondWait
  <2>5. QED BY <2>1, <2>2, <2>3, <2>4
<1>8. CASE Next_Unlocked
  <2>1. TypeOK'
    BY <1>8 DEF Next_Unlocked, TypeOK, IndexInv, CondWait
  <2>2. IndexInv'
    <3>1. CASE rpc' = "idle" /\ rindex_shown' = 1
      BY <1>8, <3>1 DEF Next_Unlocked, TypeOK, IndexInv
    <3>2. CASE rpc' = "pop" /\ rindex + 1 = max_size
      BY <1>8, <3>2 DEF Next_Unlocked, TypeOK, IndexInv
    <3>3. CASE rpc' = "pop" /\ rindex + 1 # max_size
      BY <1>8, <3>3 DEF Next_Unlocked, TypeOK, IndexInv
    <3>4. QED BY <1>8, <3>1, <3>2, <3>3 DEF Next_Unlocked
  <2>3. ContentInv'
    <3>1. CASE rpc' = "idle" /\ rindex_shown' = 1
      BY <1>8, <3>1 DEF Next_Unlocked, TypeOK, IndexInv, ContentInv, Holds, WaitInv
    <3>2. CASE rpc' = "pop" /\ rindex + 1 = max_size
      BY <1>8, <3>2 DEF Next_Unlocked, TypeOK, IndexInv, ContentInv, Holds, WaitInv
    <3>3. CASE rpc' = "pop" /\ rindex + 1 # max_size
      BY <1>8, <3>3 DEF Next_Unlocked, TypeOK, IndexInv, ContentInv, Holds, WaitInv
    <3>4. QED BY <1>8, <3>1, <3>2, <3>3 DEF Next_Unlocked
  <2>4. WaitInv'
    BY <1>8 DEF Next_Unlocked, TypeOK, IndexInv, WaitInv, CondWait
  <2>5. QED BY <2>1, <2>2, <2>3, <2>4
<1>9. CASE Pop
  <2>1. TypeOK'
    <3>1. waiters' \subseteq waiters
      BY <1>9, SignalShrinks DEF Pop
    <3>2. size' \in 0 .. max_size
      BY <1>9 DEF Pop, TypeOK, IndexInv
    <3>3. QED BY <1>9, <3>1, <3>2 DEF Pop, TypeOK
  <2>2. IndexInv'
    <3>1. frame_queue_peek' = frame_queue_peek
      BY <1>9 DEF Pop, frame_queue_peek
    <3>2. QED BY <1>9, <3>1 DEF Pop, TypeOK, IndexInv, WaitInv
  <2>3. ContentInv'
    BY <1>9 DEF Pop, TypeOK, IndexInv, ContentInv, Holds, WaitInv
  <2>4. WaitInv'
    BY <1>9, SignalShrinks DEF Pop, TypeOK, IndexInv, WaitInv,
       CondWait, CondSignal
  <2>5. QED BY <2>1, <2>2, <2>3, <2>4
<1>10. CASE Abort
  <2>1. TypeOK'
    BY <1>10 DEF Abort, TypeOK, IndexInv, CondWait
  <2>2. IndexInv'
    <3>1. frame_queue_peek' = frame_queue_peek
      BY <1>10 DEF Abort, frame_queue_peek
    <3>2. QED BY <1>10, <3>1 DEF Abort, TypeOK, IndexInv, WaitInv
  <2>3. ContentInv'
    BY <1>10 DEF Abort, TypeOK, IndexInv, ContentInv, Holds, WaitInv
  <2>4. WaitInv'
    <3>1. ("decoder" \in waiters => dpc = "idle" /\ size >= max_size)'
      BY <1>10 DEF Abort, TypeOK, IndexInv, WaitInv
    <3>2. ("reader" \in waiters =>
              /\ reader = "callback" /\ rpc = "idle"
              /\ frame_queue_nb_remaining <= 0)'
      BY <1>10 DEF Abort, TypeOK, IndexInv, WaitInv
    <3>3. (kpc \in {"join", "destroyed"} => waiters = {})'
      BY <1>10 DEF Abort, TypeOK, IndexInv, WaitInv
    <3>4. QED BY <1>10, <3>1, <3>2, <3>3 DEF Abort, TypeOK, WaitInv
  <2>5. QED BY <2>1, <2>2, <2>3, <2>4
<1>11. CASE frame_queue_signal
  <2>1. TypeOK'
    BY <1>11, SignalShrinks DEF frame_queue_signal, TypeOK, IndexInv, CondWait
  <2>2. IndexInv'
    <3>1. frame_queue_peek' = frame_queue_peek
      BY <1>11 DEF frame_queue_signal, frame_queue_peek
    <3>2. QED BY <1>11, <3>1 DEF frame_queue_signal, TypeOK, IndexInv, WaitInv
  <2>3. ContentInv'
    BY <1>11 DEF frame_queue_signal, TypeOK, IndexInv, ContentInv, Holds, WaitInv
  <2>4. WaitInv'
    <3>1. ~("decoder" \in waiters /\ "reader" \in waiters)
      BY DEF TypeOK, WaitInv, IndexInv
    <3>2. waiters' \subseteq waiters
      BY <1>11, SignalShrinks DEF frame_queue_signal
    <3>3. waiters' = {}
      BY <1>11, <3>1 DEF frame_queue_signal, CondSignal, TypeOK
    <3>4. QED BY <1>11, <3>3 DEF frame_queue_signal, WaitInv
  <2>5. QED BY <2>1, <2>2, <2>3, <2>4
<1>12. CASE frame_queue_destory
  <2>1. TypeOK'
    BY <1>12 DEF frame_queue_destory, TypeOK, IndexInv, CondWait
  <2>2. IndexInv'
    <3>1. frame_queue_peek' = frame_queue_peek
      BY <1>12 DEF frame_queue_destory, frame_queue_peek
    <3>2. QED BY <1>12, <3>1 DEF frame_queue_destory, TypeOK, IndexInv, WaitInv
  <2>3. ContentInv'
    BY <1>12 DEF frame_queue_destory, TypeOK, IndexInv, ContentInv, Holds, WaitInv
  <2>4. WaitInv'
    BY <1>12 DEF frame_queue_destory, TypeOK, IndexInv, WaitInv, CondWait
  <2>5. QED BY <2>1, <2>2, <2>3, <2>4
<1>13. CASE UNCHANGED vars
  BY <1>13 DEF vars, frame_queue_peek, TypeOK, IndexInv, ContentInv, Holds, WaitInv
<1>14. QED
  BY <1>1, <1>2, <1>3, <1>4, <1>5, <1>6, <1>7, <1>8, <1>9, <1>10, <1>11, <1>12, <1>13 DEF Next, Decoder, Reader, Closer

\* The indices kept outside the mutex and the size kept inside it always
\* describe the same window of whole frames.
THEOREM FrameQueueInv == Spec => []IInv
<1>1. Init => IInv
  BY FrameQueueInit
<1>2. IInv /\ [Next]_vars => IInv'
  BY FrameQueueStep
<1>3. QED BY <1>1, <1>2, PTL DEF Spec

\* frame_queue_peek never yields a slot the decoder is writing or the reader
\* has released.
THEOREM SlotsSafe == Spec => []NoTornRead
<1>1. IInv => NoTornRead
  <2> SUFFICES ASSUME IInv, rpc = "read" PROVE queue[rslot] \in Frames
    BY DEF NoTornRead
  <2>1. /\ rindex + rindex_shown \in 0 .. 2 * max_size - 1
        /\ frame_queue_nb_remaining >= 1
        /\ rslot = frame_queue_peek
    BY DEF IInv, TypeOK, IndexInv, Slots
  <2>2. Holds(rslot)
    <3> DEFINE i == rindex + rindex_shown
    <3>1. rslot = IF i < max_size THEN i ELSE i - max_size
      <4>1. i \in 0 .. 2 * max_size - 1
        BY <2>1
      <4> HIDE DEF i
      <4>2. i % max_size = IF i < max_size THEN i ELSE i - max_size
        BY <4>1, WrapOnce
      <4>3. rslot = i % max_size
        BY <2>1 DEF frame_queue_peek, i
      <4>4. QED BY <4>2, <4>3
    <3>2. InUse >= rindex_shown + 1 /\ InUse \in Nat
      BY <2>1 DEF IInv, TypeOK, IndexInv, InUse, frame_queue_nb_remaining
    <3>3. QED
      BY <3>1, <3>2 DEF IInv, TypeOK, Slots, Holds
  <2>3. kpc # "destroyed"
    BY DEF IInv, WaitInv
  <2>4. QED BY <2>2, <2>3 DEF IInv, TypeOK, ContentInv
<1>2. QED BY <1>1, FrameQueueInv, PTL

\* Nor does frame_queue_peek_last: the frame shown last stays whole until the
\* next one replaces it.
THEOREM ShownFrameSafe == Spec => []ShownIntact
<1>1. IInv => ShownIntact
  <2> SUFFICES ASSUME IInv, rindex_shown = 1, kpc # "destroyed"
               PROVE  queue[rindex] \in Frames
    BY DEF ShownIntact
  <2>1. InUse >= 1
    BY DEF IInv, TypeOK, IndexInv, InUse, frame_queue_nb_remaining
  <2>2. Holds(rindex)
    BY <2>1 DEF IInv, TypeOK, IndexInv, Slots, Holds, InUse
  <2>3. QED BY <2>2 DEF IInv, TypeOK, ContentInv
<1>2. QED BY <1>1, FrameQueueInv, PTL

\* When decoder_abort joins the decoder, nobody sleeps on the condition
\* variable any more.
THEOREM AbortIsHeard == Spec => []AbortWakesAll
<1>1. IInv => AbortWakesAll
  BY DEF IInv, WaitInv, AbortWakesAll
<1>2. QED BY <1>1, FrameQueueInv, PTL

-----------------------------------------------------------------------------
(* The ring implements FrameFifo.                                           *)

\* The slot of the i-th frame not shown yet.
UnreadSlot(i) ==
    IF rindex + rindex_shown + i - 1 < max_size
    THEN rindex + rindex_shown + i - 1
    ELSE rindex + rindex_shown + i - 1 - max_size

\* It is where the modulus of frame_queue_peek points, and in use.
LEMMA SlotWraps ==
    ASSUME IInv, NEW i \in 1 .. InUse - rindex_shown
    PROVE  /\ (rindex + rindex_shown + i - 1) % max_size = UnreadSlot(i)
           /\ UnreadSlot(i) \in Slots
           /\ Holds(UnreadSlot(i))
<1>1. /\ rindex \in 0 .. max_size - 1 /\ InUse \in 0 .. max_size
      /\ rindex_shown \in {0, 1}
  BY DEF IInv, TypeOK, IndexInv, Slots
<1>2. PICK n \in 0 .. 2 * max_size - 1 : n = rindex + rindex_shown + i - 1
  BY <1>1
<1>3. n < rindex + InUse /\ n >= rindex
  BY <1>1, <1>2
<1>4. UnreadSlot(i) = IF n < max_size THEN n ELSE n - max_size
  BY <1>1, <1>2 DEF UnreadSlot
<1>5. n % max_size = IF n < max_size THEN n ELSE n - max_size
  BY WrapOnce
<1>6. UnreadSlot(i) \in Slots
  BY <1>4 DEF Slots
<1>7. Holds(UnreadSlot(i))
  BY <1>1, <1>3, <1>4 DEF Holds
<1>8. QED BY <1>2, <1>4, <1>5, <1>6, <1>7

\* Of a state of the ring before it is destroyed: the frames that wait are
\* whole and as many as the indices say; the frame kept is the one at rindex.
WindowIs ==
    /\ InUse - rindex_shown \in Nat
    /\ unreadFrames \in Seq(Frames)
    /\ Len(unreadFrames) = InUse - rindex_shown
    /\ \A i \in 1 .. InUse - rindex_shown :
          /\ unreadFrames[i] = queue[UnreadSlot(i)]
          /\ UnreadSlot(i) \in Slots /\ Holds(UnreadSlot(i))
    /\ lastFrame = IF rindex_shown = 1 THEN <<queue[rindex]>> ELSE <<>>
    /\ Len(lastFrame) = rindex_shown
    /\ rindex_shown = 1 => rindex \in Slots /\ Holds(rindex)

LEMMA Window == IInv /\ kpc # "destroyed" => WindowIs
<1> SUFFICES ASSUME IInv, kpc # "destroyed" PROVE WindowIs
  OBVIOUS
<1>1. /\ InUse - rindex_shown \in Nat /\ rindex_shown \in {0, 1}
      /\ rindex \in Slots /\ InUse \in Nat
  BY DEF IInv, TypeOK, IndexInv, InUse, frame_queue_nb_remaining
<1>2. ASSUME NEW i \in 1 .. InUse - rindex_shown
      PROVE  queue[UnreadSlot(i)] \in Frames
  BY <1>2, SlotWraps DEF IInv, ContentInv
<1>3. unreadFrames = [i \in 1 .. InUse - rindex_shown |-> queue[UnreadSlot(i)]]
  BY SlotWraps DEF unreadFrames
<1>4. /\ lastFrame = IF rindex_shown = 1 THEN <<queue[rindex]>> ELSE <<>>
      /\ Len(lastFrame) = rindex_shown
  BY <1>1 DEF lastFrame
<1>5. rindex_shown = 1 => Holds(rindex)
  BY <1>1 DEF Holds, Slots
<1>6. QED BY <1>1, <1>2, <1>3, <1>4, <1>5, SlotWraps DEF WindowIs

\* ... and of the state after a step.
LEMMA WindowAfter == IInv' /\ (kpc # "destroyed")' => WindowIs'
  BY Window, PTL

\* Steps that move neither index and leave the slots in use alone are
\* invisible.
LEMMA SameWindow ==
    ASSUME IInv, IInv', kpc # "destroyed", kpc' # "destroyed",
           rindex' = rindex, rindex_shown' = rindex_shown, InUse' = InUse,
           \A s \in Slots : Holds(s) => queue'[s] = queue[s]
    PROVE  UNCHANGED <<unreadFrames, lastFrame, (kpc = "destroyed")>>
<1>1. WindowIs /\ WindowIs'
  BY Window, WindowAfter
<1>2. \A i \in 1 .. InUse - rindex_shown : UnreadSlot(i)' = UnreadSlot(i)
  BY DEF UnreadSlot
<1>3. \A i \in 1 .. InUse - rindex_shown :
          unreadFrames'[i] = unreadFrames[i]
  BY <1>1, <1>2 DEF WindowIs
<1>4. unreadFrames' = unreadFrames
  BY <1>1, <1>3, SeqEqual DEF WindowIs
<1>5. lastFrame' = lastFrame
  BY <1>1 DEF WindowIs
<1>6. QED BY <1>4, <1>5

\* A frame enters the abstract queue when windex moves past it.
LEMMA FillEnqueues == IInv /\ IInv' /\ EndFill => Fifo!Enqueue
<1> SUFFICES ASSUME IInv, IInv', EndFill PROVE Fifo!Enqueue
  OBVIOUS
<1>1. /\ dpc = "fill" /\ dpc' = "push" /\ size < max_size
      /\ UNCHANGED <<rindex, size, rindex_shown, rpc, kpc>>
  BY DEF EndFill, IInv, IndexInv
<1>2. kpc # "destroyed" /\ kpc' # "destroyed"
  BY <1>1 DEF IInv, WaitInv
<1>3. WindowIs /\ WindowIs'
  BY <1>2, Window, WindowAfter
<1>4. /\ InUse' = InUse + 1 /\ InUse < max_size
      /\ InUse \in Nat /\ rindex_shown \in {0, 1}
      /\ rindex \in 0 .. max_size - 1
      /\ windex = IF rindex + InUse < max_size
                  THEN rindex + InUse ELSE rindex + InUse - max_size
  BY <1>1 DEF InUse, IInv, TypeOK, IndexInv, Slots
<1>5. PICK f \in Frames : queue' = [queue EXCEPT ![windex] = f]
  BY DEF EndFill
<1>6. ~Holds(windex) /\ windex \in Slots
  BY <1>4 DEF Holds, IInv, TypeOK, IndexInv, Slots
<1>7. unreadFrames' = Append(unreadFrames, f)
  <2> PICK n \in Nat : n = InUse - rindex_shown
    BY <1>3 DEF WindowIs
  <2>1. /\ n \in Nat /\ Len(unreadFrames) = n /\ Len(unreadFrames') = n + 1
        /\ unreadFrames \in Seq(Frames) /\ unreadFrames' \in Seq(Frames)
    BY <1>1, <1>3, <1>4 DEF WindowIs
  <2>2. ASSUME NEW i \in 1 .. n PROVE unreadFrames'[i] = unreadFrames[i]
    <3>1. UnreadSlot(i)' = UnreadSlot(i)
      BY <1>1 DEF UnreadSlot
    <3>2. UnreadSlot(i) \in Slots /\ UnreadSlot(i) # windex
      BY <1>3, <1>6 DEF WindowIs
    <3>3. queue'[UnreadSlot(i)] = queue[UnreadSlot(i)]
      BY <1>5, <3>2 DEF IInv, TypeOK
    <3>4. i \in 1 .. (InUse - rindex_shown)'
      BY <1>1, <1>4, <2>1
    <3>5. QED BY <1>3, <3>1, <3>3, <3>4 DEF WindowIs
  <2>3. unreadFrames'[n + 1] = f
    <3>1. UnreadSlot(n + 1)' = windex
      <4>1. rindex' + rindex_shown' + (n + 1) - 1 = rindex + InUse
        BY <1>1, <1>4
      <4>2. UnreadSlot(n + 1)' = IF rindex + InUse < max_size
                                 THEN rindex + InUse
                                 ELSE rindex + InUse - max_size
        BY <1>1, <1>4, <4>1 DEF UnreadSlot
      <4>3. QED BY <4>2, <1>4
    <3>2. n + 1 \in 1 .. (InUse - rindex_shown)'
      BY <1>1, <1>4, <2>1
    <3>3. queue'[windex] = f
      BY <1>5, <1>6 DEF IInv, TypeOK
    <3>4. unreadFrames'[n + 1] = queue'[UnreadSlot(n + 1)']
      BY <1>3, <3>2 DEF WindowIs
    <3>5. QED BY <3>1, <3>3, <3>4
  <2>4. /\ Append(unreadFrames, f) \in Seq(Frames)
        /\ Len(Append(unreadFrames, f)) = n + 1
        /\ \A i \in 1 .. n : Append(unreadFrames, f)[i] = unreadFrames[i]
        /\ Append(unreadFrames, f)[n + 1] = f
    BY <2>1, AppendProperties
  <2>5. \A i \in 1 .. n + 1 : unreadFrames'[i] = Append(unreadFrames, f)[i]
    BY <2>1, <2>2, <2>3, <2>4
  <2>6. QED BY <2>1, <2>4, <2>5, SeqEqual
<1>8. lastFrame' = lastFrame
  <2>1. rindex_shown = 1 => queue'[rindex] = queue[rindex]
    BY <1>3, <1>5, <1>6 DEF WindowIs, IInv, TypeOK
  <2>2. QED BY <1>1, <1>3, <2>1 DEF WindowIs
<1>9. Len(unreadFrames) + Len(lastFrame) < max_size
  BY <1>3, <1>4 DEF WindowIs
<1>10. QED BY <1>2, <1>5, <1>7, <1>8, <1>9 DEF Fifo!Enqueue

\* A frame leaves it when it is shown, and replaces the one shown before it.
LEMMA NextShows == IInv /\ IInv' /\ Next_Unlocked => Fifo!Show
<1> SUFFICES ASSUME IInv, IInv', Next_Unlocked PROVE Fifo!Show
  OBVIOUS
<1>1. rpc = "read" /\ UNCHANGED <<size, dpc, kpc>>
  BY DEF Next_Unlocked
<1>2. kpc # "destroyed" /\ kpc' # "destroyed"
  BY <1>1 DEF IInv, WaitInv
<1>3. WindowIs /\ WindowIs'
  BY <1>2, Window, WindowAfter
<1> PICK n \in Nat : n = InUse - rindex_shown
  BY <1>3 DEF WindowIs
<1>4. /\ n \in Nat \ {0} /\ InUse \in Nat /\ rindex_shown \in {0, 1}
      /\ rindex \in 0 .. max_size - 1
      /\ max_size \in Nat /\ InUse <= max_size
      /\ rindex_shown = 1 => keep_last = 1
  BY <1>1 DEF IInv, TypeOK, IndexInv, InUse, Slots, frame_queue_nb_remaining
\* The window shrinks by one frame at its start.
<1>5. /\ (InUse - rindex_shown)' = n - 1
      /\ \A i \in 1 .. n - 1 : UnreadSlot(i)' = UnreadSlot(i + 1)
      /\ rindex_shown' = keep_last
      /\ keep_last = 1 => rindex' = UnreadSlot(1)
      /\ \A i \in 1 .. n : keep_last = 1 \/ i > 1 =>
             queue'[UnreadSlot(i)] = queue[UnreadSlot(i)]
  <2>1. CASE keep_last = 1 /\ rindex_shown = 0 /\ rindex_shown' = 1
    <3>1. UNCHANGED <<queue, rindex>> /\ InUse' = InUse
      BY <1>1, <2>1 DEF Next_Unlocked, InUse
    <3>2. QED BY <1>4, <2>1, <3>1 DEF UnreadSlot
  <2>2. CASE keep_last = 0 \/ rindex_shown = 1
    <3>1. /\ queue' = [queue EXCEPT ![rindex] = NoFrame]
          /\ rindex' = IF rindex + 1 = max_size THEN 0 ELSE rindex + 1
          /\ rpc' = "pop" /\ rindex_shown' = rindex_shown
      BY <2>2 DEF Next_Unlocked
    <3>2. InUse' = InUse - 1
      BY <1>1, <3>1 DEF InUse, IInv, TypeOK
    <3>3. rindex_shown' = keep_last
      BY <1>4, <2>2, <3>1
    <3>4. ASSUME NEW i \in 1 .. n - 1 PROVE UnreadSlot(i)' = UnreadSlot(i + 1)
      BY <1>4, <3>1 DEF UnreadSlot
    <3>5. ASSUME keep_last = 1 PROVE rindex' = UnreadSlot(1)
      BY <1>4, <2>2, <3>1, <3>5 DEF UnreadSlot
    <3>6. ASSUME NEW i \in 1 .. n, keep_last = 1 \/ i > 1
          PROVE  queue'[UnreadSlot(i)] = queue[UnreadSlot(i)]
      <4>1. UnreadSlot(i) # rindex
        BY <1>4, <2>2, <3>6 DEF UnreadSlot
      <4>2. UnreadSlot(i) \in Slots
        BY <1>3 DEF WindowIs
      <4>3. QED BY <3>1, <4>1, <4>2 DEF IInv, TypeOK
    <3>7. QED BY <1>4, <3>1, <3>2, <3>3, <3>4, <3>5, <3>6
  <2>3. QED BY <2>1, <2>2 DEF Next_Unlocked
<1>6. unreadFrames' = Tail(unreadFrames)
  <2>1. /\ unreadFrames \in Seq(Frames) /\ unreadFrames' \in Seq(Frames)
        /\ Len(unreadFrames) = n /\ Len(unreadFrames') = n - 1
    BY <1>3, <1>5 DEF WindowIs
  <2>2. /\ Tail(unreadFrames) \in Seq(Frames)
        /\ Len(Tail(unreadFrames)) = n - 1
        /\ \A i \in 1 .. n - 1 : Tail(unreadFrames)[i] = unreadFrames[i + 1]
    BY <1>4, <2>1, HeadTailProperties
  <2>3. ASSUME NEW i \in 1 .. n - 1
        PROVE  unreadFrames'[i] = unreadFrames[i + 1]
    <3>1. unreadFrames'[i] = queue'[UnreadSlot(i)']
      BY <1>3, <1>5 DEF WindowIs
    <3>2. unreadFrames[i + 1] = queue[UnreadSlot(i + 1)]
      BY <1>3, <1>4 DEF WindowIs
    <3>3. QED BY <1>4, <1>5, <3>1, <3>2
  <2>4. QED BY <2>1, <2>2, <2>3, SeqEqual
<1>7. lastFrame' = IF keep_last = 1 THEN <<Head(unreadFrames)>> ELSE <<>>
  <2>1. CASE keep_last = 1
    <3>1. lastFrame' = <<queue'[UnreadSlot(1)]>>
      BY <1>3, <1>5, <2>1 DEF WindowIs
    <3>2. queue'[UnreadSlot(1)] = unreadFrames[1]
      BY <1>3, <1>4, <1>5, <2>1 DEF WindowIs
    <3>3. Head(unreadFrames) = unreadFrames[1]
      BY <1>3, <1>4 DEF WindowIs
    <3>4. QED BY <2>1, <3>1, <3>2, <3>3
  <2>2. CASE keep_last = 0
    BY <1>3, <1>5, <2>2 DEF WindowIs
  <2>3. QED BY <2>1, <2>2
<1>8. unreadFrames # <<>>
  BY <1>3, <1>4 DEF WindowIs
<1>9. QED BY <1>2, <1>6, <1>7, <1>8 DEF Fifo!Show

\* Every other step before the queue is destroyed is a stutter of it: the
\* decoder scribbles only in the slot that is not in use.
LEMMA OthersStutter ==
    ASSUME IInv, IInv',
           \/ PeekWritable \/ BeginFill \/ Push
           \/ Poll \/ PeekReadable \/ BeginRead \/ Pop
           \/ Abort \/ frame_queue_signal
    PROVE  UNCHANGED <<unreadFrames, lastFrame, (kpc = "destroyed")>>
<1>1. kpc # "destroyed" /\ kpc' # "destroyed"
  BY DEF PeekWritable, BeginFill, Push, Poll, PeekReadable, BeginRead, Pop,
         Abort, frame_queue_signal, IInv, WaitInv
<1>2. UNCHANGED <<rindex, rindex_shown>>
  BY DEF PeekWritable, BeginFill, Push, Poll, PeekReadable, BeginRead, Pop,
         Abort, frame_queue_signal
<1>3. InUse' = InUse
  <2>1. CASE Push
    <3>1. dpc = "push" /\ dpc' = "idle" /\ size' = size + 1 /\ rpc' = rpc
      BY <2>1 DEF Push
    <3>2. QED BY <3>1 DEF InUse, IInv, TypeOK
  <2>2. CASE Pop
    <3>1. rpc = "pop" /\ rpc' = "idle" /\ size' = size - 1 /\ dpc' = dpc
      BY <2>2 DEF Pop
    <3>2. QED BY <3>1 DEF InUse, IInv, TypeOK
  <2>3. ASSUME size' = size, dpc' # "push", dpc # "push",
               rpc' = rpc
        PROVE  InUse' = InUse
    BY <2>3 DEF InUse
  <2>4. ASSUME size' = size, dpc' = dpc, rpc # "pop", rpc' # "pop"
        PROVE  InUse' = InUse
    BY <2>4 DEF InUse
  <2>5. CASE PeekWritable \/ BeginFill
    BY <2>3, <2>5 DEF PeekWritable, BeginFill
  <2>6. CASE Poll \/ PeekReadable \/ BeginRead
    BY <2>4, <2>6 DEF Poll, PeekReadable, BeginRead
  <2>7. CASE Abort
    <3>1. size' = size /\ dpc' = dpc
      BY <2>7 DEF Abort
    <3>2. CASE reader = "callback"
      BY <2>7, <3>1, <3>2 DEF Abort, InUse
    <3>3. CASE reader # "callback"
      BY <2>4, <2>7, <3>1, <3>3 DEF Abort
    <3>4. QED BY <3>2, <3>3
  <2>8. CASE frame_queue_signal
    BY <2>8 DEF frame_queue_signal, InUse
  <2>9. QED BY <2>1, <2>2, <2>5, <2>6, <2>7, <2>8
<1>4. ASSUME NEW s \in Slots, Holds(s) PROVE queue'[s] = queue[s]
  <2>1. CASE UNCHANGED queue
    BY <2>1
  <2>2. CASE BeginFill /\ abort_request = 0
    <3>1. /\ dpc = "claimed" /\ queue' = [queue EXCEPT ![windex] = Torn]
      BY <2>2 DEF BeginFill
    <3>2. InUse < max_size /\ InUse \in Nat
      BY <2>2, <3>1 DEF IInv, TypeOK, IndexInv, InUse
    <3>3. s # windex
      BY <1>4, <3>2 DEF Holds, IInv, TypeOK, IndexInv, Slots
    <3>4. QED BY <3>1, <3>3 DEF IInv, TypeOK
  <2>3. QED
    BY <2>1, <2>2 DEF PeekWritable, BeginFill, Push, Poll, PeekReadable,
       BeginRead, Pop, Abort, frame_queue_signal
<1>5. QED BY <1>1, <1>2, <1>3, <1>4, SameWindow

\* Destroying the queue closes the abstract one.
LEMMA DestroyCloses == IInv /\ frame_queue_destory => Fifo!Close
  BY DEF frame_queue_destory, Fifo!Close, unreadFrames, lastFrame

\* Every step maps to a step of the abstract queue or to none.
LEMMA FifoStep == IInv /\ IInv' /\ [Next]_vars => [Fifo!Next]_(Fifo!fvars)
<1> SUFFICES ASSUME IInv, IInv', [Next]_vars PROVE [Fifo!Next]_(Fifo!fvars)
  OBVIOUS
<1>1. CASE EndFill
  BY <1>1, FillEnqueues DEF Fifo!Next
<1>2. CASE Next_Unlocked
  BY <1>2, NextShows DEF Fifo!Next
<1>3. CASE frame_queue_destory
  BY <1>3, DestroyCloses DEF Fifo!Next
<1>4. CASE \/ PeekWritable \/ BeginFill \/ Push
           \/ Poll \/ PeekReadable \/ BeginRead \/ Pop
           \/ Abort \/ frame_queue_signal
  BY <1>4, OthersStutter DEF Fifo!fvars
<1>5. CASE UNCHANGED vars
  BY <1>5 DEF vars, Fifo!fvars, unreadFrames, lastFrame, InUse
<1>6. QED
  BY <1>1, <1>2, <1>3, <1>4, <1>5 DEF Next, Decoder, Reader, Closer

\* Whatever the decoder, the reader and the closing thread interleave, frames
\* come out of the ring once each, in the order they went in, and the frame
\* shown last stays until the next one replaces it.
THEOREM RingIsFifo == Spec => ImplementsFifo
<1>1. Init => Fifo!Init
  BY DEF Init, Fifo!Init, unreadFrames, lastFrame, InUse
<1>2. QED
  BY <1>1, FifoStep, FrameQueueInv, PTL DEF Spec, ImplementsFifo, Fifo!Spec
=============================================================================
