----------------------------- MODULE FrameQueue -----------------------------
(***************************************************************************)
(* The FrameQueue of Player/ffplay.h: a ring of max_size slots between one *)
(* decoder thread, which fills slots, and one reader (the refresh loop for *)
(* pictures, SDL's audio callback for samples).                            *)
(*                                                                         *)
(* rindex, windex and the slots themselves are touched OUTSIDE the mutex;  *)
(* only size and the condition variable are inside it.  What keeps the two *)
(* threads off each other's slots is therefore an argument about the       *)
(* indices and not about the lock: this module models every unlocked step  *)
(* as a step of its own.                                                   *)
(*                                                                         *)
(* A third thread closes the queue (decoder_abort): it raises the          *)
(* abort_request of the packet queue the ring belongs to, under ANOTHER    *)
(* mutex, signals the ring's condition variable once, and joins.           *)
(***************************************************************************)
EXTENDS Integers, Sequences

CONSTANTS
    Frames,      \* what a filled slot can hold
    NoFrame,     \* a slot after frame_queue_unref_item
    Torn,        \* a slot the decoder has begun to fill and not finished
    max_size,    \* VIDEO_PICTURE_QUEUE_SIZE, SUBPICTURE_QUEUE_SIZE, ...
    keep_last    \* 1: the last shown frame stays in its slot

ASSUME FrameAssumption == NoFrame \notin Frames /\ Torn \notin Frames
ASSUME FlagAssumption == keep_last \in {0, 1}
\* stream_open asks for 3, 16 and 9 slots; a ring that keeps the frame shown
\* last needs a slot beside that one.
ASSUME SizeAssumption ==
    max_size \in Nat /\ max_size > keep_last

VARIABLES
    reader,         \* "callback" waits in peek_readable, "refresh" polls:
                    \* chosen when the queue is made
    queue,          \* the slots
    rindex, windex, \* next slot to read / to write, no lock
    size,           \* number of slots in use, under the mutex
    rindex_shown,   \* 1 when the slot at rindex is the frame already shown
    abort_request,  \* pktq->abort_request, read without the pktq mutex
    waiters,        \* the threads blocked on the condition variable
    dpc,            \* the decoder thread
    rpc, rslot,     \* the reader, and the slot frame_queue_peek gave it
    kpc             \* decoder_abort, run by the thread that closes

vars == <<reader, queue, rindex, windex, size, rindex_shown, abort_request,
          waiters, dpc, rpc, rslot, kpc>>

Slots == 0 .. max_size - 1

TypeOK ==
    /\ reader \in {"callback", "refresh"}
    /\ queue \in [Slots -> Frames \cup {NoFrame, Torn}]
    /\ rindex \in Slots /\ windex \in Slots /\ rslot \in Slots
    /\ size \in 0 .. max_size
    /\ rindex_shown \in {0, 1}
    /\ abort_request \in {0, 1}
    /\ waiters \subseteq {"decoder", "reader"}
    /\ dpc \in {"idle", "claimed", "fill", "push", "exit"}
    /\ rpc \in {"idle", "claimed", "read", "pop", "exit"}
    /\ kpc \in {"open", "signal", "join", "destroyed"}

\* frame_queue_init, once packet_queue_start has cleared abort_request.
Init ==
    /\ reader \in {"callback", "refresh"}
    /\ queue = [s \in Slots |-> NoFrame]
    /\ rindex = 0 /\ windex = 0 /\ rslot = 0
    /\ size = 0
    /\ rindex_shown = 0
    /\ abort_request = 0
    /\ waiters = {}
    /\ dpc = "idle" /\ rpc = "idle" /\ kpc = "open"

\* Defects the properties are tried against have the name of the definition
\* they would replace and a suffix; no behaviour uses them.

\* Defect: the kept frame is counted as one still to be shown.
frame_queue_nb_remaining_Kept == size

\* The number of frames not shown yet.
frame_queue_nb_remaining == size - rindex_shown

\* The slot of frame_queue_peek: the first one not shown yet.
frame_queue_peek == (rindex + rindex_shown) % max_size

\* SDL_CondSignal wakes one waiter and is lost when there is none.
CondSignal ==
    IF waiters = {} THEN waiters' = waiters
    ELSE \E t \in waiters : waiters' = waiters \ {t}

CondWait(t) == waiters' = waiters \cup {t}

-----------------------------------------------------------------------------
(* The decoder thread: frame_queue_peek_writable, fill the slot, push.     *)

\* Defect: the ring is taken to be full one frame too late.
PeekWritable_Late ==
    /\ dpc = "idle" /\ "decoder" \notin waiters
    /\ \/ /\ size > max_size /\ abort_request = 0
          /\ CondWait("decoder")
          /\ UNCHANGED dpc
       \/ /\ size <= max_size \/ abort_request = 1
          /\ dpc' = "claimed"
          /\ UNCHANGED waiters
    /\ UNCHANGED <<reader, queue, rindex, windex, size, rindex_shown,
                   abort_request, rpc, rslot, kpc>>

\* Defect: the wait does not look at abort_request.
PeekWritable_Deaf ==
    /\ dpc = "idle" /\ "decoder" \notin waiters
    /\ \/ /\ size >= max_size
          /\ CondWait("decoder")
          /\ UNCHANGED dpc
       \/ /\ size < max_size
          /\ dpc' = "claimed"
          /\ UNCHANGED waiters
    /\ UNCHANGED <<reader, queue, rindex, windex, size, rindex_shown,
                   abort_request, rpc, rslot, kpc>>

\* frame_queue_peek_writable's wait: one look at the queue under the mutex.
PeekWritable ==
    /\ dpc = "idle" /\ "decoder" \notin waiters
    /\ \/ /\ size >= max_size /\ abort_request = 0
          /\ CondWait("decoder")
          /\ UNCHANGED dpc
       \/ /\ size < max_size \/ abort_request = 1
          /\ dpc' = "claimed"
          /\ UNCHANGED waiters
    /\ UNCHANGED <<reader, queue, rindex, windex, size, rindex_shown,
                   abort_request, rpc, rslot, kpc>>

\* The second look at abort_request, after the mutex is released.
BeginFill ==
    /\ dpc = "claimed"
    /\ \/ abort_request = 1 /\ dpc' = "exit" /\ UNCHANGED queue
       \/ abort_request = 0 /\ dpc' = "fill" /\ queue' = [queue EXCEPT ![windex] = Torn]
    /\ UNCHANGED <<reader, rindex, windex, size, rindex_shown, abort_request,
                   waiters, rpc, rslot, kpc>>

\* queue_picture / audio_thread move the frame in; frame_queue_push then
\* advances windex before it takes the mutex.
EndFill ==
    /\ dpc = "fill"
    /\ \E f \in Frames : queue' = [queue EXCEPT ![windex] = f]
    /\ windex' = IF windex + 1 = max_size THEN 0 ELSE windex + 1
    /\ dpc' = "push"
    /\ UNCHANGED <<reader, rindex, size, rindex_shown, abort_request, waiters,
                   rpc, rslot, kpc>>

\* Defect: a push that wakes nobody.
Push_Silent ==
    /\ dpc = "push"
    /\ size' = size + 1
    /\ dpc' = "idle"
    /\ UNCHANGED <<reader, queue, rindex, windex, rindex_shown, abort_request,
                   waiters, rpc, rslot, kpc>>

\* frame_queue_push inside the mutex.
Push ==
    /\ dpc = "push"
    /\ size' = size + 1
    /\ CondSignal
    /\ dpc' = "idle"
    /\ UNCHANGED <<reader, queue, rindex, windex, rindex_shown, abort_request,
                   rpc, rslot, kpc>>

-----------------------------------------------------------------------------
(* The reader.                                                             *)

\* video_refresh looks at frame_queue_nb_remaining without the mutex.
Poll ==
    /\ reader = "refresh"
    /\ rpc = "idle"
    /\ frame_queue_nb_remaining # 0
    /\ rpc' = "read"
    /\ rslot' = frame_queue_peek
    /\ UNCHANGED <<reader, queue, rindex, windex, size, rindex_shown,
                   abort_request, waiters, dpc, kpc>>

PeekReadable ==
    /\ reader = "callback"
    /\ rpc = "idle" /\ "reader" \notin waiters
    /\ \/ /\ frame_queue_nb_remaining <= 0 /\ abort_request = 0
          /\ CondWait("reader")
          /\ UNCHANGED rpc
       \/ /\ frame_queue_nb_remaining > 0 \/ abort_request = 1
          /\ rpc' = "claimed"
          /\ UNCHANGED waiters
    /\ UNCHANGED <<reader, queue, rindex, windex, size, rindex_shown,
                   abort_request, dpc, rslot, kpc>>

BeginRead ==
    /\ rpc = "claimed"
    /\ \/ abort_request = 1 /\ rpc' = "exit" /\ UNCHANGED rslot
       \/ abort_request = 0 /\ rpc' = "read" /\ rslot' = frame_queue_peek
    /\ UNCHANGED <<reader, queue, rindex, windex, size, rindex_shown,
                   abort_request, waiters, dpc, kpc>>

\* frame_queue_next up to the mutex.  The first frame of a keep_last queue
\* only becomes "shown"; later ones release the frame shown before them.
Next_Unlocked ==
    /\ rpc = "read"
    /\ \/ /\ keep_last = 1 /\ rindex_shown = 0
          /\ rindex_shown' = 1
          /\ rpc' = "idle"
          /\ UNCHANGED <<queue, rindex>>
       \/ /\ keep_last = 0 \/ rindex_shown = 1
          /\ queue' = [queue EXCEPT ![rindex] = NoFrame]
          /\ rindex' = IF rindex + 1 = max_size THEN 0 ELSE rindex + 1
          /\ rpc' = "pop"
          /\ UNCHANGED rindex_shown
    /\ UNCHANGED <<reader, windex, size, abort_request, waiters, dpc, rslot,
                   kpc>>

\* Defect: a pop that wakes nobody.
Pop_Silent ==
    /\ rpc = "pop"
    /\ size' = size - 1
    /\ rpc' = "idle"
    /\ UNCHANGED <<reader, queue, rindex, windex, rindex_shown, abort_request,
                   waiters, dpc, rslot, kpc>>

\* frame_queue_next inside the mutex.
Pop ==
    /\ rpc = "pop"
    /\ size' = size - 1
    /\ CondSignal
    /\ rpc' = "idle"
    /\ UNCHANGED <<reader, queue, rindex, windex, rindex_shown, abort_request,
                   dpc, rslot, kpc>>

-----------------------------------------------------------------------------
(* decoder_abort.  A polling reader is the closing thread itself, so it    *)
(* closes between two refreshes and does not read again.                   *)

Abort ==
    /\ kpc = "open"
    /\ reader = "callback" \/ rpc = "idle"
    /\ abort_request' = 1
    /\ kpc' = "signal"
    /\ rpc' = IF reader = "callback" THEN rpc ELSE "exit"
    /\ UNCHANGED <<reader, queue, rindex, windex, size, rindex_shown, waiters,
                   dpc, rslot>>

\* Defect: the waiters are left to find the abort out by themselves.
frame_queue_signal_Silent ==
    /\ kpc = "signal"
    /\ kpc' = "join"
    /\ UNCHANGED <<reader, queue, rindex, windex, size, rindex_shown,
                   abort_request, waiters, dpc, rpc, rslot>>

frame_queue_signal ==
    /\ kpc = "signal"
    /\ CondSignal
    /\ kpc' = "join"
    /\ UNCHANGED <<reader, queue, rindex, windex, size, rindex_shown,
                   abort_request, dpc, rpc, rslot>>

\* SDL_WaitThread and SDL_CloseAudioDevice have returned: the slots are freed.
frame_queue_destory ==
    /\ kpc = "join"
    /\ dpc = "exit" /\ rpc = "exit"
    /\ kpc' = "destroyed"
    /\ queue' = [s \in Slots |-> NoFrame]
    /\ UNCHANGED <<reader, rindex, windex, size, rindex_shown, abort_request,
                   waiters, dpc, rpc, rslot>>

-----------------------------------------------------------------------------
Decoder == PeekWritable \/ BeginFill \/ EndFill \/ Push
Reader == Poll \/ PeekReadable \/ BeginRead \/ Next_Unlocked \/ Pop
Closer == Abort \/ frame_queue_signal \/ frame_queue_destory

Next == Decoder \/ Reader \/ Closer

Spec == Init /\ [][Next]_vars

\* Both threads and the closing thread are scheduled by the system; whether a
\* close is ever asked for is the user's choice, so Abort is not fair.
FairSpec ==
    /\ Spec
    /\ WF_vars(Decoder)
    /\ WF_vars(Reader)
    /\ WF_vars(frame_queue_signal \/ frame_queue_destory)

-----------------------------------------------------------------------------
(* Properties.                                                             *)

\* The reader never looks at a slot the decoder is filling or that was
\* already released: frame_queue_peek hands out a complete frame although
\* neither rindex nor windex is protected.
NoTornRead == rpc = "read" => queue[rslot] \in Frames

\* video_image_display draws frame_queue_peek_last, the slot at rindex, at any
\* later refresh: once a frame was shown that slot stays whole until the next
\* frame replaces it, however far the decoder has run ahead.
ShownIntact ==
    rindex_shown = 1 /\ kpc # "destroyed" => queue[rindex] \in Frames

\* decoder_abort signals the condition variable exactly once and then joins:
\* at that point no thread may be left asleep on it, whatever it was doing
\* when abort_request was raised under the other mutex.
AbortWakesAll == kpc \in {"join", "destroyed"} => waiters = {}

\* stream_close gets through: once the abort is raised the threads leave and
\* the queue is destroyed.
CloseTerminates == kpc = "signal" ~> kpc = "destroyed"

\* A frame in the ring is consumed or the queue is closed: neither side can
\* sleep for ever while the other has work for it.
FramesFlow == frame_queue_nb_remaining > 0 ~>
                  (rpc = "read" \/ kpc # "open")

\* The decoder never starves behind a full ring.
SpaceFlows == "decoder" \in waiters ~> "decoder" \notin waiters

-----------------------------------------------------------------------------
(* The inductive invariant behind the safety properties.                   *)

\* Slots really in use: size lags windex by one while the decoder is between
\* its increment and the mutex, and rindex while the reader is.
InUse == size + (IF dpc = "push" THEN 1 ELSE 0)
              - (IF rpc = "pop" THEN 1 ELSE 0)

\* Slot s is one of the InUse slots that start at rindex, going round.
Holds(s) == \/ rindex <= s /\ s < rindex + InUse
            \/ s < rindex + InUse - max_size

IndexInv ==
    /\ InUse \in 0 .. max_size
    /\ windex = IF rindex + InUse < max_size
                THEN rindex + InUse ELSE rindex + InUse - max_size
    /\ rindex_shown = 1 => keep_last = 1
    /\ frame_queue_nb_remaining >= 0
    /\ dpc = "claimed" => size < max_size \/ abort_request = 1
    /\ dpc = "fill" => size < max_size
    /\ dpc = "push" => size < max_size
    /\ rpc = "claimed" => frame_queue_nb_remaining >= 1 \/ abort_request = 1
    /\ rpc = "read" => /\ frame_queue_nb_remaining >= 1
                       /\ rslot = frame_queue_peek
    /\ rpc = "pop" => frame_queue_nb_remaining >= 1

ContentInv ==
    kpc # "destroyed" => \A s \in Slots : Holds(s) => queue[s] \in Frames

WaitInv ==
    /\ "decoder" \in waiters => dpc = "idle" /\ size >= max_size
    /\ "reader" \in waiters =>
          reader = "callback" /\ rpc = "idle" /\ frame_queue_nb_remaining <= 0
    /\ kpc = "open" => abort_request = 0
    /\ kpc # "open" => abort_request = 1
    /\ kpc \in {"join", "destroyed"} => waiters = {}
    /\ kpc = "destroyed" => dpc = "exit" /\ rpc = "exit"
    /\ dpc = "exit" => abort_request = 1

IInv == TypeOK /\ IndexInv /\ ContentInv /\ WaitInv

-----------------------------------------------------------------------------
(* The ring implements the abstract queue: a frame enters when EndFill      *)
(* advances windex and leaves when Next_Unlocked shows it.                  *)

unreadFrames ==
    IF kpc = "destroyed" THEN <<>>
    ELSE [i \in 1 .. InUse - rindex_shown |->
             queue[(rindex + rindex_shown + i - 1) % max_size]]

lastFrame ==
    IF kpc = "destroyed" \/ rindex_shown = 0 THEN <<>> ELSE <<queue[rindex]>>

Fifo == INSTANCE FrameFifo
            WITH unread <- unreadFrames, last <- lastFrame,
                 closed <- (kpc = "destroyed"), capacity <- max_size

\* Frames come out of the ring once each and in order, whatever the two
\* threads interleave outside the mutex.
ImplementsFifo == Fifo!Spec
=============================================================================
