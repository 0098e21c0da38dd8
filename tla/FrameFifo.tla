------------------------------ MODULE FrameFifo ------------------------------
(***************************************************************************)
(* What a frame queue promises its two threads, with no ring, no indices   *)
(* and no lock: decoded frames come out once each, in the order they went  *)
(* in, the frame shown last stays available until the next one replaces    *)
(* it, and shown and waiting frames together never exceed the capacity.    *)
(***************************************************************************)
EXTENDS Integers, Sequences

CONSTANTS
    Frames,    \* what a frame can be
    capacity,  \* how many frames it holds
    keep_last  \* 1: the frame shown last is kept

VARIABLES
    unread,  \* the frames waiting to be shown, oldest first
    last,    \* <<>> or the one frame shown and kept
    closed   \* the queue is destroyed

fvars == <<unread, last, closed>>

Init == unread = <<>> /\ last = <<>> /\ closed = FALSE

Enqueue ==
    /\ ~closed
    /\ Len(unread) + Len(last) < capacity
    /\ \E f \in Frames : unread' = Append(unread, f)
    /\ UNCHANGED <<last, closed>>

Show ==
    /\ ~closed
    /\ unread # <<>>
    /\ unread' = Tail(unread)
    /\ last' = IF keep_last = 1 THEN <<Head(unread)>> ELSE <<>>
    /\ UNCHANGED closed

Close ==
    /\ ~closed
    /\ closed' = TRUE
    /\ unread' = <<>>
    /\ last' = <<>>

Next == Enqueue \/ Show \/ Close

Spec == Init /\ [][Next]_fvars
=============================================================================
