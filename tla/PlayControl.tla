---------------------------- MODULE PlayControl ----------------------------
(***************************************************************************)
(* Who may tell the player what, and when it hears it: the window thread   *)
(* (CPlayerDlg, CFFPlayer, CMsgWnd), the PlayCmdThread that SDL's event    *)
(* loop takes over while something plays, and the read thread's part in it.*)
(*                                                                         *)
(* The window thread posts thread messages (open) and pushes SDL events    *)
(* (quit, pause, mute, seek); it is told START, END and FILE_INVALID by    *)
(* window messages.  SDL_PumpEvents takes every thread message, an open    *)
(* included, so CFFPlayer::Stop waits on m_hEvent_Stop for the end of the  *)
(* playback, and dispatches any other message while it waits.              *)
(***************************************************************************)
EXTENDS Integers, Sequences, FiniteSets

CONSTANTS
    MaxOpens,     \* playbacks asked for
    MaxCommands,  \* stops, pauses, mutes and seeks asked for
    MaxNest,      \* calls of Stop waiting inside each other
    NStreams,     \* streams of every file
    Timeouts,     \* whether the 2000 ms of a waiting Stop may run out
    Failures      \* which of "sdl", "file" and "filter" may fail

ASSUME ControlAssumption ==
    /\ MaxOpens \in Nat /\ MaxCommands \in Nat
    /\ MaxNest \in Nat \ {0} /\ NStreams \in {1, 2} /\ Timeouts \in BOOLEAN
    /\ Failures \subseteq {"sdl", "file", "filter"}

VARIABLES
    \* the window thread: what the dialog and the player think is going on,
    \* the calls of Stop that wait (each with what its caller does next), the
    \* messages posted to it, the mute setting
    dlg, status, waits, wm, m_bMute,
    \* shared: the stop flag, the auto-reset event, the thread's messages
    g_bStop, stopEvent, tmsgs,
    \* SDL: initialised or not, its event queue
    sdl, events,
    \* the PlayCmdThread, and the playback it is in
    ppc, session,
    \* the playback's VideoState
    paused, step, muted, seek_req, abort_request,
    \* the read thread and the streams it has still to open
    rpc, left,
    \* bounds and history: opens and other commands asked for, opens taken
    \* by SDL_PumpEvents, and the ways in
    \* which the window has lost track of the playback
    nopens, ncommands, lost, excused

windowVars == <<dlg, status, waits, wm, m_bMute>>
sharedVars == <<g_bStop, stopEvent, tmsgs>>
sdlVars == <<sdl, events>>
playVars == <<ppc, session>>
stateVars == <<paused, step, muted, seek_req, abort_request>>
readVars == <<rpc, left>>
historyVars == <<nopens, ncommands, lost, excused>>

vars == <<windowVars, sharedVars, sdlVars, playVars, stateVars, readVars,
          historyVars>>

Statuses == {"Init", "Opening", "Playing", "Pause", "Stoped"}
Message == [msg : {"START", "END", "FILE_INVALID"}, session : 1 .. MaxOpens]
Event == {"quit", "toggle", "seek", "mute", "unmute"}

TypeOK ==
    /\ dlg \in Statuses /\ status \in Statuses
    /\ waits \in Seq({"return", "open"}) /\ Len(waits) <= MaxNest
    /\ wm \in Seq(Message) /\ m_bMute \in {0, 1}
    /\ g_bStop \in {0, 1} /\ stopEvent \in {"none", "reset", "set"}
    /\ tmsgs \in Seq(1 .. MaxOpens)
    /\ sdl \in {0, 1} /\ events \in Seq(Event)
    /\ ppc \in {"idle", "ignore", "open", "settings", "pump", "peep", "pause",
                "resume", "unstep", "freeze", "ended", "exit", "join",
                "signal"}
    /\ session \in 0 .. MaxOpens
    /\ paused \in {0, 1} /\ step \in {0, 1} /\ muted \in {0, 1}
    /\ seek_req \in {0, 1} /\ abort_request \in {0, 1}
    /\ rpc \in {"off", "opening", "streams", "started", "run", "sought",
                "step", "toggle", "unpause", "repause", "stepped", "failed",
                "gone"}
    /\ left \in 0 .. NStreams
    /\ nopens \in 0 .. MaxOpens /\ ncommands \in 0 .. MaxCommands
    /\ lost \in 0 .. MaxOpens
    /\ excused \subseteq {"late", "step", "start"}

Init ==
    /\ dlg = "Init" /\ status = "Init" /\ waits = <<>> /\ wm = <<>>
    /\ m_bMute = 0
    /\ g_bStop = 1 /\ stopEvent = "none" /\ tmsgs = <<>>
    /\ sdl = 0 /\ events = <<>>
    /\ ppc = "idle" /\ session = 0
    /\ paused = 0 /\ step = 0 /\ muted = 0 /\ seek_req = 0
    /\ abort_request = 0
    /\ rpc = "off" /\ left = 0
    /\ nopens = 0 /\ ncommands = 0 /\ lost = 0
    /\ excused = {}

-----------------------------------------------------------------------------
(* Windows and SDL, as this code uses them.                                *)

\* Defects the properties are tried against have the name of the definition
\* they would replace and a suffix; no behaviour uses them.

\* SDL_PushEvent: dropped when SDL is not initialised.  Two events pushed in a
\* row are pushed in one step: the queue is emptied between them only by
\* SDL_Quit and SDL_EventState, which leave neither.
SDL_PushEvent(es) == events' = IF sdl = 1 THEN events \o es ELSE events

PostMessage(m) == wm' = Append(wm, [msg |-> m, session |-> session])

-----------------------------------------------------------------------------
(* The window thread.  It runs a handler when it is in no other one, or     *)
(* when a waiting Stop dispatches.  Bound: MaxNest waits inside each other. *)

MuteEvent(m) == IF m = 1 THEN "mute" ELSE "unmute"

\* CFFPlayer::OpenAndPlay: forget an old signal, then post the request.
OpenAndPlay ==
    /\ stopEvent' = "reset"
    /\ tmsgs' = Append(tmsgs, nopens + 1)

\* CFFPlayer::Stop returns at once when nothing was opened or the stop flag
\* is up.
StopReturns == stopEvent = "none" \/ g_bStop = 1

\* ... and otherwise asks the event loop to quit and waits.
StopWaits(next) ==
    /\ Len(waits) < MaxNest
    /\ SDL_PushEvent(<<"quit">>)
    /\ waits' = Append(waits, next)

\* The calls of Play that wait in Stop.
Pending == {i \in DOMAIN waits : waits[i] = "open"}

\* CPlayerDlg::Play.  The dialog's status is Opening before it is compared
\* with Stoped, so Stop is called every time.
Play ==
    /\ nopens + Cardinality(Pending) < MaxOpens
    /\ dlg' = "Opening" /\ status' = "Stoped"
    /\ \/ /\ StopReturns
          /\ OpenAndPlay
          /\ nopens' = nopens + 1
          /\ excused' = {}
          /\ UNCHANGED <<waits, sdlVars>>
       \/ /\ ~StopReturns
          /\ StopWaits("open")
          /\ UNCHANGED <<stopEvent, tmsgs, nopens, excused, sdl>>
    /\ UNCHANGED <<wm, m_bMute, g_bStop, playVars, stateVars, readVars,
                   ncommands, lost>>

\* MsgWait returns in the innermost Stop: the auto-reset event was signalled,
\* or 2000 ms have passed.  The flag goes up; a Play continues.
StopContinues ==
    /\ waits # <<>>
    /\ \/ stopEvent = "set"
       \/ Timeouts
    /\ \/ /\ waits[Len(waits)] = "open"
          /\ OpenAndPlay
          /\ nopens' = nopens + 1
          /\ excused' = IF dlg = "Opening" THEN {} ELSE excused
       \/ /\ waits[Len(waits)] = "return"
          /\ stopEvent' = "reset"
          /\ UNCHANGED <<tmsgs, nopens, excused>>
    /\ waits' = SubSeq(waits, 1, Len(waits) - 1)
    /\ g_bStop' = 1 /\ status' = "Stoped"
    /\ UNCHANGED <<dlg, wm, m_bMute, sdlVars, playVars, stateVars, readVars,
                   ncommands, lost>>

\* CPlayerDlg::DoStop: Stop, unless the dialog is stopped already.
DoStop ==
    IF dlg = "Stoped" THEN UNCHANGED <<dlg, waits, events>>
    ELSE /\ dlg' = "Stoped"
         /\ \/ StopReturns /\ UNCHANGED <<waits, events>>
            \/ ~StopReturns /\ StopWaits("return")

\* The user stops.
OnBtnStop ==
    /\ ncommands < MaxCommands /\ ncommands' = ncommands + 1
    /\ DoStop
    /\ status' = IF dlg = "Stoped" THEN status ELSE "Stoped"
    /\ UNCHANGED <<wm, m_bMute, sharedVars, sdl, playVars, stateVars, readVars,
                   nopens, lost, excused>>

\* CFFPlayer::Play and Pause: nothing if the player is in that status
\* already, else the mute event that belongs to it and the toggle.
PlayOrPause(new) ==
    /\ status' = new
    /\ IF status = new THEN UNCHANGED events
       ELSE SDL_PushEvent(<<IF new = "Pause" THEN "mute" ELSE MuteEvent(m_bMute),
                            "toggle">>)

\* CPlayerDlg::DoPause goes by the dialog's own status.
DoPause ==
    /\ ncommands < MaxCommands /\ ncommands' = ncommands + 1
    /\ dlg \in {"Playing", "Pause"}
    /\ dlg' = IF dlg = "Playing" THEN "Pause" ELSE "Playing"
    /\ PlayOrPause(dlg')
    /\ UNCHANGED <<waits, wm, m_bMute, sharedVars, sdl, playVars, stateVars,
                   readVars, nopens, lost, excused>>

SetMute ==
    /\ ncommands < MaxCommands /\ ncommands' = ncommands + 1
    /\ m_bMute' = 1 - m_bMute
    /\ SDL_PushEvent(<<MuteEvent(1 - m_bMute)>>)
    /\ UNCHANGED <<dlg, status, waits, wm, sharedVars, sdl, playVars,
                   stateVars, readVars, nopens, lost, excused>>

Seek ==
    /\ ncommands < MaxCommands /\ ncommands' = ncommands + 1
    /\ SDL_PushEvent(<<"seek">>)
    /\ UNCHANGED <<windowVars, sharedVars, sdl, playVars, stateVars, readVars,
                   nopens, lost, excused>>

\* START: OnPlayStart may seek to where this file was left.
OnStart ==
    /\ wm # <<>> /\ Head(wm).msg = "START" /\ wm' = Tail(wm)
    /\ status' = "Playing" /\ dlg' = "Playing"
    /\ excused' = IF waits # <<>> \/ Head(wm).session < nopens
                  THEN excused \cup {"late"} ELSE excused
    /\ \/ UNCHANGED events
       \/ SDL_PushEvent(<<"seek">>)
    /\ UNCHANGED <<waits, m_bMute, sharedVars, sdl, playVars, stateVars,
                   readVars, nopens, ncommands, lost>>

\* END and FILE_INVALID: both stop; after END the dialog asks for the next
\* file, which is a Play of its own.
OnEnd ==
    /\ wm # <<>> /\ Head(wm).msg # "START" /\ wm' = Tail(wm)
    /\ status' = "Stoped"
    /\ DoStop
    /\ UNCHANGED <<m_bMute, sharedVars, sdl, playVars, stateVars, readVars,
                   historyVars>>

\* The window procedure of CMsgWnd.
WndProc == OnStart \/ OnEnd

window_thread ==
    \/ Play \/ StopContinues \/ OnBtnStop \/ DoPause \/ SetMute \/ Seek
    \/ WndProc

-----------------------------------------------------------------------------
(* The PlayCmdThread.  Between two messages of its own it is idle; Open      *)
(* keeps it until the playback is over.                                     *)

\* WM_PlayerThread_Open, up to SDL_Init.
TakeOpen ==
    /\ ppc = "idle" /\ tmsgs # <<>>
    /\ session' = Head(tmsgs) /\ tmsgs' = Tail(tmsgs)
    /\ \/ ppc' = "ignore" /\ sdl' = 1
       \/ "sdl" \in Failures /\ ppc' = "signal" /\ UNCHANGED sdl
    /\ UNCHANGED <<windowVars, g_bStop, stopEvent, events, stateVars,
                   readVars, historyVars>>

Quits == {i \in DOMAIN events : events[i] = "quit"}

\* SDL_EventState(SDL_USEREVENT, SDL_IGNORE) empties the queue of that type;
\* the quit event has another one.
IgnoreUserEvents ==
    /\ ppc = "ignore"
    /\ events' = [i \in 1 .. Cardinality(Quits) |-> "quit"]
    /\ ppc' = "open"
    /\ UNCHANGED <<windowVars, sharedVars, sdl, session, stateVars, readVars,
                   historyVars>>

\* The window and the renderer, then stream_open, which zeroes the VideoState
\* and starts the read thread; without a window do_exit(NULL).
StreamOpen ==
    /\ ppc = "open"
    /\ \/ /\ ppc' = "settings"
          /\ rpc' = "opening" /\ left' = NStreams
          /\ paused' = 0 /\ step' = 0 /\ muted' = 0 /\ seek_req' = 0
          /\ abort_request' = 0
          /\ UNCHANGED sdlVars
       \/ /\ "sdl" \in Failures
          /\ ppc' = "signal"
          /\ sdl' = 0 /\ events' = <<>>
          /\ UNCHANGED <<stateVars, readVars>>
    /\ UNCHANGED <<windowVars, sharedVars, session, historyVars>>

\* Defect: the playback keeps the setting stream_open gave it.
Settings_None ==
    /\ ppc = "settings"
    /\ ppc' = "pump"
    /\ UNCHANGED <<windowVars, sharedVars, sdlVars, session, stateVars,
                   readVars, historyVars>>

\* Every playback starts with the volume and mute settings of the player.
Settings ==
    /\ ppc = "settings"
    /\ muted' = m_bMute
    /\ ppc' = "pump"
    /\ UNCHANGED <<windowVars, sharedVars, sdlVars, session, paused, step,
                   seek_req, abort_request, readVars, historyVars>>

\* SDL_PumpEvents takes the thread's messages, whatever they are.
PumpEvents ==
    /\ ppc = "pump"
    /\ lost' = lost + Len(tmsgs) /\ tmsgs' = <<>>
    /\ ppc' = "peep"
    /\ UNCHANGED <<windowVars, g_bStop, stopEvent, sdlVars, session, stateVars,
                   readVars, nopens, ncommands, excused>>

\* The read thread sets up a step by one frame; one is set up or pending.
SetsUpStep == rpc \in {"step", "toggle", "unpause", "repause", "stepped"}
Stepping == (step = 1 /\ paused = 0) \/ SetsUpStep

\* event_loop takes one event.  A toggle starts with a look at paused; the
\* stores come later.
HandleEvent ==
    /\ ppc = "peep" /\ events # <<>>
    /\ events' = Tail(events)
    /\ \/ /\ Head(events) = "toggle"
          /\ ppc' = IF paused = 1 THEN "resume" ELSE "pause"
          /\ excused' = IF Stepping THEN excused \cup {"step"} ELSE excused
          /\ UNCHANGED <<muted, seek_req>>
       \/ /\ Head(events) = "seek" /\ ppc' = "pump" /\ seek_req' = 1
          /\ UNCHANGED <<muted, excused>>
       \/ /\ Head(events) \in {"mute", "unmute"} /\ ppc' = "pump"
          /\ muted' = IF Head(events) = "mute" THEN 1 ELSE 0
          /\ UNCHANGED <<seek_req, excused>>
       \/ /\ Head(events) = "quit" /\ ppc' = "exit"
          /\ UNCHANGED <<muted, seek_req, excused>>
    /\ UNCHANGED <<windowVars, sharedVars, sdl, session, paused, step,
                   abort_request, readVars, nopens, ncommands, lost>>

\* toggle_pause stores the other value of paused, ...
stream_toggle_pause ==
    /\ ppc \in {"pause", "resume"}
    /\ paused' = IF ppc = "pause" THEN 1 ELSE 0
    /\ ppc' = "unstep"
    /\ UNCHANGED <<windowVars, sharedVars, sdlVars, session, step, muted,
                   seek_req, abort_request, readVars, historyVars>>

\* Defect: the step of a seek made while paused is not forgotten.
toggle_pause_KeepStep ==
    /\ ppc = "unstep"
    /\ ppc' = "pump"
    /\ UNCHANGED <<windowVars, sharedVars, sdlVars, session, stateVars,
                   readVars, historyVars>>

\* ... and then forgets a step; the read thread may run in between.
toggle_pause ==
    /\ ppc = "unstep"
    /\ step' = 0
    /\ ppc' = "pump"
    /\ UNCHANGED <<windowVars, sharedVars, sdlVars, session, paused, muted,
                   seek_req, abort_request, readVars, historyVars>>

\* The picture is shown; then perhaps the end of the file is seen.
Refreshed ==
    \/ ppc' = "pump" /\ UNCHANGED wm
    \/ left = 0 /\ PostMessage("END") /\ ppc' = "ended"

\* No event: video_refresh, which sees that a stepped picture is shown ...
Refresh ==
    /\ ppc = "peep" /\ events = <<>>
    /\ \/ step = 1 /\ paused = 0 /\ ppc' = "freeze" /\ UNCHANGED wm
       \/ Refreshed
    /\ UNCHANGED <<dlg, status, waits, m_bMute, sharedVars, sdlVars, session,
                   stateVars, readVars, historyVars>>

\* ... and pauses again.  Nobody else stores paused since the look at it: the
\* read thread that may have is done when step is 1.
Freeze ==
    /\ ppc = "freeze"
    /\ paused' = 1 - paused
    /\ Refreshed
    /\ UNCHANGED <<dlg, status, waits, m_bMute, sharedVars, sdlVars, session,
                   step, muted, seek_req, abort_request, readVars, historyVars>>

\* The flag goes up after the message is posted.
Ended ==
    /\ ppc = "ended"
    /\ g_bStop' = 1
    /\ ppc' = "exit"
    /\ UNCHANGED <<windowVars, stopEvent, tmsgs, sdlVars, session, stateVars,
                   readVars, historyVars>>

\* do_exit: stream_close aborts and joins the read thread, ...
StreamClose ==
    /\ ppc = "exit"
    /\ abort_request' = 1
    /\ ppc' = "join"
    /\ UNCHANGED <<windowVars, sharedVars, sdlVars, session, paused, step,
                   muted, seek_req, readVars, historyVars>>

\* Defect: the read thread is not waited for.
Quit_NoJoin ==
    /\ ppc = "join"
    /\ sdl' = 0 /\ events' = <<>>
    /\ ppc' = "signal"
    /\ UNCHANGED <<windowVars, sharedVars, session, stateVars, readVars,
                   historyVars>>

\* ... SDL_Quit empties the event queue.
Quit ==
    /\ ppc = "join" /\ rpc = "gone"
    /\ sdl' = 0 /\ events' = <<>>
    /\ ppc' = "signal"
    /\ UNCHANGED <<windowVars, sharedVars, session, stateVars, readVars,
                   historyVars>>

\* Defect: nobody is told.
SignalStop_Silent ==
    /\ ppc = "signal"
    /\ ppc' = "idle"
    /\ UNCHANGED <<windowVars, sharedVars, sdlVars, session, stateVars,
                   readVars, historyVars>>

\* Open has returned.
SignalStop ==
    /\ ppc = "signal"
    /\ stopEvent' = "set"
    /\ ppc' = "idle"
    /\ UNCHANGED <<windowVars, g_bStop, tmsgs, sdlVars, session, stateVars,
                   readVars, historyVars>>

PlayCmdThread ==
    \/ TakeOpen \/ IgnoreUserEvents \/ StreamOpen \/ Settings \/ PumpEvents
    \/ HandleEvent \/ stream_toggle_pause \/ toggle_pause \/ Refresh
    \/ Freeze \/ Ended \/ StreamClose \/ Quit \/ SignalStop

-----------------------------------------------------------------------------
(* The read thread.                                                        *)

\* The file is open and its streams are known.
OpenFile ==
    /\ rpc = "opening"
    /\ rpc' = "streams"
    /\ UNCHANGED <<windowVars, sharedVars, sdlVars, playVars, stateVars, left,
                   historyVars>>

StreamOpened ==
    /\ left' = left - 1
    /\ rpc' = IF left = 1 THEN "run" ELSE "streams"

\* stream_component_open: the first stream of a playback posts START, unless
\* the playback before has left the flag down, and a later stream too if the
\* flag was raised in between ...
OpenStream ==
    /\ rpc = "streams" /\ left > 0
    /\ \/ /\ g_bStop = 1
          /\ PostMessage("START")
          /\ rpc' = "started"
          /\ UNCHANGED left
       \/ /\ g_bStop = 0
          /\ StreamOpened
          /\ UNCHANGED wm
    /\ excused' = IF g_bStop = 1 <=> left = NStreams
                  THEN excused ELSE excused \cup {"start"}
    /\ UNCHANGED <<dlg, status, waits, m_bMute, sharedVars, sdlVars, playVars,
                   stateVars, nopens, ncommands, lost>>

\* ... and then lowers the flag.
LowerStop ==
    /\ rpc = "started"
    /\ g_bStop' = 0
    /\ StreamOpened
    /\ UNCHANGED <<windowVars, stopEvent, tmsgs, sdlVars, playVars, stateVars,
                   historyVars>>

\* The file does not open, or its opening is interrupted.
OpenFails ==
    /\ rpc = "opening"
    /\ "file" \in Failures \/ abort_request = 1
    /\ PostMessage("FILE_INVALID")
    /\ rpc' = "failed"
    /\ UNCHANGED <<dlg, status, waits, m_bMute, sharedVars, sdlVars, playVars,
                   stateVars, left, historyVars>>

FailQuits ==
    /\ rpc = "failed"
    /\ SDL_PushEvent(<<"quit">>)
    /\ rpc' = "gone"
    /\ UNCHANGED <<windowVars, sharedVars, sdl, playVars, stateVars, left,
                   historyVars>>

\* The head of the read loop.
ReadLoop ==
    /\ rpc = "run"
    /\ \/ abort_request = 1 /\ rpc' = "gone" /\ UNCHANGED seek_req
       \/ abort_request = 0 /\ seek_req = 1 /\ seek_req' = 0 /\ rpc' = "sought"
    /\ UNCHANGED <<windowVars, sharedVars, sdlVars, playVars, paused, step,
                   muted, abort_request, left, historyVars>>

\* The event loop is in toggle_pause.
Toggling == ppc \in {"pause", "resume", "unstep"}

\* After a seek a paused playback steps by one frame: two looks at paused, the
\* load and the store of a toggle and the store of step, none of them
\* protected; each thread's stores may undo the other's.
StepWhenPaused ==
    /\ \/ /\ rpc = "sought"
          /\ rpc' = IF paused = 1 THEN "step" ELSE "run"
          /\ excused' = IF paused = 1 /\ Toggling THEN excused \cup {"step"}
                                                ELSE excused
          /\ UNCHANGED <<paused, step>>
       \/ /\ rpc = "step"
          /\ rpc' = IF paused = 1 THEN "toggle" ELSE "stepped"
          /\ UNCHANGED <<paused, step, excused>>
       \/ /\ rpc = "toggle"
          /\ rpc' = IF paused = 1 THEN "unpause" ELSE "repause"
          /\ UNCHANGED <<paused, step, excused>>
       \/ /\ rpc \in {"unpause", "repause"}
          /\ paused' = IF rpc = "repause" THEN 1 ELSE 0
          /\ rpc' = "stepped"
          /\ UNCHANGED <<step, excused>>
       \/ /\ rpc = "stepped"
          /\ step' = 1
          /\ rpc' = "run"
          /\ UNCHANGED <<paused, excused>>
    /\ UNCHANGED <<windowVars, sharedVars, sdlVars, playVars, muted, seek_req,
                   abort_request, left, nopens, ncommands, lost>>

read_thread ==
    \/ OpenFile \/ OpenStream \/ LowerStop \/ OpenFails \/ FailQuits
    \/ ReadLoop \/ StepWhenPaused

\* video_thread, which runs before its stream, the last one, is dealt with,
\* cannot configure its filters: it asks the event loop to quit and tells
\* nobody else.  Bound: only into an empty event queue.
FilterFails ==
    /\ "filter" \in Failures
    /\ left = 0 \/ (left = 1 /\ rpc \in {"streams", "started"})
    /\ ppc \notin {"idle", "ignore", "open", "signal"}
    /\ events = <<>>
    /\ SDL_PushEvent(<<"quit">>)
    /\ UNCHANGED <<windowVars, sharedVars, sdl, playVars, stateVars, readVars,
                   historyVars>>

-----------------------------------------------------------------------------
Next == window_thread \/ PlayCmdThread \/ read_thread \/ FilterFails

Spec == Init /\ [][Next]_vars

\* The threads run, and the window thread takes its messages and leaves a
\* wait that was signalled; what the user does is the user's choice, and no
\* timeout is counted upon.
FairSpec ==
    /\ Spec
    /\ WF_vars(PlayCmdThread)
    /\ WF_vars(read_thread)
    /\ WF_vars(stopEvent = "set" /\ StopContinues)
    /\ WF_vars(WndProc)

-----------------------------------------------------------------------------
(* Properties.                                                             *)

\* Nothing is on its way between the threads.
Quiet ==
    /\ waits = <<>> /\ wm = <<>> /\ events = <<>> /\ tmsgs = <<>>
    /\ ppc \in {"idle", "pump", "peep"} /\ rpc \in {"off", "run", "gone"}
    /\ seek_req = 0 /\ ~Stepping

Watched == Quiet /\ ppc # "idle" /\ excused = {}

\* A toggle event says "the other one": the status the window shows is the
\* playback's nevertheless, through seeks that step by a frame, except where
\* a toggle and such a step overlapped in time ("step"), START was handled late
\* ("late") or not sent exactly once ("start").
PauseAgrees ==
    Watched => /\ status = "Playing" => paused = 0
               /\ status = "Pause" => paused = 1

\* A mute set at any moment, the opening included, is the one that is heard.
MuteSticks == Watched /\ status = "Playing" => muted = m_bMute

\* A playback leaves nothing behind for the next one: neither its read
\* thread, which works on a VideoState that is freed, nor an event.
Teardown ==
    ppc = "idle" => rpc \in {"off", "gone"} /\ sdl = 0 /\ events = <<>>

\* When a read thread can be at work, when SDL is up, and that there is a
\* playback then.
PlayInv ==
    /\ ppc \in {"idle", "ignore", "open", "signal"} => rpc \in {"off", "gone"}
    /\ ppc \in {"idle", "signal"} => sdl = 0 /\ events = <<>>
    /\ ppc \notin {"idle", "signal"} => sdl = 1
    /\ ppc # "idle" => session > 0
    /\ rpc = "started" => left > 0

\* Every open was asked for once: it waits in a Stop, is posted, was taken or
\* was lost.
OpensInv ==
    /\ nopens + Cardinality(Pending) <= MaxOpens
    /\ lost + Len(tmsgs) <= nopens

\* The START messages of a playback that are on their way.
Starts(n) == {i \in DOMAIN wm : wm[i].msg = "START" /\ wm[i].session = n}

\* No START of this playback was posted yet; none was handled yet.
Unopened ==
    \/ ppc \in {"ignore", "open"}
    \/ rpc \in {"opening", "streams"} /\ left = NStreams
Awaiting == Unopened \/ Starts(session) # {}

\* What plays is what was asked for last, and the window has not lost track.
Tracked == excused = {} /\ session = nopens
Going ==
    /\ Tracked /\ Quits = {}
    /\ ppc \in {"open", "settings", "pump", "peep", "pause", "resume",
                "unstep", "freeze"}

\* Sessions only grow, and a playback that is tracked sends START once.
SessionInv ==
    /\ session <= nopens
    /\ \A i \in DOMAIN tmsgs :
          /\ session < tmsgs[i] /\ tmsgs[i] <= nopens
          /\ \A j \in DOMAIN tmsgs : i < j => tmsgs[i] < tmsgs[j]
    /\ \A i \in DOMAIN wm : wm[i].session <= session
    /\ Unopened => Starts(session) = {}
    /\ Tracked => \A i, j \in Starts(session) : i = j

\* The window shows a playback that has not sent START, or waits for its end,
\* only where it has lost track.
WindowInv ==
    /\ status \in {"Playing", "Pause"} => dlg = status
    /\ excused = {} /\ dlg \in {"Playing", "Pause"} => status = dlg
    /\ waits # <<>> /\ dlg \in {"Playing", "Pause"} => "late" \in excused
    /\ excused = {} /\ (session < nopens \/ Awaiting) =>
          dlg \notin {"Playing", "Pause"}

\* A playback that is tracked steps by a frame only while it is paused and not
\* in the middle of a toggle, and is paused again after a step only.
StepInv ==
    Tracked => /\ rpc \in {"step", "toggle", "unpause"} => paused = 1
               /\ rpc # "repause" /\ ~(Toggling /\ SetsUpStep)
               /\ ppc = "freeze" => paused = 0 /\ step = 1

\* Paused, or about to be paused again after a step by one frame; in the
\* middle of a toggle, what it makes of it.
WillPause ==
    IF \/ ppc = "pause"
       \/ ppc = "unstep" /\ paused = 1
       \/ ~Toggling /\ (SetsUpStep \/ paused = 1 \/ step = 1)
    THEN 1 ELSE 0

\* A pause that is b becomes v through the events of q; c is its history.
Becomes(b, q, v) ==
    \E c \in [0 .. Len(q) -> {0, 1}] :
        /\ c[0] = b /\ c[Len(q)] = v
        /\ \A i \in 1 .. Len(q) :
              c[i] = IF q[i] = "toggle" THEN 1 - c[i - 1] ELSE c[i - 1]

\* The status that is shown is what the pause becomes; a playback of which the
\* window does not know yet is not paused.
PauseInv ==
    /\ Going /\ Awaiting =>
          /\ \A i \in DOMAIN events : events[i] # "toggle"
          /\ ppc # "open" => WillPause = 0
    /\ Going /\ status \in {"Playing", "Pause"} =>
          Becomes(WillPause, events, IF status = "Pause" THEN 1 ELSE 0)

\* The mute events of q, and that the last of them is e.
Mutes(q) == {i \in DOMAIN q : q[i] \in {"mute", "unmute"}}
LastMute(q, e) ==
    \A i \in Mutes(q) : (\A j \in Mutes(q) : j <= i) => q[i] = e

\* The mute that is set is what the queue or, when it is empty of them, the
\* playback has.
MuteInv ==
    Going /\ (status = "Playing" \/ Awaiting) =>
        /\ LastMute(events, MuteEvent(m_bMute))
        /\ Mutes(events) = {} =>
              ppc \in {"open", "settings"} \/ muted = m_bMute

\* While the flag is down the player has something to wait for: where the
\* thread is idle again, its signal has not been taken yet.
FlagInv ==
    /\ stopEvent = "none" => nopens = 0 /\ g_bStop = 1
    /\ g_bStop = 0 /\ ppc = "idle" => stopEvent = "set"

\* The inductive invariant of PlayControlProofs.
IInv ==
    /\ TypeOK /\ PlayInv /\ OpensInv /\ FlagInv
    /\ SessionInv /\ WindowInv /\ StepInv /\ PauseInv /\ MuteInv

\* The end of the playback has been asked for, is on its way, or is signalled.
Heard ==
    stopEvent = "set" \/ Quits # {} \/ ppc \in {"exit", "join", "signal"}

\* A Stop begins to wait only where something will wake it, whatever the
\* PlayCmdThread is doing at that moment: its quit is dropped where SDL is
\* down.  And what was asked for stays heard until a wait has ended or a Play
\* dispatched meanwhile has reset the event.
StopIsHeard ==
    [][ /\ Len(waits') > Len(waits) => Heard'
        /\ Heard => Heard' \/ Len(waits') < Len(waits) \/ nopens' > nopens ]_vars

\* The innermost Stop that waits once the playback was asked to quit is woken
\* by its end and not by the 2000 ms, unless it dispatches a further Stop or a
\* Play that resets the event.  The one signal wakes no Stop around it.
StopWakes ==
    \A n \in 1 .. MaxOpens, k \in 1 .. MaxNest :
        Len(waits) = k /\ Quits # {} /\ nopens = n
            ~> Len(waits) # k \/ nopens > n

\* "Wait for the playback before to leave, or else the thread messages that
\* follow fail": no open is taken by SDL_PumpEvents.
OpenIsServed == lost = 0
=============================================================================
