# A TLA+ development of LMPlayer

LMPlayer is a Windows media player: a SOUI user interface (`LePlayer`) over a
player DLL (`Player`), which is ffmpeg's `ffplay` turned into a component that
is opened, stopped, paused and seeked from a window thread. This directory
holds TLA+ models of the playback, its control, the play list and the usage
reports, the TLC configurations that check them, and TLAPS proofs about them.

1. [Inventory](#1-inventory): the system, its state, what is hard about it
2. [Modules](#2-modules-and-the-code): how they correspond to the code
3. [Runs](#3-runs): questions, bounds, fairness
4. [Proofs](#4-proofs)
5. [Findings and observations](#5-findings-and-observations)
6. [What is not modelled](#6-abstractions-and-what-is-not-modelled)
7. [Plan](#7-plan)

To repeat: `tlc -config PlayVideo.cfg MCMediaPipe.tla`,
`tlapm MediaPipeProofs.tla`. Line numbers refer to the sources beside this
directory, under `src/`.

## 1. Inventory

| Component | State | Operations | Talks to |
|---|---|---|---|
| Playback pipeline, `Player/ffplay.h` | `VideoState`: a `PacketQueue`, `Decoder` and `FrameQueue` per stream, seek request, `eof`, `paused`, `step`, clocks | `read_thread`, `audio_thread` / `video_thread`, `sdl_audio_callback`, `event_loop` with `video_refresh`, `stream_seek`, `stream_close` | shared memory with unlocked flags; SDL mutexes and condition variables; window messages START, END, FILE_INVALID |
| Player control, `Player/ffplayer.cpp`, `MsgWnd.cpp` | `g_bStop`, `m_hEvent_Stop`, settings, callbacks | `OpenAndPlay`, `Stop`, `Play` / `Pause`, `Seek`, `SetMute`, `SetVolume`; the `PlayCmdThread` | thread messages and SDL events to the playback; window messages back |
| Player dialog, `LePlayer/PlayerDlg.cpp` | status shown, current file, resolution | `Play`, `DoStop`, `DoPause`, `OnPlayStart`, `OnPlayEnd`, `OnFileInvalid` | player control, play list |
| Play list, `LePlayer/SListDlg.cpp`, with the handlers of `MainDlg.cpp` | items shown, the number of the marked one, the MD5 of the playing file, the reload timer | insert, delete, clear, remove what is gone, next, last, mark | dialog, database; everything by posted messages |
| Usage reports, `LeReport/Reporter.cpp` | static list, mutex, event and instance; a worker per instance | `GetInstance`, `SendRTD_*`, `DoBtnSend`, `QuitThread` | any thread of the player; HTTP |
| Daily counts, `LeReport/Recorder.cpp`, `SendCollectData` | a file of counts and the date of the last upload | `AddCount`; read, post, remove, stamp | two threads with no lock; HTTP |
| Local database, `LeDB` | play history and settings in sqlite | insert, query, trim | everything above |
| Update and download, `LePlayer/Update`, `LePlayer/download`, `Update` | version, package, progress | check, download, verify, install | network, launcher |
| Background programs `LeDaemonWork`, `LpService`, `Launch` | timers, settings | pop up, repair, start | pipes, registry, network |
| Library headers `Baseclass/SRWLock.h`, `RingBuffer.h`, `asynctask.h`, `pipes` | counts and events, storage, tasks, connections | lock, write and read, run tasks, serve a pipe | no program of this repository includes them |

The remaining parts (dialogs, file association, command line, strings, hashing,
build scripts, vendored SOUI, WTL, ffmpeg, SDL, sqlite and zip) are listed in
`PROJECT.json` with the reason they are left out.

What makes the player hard:

- **Five threads.** The window thread, the `PlayCmdThread` (which runs SDL's
  event loop while something plays), the read thread, one decoder thread per
  stream and SDL's audio callback; and beside them the start-up thread and the
  reports' worker.
- **Unlocked sharing by design.** `FrameQueue` keeps its indices outside the
  mutex; packet queue serials, `eof`, `seek_req`, `paused` and `abort_request`
  are read and written with no lock. The reports lock their list and not the
  event that says it is not empty; the counts lock nothing.
- **Seeks do not stop the pipeline.** Old and new data coexist everywhere and
  are told apart by serial numbers only.
- **Three kinds of message.** Thread messages (open), SDL events (quit, toggle,
  mute, seek) and window messages (START, END, FILE_INVALID), each with its own
  way of being lost, flushed or handled late; and a `Stop` that dispatches
  window messages while it waits.
- **Copies that drift.** The list on the screen is a copy of a table that
  changes first; the playing item is a number that goes by position.
- **Failures half-way.** A file that does not open, an I/O error, filters that
  cannot be configured, a `Stop` whose two seconds run out, a program that ends
  between an upload and the removal of what was uploaded.

What makes each part correct:

- *FrameQueue*: nobody reads a slot in the making; a frame shown stays whole;
  FIFO; neither side is left asleep, at an abort least of all.
- *MediaPipe*: frames carry the right serial; nothing from before a seek is
  presented as new; presentation advances; no sample is lost; every playback
  ends, and a stop ends it at any moment; END means the end.
- *PlayControl*: what the window believes about pause and mute is so; a playback
  leaves nothing behind; a `Stop` is woken; no open is lost.
- *PlayList*: what is shown is stored; the mark follows the file wherever its
  item moves; the loop passes over no file and goes on by itself.
- *Reporter*: each report goes out at most once and in order; none stays behind
  but where a signal was thrown away; a quit returns.
- *DailyCounts*: no event is lost or counted twice but in windows that can be
  named; one upload a day.

## 2. Modules and the code

`PROJECT.json` maps each definition to its lines. Operators keep the source's
names where one exists. Operators with a suffix (`PeekWritable_Late`, ...) are
defects the properties are tried against; no behaviour uses them.

| Module | Models | Theorems in |
|---|---|---|
| `FrameFifo` | What a frame queue promises: frames leave once each, in order, within its capacity; abstract, no code of its own | |
| `FrameQueue` | The ring of `ffplay.h` 169-181 and 729-864 between a decoder, a reader and the thread that closes it | `FrameQueueProofs` |
| `MediaPipe` | One playback, `stream_open` to `stream_close` | `MediaPipeProofs`, `MediaPipeOrderProofs`, `MediaPipeGapProofs` |
| `MCMediaPipe` | The small files the model checker plays | |
| `PlayControl` | The window thread, the `PlayCmdThread` and the read thread's part in control | `PlayControlProofs` |
| `PlayList` | `SListDlg`, and what `CMainDlg` and `CPlayerDlg` do to the list | `PlayListProofs` |
| `MCPlayList` | The files of its runs; `FilterAssumption` compares its filter with `SelectSeq` on short lists | |
| `Reporter` | The list of reports, its worker, `GetInstance`, `QuitThread` | `ReporterProofs` |
| `DailyCounts` | `AddCount` against `SendCollectData`, over runs and days | `DailyCountsProofs` |

The modules meet at abstractions. The rings of `MediaPipe` are the abstract
queue `FrameFifo`, which `FrameQueue` is proved to implement. `PlayControl` has
the control of one playback after another, without the data of `MediaPipe`.
`PlayList` sees the player as something that starts a file, reports it invalid or
ends it, which is what `PlayControl` shows the window.

### FrameQueue

A decoder and a reader each go through the unlocked steps of the code one by
one: test and wait (under the mutex), choose the slot, fill it or read it, advance the
index, then change `size` (under the mutex again) and signal. `reader`, chosen in
`Init` and never changed, is either the audio callback, which may wait in
`peek_readable`, or the refresh loop, which polls `nb_remaining` and is the closing
thread itself. `SDL_CondSignal` wakes any one waiter and is lost when there is
none. `Torn` is a slot being filled. The Windows build of `audio_decode_frame`
polls before it reads, so the waiting branch of the callback is a superset of what
that build does. `ImplementsFifo` shows the ring to implement `FrameFifo` under a
refinement mapping whose subtlety is `InUse`: the number of filled slots is `size`
corrected for a decoder or a reader that is between its index and the mutex.

### MediaPipe

A packet is a position in the file; a codec is a sequence of packets held back
by `Delay`; a frame carries the serial of its packet (`of`, history) and the one
stamped on it (`serial`). What happens under one mutex is one step; what is
read without it is a step of its own:

| Thread | Program counter | Steps |
|---|---|---|
| read thread | `rpc` | `Open`, `OpenFails`, `LoopTop`, `SeekFlush`, `SeekPutFlush`, `SeekDone`, `ClearEof`, `ReadFrame`, `PutNull`, `SetEof` |
| decoder of each stream | `dpc` | `Decode` (the first serial test and the codec), `packet_queue_get`, `UsePacket` (the second test), `QueueFrame` or `DropEarly` |
| audio callback | `held` | `AudioTake`, `AudioPlay` |
| event thread | `epc` | `RefreshIdle`, `RefreshStale`, `RefreshDue`, `VideoShow`, `CheckEnd` (three separate reads), `stream_seek`, `BeginClose`, `JoinReadThread`, `AbortDecoder`, `JoinDecoder` |

`base` is history: the position at which each serial was started.

### PlayControl

The window thread runs one handler at a time; `waits` is the stack of calls of
`Stop` that are dispatching. `StopContinues` is a waiting `Stop` that goes on,
woken or timed out. `PumpEvents` takes every thread message, which is how an
open is lost. A toggle of the event thread is a look at `paused` (`HandleEvent`)
and two stores (`stream_toggle_pause`, `toggle_pause`); the frame step of the read
thread is two looks, the load and the store of a toggle and the store of `step`
(`StepWhenPaused`); `Refresh` sees a stepped picture and `Freeze` pauses it again.
None of these is locked, so each is a step. `OpenFile`, `OpenStream` and `LowerStop`
are the opening, and filters may fail (`FilterFails`) as soon as only the last
stream is still to be dealt with. Messages and playbacks carry a session number,
which is history except that the code would need it.

### PlayList

Everything here runs on the user interface thread, one handler at a time, so
the interleaving is that of messages: `posted` is the thread's queue, input and
timers come when it is empty, and the player appends START, END and FILE_INVALID
to it at any moment.

| Code | Model |
|---|---|
| the table `LocalFileList`, two settings | `LocalFileList` (newest first), `playOrder`, `noMark` |
| the items on the screen, `m_nPlayingID`, `m_sPlayMd5`, `ET_RELOAD_LIST`, `m_nSelID` | `items`, `m_nPlayingID`, `m_sPlayMd5`, `reload`, `m_nSelID` |
| `CPlayerDlg`: status, `m_sPlayData`, `m_bNoMark` | the same names; `signal` is `eSignalType` |
| `ReListWnd`, `UpdateListItemTimer`, `OnTimer` | operator `ReListWnd`; `OnRedraw`, `OnRedrawNoSort`, `OnTimer` |
| `PlayNext`, `PlayLast` | the sets of items they may choose, for the five orders; random play chooses any |
| the pointer that `REDRAW_LISTWND_NOSORT` carries into `m_sMd5` | `Dangling`: `Play` assigns the string, and the message then names any file |

A file is itself its MD5. `unmarked` is history: playback without traces has been
on since a file was last marked, the only excuse of `MarkAgrees`.

### Reporter

The callers are threads of the player, the workers those of the `CReporter`s they
build; `cpc` and `wpc` are their program counters. `m_lsBtnTJ` is the only thing
under the mutex, so `Look`, `Count`, `Take` and `Recount` are one step each,
and `ResetEvent` after them is another. `m_hBtnWork`, static, is replaced by every
constructor; `waitsOn` is the handle a worker gave to `WaitForSingleObject`, which
reads it once. `GetInstance` is its test, the constructor's two effects and the
assignment. A report is the number with which it entered the list. `dropped` is
history: a reset or a new event met a list with work.

### DailyCounts

`ReadCount` and `WriteCount` are the two file accesses of `AddCount`, on the thread
of the user interface at any moment and on the start-up thread before it compares
the dates (`DoInit` takes the command line first); `CompareDate`, `EnumKeys`, `EnumCount`, `EndEnum`, `doPost`, `Answer`,
`RemoveDailyFile` and `SetTime` those of `SendCollectData`, which the start-up
thread runs once in a run of the program. `Restart` ends the program anywhere,
`Midnight` advances the date. External: the server, which adds up what it takes,
the clock and the file system. `taken` says whether the server took the last post;
`doPost` and `Answer` are independent choices otherwise, since the code looks at no
HTTP status and reads a missing `code` as 0. History variables name the windows:

- `wrote` and `missed`: a kind counted between its reading and the removal of the file;
- `collided`: both threads were in `AddCount` for the kind at once;
- `misread`: posted, not taken, and removed on an answer that reads like success;
- `doubled`: the answer was lost, the program ended before the removal, the removal
  failed, or an `AddCount` straddled it;
- `unstamped`: an upload whose date was not written.

With any one of `missed`, `collided`, `misread` or `doubled` not excused the model
checker finds a counterexample, so each window is real.

## 3. Runs

All runs stop on purpose somewhere (a playback is closed, the user asks for
nothing more), so none checks for deadlock; that nobody is stuck is what the
liveness properties say.

| Run | Question | Bounds |
|---|---|---|
| `frame_queue` | Are slots and order safe, for the polled picture queue and for the callback's, and does nobody sleep for ever, at an abort or otherwise? | 4 slots, one kept, 3 frames, both readers |
| `play_video` | Pictures, some of them dropped, one seek at any moment, maybe a stop: seeks honoured, end reached, the invariant of the proofs | 3 packets, targets 1 and 3 |
| `play_audio` | Sound: honest serials, nothing of the current serial is thrown away, no gap, and a stop closes whatever fails | 5 packets, one of another stream; failing open, seek and I/O |
| `play_both` | Both decoders, callback and event thread, frame drops: is all that is under way in order, and presentation with it? | 3 packets, no stop |
| `play_control` | Do window and playback agree through stops, timeouts, failures, and does a `Stop` wait only for what will wake it? | 2 opens, 2 commands, two waits of `Stop` inside each other |
| `play_list` | Does the list stay what it shows, the mark on its file, the loop going? | 2 files listed and a third, which does not open; 3 things the user does; all orders |
| `reporter` | Once, in order, not left behind, a quit returns? | 2 threads that report, 2 reports, 1 quit |
| `daily_counts` | What is lost or doubled, over two threads that count, crashes, and answers lost or misread? | 2 kinds, 2 events of each, 3 runs, 2 days |
| `end_too_soon`, `open_is_lost`, `reports_go_out`, `playing_is_marked` | Disagreements with what the code says of itself, section 5 | smallest that show them |

Why these are enough. The ring's size only matters as full, empty and wrapped:
four slots with one kept wrap after three frames, and the theorems cover any
size, the subtitle ring that keeps no slot included. In `MediaPipe` a seek must be able to
meet data of its old serial in the
packet queue, in the decoder's hand, in the codec, in its hand again as a frame, in the
ring and at the presenter; three packets with `Capacity` 2 and `Delay` 1 fill
all of these, and a seek forward and back distinguish the directions. The
safety results hold for every file and number of seeks by proof. `MIN_FRAMES`
bounds a packet queue through `stream_has_enough_packets`; 0 and 1 stand for 25.
`play_both` explores 1.7 million states and `play_audio` 490,000 with liveness
(minutes each), which is why `play_both` has one seek
and no stop. `play_control` has about 597,000 states; two nested waits are what
tells the `Stop` that is woken from the one around it. `play_list`: two items tell next from last and
from wrapped, a third file makes the marked item move, and three inputs suffice
for "play, pause, add" or "play, menu, delete" with the player's answers
between any two of them; about 375,000 states. `reporter`: two callers are what a second
instance takes, and its second report is the one that meets the reset (about
181,000 states). `daily_counts`: two
kinds, so that one is written while the other is read, and a third run after
one that was cut off has cleaned up after it (about 5.9 million states).

Bounds in the guards: `MaxSeeks`, `MaxStops` (seeks and stops of the user),
`MaxOpens`, `MaxCommands` (opens and other commands), `MaxNest` (waiting calls
of `Stop` inside one another), `MaxInputs` (things done to the list),
`MaxReports`, `MaxQuits`, `MaxAdds`, `MaxStarts`, `MaxDay`.

**Fairness.** Threads are scheduled by the operating system: each thread's
next-step relation is weakly fair, as one disjunction, so nothing is assumed of
the choices inside it. `RefreshDue` is strongly fair: a picture that is
inspected again and again becomes due since the clock advances, while a picture
not yet due lets the loop continue; weak fairness would not express it because
the step is disabled between two inspections. The user (seek, stop, open,
pause) owes nothing, and neither does the 2000 ms timeout: `StopWakes` holds
through the event. In `FrameQueue` the reader is fair, which assumes the
playback is not paused. In `PlayList` the message loop, the timer and the player
are fair; that files go on being opened is a premise of `LoopVisitsAll`, and
`LoopGoesOn` promises nothing once the user has acted. In `Reporter` each worker is
fair, and a caller that has begun to build, wake or join goes on; nobody has to
report. `DailyCounts` states safety only: nothing there has to happen.

## 4. Proofs

Proved with TLAPS, for every value of the constants allowed by the named
assumptions: `SizeAssumption` (the ring has more slots than it keeps);
`StreamsAssumption`, `FileAssumption`, `BoundsAssumption` of `MediaPipe`;
`ControlAssumption`; `ListAssumption` (the table at the start names files, each
once); `CallerAssumption` (`NULL` is no thread) and
`BoundAssumption`; `CountsAssumption` (the bounds are numbers).

**FrameQueue** (`FrameQueueInv`, `SlotsSafe`, `ShownFrameSafe`, `AbortIsHeard`).
`NoTornRead` is not inductive: that the reader's slot is whole depends on where
both indices are. The strengthening has three parts. `IndexInv` says that
`windex` is `InUse` slots after `rindex`, where `InUse` corrects `size` for a
thread caught between its index and the mutex, and what each thread knows about
`size` at each step (the decoder's test stays true since only the reader
lowers `size`, and vice versa). `ContentInv` says that the `InUse` slots from
`rindex` on are whole. `WaitInv` says who may be asleep: the decoder only when
the ring is full, the reader only when it is empty. The ring has at least one
slot beside the kept one, so both cannot be asleep, and one signal
is enough at an abort.

**The ring implements the queue** (`RingIsFifo`). The abstract sequence is the
window of unread slots, from the one after the kept slot to `windex`, taken modulo
`max_size`. Filling a slot and advancing `windex` extends it at the end (the
abstract `Enqueue`), the reader's unlocked step over a frame takes its head
(`Show`), destruction is `Close`, and every other step leaves it as it is: the
changes of `size` are made up for by `InUse`, and what is written to a slot
outside the window is not seen. The lemmas are the modular arithmetic of the
window and its ends; the invariant is that of `FrameQueueInv`.

**MediaPipe** (`MediaPipeInv`, `FramesAreHonest`, `SeeksAreHonoured`,
`CloseLeavesNothing`, `TypesHold`). The key of the argument is `FlushInv`: *a decoder that has not met
the current serial meets its flush packet first*. With it `CodecInv` follows:
once the serials agree, the codec holds packets of that serial only, or the
flush that empties it is in hand. `FrameInv` carries the serial from the packet to
the frame; `PlaceInv` says that whatever carries a serial was read at or after
where the seek of that serial went. `PhaseInv` holds the facts about who may
touch a queue when (a queue is aborted only before it is started and after
the read thread is gone; a seek stays requested while it is served, so that its
target does not change). The proof goes step by step per thread: first types,
then phases, then serials per stream, then places per stream.

Two more parts are about stopping. `SleepInv`: a decoder sleeps only on a packet
queue that is empty and not aborted, so neither a packet nor an abort can come
between its look at the queue and its sleep without waking it. This is the safety
half of `StopCloses`. `CloseInv` follows `stream_close` from stream to stream: one
that was never opened is empty and has no thread, one that was closed has no thread
left, no packet and nothing in the callback's hand. It gives `CloseLeavesNothing`,
that no thread of the playback works or sleeps on the `VideoState` that has been
freed (`ClosedIsOver`, a consequence of the invariant the run `play_video` checks;
it was checked by itself on the instances of `play_video` and `play_audio`, and with
both streams, a stop and failures).

**Presentation advances** (`OrderHolds`, `PresentationAdvances`). A frame's place is
its serial and its position, ordered in that order. `OrderInv` says of each
stage between the file and the screen that what it holds is in order and below
all that is behind it. It is phrased with sets: `BelowPkts` holds the places below
everything that the read thread may yet put and the packet queue holds,
`BelowPkt`, `BelowCodec`, `BelowFrm`, `BelowUnread` and `BelowHeld` each a stage
nearer to the screen. A step moves data across one boundary only; whatever happens
behind a stage, the places below it only grow, a seek included since it makes a
larger serial. So each step has to be examined at its own boundary and nowhere else.
What was presented last is in `BelowHeld`, so the next one is later.

**No sample is lost** (`CoverHolds`, `SoundHasNoGap`). `CoverInv` adds where
data *is* to where it may be. `Covered`: every position of the sound between the
start of the current serial and the read thread is carried by the packet queue, the
decoder's hand, its codec, its hand as a frame, the ring or the callback, or was
played. A decoder discards what is not of the current serial, and a flush empties
a codec that holds older packets only (`FlushOnce`: the current serial has one flush
packet, before all its data); `ShutInv` says when a queue may be aborted with data
in it. A position that is covered and below what the callback takes can, by
`OrderInv`, only have been played: that is `HeldIsNext`, and `SoundIsGapless` is
what it means for the step that plays.

**PlayControl** (`ControlInvariant`, `PlaybackLeavesNothing`,
`WaitingStopIsHeard`, `PauseIsAgreedOn`, `MuteIsHeard`). `Teardown` (a part of the
invariant the run checks) holds
because `do_exit` joins the read thread before it calls `SDL_Quit`; the invariant
`PlayInv` follows the `PlayCmdThread` through its program counter and says when the
read thread may be at work and SDL up. `OpensInv` counts every open once (waiting
in a `Stop`, posted, taken or lost), which the types of the session numbers need.
`StopIsHeard` is the safety half of `StopWakes`: the quit of a `Stop` is dropped where
SDL is down, so a `Stop` may wait between two playbacks only for a signal that has
been given already. That is `FlagInv`: the flag is down while the thread is idle only
as long as the event is set, since whoever takes the event raises the flag, and it is
lowered only by a read thread, which is gone by then (`PlayInv`). Where SDL is up the
quit is queued, `SDL_EventState` leaves it there, and the event loop that takes it
goes through `do_exit` to the signal.
`PauseAgrees` and `MuteSticks` speak of states in which nothing is on its way; the
invariant says what holds when something is. `SessionInv` and `WindowInv`: session
numbers only grow, a tracked playback sends START once, and the window shows a
playback as playing or paused only when that is the one it asked for last and START
was handled (or it has lost track, `excused`). `PauseInv` follows the toggles:
`Becomes(b, q, v)` says that a pause `b` turns into `v` through the queued events
`q`, by a history instead of a count, so that appending or taking one event extends
or cuts the history at one end; `WillPause` counts a playback that steps by one
frame as paused, which it will be again, and one in the middle of a toggle as what
the toggle makes of it. That is sound because of `StepInv`: in a playback that is
tracked no toggle is under way while the read thread sets up a step, since their
overlapping is recorded (`"step"`) on whichever side begins second. `MuteInv`: the last mute event in the queue,
or if there is none the playback itself, has the mute that is set.

**PlayList** (`WithoutIsFilter`, `ListInvariant`, `MarkFollowsFile`). What removes
files from the list and from the table is the recursive function `Without`. The
library's induction theorems cannot be applied here, so `WithoutIsFilter`, that it
leaves exactly the other rows, each once and in their order, is proved from
a least counterexample (`WFMin` of the well-founded order on the numbers). Then
`ItemsStored`, that every item shown is a row of the table, is a matter of each
handler. `MarkInv` says where the file to mark is to be looked for while a file
plays: in the last `REDRAW_LISTWND_NOSORT` of the queue, which will bring it; in
`m_sPlayMd5`, with the item it belongs to already marked; nowhere; or another item is
about to be played. Since `PlayNext` posts and others handle, most of the
proof is about queues: what appending and taking one message does to the last
message of a kind. It rests on `PlayedInv` (what is played or queued to be played has
a name, and nothing starts before it was opened) and `TracesInv` (when playback
without traces excuses the mark).

**Reporter** (`ReporterInvariant`, `EveryReportOnce`, `ReportsInOrder`,
`OnlyDropsLeave`). `Accounted` says that a report is in one place (list, hand,
posted, failed) and that the list is sorted; `Older`, for one worker, that what is
posted is older than what is in hand and that older than the list, which makes the
order inductive. `Constructed` says that nobody uses the event before a constructor
made one. `LeftOnlyByDrop` then follows from where a worker can be when the
event is not set.

**DailyCounts** (`CountsInvariant`, `CountsNotLost`, `CountsNotDoubled`,
`UploadOncePerDay`). `ReadInv` says for each of the two threads what the number it
holds in `AddCount` is worth: no less than the file's (`ReadLow`), unless both
threads counted that kind at once, and never more than what was counted
(`ReadHigh`), whichever of them writes last. `SendInv` says that the file holds what
was read until it is removed, of a kind that was not written since; `TakenInv` that
before the removal whatever is not excused was taken; `DayInv` how the date in the
file trails the last upload.

These invariants (`IInv` of each module, `OrderInv` and `CoverInv`) are also checked by
TLC in the runs, so a reader can see what they mean on a small instance.

**Only model-checked**: liveness (`SpaceFlows`, `FramesFlow`, `CloseTerminates`,
`PlaybackEnds`, `StopCloses`, `StopWakes`, `LoopVisitsAll`, `LoopGoesOn`,
`ReportsLeave`, `QuitReturns`), which is out of the prover's reach under fairness.
What of it is safety is proved: who sleeps has a reason to (`WaitInv`, `SleepInv`),
a `Stop` waits for something (`StopIsHeard`), a report stays behind only by a
dropped signal. That `MediaPipe`'s rings are the `FrameFifo` which `FrameQueue`
implements is a matter of how they are written and no theorem.

## 5. Findings and observations

Four runs end in a counterexample to something the code says of itself:

- `end_too_soon`: END ("playback over") can be sent in the middle of a seek away
  from the end of the file, because `eof` is cleared after the queues are
  emptied and the test for the end looks at no `seek_req`.
- `open_is_lost`: `Stop` does not wait while a file is being opened, so the
  open after it meets a running event loop, whose `SDL_PumpEvents` discards it.
  The comment at `ffplayer.cpp:326` describes just this danger.
- `reports_go_out`: the worker finds the list empty under the mutex and resets its
  event after it; a report between the two is not posted until another follows.
- `playing_is_marked`: a file that is added while another one is paused empties
  `m_sPlayMd5`, and the item that comes to have the marked number is shown as
  playing.

Two consequences of the design that the models show and that nothing in the
repository denies: END is sent when the packet queues are empty, so frames that
are decoded and not yet presented are cut off (`ffplay.h:3620`); and a stop
during the opening of a file does nothing, so that the playback starts
(`ffplayer.cpp:319`).

Seen while checking `PlayControl`, and the reason `PauseAgrees` and `MuteSticks`
are stated for a window that has not lost track (`excused = {}`):

- START handled late, after the user has already asked for something else
  (`"late"`), sets the status to playing.
- A `Stop` that raises `g_bStop` between the openings of two streams makes START
  go out twice, and a filter failure leaves `g_bStop` at 0 so that the next START
  is not sent at all (`"start"`).
- A toggle and the frame step of a seek made while paused, where they overlap in
  time, undo each other's stores: with the read thread between `ffplay.h:1564` and
  1570 the playback goes on (`paused` and `step` both 0) while the window shows
  Pause (`"step"`).
- The event is an auto-reset one, so the end of a playback wakes the innermost
  waiting `Stop` only; one around it sleeps its 2000 ms. `StopWakes` is
  therefore stated for the innermost.
- A `Play` dispatched by a waiting `Stop` resets the event, so that the outer
  `Stop` sleeps two seconds and then marks the new playback as stopped.
- An END of the playback before, handled after the next `Play`, stops that one:
  messages carry no session.

In the play list:

- Adding a file to the list stops what plays: `Native_Stop` comes before the
  question whether the file is only to be added (`MainDlg.cpp:418`, 463), and
  without traces the question is not asked, so that the file plays.
- A file that was played without traces, deleted or cleared away enters the list
  again when the next one is played (`MainDlg.cpp:371`, 461).
- `m_bNoMark` is read at `PlayerDlg.cpp:103` and brought up to date at 121, so a
  change of the setting takes effect one START late.
- After a stop the mark is 0 and next plays the first item; a file that does not
  open stops the sequence.
- Random play divides by the number of items, also when there are none
  (`SListDlg.cpp:134`, 182). The model does not take such a message.

In the reports:

- `SendBtnTJ` returns TRUE whatever the post came to, so the branch that puts a
  failed report back (`Reporter.cpp:176`) is never reached.
- `QuitThread` sets no event and waits for a worker that may be asleep; nothing
  calls it.
- A report made on the way out (`MainDlg.cpp:773`, 825) is lost with the process.
- An answer without `"code"` counts as accepted (`Reporter.cpp:537`), and `doPost`
  does not ask for the HTTP status: the file is removed though the server took
  nothing (`misread`). The result of removing the file is not looked at
  (`Recorder.cpp:203`).
- The start-up thread counts the command line (`MainDlg.cpp:226`, 254-306) while
  `OnCopyData` (921) counts that of another run: two threads in `AddCount` for one
  kind lose an event (`collided`).

## 6. Abstractions and what is not modelled

- Data are positions and serials. Decoding is 1-1 with a delay; `CONFIG_AVFILTER`
  graphs pass frames through and are rebuilt when the serial changes, and are
  part of the abstract codec. A seek lands on its target.
- `finished`, `loop` and `autoexit` have no effect in this build and are left out.
- `packet_pending` (a codec that refuses input), subtitles and attached pictures
  are excluded. Pausing is modelled in `PlayControl`, not in `MediaPipe`.
- The order in which one seek flushes the streams, and in which null packets are
  put, is free in the model: a superset of the code's fixed order.
- An I/O error ends the read thread without a message. Where it also looks like the
  end of the file (`ffplay.h:3386`) the null packets and `eof` go before it, so that
  END comes; otherwise it does not. Both are modelled, and with failures
  `play_audio` therefore promises stops only.
- Clocks and synchronisation are a nondeterministic "due": `RefreshDue` against
  `RefreshIdle`, drops before and at the refresh against queueing and showing. The
  master is the sound or, without sound, the external clock, so pictures may be
  dropped in either case.
- SDL, Windows and libavcodec are external: `SDL_CondSignal`, `SDL_CondWait`,
  `SDL_PushEvent`, `PostMessage` and `avcodec_receive_frame` are modelled from
  how the code uses them. Enabling an event type again in `SDL_EventState`
  flushes it; `SDL_PushEvent` is refused only when SDL is not initialised.
- `PlayControl` leaves out volume, aspect ratio and audio channel (a store each),
  the creation and destruction of the player (once, at the ends of the program) and
  `ReResolution` and `PlayUrl`: the first has no caller, the second only
  `ListDlg.cpp`, the list of an earlier version, which nothing creates.
- `PlayList` assumes that the insertion of a row succeeds, that a file lasts
  longer than its START waits in the queue (the guard of `Ends`), and that a waiting
  `Stop` dispatches no handler of the list: the nesting is `PlayControl`'s subject.
  Opening a folder or dropping files is two files.
- `Reporter` leaves out what a report contains; `DailyCounts` the flags and strings
  that are uploaded beside the counts (setting one twice is setting it once), and
  other processes.
- The sources are some three million lines, nearly all of them vendored: ffmpeg,
  SDL, SOUI, duilib, WTL, sqlite, zip. The models cover the part that is the
  player's own and has state that more than one thread, message or run touches. Of
  the rest of its own code, the updater, the background programs, the service and
  the registry code are sequences of calls into the system that keep nothing
  between them, and the dialogs are layout.
- The lock, the ring buffer, the task pool and the pipe server of `Baseclass` are
  not included by any program here: a model of them would say nothing about what
  is built. Hazards that are known and covered by no property are in
  `PROJECT.json`, each with its reason.

## 7. Plan

Done: `FrameFifo`, `FrameQueue` and its refinement; `MediaPipe`; `PlayControl`;
`PlayList`; `Reporter`; `DailyCounts`; the theorems of section 4.

What could follow, in the order of its worth:

1. The rings of `MediaPipe` as instances of `FrameFifo`, which needs the frame taken
   last as history.
2. Creation and destruction of the player in `PlayControl`; filters that fail in
   `audio_thread` in `MediaPipe`.
