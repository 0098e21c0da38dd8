-------------------------- MODULE PlayControlProofs --------------------------
(***************************************************************************)
(* For any number of playbacks, of commands and of waits inside each other,*)
(* with and without failures and timeouts: a playback leaves neither its   *)
(* read thread nor an event behind, and when nothing is on its way between *)
(* the threads the pause and the mute that the window shows are those of   *)
(* the playback.                                                           *)
(***************************************************************************)
EXTENDS PlayControl, FiniteSetTheorems, SequenceTheorems, TLAPS

USE ControlAssumption DEF ControlAssumption

\* The three sequences of the model, and what their operations keep.
LEMMA PushTyped ==
    ASSUME events \in Seq(Event), sdl \in {0, 1}, NEW es \in Seq(Event),
           SDL_PushEvent(es)
    PROVE  events' \in Seq(Event)
  BY DEF SDL_PushEvent

\* ... of a message that is posted, ...
LEMMA PostTyped ==
    ASSUME wm \in Seq(Message), session \in 1 .. MaxOpens,
           NEW m \in {"START", "END", "FILE_INVALID"}, PostMessage(m)
    PROVE  wm' \in Seq(Message)
<1>1. [msg |-> m, session |-> session] \in Message
  BY DEF Message
<1>2. QED BY <1>1 DEF PostMessage

\* ... and of a Stop that waits.
LEMMA WaitTyped ==
    ASSUME TypeOK, NEW next \in {"return", "open"}, StopWaits(next)
    PROVE  /\ waits' \in Seq({"return", "open"}) /\ Len(waits') <= MaxNest
           /\ events' \in Seq(Event)
<1>1. <<"quit">> \in Seq(Event)
  BY DEF Event
<1>2. events' \in Seq(Event)
  BY <1>1, PushTyped DEF StopWaits, TypeOK
<1>3. Append(waits, next) \in Seq({"return", "open"})
      /\ Len(Append(waits, next)) = Len(waits) + 1
  BY DEF TypeOK
<1>4. QED BY <1>2, <1>3 DEF StopWaits, TypeOK

\* The innermost wait ends.
LEMMA WaitEnds ==
    ASSUME TypeOK, waits # <<>>
    PROVE  LET w == SubSeq(waits, 1, Len(waits) - 1)
           IN  /\ w \in Seq({"return", "open"})
               /\ Len(waits) \in Nat \ {0} /\ Len(w) = Len(waits) - 1
               /\ DOMAIN w = 1 .. Len(waits) - 1
               /\ \A i \in 1 .. Len(waits) - 1 : w[i] = waits[i]
               /\ DOMAIN waits = 1 .. Len(waits)
<1>1. /\ waits \in Seq({"return", "open"}) /\ Len(waits) \in Nat \ {0}
      /\ DOMAIN waits = 1 .. Len(waits)
      /\ \A i \in 1 .. Len(waits) : waits[i] \in {"return", "open"}
  BY DEF TypeOK
<1>2. Len(waits) - 1 \in 1 .. Len(waits) + 1 \/ Len(waits) - 1 = 0
  BY <1>1
<1>3. LET w == SubSeq(waits, 1, Len(waits) - 1)
      IN  /\ w \in Seq({"return", "open"}) /\ Len(w) = Len(waits) - 1
          /\ \A i \in 1 .. Len(waits) - 1 : w[i] = waits[i]
  BY <1>1, SubSeqProperties
<1>4. DOMAIN SubSeq(waits, 1, Len(waits) - 1) = 1 .. Len(waits) - 1
  BY <1>1, <1>3
<1>5. QED BY <1>1, <1>3, <1>4

\* How many calls of Play wait.
LEMMA PendingCount ==
    ASSUME TypeOK
    PROVE  /\ IsFiniteSet(Pending) /\ Cardinality(Pending) \in Nat
           /\ waits # <<>> /\ waits[Len(waits)] = "open"
                 => Cardinality(Pending) >= 1
<1>1. DOMAIN waits = 1 .. Len(waits) /\ Len(waits) \in Nat
  BY DEF TypeOK
<1>2. IsFiniteSet(1 .. Len(waits))
  BY <1>1, FS_Interval
<1>3. IsFiniteSet(Pending)
  BY <1>1, <1>2, FS_Subset DEF Pending
<1>4. Cardinality(Pending) \in Nat
  BY <1>3, FS_CardinalityType
<1>5. ASSUME waits # <<>>, waits[Len(waits)] = "open"
      PROVE  Cardinality(Pending) >= 1
  <2>1. Len(waits) \in DOMAIN waits
    BY <1>1, <1>5, WaitEnds
  <2>2. Pending # {}
    BY <2>1, <1>5 DEF Pending
  <2>3. QED BY <1>3, <1>4, <2>2, FS_EmptySet
<1>6. QED BY <1>3, <1>4, <1>5

\* ... one more when a Play begins to wait ...
LEMMA PendingGrows ==
    ASSUME TypeOK, NEW next \in {"return", "open"},
           waits' = Append(waits, next)
    PROVE  Cardinality(Pending') =
               IF next = "open" THEN Cardinality(Pending) + 1
               ELSE Cardinality(Pending)
<1>1. /\ DOMAIN waits = 1 .. Len(waits) /\ Len(waits) \in Nat
      /\ DOMAIN waits' = 1 .. Len(waits) + 1
      /\ \A i \in 1 .. Len(waits) : waits'[i] = waits[i]
      /\ waits'[Len(waits) + 1] = next
  BY DEF TypeOK
<1>2. CASE next = "open"
  <2>1. Pending' = Pending \cup {Len(waits) + 1}
    BY <1>1, <1>2 DEF Pending
  <2>2. Len(waits) + 1 \notin Pending
    BY <1>1 DEF Pending
  <2>3. QED BY <1>2, <2>1, <2>2, PendingCount, FS_AddElement
<1>3. CASE next = "return"
  <2>1. Pending' = Pending
    BY <1>1, <1>3 DEF Pending
  <2>2. QED BY <1>3, <2>1
<1>4. QED BY <1>2, <1>3

\* ... and one less when it goes on.
LEMMA PendingShrinks ==
    ASSUME TypeOK, waits # <<>>,
           waits' = SubSeq(waits, 1, Len(waits) - 1)
    PROVE  Cardinality(Pending') =
               IF waits[Len(waits)] = "open" THEN Cardinality(Pending) - 1
               ELSE Cardinality(Pending)
<1>1. /\ Len(waits) \in Nat \ {0} /\ DOMAIN waits = 1 .. Len(waits)
      /\ DOMAIN waits' = 1 .. Len(waits) - 1
      /\ \A i \in 1 .. Len(waits) - 1 : waits'[i] = waits[i]
  BY WaitEnds
<1>2. Pending' = Pending \ {Len(waits)}
  BY <1>1 DEF Pending
<1>3. Len(waits) \in Pending <=> waits[Len(waits)] = "open"
  BY <1>1 DEF Pending
<1>4. QED BY <1>2, <1>3, PendingCount, FS_RemoveElement

\* A Stop leaves the types of what it touches.
LEMMA StopTyped ==
    ASSUME TypeOK, DoStop
    PROVE  /\ waits' \in Seq({"return", "open"}) /\ Len(waits') <= MaxNest
           /\ events' \in Seq(Event) /\ dlg' \in Statuses
<1>1. CASE dlg = "Stoped"
  BY <1>1 DEF DoStop, TypeOK
<1>2. CASE dlg # "Stoped" /\ UNCHANGED <<waits, events>>
  BY <1>2 DEF DoStop, TypeOK, Statuses
<1>3. CASE dlg # "Stoped" /\ StopWaits("return")
  BY <1>3, WaitTyped DEF DoStop, Statuses
<1>4. QED BY <1>1, <1>2, <1>3 DEF DoStop

\* ... and the number of calls of Play that wait.
LEMMA StopPending ==
    ASSUME TypeOK, DoStop
    PROVE  Cardinality(Pending') = Cardinality(Pending)
<1>1. CASE UNCHANGED waits
  BY <1>1 DEF Pending
<1>2. CASE waits' = Append(waits, "return")
  BY <1>2, PendingGrows
<1>3. QED BY <1>1, <1>2 DEF DoStop, StopWaits

\* Every step keeps the types.
LEMMA TypeStep == IInv /\ [Next]_vars => TypeOK'
<1> SUFFICES ASSUME IInv, [Next]_vars PROVE TypeOK'
  OBVIOUS
<1> TypeOK /\ PlayInv /\ OpensInv
  BY DEF IInv
<1> USE DEF TypeOK, Statuses, Message, Event, vars, windowVars, sharedVars,
            sdlVars, playVars, stateVars, readVars, historyVars
<1>1. CASE Play
  <2>1. CASE ~StopReturns
    <3>1. waits' \in Seq({"return", "open"}) /\ Len(waits') <= MaxNest
          /\ events' \in Seq(Event)
      BY <1>1, <2>1, WaitTyped DEF Play
    <3>2. /\ dlg' = "Opening" /\ status' = "Stoped"
          /\ UNCHANGED <<wm, m_bMute, g_bStop, stopEvent, tmsgs, sdl, playVars,
                         stateVars, readVars, historyVars>>
      BY <1>1, <2>1 DEF Play
    <3>3. QED BY <3>1, <3>2
  <2>2. CASE StopReturns
    <3>1. nopens + 1 \in 1 .. MaxOpens
      BY <1>1, PendingCount DEF Play
    <3>2. Append(tmsgs, nopens + 1) \in Seq(1 .. MaxOpens)
      BY <3>1
    <3>3. /\ dlg' = "Opening" /\ status' = "Stoped" /\ stopEvent' = "reset"
          /\ tmsgs' = Append(tmsgs, nopens + 1) /\ nopens' = nopens + 1
          /\ excused' = {}
          /\ UNCHANGED <<waits, wm, m_bMute, g_bStop, sdlVars, playVars,
                         stateVars, readVars, ncommands, lost>>
      BY <1>1, <2>2 DEF Play, OpenAndPlay, StopWaits
    <3>4. QED BY <3>1, <3>2, <3>3
  <2>3. QED BY <2>1, <2>2
<1>2. CASE StopContinues
  <2>1. waits' \in Seq({"return", "open"}) /\ Len(waits') <= MaxNest
    BY <1>2, WaitEnds DEF StopContinues
  <2>2. /\ g_bStop' = 1 /\ status' = "Stoped"
        /\ stopEvent' = "reset" /\ excused' \subseteq excused
        /\ UNCHANGED <<dlg, wm, m_bMute, sdlVars, playVars, stateVars,
                       readVars, ncommands, lost>>
    BY <1>2 DEF StopContinues, OpenAndPlay
  <2>3. tmsgs' \in Seq(1 .. MaxOpens) /\ nopens' \in 0 .. MaxOpens
    <3>1. CASE waits[Len(waits)] = "open"
      <4>1. nopens + 1 \in 1 .. MaxOpens
        <5>1. /\ nopens \in Nat /\ Cardinality(Pending) \in Nat
              /\ Cardinality(Pending) >= 1 /\ MaxOpens \in Nat
              /\ nopens + Cardinality(Pending) <= MaxOpens
          BY <1>2, <3>1, PendingCount DEF StopContinues, OpensInv
        <5>2. QED BY <5>1
      <4>2. Append(tmsgs, nopens + 1) \in Seq(1 .. MaxOpens)
        BY <4>1
      <4>3. tmsgs' = Append(tmsgs, nopens + 1) /\ nopens' = nopens + 1
        BY <1>2, <3>1 DEF StopContinues, OpenAndPlay
      <4>4. QED BY <4>1, <4>2, <4>3
    <3>2. CASE waits[Len(waits)] # "open"
      BY <1>2, <3>2 DEF StopContinues
    <3>3. QED BY <3>1, <3>2
  <2>4. excused' \subseteq {"late", "step", "start"}
    BY <2>2
  <2>5. QED BY <2>1, <2>2, <2>3, <2>4
<1>3. CASE OnBtnStop
  <2>1. /\ waits' \in Seq({"return", "open"}) /\ Len(waits') <= MaxNest
        /\ events' \in Seq(Event) /\ dlg' \in Statuses
    BY <1>3, StopTyped DEF OnBtnStop
  <2>2. QED BY <1>3, <2>1 DEF OnBtnStop
<1>4. CASE DoPause
  <2>1. dlg' \in {"Playing", "Pause"} /\ status' = dlg'
    BY <1>4 DEF DoPause, PlayOrPause
  <2>2. CASE UNCHANGED events
    BY <1>4, <2>1, <2>2 DEF DoPause
  <2>3. CASE ~UNCHANGED events
    <3>1. PICK e \in Event : SDL_PushEvent(<<e, "toggle">>)
      BY <1>4, <2>3 DEF DoPause, PlayOrPause, MuteEvent
    <3>2. <<e, "toggle">> \in Seq(Event)
      OBVIOUS
    <3>3. events' \in Seq(Event)
      BY <3>1, <3>2, PushTyped
    <3>4. QED BY <1>4, <2>1, <3>3 DEF DoPause
  <2>4. QED BY <2>2, <2>3
<1>5. CASE SetMute
  <2>1. <<MuteEvent(1 - m_bMute)>> \in Seq(Event)
    BY DEF MuteEvent
  <2>2. events' \in Seq(Event)
    BY <1>5, <2>1, PushTyped DEF SetMute
  <2>3. QED BY <1>5, <2>2 DEF SetMute
<1>6. CASE Seek
  <2>1. <<"seek">> \in Seq(Event)
    OBVIOUS
  <2>2. events' \in Seq(Event)
    BY <1>6, <2>1, PushTyped DEF Seek
  <2>3. QED BY <1>6, <2>2 DEF Seek
<1>7. CASE OnStart
  <2>1. <<"seek">> \in Seq(Event)
    OBVIOUS
  <2>2. events' \in Seq(Event)
    BY <1>7, <2>1, PushTyped DEF OnStart
  <2>3. wm' \in Seq(Message)
    BY <1>7 DEF OnStart
  <2>4. QED BY <1>7, <2>2, <2>3 DEF OnStart
<1>8. CASE OnEnd
  <2>1. /\ waits' \in Seq({"return", "open"}) /\ Len(waits') <= MaxNest
        /\ events' \in Seq(Event) /\ dlg' \in Statuses
    BY <1>8, StopTyped DEF OnEnd
  <2>2. wm' \in Seq(Message)
    BY <1>8 DEF OnEnd
  <2>3. QED BY <1>8, <2>1, <2>2 DEF OnEnd
<1>9. CASE TakeOpen
  <2>1. tmsgs' = Tail(tmsgs) /\ session' = Head(tmsgs) /\ tmsgs # <<>>
        /\ ppc' \in {"ignore", "signal"} /\ sdl' \in {1, sdl}
        /\ UNCHANGED <<windowVars, g_bStop, stopEvent, events, stateVars,
                       readVars, historyVars>>
    BY <1>9 DEF TakeOpen
  <2>2. tmsgs' \in Seq(1 .. MaxOpens) /\ session' \in 1 .. MaxOpens
    BY <2>1, HeadTailProperties
  <2>3. QED BY <2>1, <2>2
<1>10. CASE IgnoreUserEvents
  <2>1. DOMAIN events = 1 .. Len(events) /\ Len(events) \in Nat
    OBVIOUS
  <2>2. IsFiniteSet(1 .. Len(events))
    BY <2>1, FS_Interval
  <2>3. IsFiniteSet(Quits)
    BY <2>1, <2>2, FS_Subset DEF Quits
  <2>4. Cardinality(Quits) \in Nat
    BY <2>3, FS_CardinalityType
  <2>5. [i \in 1 .. Cardinality(Quits) |-> "quit"] \in Seq(Event)
    BY <2>4
  <2>6. QED BY <1>10, <2>5 DEF IgnoreUserEvents
<1>11. CASE StreamOpen
  <2>1. /\ ppc' \in {"settings", "signal"} /\ sdl' \in {0, sdl}
        /\ rpc' \in {"opening", rpc} /\ left' \in {NStreams, left}
        /\ paused' \in {0, paused} /\ step' \in {0, step}
        /\ muted' \in {0, muted} /\ seek_req' \in {0, seek_req}
        /\ abort_request' \in {0, abort_request}
        /\ UNCHANGED <<windowVars, sharedVars, session, historyVars>>
    BY <1>11 DEF StreamOpen
  <2>2. events' = events \/ events' = <<>>
    BY <1>11 DEF StreamOpen
  <2>3. <<>> \in Seq(Event)
    OBVIOUS
  <2>4. events' \in Seq(Event)
    BY <2>2, <2>3
  <2>5. QED BY <2>1, <2>4
<1>12. CASE Settings
  BY <1>12 DEF Settings
<1>13. CASE PumpEvents
  <2>1. lost + Len(tmsgs) \in 0 .. MaxOpens /\ <<>> \in Seq(1 .. MaxOpens)
    BY DEF OpensInv
  <2>2. QED BY <1>13, <2>1 DEF PumpEvents
<1>14. CASE HandleEvent
  <2>1. events' \in Seq(Event)
    BY <1>14 DEF HandleEvent
  <2>2. /\ ppc' \in {"exit", "pump", "pause", "resume"}
        /\ UNCHANGED <<windowVars, sharedVars, sdl, session, paused, step,
                       abort_request, readVars, nopens, ncommands, lost>>
    BY <1>14 DEF HandleEvent
  <2>3. /\ muted' \in {0, 1, muted} /\ seek_req' \in {1, seek_req}
        /\ excused' \in {excused, excused \cup {"step"}}
    BY <1>14 DEF HandleEvent
  <2>4. QED BY <2>1, <2>2, <2>3
<1>15. CASE Refresh \/ Freeze
  <2>1. session \in 1 .. MaxOpens
    BY <1>15 DEF Refresh, Freeze, PlayInv
  <2>2. wm' \in Seq(Message)
    <3>1. UNCHANGED wm \/ PostMessage("END")
      BY <1>15 DEF Refresh, Freeze, Refreshed
    <3>2. QED BY <2>1, <3>1, PostTyped
  <2>3. ppc' \in {"freeze", "pump", "ended"} /\ paused' \in {paused, 1 - paused}
    BY <1>15 DEF Refresh, Freeze, Refreshed
  <2>4. UNCHANGED <<dlg, status, waits, m_bMute, sharedVars, sdlVars, session,
                    step, muted, seek_req, abort_request, readVars, historyVars>>
    BY <1>15 DEF Refresh, Freeze
  <2>5. QED BY <2>2, <2>3, <2>4
<1>16. CASE Ended
  BY <1>16 DEF Ended
<1>17. CASE StreamClose
  BY <1>17 DEF StreamClose
<1>18. CASE Quit
  BY <1>18 DEF Quit
<1>19. CASE SignalStop
  BY <1>19 DEF SignalStop
<1>20. CASE OpenStream
  <2>1. session \in 1 .. MaxOpens
    BY <1>20 DEF OpenStream, PlayInv
  <2>2. CASE UNCHANGED wm
    BY <1>20, <2>2 DEF OpenStream, StreamOpened
  <2>3. CASE PostMessage("START")
    <3>1. wm' \in Seq(Message)
      BY <2>1, <2>3, PostTyped
    <3>2. QED BY <1>20, <3>1 DEF OpenStream, StreamOpened
  <2>4. QED BY <1>20, <2>2, <2>3 DEF OpenStream
<1>21. CASE LowerStop
  <2>1. left - 1 \in 0 .. NStreams
    BY <1>21 DEF LowerStop, PlayInv
  <2>2. QED BY <1>21, <2>1 DEF LowerStop, StreamOpened
<1>22. CASE OpenFails
  <2>1. session \in 1 .. MaxOpens
    BY <1>22 DEF OpenFails, PlayInv
  <2>2. CASE UNCHANGED wm
    BY <1>22, <2>2 DEF OpenFails
  <2>3. CASE PostMessage("FILE_INVALID")
    <3>1. wm' \in Seq(Message)
      BY <2>1, <2>3, PostTyped
    <3>2. QED BY <1>22, <3>1 DEF OpenFails
  <2>4. QED BY <1>22, <2>2, <2>3 DEF OpenFails
<1>23. CASE FailQuits
  <2>1. <<"quit">> \in Seq(Event)
    OBVIOUS
  <2>2. events' \in Seq(Event)
    BY <1>23, <2>1, PushTyped DEF FailQuits
  <2>3. QED BY <1>23, <2>2 DEF FailQuits
<1>24. CASE ReadLoop
  BY <1>24 DEF ReadLoop
<1>25. CASE StepWhenPaused
  <2>1. /\ rpc' \in {"step", "run", "toggle", "stepped", "unpause", "repause"}
        /\ paused' \in {0, 1} /\ step' \in {1, step}
        /\ excused' \in {excused, excused \cup {"step"}}
    BY <1>25 DEF StepWhenPaused
  <2>2. UNCHANGED <<windowVars, sharedVars, sdlVars, playVars, muted, seek_req,
                    abort_request, left, nopens, ncommands, lost>>
    BY <1>25 DEF StepWhenPaused
  <2>3. QED BY <2>1, <2>2
<1>26. CASE FilterFails
  <2>1. <<"quit">> \in Seq(Event)
    OBVIOUS
  <2>2. events' \in Seq(Event)
    BY <1>26, <2>1, PushTyped DEF FilterFails
  <2>3. QED BY <1>26, <2>2 DEF FilterFails
<1>27. CASE UNCHANGED vars
  BY <1>27
<1>28. CASE stream_toggle_pause
  BY <1>28 DEF stream_toggle_pause
<1>29. CASE toggle_pause
  BY <1>29 DEF toggle_pause
<1>30. CASE OpenFile
  BY <1>30 DEF OpenFile
<1>31. QED
    BY <1>1, <1>2, <1>3, <1>4, <1>5, <1>6, <1>7, <1>8, <1>9, <1>10, <1>11,
     <1>12, <1>13, <1>14, <1>15, <1>16, <1>17, <1>18, <1>19, <1>20, <1>21,
     <1>22, <1>23, <1>24, <1>25, <1>26, <1>27, <1>28, <1>29, <1>30
     DEF Next, window_thread, WndProc, PlayCmdThread, read_thread

\* The read thread works, and SDL is up, only while Open is under way.
LEMMA PlayStep == IInv /\ [Next]_vars => PlayInv'
<1> SUFFICES ASSUME IInv, [Next]_vars PROVE PlayInv'
  OBVIOUS
<1> TypeOK /\ PlayInv /\ OpensInv
  BY DEF IInv
<1> USE DEF TypeOK, Statuses, Message, Event, PlayInv, vars, windowVars,
            sharedVars, sdlVars, playVars, stateVars, readVars, historyVars
<1>1. CASE Play
  BY <1>1 DEF Play, StopReturns, StopWaits, OpenAndPlay, SDL_PushEvent
<1>2. CASE StopContinues
  BY <1>2 DEF StopContinues, OpenAndPlay
<1>3. CASE OnBtnStop
  BY <1>3 DEF OnBtnStop, DoStop, StopReturns, StopWaits, SDL_PushEvent
<1>4. CASE DoPause
  BY <1>4 DEF DoPause, PlayOrPause, SDL_PushEvent, MuteEvent
<1>5. CASE SetMute
  BY <1>5 DEF SetMute, SDL_PushEvent, MuteEvent
<1>6. CASE Seek
  BY <1>6 DEF Seek, SDL_PushEvent
<1>7. CASE OnStart
  BY <1>7 DEF OnStart, SDL_PushEvent
<1>8. CASE OnEnd
  BY <1>8 DEF OnEnd, DoStop, StopReturns, StopWaits, SDL_PushEvent
<1>9. CASE TakeOpen
  BY <1>9 DEF TakeOpen
<1>10. CASE IgnoreUserEvents
  BY <1>10 DEF IgnoreUserEvents
<1>11. CASE StreamOpen
  BY <1>11 DEF StreamOpen
<1>12. CASE Settings
  BY <1>12 DEF Settings
<1>13. CASE PumpEvents
  BY <1>13 DEF PumpEvents
<1>14. CASE HandleEvent
  BY <1>14 DEF HandleEvent
<1>15. CASE Refresh \/ Freeze
  BY <1>15 DEF Refresh, Freeze, Refreshed
<1>16. CASE Ended
  BY <1>16 DEF Ended
<1>17. CASE StreamClose
  BY <1>17 DEF StreamClose
<1>18. CASE Quit
  BY <1>18 DEF Quit
<1>19. CASE SignalStop
  BY <1>19 DEF SignalStop
<1>20. CASE OpenStream
  BY <1>20 DEF OpenStream, StreamOpened, PostMessage
<1>21. CASE LowerStop
  BY <1>21 DEF LowerStop, StreamOpened
<1>22. CASE OpenFails
  BY <1>22 DEF OpenFails, PostMessage
<1>23. CASE FailQuits
  BY <1>23 DEF FailQuits, SDL_PushEvent
<1>24. CASE ReadLoop
  BY <1>24 DEF ReadLoop
<1>25. CASE StepWhenPaused
  BY <1>25 DEF StepWhenPaused
<1>26. CASE FilterFails
  BY <1>26 DEF FilterFails, SDL_PushEvent
<1>27. CASE UNCHANGED vars
  BY <1>27
<1>28. CASE stream_toggle_pause
  BY <1>28 DEF stream_toggle_pause
<1>29. CASE toggle_pause
  BY <1>29 DEF toggle_pause
<1>30. CASE OpenFile
  BY <1>30 DEF OpenFile
<1>31. QED
    BY <1>1, <1>2, <1>3, <1>4, <1>5, <1>6, <1>7, <1>8, <1>9, <1>10, <1>11,
     <1>12, <1>13, <1>14, <1>15, <1>16, <1>17, <1>18, <1>19, <1>20, <1>21,
     <1>22, <1>23, <1>24, <1>25, <1>26, <1>27, <1>28, <1>29, <1>30
     DEF Next, window_thread, WndProc, PlayCmdThread, read_thread

\* No open is counted twice.
LEMMA OpensStep == IInv /\ [Next]_vars => OpensInv'
<1> SUFFICES ASSUME IInv, [Next]_vars PROVE OpensInv'
  OBVIOUS
<1> TypeOK /\ PlayInv /\ OpensInv
  BY DEF IInv
<1> USE DEF OpensInv, vars, windowVars, sharedVars, sdlVars, playVars,
            stateVars, readVars, historyVars
<1>1. CASE Play
  <2>1. CASE StopReturns
    <3>1. Len(tmsgs') = Len(tmsgs) + 1 /\ Pending' = Pending
      BY <1>1, <2>1 DEF Play, OpenAndPlay, TypeOK, Pending
    <3>2. QED BY <1>1, <2>1, <3>1, PendingCount DEF Play, TypeOK
  <2>2. CASE ~StopReturns
    <3>1. Cardinality(Pending') = Cardinality(Pending) + 1
      BY <1>1, <2>2, PendingGrows DEF Play, StopWaits
    <3>2. QED BY <1>1, <2>2, <3>1, PendingCount DEF Play, TypeOK
  <2>3. QED BY <2>1, <2>2
<1>2. CASE StopContinues
  <2>1. Cardinality(Pending') = IF waits[Len(waits)] = "open"
                                THEN Cardinality(Pending) - 1
                                ELSE Cardinality(Pending)
    BY <1>2, PendingShrinks DEF StopContinues
  <2>2. CASE waits[Len(waits)] = "open"
    <3>1. Len(tmsgs') = Len(tmsgs) + 1
      BY <1>2, <2>2 DEF StopContinues, OpenAndPlay, TypeOK
    <3>2. nopens' = nopens + 1 /\ UNCHANGED lost
      BY <1>2, <2>2 DEF StopContinues
    <3>3. /\ nopens \in Nat /\ lost \in Nat /\ MaxOpens \in Nat
          /\ Len(tmsgs) \in Nat /\ Cardinality(Pending) \in Nat
      BY PendingCount DEF TypeOK
    <3>4. QED BY <2>1, <2>2, <3>1, <3>2, <3>3
  <2>3. CASE waits[Len(waits)] # "open"
    BY <1>2, <2>1, <2>3 DEF StopContinues
  <2>4. QED BY <2>2, <2>3
<1>3. CASE OnBtnStop
  BY <1>3, StopPending DEF OnBtnStop
<1>4. CASE OnEnd
  BY <1>4, StopPending DEF OnEnd
<1>5. CASE TakeOpen
  <2>1. Len(tmsgs') = Len(tmsgs) - 1 /\ Pending' = Pending
    BY <1>5 DEF TakeOpen, TypeOK, Pending
  <2>2. UNCHANGED <<nopens, lost>>
    BY <1>5 DEF TakeOpen
  <2>3. Len(tmsgs) \in Nat /\ lost \in Nat /\ nopens \in Nat
    BY DEF TypeOK
  <2>4. QED BY <2>1, <2>2, <2>3
<1>6. CASE PumpEvents
  BY <1>6 DEF PumpEvents, TypeOK, Pending
<1>7. ASSUME UNCHANGED <<waits, tmsgs, nopens, lost>> PROVE OpensInv'
  BY <1>7 DEF Pending
<1>8. ASSUME DoPause \/ SetMute \/ Seek \/ OnStart \/ IgnoreUserEvents \/
            StreamOpen \/ Settings \/ HandleEvent \/ stream_toggle_pause \/
            toggle_pause \/ Refresh \/ Freeze \/ Ended \/ StreamClose \/
            Quit \/ SignalStop \/ OpenFile \/ OpenStream \/ LowerStop \/
            OpenFails \/ FailQuits \/ ReadLoop \/ StepWhenPaused \/
            FilterFails \/ UNCHANGED vars
     PROVE  UNCHANGED <<waits, tmsgs, nopens, lost>>
    BY <1>8 DEF DoPause, SetMute, Seek, OnStart, IgnoreUserEvents, StreamOpen,
     Settings, HandleEvent, stream_toggle_pause, toggle_pause, Refresh, Freeze,
     Ended, StreamClose, Quit, SignalStop, OpenFile, OpenStream, LowerStop,
     OpenFails, FailQuits, ReadLoop, StepWhenPaused, FilterFails
<1>9. QED
  BY <1>1, <1>2, <1>3, <1>4, <1>5, <1>6, <1>7, <1>8
     DEF Next, window_thread, WndProc, PlayCmdThread, read_thread

\* The flag is down between two playbacks only while the signal of the one
\* before waits to be taken; before the first open it is up.
LEMMA FlagStep == IInv /\ [Next]_vars => FlagInv'
<1> SUFFICES ASSUME IInv, [Next]_vars PROVE FlagInv'
  OBVIOUS
<1> USE DEF vars, windowVars, sharedVars, sdlVars, playVars, stateVars,
            readVars, historyVars
<1>1. /\ FlagInv /\ PlayInv /\ session \in Nat /\ nopens \in Nat
      /\ session <= nopens /\ g_bStop \in {0, 1}
  BY DEF IInv, SessionInv, TypeOK
<1>2. CASE Play
  BY <1>1, <1>2 DEF Play, StopReturns, StopWaits, OpenAndPlay, FlagInv
<1>3. CASE StopContinues
  BY <1>1, <1>3 DEF StopContinues, OpenAndPlay, FlagInv
<1>4. CASE SignalStop
  BY <1>1, <1>4 DEF SignalStop, FlagInv
<1>5. CASE LowerStop
  BY <1>1, <1>5 DEF LowerStop, PlayInv, FlagInv
<1>6. CASE Ended
  BY <1>1, <1>6 DEF Ended, FlagInv
<1>7. CASE TakeOpen
  BY <1>1, <1>7 DEF TakeOpen, FlagInv
<1>8. ASSUME UNCHANGED <<stopEvent, g_bStop, nopens>>, ppc' # "idle" \/ ppc' = ppc
      PROVE  FlagInv'
  BY <1>1, <1>8 DEF FlagInv
<1>9. ASSUME OnBtnStop \/ DoPause \/ SetMute \/ Seek \/ OnStart \/ OnEnd \/
             IgnoreUserEvents \/ StreamOpen \/ Settings \/ PumpEvents \/
             HandleEvent \/ stream_toggle_pause \/ toggle_pause \/ Refresh \/
             Freeze \/ StreamClose \/ Quit \/ OpenFile \/ OpenStream \/
             OpenFails \/ FailQuits \/ ReadLoop \/ StepWhenPaused \/
             FilterFails \/ UNCHANGED vars
      PROVE  /\ UNCHANGED <<stopEvent, g_bStop, nopens>>
             /\ ppc' # "idle" \/ ppc' = ppc
  BY <1>9 DEF OnBtnStop, DoPause, SetMute, Seek, OnStart, OnEnd,
     IgnoreUserEvents, StreamOpen, Settings, PumpEvents, HandleEvent,
     stream_toggle_pause, toggle_pause, Refresh, Freeze, Refreshed,
     StreamClose, Quit, OpenFile, OpenStream, OpenFails, FailQuits, ReadLoop,
     StepWhenPaused, FilterFails
<1>10. QED
  BY <1>2, <1>3, <1>4, <1>5, <1>6, <1>7, <1>8, <1>9
     DEF Next, window_thread, WndProc, PlayCmdThread, read_thread

-----------------------------------------------------------------------------
(* Events, and what becomes of a pause and a mute through them.            *)

\* What an append does to the elements of a sequence ...
LEMMA AppendElements ==
    ASSUME NEW S, NEW q \in Seq(S), NEW e \in S
    PROVE  /\ Append(q, e) \in Seq(S) /\ Len(Append(q, e)) = Len(q) + 1
           /\ Len(q) \in Nat /\ DOMAIN q = 1 .. Len(q)
           /\ DOMAIN Append(q, e) = 1 .. Len(q) + 1
           /\ \A i \in 1 .. Len(q) : Append(q, e)[i] = q[i]
           /\ Append(q, e)[Len(q) + 1] = e
    OBVIOUS

\* ... and a tail.
LEMMA TailElements ==
    ASSUME NEW S, NEW q \in Seq(S), q # <<>>
    PROVE  /\ Tail(q) \in Seq(S) /\ Len(Tail(q)) = Len(q) - 1
           /\ Len(q) \in Nat /\ Len(q) >= 1 /\ DOMAIN q = 1 .. Len(q)
           /\ Head(q) = q[1]
           /\ DOMAIN Tail(q) = 1 .. Len(q) - 1
           /\ \A i \in 1 .. Len(q) - 1 : Tail(q)[i] = q[i + 1]
    BY HeadTailProperties

\* Events that are pushed are appended one after the other.
LEMMA PushElements ==
    ASSUME NEW q \in Seq(Event), NEW d \in Event, NEW e \in Event
    PROVE  /\ q \o <<e>> = Append(q, e)
           /\ q \o <<d, e>> = Append(Append(q, d), e)
<1>1. q \o <<e>> = Append(q, e)
      OBVIOUS
<1>2. q \o <<d, e>> = Append(Append(q, d), e)
      OBVIOUS
<1> QED
    BY <1>1, <1>2

\* A pause stays what it is through events that are no toggles, ...
LEMMA NothingToggled ==
    ASSUME NEW q \in Seq(Event), NEW b \in {0, 1},
           \A i \in DOMAIN q : q[i] # "toggle"
    PROVE  Becomes(b, q, b)
<1>1. DOMAIN q = 1 .. Len(q) /\ Len(q) \in Nat
      OBVIOUS
<1> DEFINE c == [i \in 0 .. Len(q) |-> b]
<1>2. /\ c \in [0 .. Len(q) -> {0, 1}] /\ c[0] = b /\ c[Len(q)] = b
      /\ \A i \in 1 .. Len(q) : c[i] = b /\ c[i - 1] = b
      BY <1>1
<1> QED
    BY <1>1, <1>2 DEF Becomes

\* ... one more event may toggle it once more, ...
LEMMA ToggleAppended ==
    ASSUME NEW q \in Seq(Event), NEW e \in Event, NEW b, NEW v, Becomes(b, q, v)
    PROVE  Becomes(b, Append(q, e), IF e = "toggle" THEN 1 - v ELSE v)
<1> DEFINE r == Append(q, e)
           w == IF e = "toggle" THEN 1 - v ELSE v
<1>1. PICK c \in [0 .. Len(q) -> {0, 1}] :
         /\ c[0] = b /\ c[Len(q)] = v
         /\ \A i \in 1 .. Len(q) :
               c[i] = IF q[i] = "toggle" THEN 1 - c[i - 1] ELSE c[i - 1]
      BY DEF Becomes
<1>2. /\ Len(q) \in Nat /\ Len(r) = Len(q) + 1
      /\ \A i \in 1 .. Len(q) : r[i] = q[i]
      /\ r[Len(q) + 1] = e
      BY AppendElements
<1> DEFINE d == [i \in 0 .. Len(r) |-> IF i <= Len(q) THEN c[i] ELSE w]
<1> HIDE DEF r
<1>3. v \in {0, 1} /\ w \in {0, 1}
      BY <1>1, <1>2
<1>4. d \in [0 .. Len(r) -> {0, 1}]
      BY <1>1, <1>2, <1>3
<1>5. d[0] = b /\ d[Len(r)] = w
      BY <1>1, <1>2
<1>6. ASSUME NEW i \in 1 .. Len(r)
      PROVE  d[i] = IF r[i] = "toggle" THEN 1 - d[i - 1] ELSE d[i - 1]
  <2>1. CASE i \in 1 .. Len(q)
    <3>1. d[i] = c[i] /\ d[i - 1] = c[i - 1] /\ r[i] = q[i]
          BY <1>2, <2>1
    <3> QED
        BY <1>1, <2>1, <3>1
  <2>2. CASE i = Len(q) + 1
    <3>1. d[i] = w /\ d[i - 1] = v /\ r[i] = e
          BY <1>1, <1>2, <2>2
    <3> QED
        BY <3>1
  <2> QED
      BY <1>2, <2>1, <2>2
<1> HIDE DEF d, w
<1>7. Becomes(b, r, w)
      BY <1>4, <1>5, <1>6 DEF Becomes
<1> QED
    BY <1>7 DEF r, w

\* ... and an event that is taken has done so.
LEMMA ToggleTaken ==
    ASSUME NEW q \in Seq(Event), q # <<>>, NEW b, NEW v, Becomes(b, q, v)
    PROVE  Becomes(IF Head(q) = "toggle" THEN 1 - b ELSE b, Tail(q), v)
<1> DEFINE r == Tail(q)
           a == IF Head(q) = "toggle" THEN 1 - b ELSE b
<1>1. PICK c \in [0 .. Len(q) -> {0, 1}] :
         /\ c[0] = b /\ c[Len(q)] = v
         /\ \A i \in 1 .. Len(q) :
               c[i] = IF q[i] = "toggle" THEN 1 - c[i - 1] ELSE c[i - 1]
      BY DEF Becomes
<1>2. /\ Len(q) \in Nat /\ Len(q) >= 1 /\ Len(r) = Len(q) - 1 /\ Head(q) = q[1]
      /\ \A i \in 1 .. Len(q) - 1 : r[i] = q[i + 1]
      BY TailElements
<1> DEFINE d == [i \in 0 .. Len(r) |-> c[i + 1]]
<1> HIDE DEF r
<1>3. d \in [0 .. Len(r) -> {0, 1}]
      BY <1>1, <1>2
<1>4. d[0] = a /\ d[Len(r)] = v
  <2>1. d[0] = c[1] /\ d[Len(r)] = c[Len(q)]
        BY <1>2
  <2>2. c[1] = a
        BY <1>1, <1>2
  <2> QED
      BY <1>1, <2>1, <2>2
<1>5. ASSUME NEW i \in 1 .. Len(r)
      PROVE  d[i] = IF r[i] = "toggle" THEN 1 - d[i - 1] ELSE d[i - 1]
  <2>1. d[i] = c[i + 1] /\ d[i - 1] = c[i] /\ r[i] = q[i + 1]
        BY <1>2
  <2>2. i + 1 \in 1 .. Len(q) /\ (i + 1) - 1 = i
        BY <1>2
  <2> QED
      BY <1>1, <2>1, <2>2
<1> HIDE DEF d, a
<1>6. Becomes(a, r, v)
      BY <1>3, <1>4, <1>5 DEF Becomes
<1> QED
    BY <1>6 DEF a, r

\* The last mute event of a queue is the one appended, or the one before.
LEMMA MuteAppended ==
    ASSUME NEW q \in Seq(Event), NEW e \in Event
    PROVE  /\ e \in {"mute", "unmute"} =>
                 LastMute(Append(q, e), e) /\ Mutes(Append(q, e)) # {}
           /\ e \notin {"mute", "unmute"} =>
                 Mutes(Append(q, e)) = Mutes(q)
           /\ \A m : e \notin {"mute", "unmute"} /\ LastMute(q, m) =>
                 LastMute(Append(q, e), m)
<1> DEFINE r == Append(q, e)
<1>1. /\ Len(q) \in Nat /\ DOMAIN q = 1 .. Len(q) /\ DOMAIN r = 1 .. Len(q) + 1
      /\ \A i \in 1 .. Len(q) : r[i] = q[i]
      /\ r[Len(q) + 1] = e
      BY AppendElements
<1> HIDE DEF r
<1>2. ASSUME e \in {"mute", "unmute"} PROVE LastMute(r, e) /\ Mutes(r) # {}
  <2>1. Len(q) + 1 \in Mutes(r)
        BY <1>1, <1>2 DEF Mutes
  <2>2. ASSUME NEW i \in Mutes(r), \A j \in Mutes(r) : j <= i
        PROVE  i = Len(q) + 1
        BY <1>1, <2>1, <2>2 DEF Mutes
  <2> QED
      BY <1>1, <2>1, <2>2 DEF LastMute
<1>3. ASSUME e \notin {"mute", "unmute"}
      PROVE  Mutes(r) = Mutes(q) /\ \A i \in Mutes(q) : r[i] = q[i]
      BY <1>1, <1>3 DEF Mutes
<1>4. ASSUME e \notin {"mute", "unmute"}, NEW m, LastMute(q, m)
      PROVE  LastMute(r, m)
      BY <1>3, <1>4 DEF LastMute
<1> QED
    BY <1>2, <1>3, <1>4 DEF r

\* It is the last until it is taken.
LEMMA MuteTaken ==
    ASSUME NEW q \in Seq(Event), q # <<>>, NEW m, LastMute(q, m)
    PROVE  /\ LastMute(Tail(q), m)
           /\ Head(q) \notin {"mute", "unmute"} /\ Mutes(Tail(q)) = {} =>
                 Mutes(q) = {}
           /\ Head(q) \in {"mute", "unmute"} /\ Mutes(Tail(q)) = {} =>
                 Head(q) = m
<1> DEFINE r == Tail(q)
<1>1. /\ Len(q) \in Nat /\ Len(q) >= 1 /\ DOMAIN q = 1 .. Len(q)
      /\ Head(q) = q[1] /\ DOMAIN r = 1 .. Len(q) - 1
      /\ \A i \in 1 .. Len(q) - 1 : r[i] = q[i + 1]
      BY TailElements
<1> HIDE DEF r
<1>2. \A i \in Mutes(r) : i \in Int /\ i + 1 \in Mutes(q) /\ r[i] = q[i + 1]
      BY <1>1 DEF Mutes
<1>3. \A j \in Mutes(q) : j \in Int /\ j >= 1 /\ (j # 1 => j - 1 \in Mutes(r))
  <2> SUFFICES ASSUME NEW j \in Mutes(q)
               PROVE  j \in Int /\ j >= 1 /\ (j # 1 => j - 1 \in Mutes(r))
      OBVIOUS
  <2>1. j \in 1 .. Len(q) /\ q[j] \in {"mute", "unmute"}
        BY <1>1 DEF Mutes
  <2>2. ASSUME j # 1 PROVE j - 1 \in Mutes(r)
    <3>1. j - 1 \in 1 .. Len(q) - 1 /\ (j - 1) + 1 = j
          BY <1>1, <2>1, <2>2
    <3>2. r[j - 1] = q[j]
          BY <1>1, <3>1
    <3> QED
        BY <1>1, <2>1, <3>1, <3>2 DEF Mutes
  <2> QED
      BY <1>1, <2>1, <2>2
<1>4. LastMute(r, m)
  <2> SUFFICES ASSUME NEW i \in Mutes(r), \A j \in Mutes(r) : j <= i
               PROVE  r[i] = m
      BY DEF LastMute
  <2>1. i \in 1 .. Len(q) - 1
        BY <1>1 DEF Mutes
  <2>2. \A j \in Mutes(q) : j <= i + 1
        BY <1>2, <1>3, <2>1
  <2> QED
      BY <1>2, <2>2 DEF LastMute
<1>5. ASSUME Mutes(r) = {} PROVE \A j \in Mutes(q) : j = 1
      BY <1>3, <1>5
<1>6. ASSUME Mutes(r) = {}, Head(q) \notin {"mute", "unmute"}
      PROVE  Mutes(q) = {}
      BY <1>1, <1>5, <1>6 DEF Mutes
<1>7. ASSUME Mutes(r) = {}, Head(q) \in {"mute", "unmute"}
      PROVE  Head(q) = m
  <2>1. 1 \in Mutes(q)
        BY <1>1, <1>7 DEF Mutes
  <2>2. \A j \in Mutes(q) : j <= 1
        BY <1>5, <1>7
  <2> QED
      BY <1>1, <2>1, <2>2 DEF LastMute
<1> QED
    BY <1>4, <1>6, <1>7 DEF r

-----------------------------------------------------------------------------
(* Which playback the window speaks of.                                    *)

\* The types that the steps below argue with.
LEMMA Shapes ==
    ASSUME TypeOK
    PROVE  /\ DOMAIN events = 1 .. Len(events) /\ Len(events) \in Nat
           /\ DOMAIN wm = 1 .. Len(wm) /\ Len(wm) \in Nat
           /\ DOMAIN tmsgs = 1 .. Len(tmsgs) /\ Len(tmsgs) \in Nat
           /\ session \in Nat /\ nopens \in Nat /\ left \in Nat /\ left <= NStreams
           /\ \A i \in DOMAIN tmsgs : tmsgs[i] \in Nat
           /\ \A i \in DOMAIN wm : wm[i] \in Message /\ wm[i].session \in Nat
<1>1. \A m \in Message : m.session \in Nat
      BY DEF Message
<1>2. /\ events \in Seq(Event) /\ wm \in Seq(Message)
      /\ tmsgs \in Seq(1 .. MaxOpens)
      BY DEF TypeOK
<1>3. \A i \in DOMAIN wm : wm[i] \in Message
      BY <1>2
<1>4. /\ DOMAIN events = 1 .. Len(events) /\ Len(events) \in Nat
      /\ DOMAIN wm = 1 .. Len(wm) /\ Len(wm) \in Nat
      BY <1>2
<1>5. /\ DOMAIN tmsgs = 1 .. Len(tmsgs) /\ Len(tmsgs) \in Nat
      /\ \A i \in DOMAIN tmsgs : tmsgs[i] \in Nat
      BY <1>2
<1>6. session \in Nat /\ nopens \in Nat /\ left \in Nat /\ left <= NStreams
      BY DEF TypeOK
<1> QED
    BY <1>1, <1>3, <1>4, <1>5, <1>6

\* Which actions there are beside the one that begins a playback.
Other ==
    \/ window_thread \/ IgnoreUserEvents \/ StreamOpen \/ Settings
    \/ PumpEvents \/ HandleEvent \/ stream_toggle_pause \/ toggle_pause
    \/ Refresh \/ Freeze \/ Ended \/ StreamClose \/ Quit \/ SignalStop
    \/ read_thread \/ FilterFails \/ UNCHANGED vars

\* The window loses track of a playback for good: only another open finds it.
LEMMA Tracking ==
    ASSUME TypeOK, SessionInv, Other
    PROVE  /\ session' = session /\ nopens' \in {nopens, nopens + 1}
           /\ nopens' = nopens => excused \subseteq excused' \/ dlg = "Opening"
           /\ Tracked' => Tracked /\ nopens' = nopens
<1>1. CASE Play \/ StopContinues
  <2>1. /\ session' = session
        /\ \/ nopens' = nopens /\ excused' = excused
           \/ nopens' = nopens + 1
        BY <1>1 DEF Play, StopContinues, playVars
  <2> QED
      BY <2>1, Shapes DEF Tracked, SessionInv
<1>2. CASE ~(Play \/ StopContinues)
  <2>1. session' = session /\ nopens' = nopens /\ excused \subseteq excused'
    <3>1. CASE OnBtnStop \/ DoPause \/ SetMute \/ Seek \/ OnStart \/ OnEnd
          BY <3>1 DEF OnBtnStop, DoPause, SetMute, Seek, OnStart, OnEnd,
             playVars, historyVars
    <3>2. CASE IgnoreUserEvents \/ StreamOpen \/ Settings \/ PumpEvents \/
               HandleEvent \/ stream_toggle_pause \/ toggle_pause \/
               Refresh \/ Freeze
          BY <3>2 DEF IgnoreUserEvents, StreamOpen, Settings, PumpEvents,
             HandleEvent, stream_toggle_pause, toggle_pause, Refresh, Freeze,
             playVars, historyVars
    <3>3. CASE Ended \/ StreamClose \/ Quit \/ SignalStop
          BY <3>3 DEF Ended, StreamClose, Quit, SignalStop, playVars,
             historyVars
    <3>4. CASE read_thread \/ FilterFails \/ UNCHANGED vars
          BY <3>4 DEF read_thread, OpenFile, OpenStream, LowerStop, OpenFails, FailQuits,
             ReadLoop, StepWhenPaused, FilterFails, playVars, historyVars, vars
    <3> QED
        BY <1>2, <3>1, <3>2, <3>3, <3>4 DEF Other, window_thread, WndProc
  <2> QED
      BY <2>1 DEF Tracked
<1> QED
    BY <1>1, <1>2

\* A playback that has got beyond its first stream stays beyond it.
LEMMA Opening ==
    ASSUME TypeOK, Other, Unopened'
    PROVE  Unopened
<1>1. CASE UNCHANGED <<ppc, rpc, left>>
      BY <1>1 DEF Unopened
<1>2. CASE ppc' \notin {"ignore", "open"} /\ UNCHANGED <<rpc, left>>
      BY <1>2 DEF Unopened
<1>3. CASE window_thread
      BY <1>1, <1>3 DEF window_thread, WndProc, Play, StopContinues, OnBtnStop,
         DoPause, SetMute, Seek, OnStart, OnEnd, playVars, readVars
<1>4. CASE IgnoreUserEvents \/ StreamOpen
      BY <1>4 DEF IgnoreUserEvents, StreamOpen, Unopened
<1>5. CASE Settings \/ PumpEvents \/ HandleEvent \/ stream_toggle_pause \/
           toggle_pause \/ Refresh \/ Freeze \/ Ended
      BY <1>2, <1>5 DEF Settings, PumpEvents, HandleEvent, stream_toggle_pause,
         toggle_pause, Refresh, Freeze, Refreshed, Ended, readVars
<1>6. CASE StreamClose \/ Quit \/ SignalStop
      BY <1>2, <1>6 DEF StreamClose, Quit, SignalStop, readVars
<1>7. CASE read_thread
  <2>1. ppc' = ppc
        BY <1>7 DEF read_thread, OpenFile, OpenStream, LowerStop, OpenFails,
           FailQuits, ReadLoop, StepWhenPaused, playVars
  <2>2. CASE OpenStream \/ LowerStop
    <3>1. rpc' \in {"opening", "streams"} => left' # NStreams
          BY <2>2, Shapes DEF OpenStream, LowerStop, StreamOpened
    <3> QED
        BY <2>1, <3>1 DEF Unopened
  <2>3. CASE OpenFails \/ FailQuits \/ ReadLoop \/ StepWhenPaused
    <3>1. rpc' \notin {"opening", "streams"}
          BY <2>3 DEF OpenFails, FailQuits, ReadLoop, StepWhenPaused
    <3> QED
        BY <2>1, <3>1 DEF Unopened
  <2>4. CASE OpenFile
        BY <2>1, <2>4 DEF OpenFile, Unopened
  <2> QED
      BY <1>7, <2>2, <2>3, <2>4 DEF read_thread
<1>8. CASE FilterFails \/ UNCHANGED vars
      BY <1>1, <1>8 DEF FilterFails, vars, playVars, readVars
<1> QED
    BY <1>3, <1>4, <1>5, <1>6, <1>7, <1>8 DEF Other

\* What is posted to the window.
LEMMA Posting ==
    ASSUME TypeOK, NEW m \in {"START", "END", "FILE_INVALID"}, PostMessage(m),
           session \in 1 .. MaxOpens
    PROVE  /\ DOMAIN wm' = 1 .. Len(wm) + 1
           /\ \A i \in DOMAIN wm : wm'[i] = wm[i]
           /\ wm'[Len(wm) + 1] = [msg |-> m, session |-> session]
<1>1. [msg |-> m, session |-> session] \in Message
      BY DEF Message
<1>2. wm \in Seq(Message)
      BY DEF TypeOK
<1> QED
    BY <1>1, <1>2, AppendElements DEF PostMessage

\* What the window takes.
LEMMA Taking ==
    ASSUME TypeOK, wm # <<>>, wm' = Tail(wm)
    PROVE  /\ Head(wm) = wm[1] /\ 1 \in DOMAIN wm
           /\ \A i \in DOMAIN wm' : i \in Nat /\ i + 1 \in DOMAIN wm
                                    /\ wm'[i] = wm[i + 1]
<1>1. wm \in Seq(Message)
      BY DEF TypeOK
<1>2. /\ Len(wm) \in Nat /\ Len(wm) >= 1 /\ DOMAIN wm = 1 .. Len(wm)
      /\ Head(wm) = wm[1] /\ DOMAIN wm' = 1 .. Len(wm) - 1
      /\ \A i \in 1 .. Len(wm) - 1 : wm'[i] = wm[i + 1]
      BY <1>1, TailElements
<1> QED
    BY <1>2

\* How the messages to the window change.
LEMMA Messages ==
    ASSUME TypeOK, PlayInv, Other
    PROVE  \/ wm' = wm
           \/ (OnStart \/ OnEnd) /\ wm # <<>> /\ wm' = Tail(wm)
           \/ /\ session \in 1 .. MaxOpens
              /\ \/ OpenStream /\ g_bStop = 1 /\ PostMessage("START")
                 \/ PostMessage("END") \/ PostMessage("FILE_INVALID")
<1>1. CASE window_thread
  <2>1. CASE OnStart \/ OnEnd
    <3>1. wm # <<>> /\ wm' = Tail(wm)
          BY <2>1 DEF OnStart, OnEnd
    <3> QED
        BY <2>1, <3>1
  <2>2. CASE ~(OnStart \/ OnEnd)
    <3>1. Play \/ StopContinues \/ OnBtnStop \/ DoPause \/ SetMute \/ Seek
          BY <1>1, <2>2 DEF window_thread, WndProc
    <3>2. wm' = wm
          BY <3>1 DEF Play, StopContinues, OnBtnStop, DoPause, SetMute, Seek,
             windowVars
    <3> QED
        BY <3>2
  <2> QED
      BY <2>1, <2>2
<1>2. CASE IgnoreUserEvents \/ StreamOpen \/ Settings \/ PumpEvents \/
           HandleEvent \/ stream_toggle_pause \/ toggle_pause \/ Ended \/
           StreamClose \/ Quit \/ SignalStop
      BY <1>2 DEF IgnoreUserEvents, StreamOpen, Settings, PumpEvents,
         HandleEvent, stream_toggle_pause, toggle_pause, Ended, StreamClose,
         Quit, SignalStop, windowVars
<1>3. CASE Refresh \/ Freeze
      BY <1>3 DEF Refresh, Freeze, Refreshed, PlayInv, TypeOK
<1>4. CASE read_thread
  <2>1. CASE OpenStream \/ OpenFails
    <3>1. session \in 1 .. MaxOpens
          BY <2>1 DEF OpenStream, OpenFails, PlayInv, TypeOK
    <3> QED
        BY <2>1, <3>1 DEF OpenStream, OpenFails
  <2>2. CASE OpenFile \/ LowerStop \/ FailQuits \/ ReadLoop \/ StepWhenPaused
        BY <2>2 DEF OpenFile, LowerStop, FailQuits, ReadLoop, StepWhenPaused, windowVars
  <2> QED
      BY <1>4, <2>1, <2>2 DEF read_thread
<1>5. CASE FilterFails \/ UNCHANGED vars
      BY <1>5 DEF FilterFails, vars, windowVars
<1> QED
    BY <1>1, <1>2, <1>3, <1>4, <1>5 DEF Other

\* START comes from a playback that has just opened its first stream, or else
\* the window has lost track.
LEMMA StartSent ==
    ASSUME PlayInv, OpenStream, g_bStop = 1, Tracked'
    PROVE  Unopened /\ ~Unopened'
<1>1. left = NStreams /\ rpc = "streams"
      BY DEF OpenStream, Tracked
<1>2. rpc' = "started" /\ ppc' = ppc
      BY DEF OpenStream, playVars
<1>3. ppc \notin {"ignore", "open"}
      BY <1>1 DEF PlayInv
<1> QED
    BY <1>1, <1>2, <1>3 DEF Unopened

\* No START comes to be on its way but that of a tracked playback's first
\* stream.
LEMMA StartsKept ==
    ASSUME TypeOK, PlayInv, SessionInv, Other, Tracked'
    PROVE  /\ Awaiting' => Awaiting
           /\ Unopened' => Starts(session)' = {}
           /\ \A i, j \in Starts(session)' : i = j
<1>0. /\ session' = session /\ Tracked
      /\ \A i, j \in Starts(session) : i = j
      /\ Unopened => Starts(session) = {}
      /\ Unopened' => Unopened
      BY Tracking, Opening DEF SessionInv
<1>1. CASE wm' = wm
  <2>1. Starts(session)' = Starts(session)
        BY <1>0, <1>1 DEF Starts
  <2> QED
      BY <1>0, <2>1 DEF Awaiting
<1>2. CASE wm # <<>> /\ wm' = Tail(wm)
  <2>1. \A i \in Starts(session)' : i \in Nat /\ i + 1 \in Starts(session)
        BY <1>0, <1>2, Taking DEF Starts
  <2>2. \A i, j \in Starts(session)' : i = j
    <3> SUFFICES ASSUME NEW i \in Starts(session)', NEW j \in Starts(session)'
                 PROVE  i = j
        OBVIOUS
    <3>1. i + 1 = j + 1 /\ i \in Nat /\ j \in Nat
          BY <1>0, <2>1
    <3> QED
        BY <3>1
  <2> QED
      BY <1>0, <2>1, <2>2 DEF Awaiting
<1>3. CASE /\ session \in 1 .. MaxOpens
           /\ PostMessage("END") \/ PostMessage("FILE_INVALID")
  <2>1. Starts(session)' = Starts(session)
    <3>1. PICK m \in {"END", "FILE_INVALID"} : PostMessage(m)
          BY <1>3
    <3>2. /\ DOMAIN wm' = 1 .. Len(wm) + 1 /\ DOMAIN wm = 1 .. Len(wm)
          /\ Len(wm) \in Nat
          /\ \A i \in DOMAIN wm : wm'[i] = wm[i]
          /\ wm'[Len(wm) + 1].msg # "START"
          BY <1>3, <3>1, Posting, Shapes
    <3> QED
        BY <1>0, <3>2 DEF Starts
  <2> QED
      BY <1>0, <2>1 DEF Awaiting
<1>4. CASE /\ session \in 1 .. MaxOpens
           /\ OpenStream /\ g_bStop = 1 /\ PostMessage("START")
  <2>1. Unopened /\ ~Unopened'
        BY <1>4, StartSent
  <2>2. \A i \in Starts(session)' : i = Len(wm) + 1
    <3>1. /\ DOMAIN wm' = 1 .. Len(wm) + 1 /\ DOMAIN wm = 1 .. Len(wm)
          /\ Len(wm) \in Nat
          /\ \A i \in DOMAIN wm : wm'[i] = wm[i]
          BY <1>4, Posting, Shapes
    <3>2. Starts(session) = {}
          BY <1>0, <2>1
    <3> SUFFICES ASSUME NEW i \in Starts(session)', i # Len(wm) + 1
                 PROVE  FALSE
        OBVIOUS
    <3>3. i \in DOMAIN wm /\ wm'[i] = wm[i]
          BY <3>1 DEF Starts
    <3>4. i \in Starts(session)
          BY <1>0, <3>3 DEF Starts
    <3> QED
        BY <3>2, <3>4
  <2> QED
      BY <2>1, <2>2 DEF Awaiting
<1> QED
    BY <1>1, <1>2, <1>3, <1>4, Messages

\* The sessions that are posted, taken and told of.
LEMMA SessionStep ==
    ASSUME IInv, [Next]_vars
    PROVE  SessionInv'
<1> TypeOK /\ PlayInv /\ SessionInv
    BY DEF IInv
<1>1. CASE TakeOpen
  <2>1. /\ tmsgs # <<>> /\ session' = Head(tmsgs) /\ tmsgs' = Tail(tmsgs)
        /\ UNCHANGED <<wm, rpc, left, nopens, excused>>
        BY <1>1 DEF TakeOpen, windowVars, readVars, historyVars
  <2>2. /\ Head(tmsgs) = tmsgs[1] /\ 1 \in DOMAIN tmsgs
        /\ DOMAIN tmsgs = 1 .. Len(tmsgs) /\ Len(tmsgs) \in Nat
        /\ DOMAIN tmsgs' = 1 .. Len(tmsgs) - 1
        /\ \A i \in 1 .. Len(tmsgs) - 1 : tmsgs'[i] = tmsgs[i + 1]
        BY <2>1, TailElements DEF TypeOK
  <2>3. session' \in Nat /\ session < session' /\ session' <= nopens
        BY <2>1, <2>2, Shapes DEF SessionInv
  <2>4. \A i \in DOMAIN wm' : wm'[i].session < session'
        BY <2>1, <2>3, Shapes DEF SessionInv
  <2>5. Starts(session)' = {}
        BY <2>3, <2>4, <2>1, Shapes DEF Starts
  <2>6. ASSUME NEW i \in DOMAIN tmsgs'
        PROVE  /\ session' < tmsgs'[i] /\ tmsgs'[i] <= nopens'
               /\ \A j \in DOMAIN tmsgs' : i < j => tmsgs'[i] < tmsgs'[j]
    <3>1. /\ i + 1 \in DOMAIN tmsgs /\ tmsgs'[i] = tmsgs[i + 1] /\ 1 < i + 1
          BY <2>2
    <3>2. \A j \in DOMAIN tmsgs' : i < j =>
             j + 1 \in DOMAIN tmsgs /\ tmsgs'[j] = tmsgs[j + 1] /\ i + 1 < j + 1
          BY <2>2
    <3> QED
        BY <2>1, <2>2, <3>1, <3>2 DEF SessionInv
  <2>7. session' <= nopens' /\ \A i \in DOMAIN wm' : wm'[i].session <= session'
        BY <2>1, <2>3, <2>4, Shapes
  <2> QED
      BY <2>5, <2>6, <2>7 DEF SessionInv
<1>2. CASE Other
  <2>1. session' = session /\ nopens' \in {nopens, nopens + 1}
        BY <1>2, Tracking
  <2>2. session' <= nopens'
        BY <2>1, Shapes DEF SessionInv
  <2>3. \A i \in DOMAIN wm' : wm'[i].session <= session'
    <3>1. CASE wm' = wm
          BY <2>1, <3>1 DEF SessionInv
    <3>2. CASE wm # <<>> /\ wm' = Tail(wm)
          BY <2>1, <3>2, Taking DEF SessionInv
    <3>3. CASE session \in 1 .. MaxOpens
               /\ \E m \in {"START", "END", "FILE_INVALID"} : PostMessage(m)
      <4>1. /\ DOMAIN wm' = 1 .. Len(wm) + 1 /\ DOMAIN wm = 1 .. Len(wm)
            /\ \A i \in DOMAIN wm : wm'[i] = wm[i]
            /\ wm'[Len(wm) + 1].session = session /\ Len(wm) \in Nat
            BY <3>3, Posting, Shapes
      <4>2. ASSUME NEW i \in DOMAIN wm' PROVE wm'[i].session <= session
        <5>1. CASE i \in DOMAIN wm
              BY <4>1, <5>1 DEF SessionInv
        <5>2. CASE i = Len(wm) + 1
              BY <4>1, <5>2, Shapes
        <5> QED
            BY <4>1, <5>1, <5>2
      <4> QED
          BY <2>1, <4>2
    <3>4. \/ wm' = wm \/ (wm # <<>> /\ wm' = Tail(wm))
          \/ /\ session \in 1 .. MaxOpens
             /\ \E m \in {"START", "END", "FILE_INVALID"} : PostMessage(m)
          BY <1>2, Messages
    <3> QED
        BY <3>1, <3>2, <3>3, <3>4
  <2>4. \A i \in DOMAIN tmsgs' :
           /\ session' < tmsgs'[i] /\ tmsgs'[i] <= nopens'
           /\ \A j \in DOMAIN tmsgs' : i < j => tmsgs'[i] < tmsgs'[j]
    <3>1. CASE tmsgs' = tmsgs
          BY <2>1, <3>1, Shapes DEF SessionInv
    <3>2. CASE tmsgs' = <<>>
          BY <3>2
    <3>3. CASE nopens' = nopens + 1 /\ tmsgs' = Append(tmsgs, nopens + 1)
      <4>1. /\ DOMAIN tmsgs' = 1 .. Len(tmsgs) + 1
            /\ DOMAIN tmsgs = 1 .. Len(tmsgs) /\ Len(tmsgs) \in Nat
            /\ \A i \in DOMAIN tmsgs : tmsgs'[i] = tmsgs[i]
            /\ tmsgs'[Len(tmsgs) + 1] = nopens + 1
        <5>1. tmsgs \in Seq(Int) /\ nopens + 1 \in Int
              BY DEF TypeOK
        <5> QED
            BY <3>3, <5>1, AppendElements
      <4>2. \A i \in DOMAIN tmsgs :
               session < tmsgs[i] /\ tmsgs[i] < nopens + 1 /\ tmsgs[i] \in Nat
            BY Shapes DEF SessionInv
      <4>3. session < nopens + 1
            BY Shapes DEF SessionInv
      <4> SUFFICES ASSUME NEW i \in DOMAIN tmsgs'
                   PROVE  /\ session < tmsgs'[i] /\ tmsgs'[i] <= nopens + 1
                          /\ \A j \in DOMAIN tmsgs' :
                                i < j => tmsgs'[i] < tmsgs'[j]
          BY <2>1, <3>3
      <4>4. CASE i \in DOMAIN tmsgs
        <5>1. ASSUME NEW j \in DOMAIN tmsgs', i < j PROVE tmsgs'[i] < tmsgs'[j]
          <6>1. CASE j \in DOMAIN tmsgs
                BY <4>1, <4>4, <5>1, <6>1 DEF SessionInv
          <6>2. CASE j = Len(tmsgs) + 1
                BY <4>1, <4>2, <4>4, <6>2
          <6> QED
              BY <4>1, <6>1, <6>2
        <5> QED
            BY <4>1, <4>2, <4>4, <5>1, Shapes
      <4>5. CASE i = Len(tmsgs) + 1
            BY <4>1, <4>3, <4>5, Shapes
      <4> QED
          BY <4>1, <4>4, <4>5
    <3>4. CASE Play \/ StopContinues
          BY <3>1, <3>3, <3>4 DEF Play, StopContinues, OpenAndPlay
    <3>5. CASE PumpEvents
          BY <3>2, <3>5 DEF PumpEvents
    <3>6. CASE ~(Play \/ StopContinues \/ PumpEvents)
      <4>1. CASE OnBtnStop \/ DoPause \/ SetMute \/ Seek \/ OnStart \/ OnEnd
            BY <3>1, <4>1 DEF OnBtnStop, DoPause, SetMute, Seek, OnStart,
               OnEnd, sharedVars
      <4>2. CASE IgnoreUserEvents \/ StreamOpen \/ Settings \/ HandleEvent \/
                 stream_toggle_pause \/ toggle_pause \/ Refresh \/ Freeze \/
                 Ended \/ StreamClose \/ Quit \/ SignalStop
            BY <3>1, <4>2 DEF IgnoreUserEvents, StreamOpen, Settings,
               HandleEvent, stream_toggle_pause, toggle_pause, Refresh, Freeze,
               Ended, StreamClose, Quit, SignalStop, sharedVars
      <4>3. CASE read_thread \/ FilterFails \/ UNCHANGED vars
            BY <3>1, <4>3 DEF read_thread, OpenFile, OpenStream, LowerStop, OpenFails,
               FailQuits, ReadLoop, StepWhenPaused, FilterFails, sharedVars, vars
      <4> QED
          BY <1>2, <3>6, <4>1, <4>2, <4>3 DEF Other, window_thread, WndProc
    <3> QED
        BY <3>4, <3>5, <3>6
  <2>5. Unopened' => Starts(session)' = {}
    <3> SUFFICES ASSUME Unopened' PROVE Starts(session)' = {}
        OBVIOUS
    <3>1. Unopened /\ Starts(session) = {}
          BY <1>2, Opening DEF SessionInv
    <3>2. CASE wm' = wm
          BY <2>1, <3>1, <3>2 DEF Starts
    <3>3. CASE wm # <<>> /\ wm' = Tail(wm)
          BY <2>1, <3>1, <3>3, Taking DEF Starts
    <3>4. CASE /\ session \in 1 .. MaxOpens
               /\ PostMessage("END") \/ PostMessage("FILE_INVALID")
      <4>1. PICK m \in {"END", "FILE_INVALID"} : PostMessage(m)
            BY <3>4
      <4>2. /\ DOMAIN wm' = 1 .. Len(wm) + 1 /\ DOMAIN wm = 1 .. Len(wm)
            /\ \A i \in DOMAIN wm : wm'[i] = wm[i]
            /\ wm'[Len(wm) + 1].msg # "START" /\ Len(wm) \in Nat
            BY <3>4, <4>1, Posting, Shapes
      <4> QED
          BY <2>1, <3>1, <4>2 DEF Starts
    <3>5. CASE OpenStream /\ g_bStop = 1
      <4>1. rpc = "streams" /\ rpc' = "started" /\ ppc' = ppc
            BY <3>5 DEF OpenStream, playVars
      <4> QED
          BY <3>1, <4>1 DEF Unopened, PlayInv
    <3> QED
        BY <1>2, <3>2, <3>3, <3>4, <3>5, Messages
  <2>6. Tracked' => \A i, j \in Starts(session)' : i = j
        BY <1>2, StartsKept
  <2> QED
      BY <2>2, <2>3, <2>4, <2>5, <2>6 DEF SessionInv
<1> QED
    BY <1>1, <1>2 DEF Next, PlayCmdThread, Other

-----------------------------------------------------------------------------
(* What the window shows.                                                  *)

\* What it shows belongs to the playback that was asked for last.
LEMMA WindowStep ==
    ASSUME IInv, [Next]_vars, SessionInv'
    PROVE  WindowInv'
<1> TypeOK /\ PlayInv /\ SessionInv /\ WindowInv
    BY DEF IInv
<1> DEFINE Shown == {"Playing", "Pause"}
<1>1. CASE TakeOpen
  <2>1. /\ tmsgs # <<>> /\ session' = Head(tmsgs)
        /\ UNCHANGED <<dlg, status, waits, nopens, excused>>
        BY <1>1 DEF TakeOpen, windowVars, historyVars
  <2>2. Head(tmsgs) = tmsgs[1] /\ 1 \in DOMAIN tmsgs
        BY <2>1, TailElements DEF TypeOK
  <2>3. session < nopens
        BY <2>2, Shapes DEF SessionInv
  <2> QED
      BY <2>1, <2>3 DEF WindowInv
<1>2. CASE Other
  <2>1. /\ session' = session /\ nopens' \in {nopens, nopens + 1}
        /\ Tracked' /\ Awaiting' => Awaiting
        /\ Tracked' => Tracked
        BY <1>2, Tracking, StartsKept
  <2>2. CASE Play
    <3>1. dlg' = "Opening" /\ status' = "Stoped"
          BY <2>2 DEF Play
    <3> QED
        BY <3>1 DEF WindowInv
  <2>3. CASE StopContinues
    <3>1. /\ dlg' = dlg /\ status' = "Stoped" /\ waits # <<>>
          /\ excused' = excused \/ dlg = "Opening"
          BY <2>3 DEF StopContinues
    <3>2. dlg \in Shown => "late" \in excused'
          BY <3>1 DEF WindowInv
    <3> QED
        BY <3>1, <3>2 DEF WindowInv
  <2>4. CASE OnBtnStop \/ OnEnd
    <3>1. dlg' = "Stoped" /\ status' \in {status, "Stoped"}
          /\ (status' = status => dlg = "Stoped" \/ status = "Stoped")
          BY <2>4 DEF OnBtnStop, OnEnd, DoStop
    <3> QED
        BY <3>1 DEF WindowInv
  <2>5. CASE DoPause
    <3>1. /\ dlg \in Shown /\ dlg' \in Shown /\ status' = dlg'
          /\ UNCHANGED <<waits, wm, session, nopens, ppc, rpc, left, excused>>
          BY <2>5 DEF DoPause, PlayOrPause, playVars, readVars
    <3>2. Awaiting' = Awaiting
          BY <3>1 DEF Awaiting, Unopened, Starts
    <3> QED
        BY <3>1, <3>2 DEF WindowInv
  <2>6. CASE OnStart
    <3>1. /\ wm # <<>> /\ wm' = Tail(wm) /\ Head(wm).msg = "START"
          /\ dlg' = "Playing" /\ status' = "Playing"
          /\ excused' = IF waits # <<>> \/ Head(wm).session < nopens
                        THEN excused \cup {"late"} ELSE excused
          /\ UNCHANGED <<waits, session, nopens, ppc, rpc, left>>
          BY <2>6 DEF OnStart, playVars, readVars
    <3>2. waits' # <<>> => "late" \in excused'
          BY <3>1
    <3>3. ASSUME excused' = {} PROVE session' = nopens' /\ ~Awaiting'
      <4>1. /\ Head(wm) = wm[1] /\ 1 \in DOMAIN wm /\ excused = {}
            /\ ~(wm[1].session < nopens)
            BY <3>1, <3>3, Taking
      <4>2. wm[1].session = session /\ session = nopens
            BY <4>1, Shapes DEF SessionInv
      <4>3. 1 \in Starts(session)
            BY <3>1, <4>1, <4>2 DEF Starts
      <4>4. ~Unopened /\ ~Unopened'
            BY <3>1, <4>3 DEF SessionInv, Unopened
      <4>5. Starts(session)' = {}
        <5>1. \A i \in Starts(session)' :
                 i \in Nat /\ i + 1 \in Starts(session)
              BY <3>1, Taking DEF Starts
        <5>2. \A i \in Starts(session) : i = 1
              BY <4>1, <4>2, <4>3 DEF SessionInv, Tracked
        <5>3. \A i \in Starts(session)' : i = 0 /\ i \in DOMAIN wm'
              BY <5>1, <5>2 DEF Starts
        <5>4. DOMAIN wm' = 1 .. Len(wm) - 1 /\ Len(wm) \in Nat
              BY <3>1, TailElements DEF TypeOK
        <5> QED
            BY <5>3, <5>4
      <4> QED
          BY <3>1, <4>2, <4>4, <4>5 DEF Awaiting
    <3> QED
        BY <3>1, <3>2, <3>3, Shapes DEF WindowInv
  <2>7. ASSUME UNCHANGED <<dlg, status, waits, nopens>>, excused \subseteq excused'
        PROVE  WindowInv'
    <3>1. ASSUME excused' = {}, Awaiting', ~(session < nopens)
          PROVE  dlg \notin Shown
      <4>1. session = nopens
            BY <3>1, Shapes DEF SessionInv
      <4>2. Tracked'
            BY <2>1, <2>7, <3>1, <4>1 DEF Tracked
      <4> QED
          BY <2>1, <2>7, <3>1, <4>2 DEF WindowInv
    <3> QED
        BY <2>1, <2>7, <3>1 DEF WindowInv
  <2>8. CASE SetMute \/ Seek \/ IgnoreUserEvents \/ StreamOpen \/ Settings \/
             PumpEvents
        BY <2>7, <2>8 DEF SetMute, Seek, IgnoreUserEvents, StreamOpen, Settings,
           PumpEvents, windowVars, historyVars
  <2>9. CASE HandleEvent \/ stream_toggle_pause \/ toggle_pause \/ Refresh \/
             Freeze \/ Ended \/ StreamClose \/ Quit \/ SignalStop
        BY <2>7, <2>9 DEF HandleEvent, stream_toggle_pause, toggle_pause,
           Refresh, Freeze, Ended, StreamClose, Quit, SignalStop, windowVars,
           historyVars
  <2>10. CASE read_thread \/ FilterFails \/ UNCHANGED vars
        BY <2>7, <2>10 DEF read_thread, OpenFile, OpenStream, LowerStop, OpenFails,
           FailQuits, ReadLoop, StepWhenPaused, FilterFails, vars, windowVars,
           historyVars
  <2> QED
      BY <1>2, <2>2, <2>3, <2>4, <2>5, <2>6, <2>8, <2>9, <2>10
      DEF Other, window_thread, WndProc
<1> QED
    BY <1>1, <1>2 DEF Next, PlayCmdThread, Other

-----------------------------------------------------------------------------
(* Events.                                                                 *)

\* An event that is pushed while SDL is up is the last of the queue.
LEMMA Pushing ==
    ASSUME TypeOK, sdl = 1, NEW e \in Event, SDL_PushEvent(<<e>>)
    PROVE  events' = Append(events, e)
    BY PushElements DEF SDL_PushEvent, TypeOK

\* A quit stays queued until it is handled.
LEMMA QuitsKept ==
    ASSUME NEW q \in Seq(Event), NEW e \in Event
    PROVE  /\ (\A i \in DOMAIN Append(q, e) : Append(q, e)[i] # "quit")
              => e # "quit" /\ \A i \in DOMAIN q : q[i] # "quit"
           /\ (q # <<>> /\ Head(q) # "quit"
               /\ \A i \in DOMAIN Tail(q) : Tail(q)[i] # "quit")
              => \A i \in DOMAIN q : q[i] # "quit"
<1>1. ASSUME \A i \in DOMAIN Append(q, e) : Append(q, e)[i] # "quit"
      PROVE  e # "quit" /\ \A i \in DOMAIN q : q[i] # "quit"
  <2>1. /\ Len(q) \in Nat /\ DOMAIN q = 1 .. Len(q)
        /\ DOMAIN Append(q, e) = 1 .. Len(q) + 1
        /\ \A i \in 1 .. Len(q) : Append(q, e)[i] = q[i]
        /\ Append(q, e)[Len(q) + 1] = e
        BY AppendElements
  <2>2. /\ Len(q) + 1 \in 1 .. Len(q) + 1
        /\ \A i \in 1 .. Len(q) : i \in 1 .. Len(q) + 1
        BY <2>1
  <2> QED
      BY <1>1, <2>1, <2>2
<1>2. ASSUME q # <<>>, Head(q) # "quit",
             \A i \in DOMAIN Tail(q) : Tail(q)[i] # "quit"
      PROVE  \A i \in DOMAIN q : q[i] # "quit"
  <2>1. /\ Len(q) \in Nat /\ DOMAIN q = 1 .. Len(q) /\ Head(q) = q[1]
        /\ DOMAIN Tail(q) = 1 .. Len(q) - 1
        /\ \A i \in 1 .. Len(q) - 1 : Tail(q)[i] = q[i + 1]
        BY <1>2, TailElements
  <2> SUFFICES ASSUME NEW i \in 1 .. Len(q) PROVE q[i] # "quit"
      BY <2>1
  <2>2. CASE i = 1
        BY <1>2, <2>1, <2>2
  <2>3. CASE i # 1
    <3>1. i - 1 \in 1 .. Len(q) - 1 /\ (i - 1) + 1 = i
          BY <2>1, <2>3
    <3>2. Tail(q)[i - 1] = q[i]
          BY <2>1, <3>1
    <3> QED
        BY <1>2, <2>1, <3>1, <3>2
  <2> QED
      BY <2>2, <2>3
<1> QED
    BY <1>1, <1>2

\* A thread that asks the playback to quit leaves nothing to be said of it.
LEMMA QuitPushed ==
    ASSUME TypeOK, PlayInv, SDL_PushEvent(<<"quit">>), ppc' = ppc
    PROVE  ~Going'
<1> SUFFICES ASSUME Going' PROVE FALSE
    OBVIOUS
<1>1. sdl = 1
      BY DEF Going, PlayInv
<1>2. events' = Append(events, "quit") /\ events \in Seq(Event)
      BY <1>1, Pushing DEF Event, TypeOK
<1>3. \A i \in DOMAIN Append(events, "quit") : Append(events, "quit")[i] # "quit"
      BY <1>2 DEF Going, Quits
<1> QED
    BY <1>2, <1>3, QuitsKept DEF Event

\* Pushing another event.
LEMMA OtherPushed ==
    ASSUME TypeOK, PlayInv, NEW e \in Event, SDL_PushEvent(<<e>>), ppc' = ppc,
           Going', Tracked
    PROVE  Going /\ events' = Append(events, e)
<1>1. sdl = 1
      BY DEF Going, PlayInv
<1>2. events' = Append(events, e) /\ events \in Seq(Event)
      BY <1>1, Pushing DEF TypeOK
<1>3. \A i \in DOMAIN Append(events, e) : Append(events, e)[i] # "quit"
      BY <1>2 DEF Going, Quits
<1> QED
    BY <1>2, <1>3, QuitsKept DEF Going, Quits

-----------------------------------------------------------------------------
(* The pause.                                                              *)

\* What becomes of a playback under way: nothing is said of it that was not
\* said before.
LEMMA GoingKept ==
    ASSUME TypeOK, PlayInv, SessionInv, Other, ~IgnoreUserEvents, Going'
    PROVE  Going
<1>1. Tracked
      BY Tracking DEF Going
<1>2. CASE UNCHANGED <<ppc, events>>
      BY <1>1, <1>2 DEF Going, Quits
<1>3. CASE ppc' = ppc /\ \E e \in Event : SDL_PushEvent(<<e>>)
      BY <1>1, <1>3, OtherPushed
<1>4. CASE ppc' \in {"ended", "exit", "join", "signal", "idle"}
      BY <1>4 DEF Going
<1>5. CASE /\ ppc \in {"open", "settings", "pump", "peep", "pause", "resume",
                       "unstep", "freeze"}
           /\ events' = events
      BY <1>1, <1>5 DEF Going, Quits
<1>6. CASE window_thread
  <2>1. ppc' = ppc
        BY <1>6 DEF window_thread, WndProc, Play, StopContinues, OnBtnStop,
           DoPause, SetMute, Seek, OnStart, OnEnd, playVars
  <2>2. CASE Play \/ OnBtnStop \/ OnEnd
    <3>1. UNCHANGED events \/ SDL_PushEvent(<<"quit">>)
          BY <2>2 DEF Play, OnBtnStop, OnEnd, DoStop, StopWaits, sdlVars
    <3> QED
        BY <1>2, <1>3, <2>1, <3>1 DEF Event
  <2>3. CASE DoPause
    <3>1. CASE UNCHANGED events
          BY <1>2, <2>1, <3>1
    <3>2. CASE \E e \in Event : SDL_PushEvent(<<e, "toggle">>)
      <4>1. PICK e \in Event : SDL_PushEvent(<<e, "toggle">>)
            BY <3>2
      <4> DEFINE q == Append(events, e)
      <4>2. sdl = 1 /\ events \in Seq(Event) /\ "toggle" \in Event
            BY <2>1 DEF Going, PlayInv, TypeOK, Event
      <4>3. events' = Append(q, "toggle") /\ q \in Seq(Event)
            BY <4>1, <4>2, PushElements, AppendElements DEF SDL_PushEvent
      <4> HIDE DEF q
      <4>4. \A i \in DOMAIN Append(q, "toggle") : Append(q, "toggle")[i] # "quit"
            BY <4>3 DEF Going, Quits
      <4>5. \A i \in DOMAIN q : q[i] # "quit"
            BY <4>2, <4>3, <4>4, QuitsKept
      <4>6. \A i \in DOMAIN events : events[i] # "quit"
            BY <4>2, <4>5, QuitsKept DEF q
      <4> QED
          BY <1>1, <2>1, <4>6 DEF Going, Quits
    <3>3. UNCHANGED events \/ \E e \in Event : SDL_PushEvent(<<e, "toggle">>)
          BY <2>3 DEF DoPause, PlayOrPause, MuteEvent, Event
    <3> QED
        BY <3>1, <3>2, <3>3
  <2>4. CASE SetMute \/ Seek \/ OnStart \/ StopContinues
    <3>1. UNCHANGED events \/ \E e \in Event : SDL_PushEvent(<<e>>)
          BY <2>4 DEF SetMute, Seek, OnStart, StopContinues, MuteEvent, Event,
             sdlVars
    <3> QED
        BY <1>2, <1>3, <2>1, <3>1
  <2> QED
      BY <1>6, <2>2, <2>3, <2>4 DEF window_thread, WndProc
<1>7. CASE StreamOpen
      BY <1>4, <1>5, <1>7 DEF StreamOpen, sdlVars
<1>8. CASE Settings \/ PumpEvents
      BY <1>5, <1>8 DEF Settings, PumpEvents, sdlVars
<1>9. CASE stream_toggle_pause \/ toggle_pause \/ Refresh \/ Freeze
      BY <1>5, <1>9 DEF stream_toggle_pause, toggle_pause, Refresh, Freeze,
         sdlVars
<1>10. CASE HandleEvent
  <2>1. /\ ppc = "peep" /\ events # <<>> /\ events' = Tail(events)
        /\ Head(events) # "quit" /\ events \in Seq(Event)
        BY <1>10 DEF HandleEvent, Going, TypeOK
  <2>2. \A i \in DOMAIN Tail(events) : Tail(events)[i] # "quit"
        BY <2>1 DEF Going, Quits
  <2>3. \A i \in DOMAIN events : events[i] # "quit"
        BY <2>1, <2>2, QuitsKept DEF Event
  <2> QED
      BY <1>1, <2>1, <2>3 DEF Going, Quits
<1>11. CASE Ended \/ StreamClose \/ Quit \/ SignalStop
      BY <1>4, <1>11 DEF Ended, StreamClose, Quit, SignalStop
<1>12. CASE read_thread \/ FilterFails \/ UNCHANGED vars
  <2>1. /\ ppc' = ppc
        /\ UNCHANGED events \/ SDL_PushEvent(<<"quit">>)
        BY <1>12 DEF read_thread, OpenFile, OpenStream, LowerStop, OpenFails, FailQuits,
           ReadLoop, StepWhenPaused, FilterFails, vars, playVars, sdlVars
  <2> QED
      BY <1>2, <1>3, <2>1 DEF Event
<1> QED
    BY <1>6, <1>7, <1>8, <1>9, <1>10, <1>11, <1>12 DEF Other

\* What an unchanged queue and an unchanged pause keep.
LEMMA PauseKept ==
    ASSUME TypeOK, PlayInv, SessionInv, PauseInv, Other, ~IgnoreUserEvents,
           events' = events, Going' => WillPause' = WillPause,
           Going' => status' = status \/ status' \notin {"Playing", "Pause"},
           ppc' = "open" => ppc = "open",
           ppc = "open" => ppc' = "open" \/ WillPause' = 0 \/ ~Going'
    PROVE  PauseInv'
<1>2. Going' => Going
      BY GoingKept
<1>3. Going' /\ Awaiting' => Awaiting
      BY StartsKept DEF Going
<1>4. ASSUME Going', Awaiting'
      PROVE  /\ \A i \in DOMAIN events' : events'[i] # "toggle"
             /\ ppc' # "open" => WillPause' = 0
      BY <1>2, <1>3, <1>4 DEF PauseInv
<1>5. ASSUME Going', status' \in {"Playing", "Pause"}
      PROVE  Becomes(WillPause', events', IF status' = "Pause" THEN 1 ELSE 0)
      BY <1>2, <1>5 DEF PauseInv
<1> QED
    BY <1>4, <1>5 DEF PauseInv

\* ... and where nothing is said any more.
LEMMA PauseGone ==
    ASSUME ~Going'
    PROVE  PauseInv'
    BY DEF PauseInv

\* No toggle among the events after a tail or an append.
LEMMA NoToggle ==
    ASSUME NEW q \in Seq(Event), \A i \in DOMAIN q : q[i] # "toggle"
    PROVE  /\ \A e \in Event : e # "toggle" =>
                 \A i \in DOMAIN Append(q, e) : Append(q, e)[i] # "toggle"
           /\ q # <<>> => /\ Head(q) # "toggle"
                          /\ \A i \in DOMAIN Tail(q) : Tail(q)[i] # "toggle"
<1>1. ASSUME NEW e \in Event, e # "toggle", NEW i \in DOMAIN Append(q, e)
      PROVE  Append(q, e)[i] # "toggle"
  <2>1. /\ Len(q) \in Nat /\ DOMAIN q = 1 .. Len(q)
        /\ DOMAIN Append(q, e) = 1 .. Len(q) + 1
        /\ \A k \in 1 .. Len(q) : Append(q, e)[k] = q[k]
        /\ Append(q, e)[Len(q) + 1] = e
        BY AppendElements
  <2>2. i \in 1 .. Len(q) \/ i = Len(q) + 1
        BY <2>1
  <2> QED
      BY <1>1, <2>1, <2>2
<1>2. ASSUME q # <<>>
      PROVE  /\ Head(q) # "toggle"
             /\ \A i \in DOMAIN Tail(q) : Tail(q)[i] # "toggle"
  <2>1. /\ Len(q) \in Nat /\ Len(q) >= 1 /\ DOMAIN q = 1 .. Len(q)
        /\ Head(q) = q[1] /\ DOMAIN Tail(q) = 1 .. Len(q) - 1
        /\ \A i \in 1 .. Len(q) - 1 : Tail(q)[i] = q[i + 1]
        BY <1>2, TailElements
  <2>2. 1 \in 1 .. Len(q) /\ \A i \in 1 .. Len(q) - 1 : i + 1 \in 1 .. Len(q)
        BY <2>1
  <2> QED
      BY <2>1, <2>2
<1> QED
    BY <1>1, <1>2

\* An event that is no toggle is pushed.
LEMMA PausePushed ==
    ASSUME TypeOK, PlayInv, SessionInv, PauseInv, Other, ~IgnoreUserEvents,
           NEW e \in Event, e # "toggle", SDL_PushEvent(<<e>>), ppc' = ppc,
           UNCHANGED <<rpc, paused, step>>,
           status' = status \/ status' \notin {"Playing", "Pause"}
    PROVE  PauseInv'
<1>1. Tracked' => Tracked
      BY Tracking
<1>2. WillPause' = WillPause
      BY DEF WillPause, Toggling, SetsUpStep
<1>3. ASSUME Going'
      PROVE  /\ Going /\ events \in Seq(Event) /\ events' = Append(events, e)
             /\ Awaiting' => Awaiting
      BY <1>1, <1>3, OtherPushed, StartsKept DEF Going, TypeOK
<1>4. ASSUME Going', Awaiting'
      PROVE  /\ \A i \in DOMAIN events' : events'[i] # "toggle"
             /\ ppc' # "open" => WillPause' = 0
      BY <1>2, <1>3, <1>4, NoToggle DEF PauseInv
<1>5. ASSUME Going', status' \in {"Playing", "Pause"}
      PROVE  Becomes(WillPause', events', IF status' = "Pause" THEN 1 ELSE 0)
  <2>1. Becomes(WillPause, events, IF status' = "Pause" THEN 1 ELSE 0)
        BY <1>3, <1>5 DEF PauseInv
  <2> QED
      BY <1>2, <1>3, <1>5, <2>1, ToggleAppended
<1> QED
    BY <1>4, <1>5 DEF PauseInv

\* The window thread and the pause.
LEMMA PauseWindow ==
    ASSUME TypeOK, PlayInv, SessionInv, WindowInv, WindowInv', PauseInv,
           window_thread
    PROVE  PauseInv'
<1>0. /\ UNCHANGED <<ppc, rpc, paused, step>> /\ Other /\ ~IgnoreUserEvents
      /\ WillPause' = WillPause
  <2>1. UNCHANGED <<ppc, rpc, paused, step>> /\ Other
        BY DEF Other, window_thread, WndProc, Play, StopContinues, OnBtnStop,
           DoPause, SetMute, Seek, OnStart, OnEnd, playVars, readVars, stateVars
  <2>2. ~IgnoreUserEvents
        BY <2>1 DEF IgnoreUserEvents
  <2> QED
      BY <2>1, <2>2 DEF WillPause, Toggling, SetsUpStep
<1>3. ASSUME UNCHANGED events,
             status' = status \/ status' \notin {"Playing", "Pause"}
      PROVE  PauseInv'
      BY <1>0, <1>3, PauseKept
<1>4. CASE Play
  <2>1. CASE StopReturns /\ nopens' = nopens + 1
        BY <2>1, <1>0, Tracking, Shapes, PauseGone DEF Going
  <2>2. CASE SDL_PushEvent(<<"quit">>)
        BY <1>0, <2>2, QuitPushed, PauseGone
  <2> QED
      BY <1>4, <2>1, <2>2 DEF Play, StopWaits
<1>5. CASE StopContinues
      BY <1>3, <1>5 DEF StopContinues, sdlVars
<1>6. CASE OnBtnStop \/ OnEnd
  <2>1. CASE UNCHANGED events
        BY <1>3, <1>6, <2>1 DEF OnBtnStop, OnEnd
  <2>2. CASE SDL_PushEvent(<<"quit">>)
        BY <1>0, <2>2, QuitPushed, PauseGone
  <2> QED
      BY <1>6, <2>1, <2>2 DEF OnBtnStop, OnEnd, DoStop, StopWaits
<1>7. CASE DoPause
  <2>1. CASE ~Going'
        BY <2>1, PauseGone
  <2>2. CASE Going'
    <3>1. Going /\ Tracked /\ (Awaiting' => Awaiting)
          BY <1>0, <2>2, GoingKept, StartsKept DEF Going
    <3>2. /\ dlg \in {"Playing", "Pause"} /\ status = dlg /\ ~Awaiting
          /\ status' = IF dlg = "Playing" THEN "Pause" ELSE "Playing"
          BY <1>7, <3>1 DEF DoPause, PlayOrPause, WindowInv, Tracked
    <3>3. PICK e \in Event : e # "toggle" /\ SDL_PushEvent(<<e, "toggle">>)
          BY <1>7, <3>2 DEF DoPause, PlayOrPause, MuteEvent, Event
    <3>4. /\ events \in Seq(Event) /\ "toggle" \in Event /\ sdl = 1
          BY <3>1 DEF TypeOK, Event, Going, PlayInv
    <3>5. /\ events' = Append(Append(events, e), "toggle")
          /\ Append(events, e) \in Seq(Event)
          BY <3>3, <3>4, PushElements, AppendElements DEF SDL_PushEvent
    <3> DEFINE v == IF status = "Pause" THEN 1 ELSE 0
    <3>6. Becomes(WillPause, events, v)
          BY <3>1, <3>2 DEF PauseInv
    <3> HIDE DEF v
    <3>7. Becomes(WillPause, Append(events, e), v)
          BY <3>3, <3>4, <3>6, ToggleAppended
    <3>8. Becomes(WillPause, events', 1 - v)
          BY <3>4, <3>5, <3>7, ToggleAppended
    <3>9. 1 - v = IF status' = "Pause" THEN 1 ELSE 0
          BY <3>2 DEF v
    <3> QED
        BY <1>0, <3>1, <3>2, <3>8, <3>9 DEF PauseInv
  <2> QED
      BY <2>1, <2>2
<1>8. CASE SetMute \/ Seek
  <2>1. status' = status /\ \E e \in Event : e # "toggle" /\ SDL_PushEvent(<<e>>)
        BY <1>8 DEF SetMute, Seek, MuteEvent, Event, windowVars
  <2> QED
      BY <1>0, <2>1, PausePushed
<1>9. CASE OnStart
  <2>1. CASE ~Going'
        BY <2>1, PauseGone
  <2>2. CASE Going'
    <3>1. Going /\ Tracked /\ events \in Seq(Event)
          BY <1>0, <2>2, GoingKept DEF Going, TypeOK
    <3>2. /\ wm # <<>> /\ wm' = Tail(wm) /\ Head(wm).msg = "START"
          /\ dlg' = "Playing" /\ status' = "Playing"
          /\ ~(Head(wm).session < nopens)
          BY <1>9, <2>2 DEF OnStart, Going, Tracked
    <3>3. 1 \in Starts(session)
      <4>1. Head(wm) = wm[1] /\ 1 \in DOMAIN wm
            BY <3>2, Taking
      <4>2. wm[1].session = session
            BY <3>1, <3>2, <4>1, Shapes DEF SessionInv, Tracked
      <4> QED
          BY <3>2, <4>1, <4>2 DEF Starts
    <3>4. Awaiting /\ ppc # "open"
          BY <3>3 DEF Awaiting, Unopened, SessionInv
    <3>5. /\ \A i \in DOMAIN events : events[i] # "toggle"
          /\ WillPause' = 0
          BY <1>0, <3>1, <3>4 DEF PauseInv
    <3>6. events' = events \/ SDL_PushEvent(<<"seek">>)
          BY <1>9 DEF OnStart
    <3>7. /\ events' \in Seq(Event)
          /\ \A i \in DOMAIN events' : events'[i] # "toggle"
      <4>1. "seek" \in Event
            BY DEF Event
      <4>2. CASE events' = events
            BY <3>1, <3>5, <4>2
      <4>3. CASE SDL_PushEvent(<<"seek">>)
        <5>1. events' = Append(events, "seek")
              BY <1>0, <2>2, <3>1, <4>1, <4>3, OtherPushed
        <5> QED
            BY <3>1, <3>5, <4>1, <5>1, NoToggle, AppendElements
      <4> QED
          BY <3>6, <4>2, <4>3
    <3>8. Becomes(WillPause', events', 0)
          BY <3>5, <3>7, NothingToggled
    <3> QED
        BY <3>2, <3>5, <3>7, <3>8 DEF PauseInv
  <2> QED
      BY <2>1, <2>2
<1> QED
    BY <1>4, <1>5, <1>6, <1>7, <1>8, <1>9 DEF window_thread, WndProc

\* An event is handled.
LEMMA PauseHandled ==
    ASSUME TypeOK, PlayInv, SessionInv, PauseInv, HandleEvent
    PROVE  PauseInv'
<1>0. /\ Other /\ ~IgnoreUserEvents /\ ppc = "peep" /\ ppc' # "open"
      /\ events # <<>> /\ events' = Tail(events) /\ events \in Seq(Event)
      /\ Head(events) \in Event
      /\ UNCHANGED <<rpc, status>>
  <2>1. /\ Other /\ ppc = "peep" /\ ppc' # "open" /\ events # <<>>
        /\ events' = Tail(events) /\ UNCHANGED <<rpc, status>>
        BY DEF Other, HandleEvent, readVars, windowVars
  <2>2. events \in Seq(Event) /\ Head(events) \in Event
        BY <2>1, HeadTailProperties DEF TypeOK
  <2>3. ~IgnoreUserEvents
        BY <2>1 DEF IgnoreUserEvents
  <2> QED
      BY <2>1, <2>2, <2>3
<1>2. Going' => Going /\ (Awaiting' => Awaiting)
      BY <1>0, GoingKept, StartsKept DEF Going
<1>3. CASE Head(events) = "toggle"
  <2>1. /\ UNCHANGED <<paused, step>> /\ paused \in {0, 1}
        /\ ppc' = IF paused = 1 THEN "resume" ELSE "pause"
        /\ excused' = IF Stepping THEN excused \cup {"step"} ELSE excused
        BY <1>3 DEF HandleEvent, TypeOK
  <2>2. Tracked' => ~Stepping
        BY <2>1 DEF Tracked
  <2>3. Tracked' => WillPause' = 1 - WillPause
        BY <1>0, <2>1, <2>2 DEF WillPause, Toggling, SetsUpStep, Stepping
  <2>4. Going' => ~Awaiting'
    <3> SUFFICES ASSUME Going', Awaiting' PROVE FALSE
        OBVIOUS
    <3>1. \A i \in DOMAIN events : events[i] # "toggle"
          BY <1>2 DEF PauseInv
    <3> QED
        BY <1>0, <1>3, <3>1, NoToggle
  <2>5. ASSUME Going', status' \in {"Playing", "Pause"}
        PROVE  Becomes(WillPause', events', IF status' = "Pause" THEN 1 ELSE 0)
    <3>1. Becomes(WillPause, events, IF status' = "Pause" THEN 1 ELSE 0)
          BY <1>0, <1>2, <2>5 DEF PauseInv
    <3>2. Becomes(1 - WillPause, Tail(events), IF status' = "Pause" THEN 1 ELSE 0)
          BY <1>0, <1>3, <3>1, ToggleTaken
    <3> QED
        BY <1>0, <2>3, <2>5, <3>2 DEF Going
  <2> QED
      BY <2>4, <2>5 DEF PauseInv
<1>4. CASE Head(events) # "toggle"
  <2>1. UNCHANGED <<paused, step>> /\ ppc' \in {"pump", "exit"}
        BY <1>4 DEF HandleEvent
  <2>2. WillPause' = WillPause
        BY <1>0, <2>1 DEF WillPause, Toggling, SetsUpStep
  <2>3. ASSUME Going', Awaiting'
        PROVE  /\ \A i \in DOMAIN events' : events'[i] # "toggle"
               /\ WillPause' = 0
        BY <1>0, <1>2, <2>2, <2>3, NoToggle DEF PauseInv
  <2>4. ASSUME Going', status' \in {"Playing", "Pause"}
        PROVE  Becomes(WillPause', events', IF status' = "Pause" THEN 1 ELSE 0)
    <3>1. Becomes(WillPause, events, IF status' = "Pause" THEN 1 ELSE 0)
          BY <1>0, <1>2, <2>4 DEF PauseInv
    <3>2. Becomes(WillPause, Tail(events), IF status' = "Pause" THEN 1 ELSE 0)
          BY <1>0, <1>4, <3>1, ToggleTaken
    <3> QED
        BY <1>0, <2>2, <3>2
  <2> QED
      BY <2>3, <2>4 DEF PauseInv
<1> QED
    BY <1>3, <1>4

\* The read thread: a playback that will pause goes on to, and no other.
LEMMA PauseRead ==
    ASSUME TypeOK, PlayInv, SessionInv, StepInv, PauseInv, read_thread
    PROVE  PauseInv'
<1>0. Other /\ ~IgnoreUserEvents /\ UNCHANGED <<ppc, status>>
  <2>1. Other /\ UNCHANGED <<ppc, status>>
        BY DEF Other, read_thread, OpenFile, OpenStream, LowerStop, OpenFails, FailQuits,
           ReadLoop, StepWhenPaused, playVars, windowVars
  <2>2. ~IgnoreUserEvents
        BY <2>1 DEF IgnoreUserEvents
  <2> QED
      BY <2>1, <2>2
<1>1. CASE FailQuits
  <2>1. SDL_PushEvent(<<"quit">>) /\ rpc' = "gone"
        BY <1>1 DEF FailQuits
  <2> QED
      BY <1>0, <2>1, QuitPushed, PauseGone
<1>2. CASE OpenFile \/ OpenStream \/ LowerStop \/ OpenFails \/ ReadLoop
  <2>1. UNCHANGED <<events, paused, step>> /\ ~SetsUpStep /\ ~SetsUpStep'
        BY <1>2 DEF OpenFile, OpenStream, LowerStop, OpenFails, ReadLoop,
           StreamOpened, SetsUpStep, sdlVars, stateVars
  <2>2. WillPause' = WillPause
        BY <1>0, <2>1 DEF WillPause, Toggling
  <2> QED
      BY <1>0, <2>1, <2>2, PauseKept
<1>3. CASE StepWhenPaused
  <2>1. UNCHANGED events
        BY <1>3 DEF StepWhenPaused, sdlVars
  <2>2. ASSUME Going' PROVE WillPause' = WillPause
    <3>1. Tracked /\ excused' = {}
          BY <1>0, <2>2, Tracking DEF Going, Tracked
    <3>2. CASE Toggling
      <4>1. rpc = "sought" /\ UNCHANGED paused
            BY <1>3, <3>1, <3>2 DEF StepWhenPaused, StepInv, SetsUpStep
      <4> QED
          BY <1>0, <3>2, <4>1 DEF WillPause, Toggling
    <3>3. CASE ~Toggling
      <4>1. CASE rpc = "sought"
        <5>1. /\ UNCHANGED <<paused, step>> /\ paused \in {0, 1}
              /\ rpc' = IF paused = 1 THEN "step" ELSE "run"
              BY <1>3, <4>1 DEF StepWhenPaused, TypeOK
        <5> QED
            BY <1>0, <3>3, <4>1, <5>1 DEF WillPause, Toggling, SetsUpStep
      <4>2. CASE rpc # "sought"
        <5>1. SetsUpStep
              BY <1>3, <4>2 DEF StepWhenPaused, SetsUpStep
        <5>2. SetsUpStep' \/ step' = 1
              BY <1>3, <4>2 DEF StepWhenPaused, SetsUpStep
        <5> QED
            BY <1>0, <3>3, <5>1, <5>2 DEF WillPause, Toggling
      <4> QED
          BY <4>1, <4>2
    <3> QED
        BY <3>2, <3>3
  <2> QED
      BY <1>0, <2>1, <2>2, PauseKept
<1> QED
    BY <1>1, <1>2, <1>3 DEF read_thread

\* The event loop in a toggle and after a picture.
LEMMA PauseToggled ==
    ASSUME TypeOK, PlayInv, SessionInv, StepInv, PauseInv,
           stream_toggle_pause \/ toggle_pause \/ Refresh \/ Freeze
    PROVE  PauseInv'
<1>0. /\ Other /\ ~IgnoreUserEvents /\ UNCHANGED <<rpc, events, status>>
      /\ ppc # "open" /\ ppc' # "open"
  <2>1. /\ Other /\ UNCHANGED <<rpc, events, status>>
        /\ ppc \notin {"ignore", "open"} /\ ppc' # "open"
        BY DEF Other, stream_toggle_pause, toggle_pause, Refresh, Freeze,
           Refreshed, readVars, sdlVars, windowVars
  <2> QED
      BY <2>1 DEF IgnoreUserEvents
<1> SUFFICES ASSUME Going' PROVE WillPause' = WillPause
    BY <1>0, PauseKept
<1>1. Tracked
      BY <1>0, Tracking DEF Going
<1>2. CASE stream_toggle_pause
      BY <1>0, <1>2 DEF stream_toggle_pause, WillPause, Toggling
<1>3. CASE toggle_pause
  <2>1. ~SetsUpStep /\ ~SetsUpStep'
        BY <1>0, <1>1, <1>3 DEF toggle_pause, StepInv, Toggling, SetsUpStep
  <2> QED
      BY <1>3, <2>1 DEF toggle_pause, WillPause, Toggling
<1>4. CASE Refresh
  <2>1. UNCHANGED <<paused, step>> /\ ~Toggling /\ ~Toggling'
        BY <1>4 DEF Refresh, Refreshed, Toggling, stateVars
  <2> QED
      BY <1>0, <2>1 DEF WillPause, SetsUpStep, Toggling
<1>5. CASE Freeze
  <2>1. step = 1 /\ UNCHANGED step /\ ~Toggling /\ ~Toggling'
        BY <1>1, <1>5 DEF Freeze, Refreshed, StepInv, Toggling
  <2> QED
      BY <2>1 DEF WillPause, Toggling
<1> QED
    BY <1>2, <1>3, <1>4, <1>5

\* When a step by one frame goes with what the event loop does.
LEMMA StepStep ==
    ASSUME IInv, [Next]_vars
    PROVE  StepInv'
<1> SUFFICES ASSUME Tracked'
             PROVE  /\ rpc' \in {"step", "toggle", "unpause"} => paused' = 1
                    /\ rpc' # "repause" /\ ~(Toggling' /\ SetsUpStep')
                    /\ ppc' = "freeze" => paused' = 0 /\ step' = 1
    BY DEF StepInv
<1> TypeOK /\ PlayInv /\ SessionInv /\ StepInv
    BY DEF IInv
<1>1. CASE ppc' \in {"ignore", "open", "signal"} /\ UNCHANGED rpc /\ PlayInv'
      BY <1>1 DEF PlayInv, Toggling, SetsUpStep
<1>2. CASE TakeOpen \/ IgnoreUserEvents \/ (StreamOpen /\ ppc' = "signal")
      BY <1>1, <1>2, PlayStep DEF TakeOpen, IgnoreUserEvents, StreamOpen, readVars
<1>3. CASE Other
  <2>1. /\ rpc \in {"step", "toggle", "unpause"} => paused = 1
        /\ rpc # "repause" /\ ~(Toggling /\ SetsUpStep)
        /\ ppc = "freeze" => paused = 0 /\ step = 1
        BY <1>3, Tracking DEF StepInv
  <2>2. CASE /\ UNCHANGED <<rpc, paused, step>>
             /\ ppc' = ppc \/ (~Toggling' /\ ppc' # "freeze")
        BY <2>1, <2>2 DEF Toggling, SetsUpStep
  <2>3. CASE window_thread \/ FilterFails \/ UNCHANGED vars
        BY <2>2, <2>3 DEF window_thread, WndProc, Play, StopContinues, OnBtnStop,
           DoPause, SetMute, Seek, OnStart, OnEnd, FilterFails, vars, playVars,
           readVars, stateVars
  <2>4. CASE Settings \/ PumpEvents \/ Ended \/ StreamClose \/ Quit \/ SignalStop
    <3>1. UNCHANGED <<rpc, paused, step>>
          BY <2>4 DEF Settings, PumpEvents, Ended, StreamClose, Quit, SignalStop,
             readVars, stateVars
    <3>2. ppc' \in {"pump", "peep", "exit", "join", "signal", "idle"}
          BY <2>4 DEF Settings, PumpEvents, Ended, StreamClose, Quit, SignalStop
    <3> QED
        BY <2>2, <3>1, <3>2 DEF Toggling
  <2>5. CASE StreamOpen
    <3>1. CASE ppc' = "settings" /\ rpc' = "opening"
          BY <3>1 DEF Toggling, SetsUpStep
    <3> QED
        BY <1>2, <2>5, <3>1 DEF StreamOpen
  <2>6. CASE HandleEvent
    <3>1. /\ UNCHANGED <<rpc, paused, step>>
          /\ \/ ppc' \in {"pump", "exit"}
             \/ ppc' \in {"pause", "resume"} /\ ~Stepping
          BY <2>6 DEF HandleEvent, Tracked, readVars
    <3> QED
        BY <2>1, <2>2, <3>1 DEF Toggling, Stepping, SetsUpStep
  <2>7. CASE stream_toggle_pause \/ toggle_pause
    <3>1. /\ Toggling /\ UNCHANGED rpc /\ ppc' # "freeze"
          BY <2>7 DEF stream_toggle_pause, toggle_pause, Toggling, readVars
    <3>2. ~SetsUpStep'
          BY <2>1, <3>1 DEF SetsUpStep
    <3> QED
        BY <3>1, <3>2 DEF SetsUpStep
  <2>8. CASE Refresh
    <3>1. /\ UNCHANGED <<rpc, paused, step>>
          /\ \/ ppc' \in {"pump", "ended"}
             \/ ppc' = "freeze" /\ paused = 0 /\ step = 1
          BY <2>8 DEF Refresh, Refreshed, readVars, stateVars
    <3> QED
        BY <2>1, <2>2, <3>1 DEF Toggling
  <2>9. CASE Freeze
    <3>1. /\ UNCHANGED rpc /\ paused' = 1 /\ ppc' \in {"pump", "ended"}
          BY <2>1, <2>9 DEF Freeze, Refreshed, readVars
    <3> QED
        BY <2>1, <3>1 DEF Toggling
  <2>10. CASE OpenFile \/ OpenStream \/ LowerStop \/ OpenFails \/ FailQuits \/
              ReadLoop
    <3>1. UNCHANGED <<ppc, paused, step>> /\ ~SetsUpStep'
          BY <2>10 DEF OpenFile, OpenStream, LowerStop, OpenFails, FailQuits,
             ReadLoop, StreamOpened, SetsUpStep, playVars, stateVars
    <3> QED
        BY <2>1, <3>1 DEF SetsUpStep
  <2>11. CASE StepWhenPaused
    <3>1. UNCHANGED ppc /\ excused' = {}
          BY <2>11 DEF StepWhenPaused, Tracked, playVars
    <3>2. CASE rpc = "sought"
      <4>1. /\ UNCHANGED <<paused, step>>
            /\ rpc' = IF paused = 1 THEN "step" ELSE "run"
            /\ ~(paused = 1 /\ Toggling)
            BY <2>11, <3>1, <3>2 DEF StepWhenPaused
      <4> QED
          BY <2>1, <3>1, <4>1 DEF Toggling, SetsUpStep
    <3>3. CASE rpc \in {"step", "toggle"}
      <4>1. /\ UNCHANGED <<paused, step>> /\ paused = 1
            /\ rpc' \in {"toggle", "unpause"}
            BY <2>1, <2>11, <3>3 DEF StepWhenPaused
      <4>2. ~Toggling'
            BY <2>1, <3>1, <3>3 DEF Toggling, SetsUpStep
      <4> QED
          BY <2>1, <3>1, <4>1, <4>2
    <3>4. CASE rpc \in {"unpause", "stepped"}
      <4>1. /\ rpc' \in {"stepped", "run"} /\ paused' \in {0, paused}
            /\ step' \in {1, step}
            BY <2>11, <3>4 DEF StepWhenPaused
      <4>2. ~Toggling'
            BY <2>1, <3>1, <3>4 DEF Toggling, SetsUpStep
      <4> QED
          BY <2>1, <3>1, <4>1, <4>2
    <3> QED
        BY <2>1, <2>11, <3>2, <3>3, <3>4 DEF StepWhenPaused
  <2> QED
      BY <1>2, <1>3, <2>3, <2>4, <2>5, <2>6, <2>7, <2>8, <2>9, <2>10, <2>11
      DEF Other, read_thread
<1> QED
    BY <1>2, <1>3 DEF Next, PlayCmdThread, Other

\* The pause that the window shows is the one that the playback comes to.
LEMMA PauseStep ==
    ASSUME IInv, [Next]_vars, WindowInv'
    PROVE  PauseInv'
<1> TypeOK /\ PlayInv /\ SessionInv /\ WindowInv /\ StepInv /\ PauseInv
    BY DEF IInv
<1>1. CASE TakeOpen
  <2>1. ppc' \in {"ignore", "signal"}
        BY <1>1 DEF TakeOpen
  <2> QED
      BY <2>1, PauseGone DEF Going
<1>2. CASE IgnoreUserEvents
  <2>1. /\ ppc = "ignore" /\ ppc' = "open"
        /\ \A i \in DOMAIN events' : events'[i] = "quit"
        BY <1>2 DEF IgnoreUserEvents
  <2>3. Going' => status' \notin {"Playing", "Pause"}
        BY <2>1 DEF Going, Tracked, WindowInv, Awaiting, Unopened
  <2> QED
      BY <2>1, <2>3 DEF PauseInv
<1>3. CASE StreamOpen
  <2>1. CASE ppc' = "signal"
        BY <2>1, PauseGone DEF Going
  <2>2. CASE ppc' = "settings"
    <3>1. /\ ppc = "open" /\ rpc' = "opening" /\ paused' = 0 /\ step' = 0
          /\ left' = NStreams /\ UNCHANGED <<events, status>>
          BY <1>3, <2>2 DEF StreamOpen, sdlVars, windowVars
    <3>2. WillPause' = 0
          BY <2>2, <3>1 DEF WillPause, Toggling, SetsUpStep
    <3>3. Other /\ ~IgnoreUserEvents
          BY <1>3, <3>1 DEF Other, IgnoreUserEvents
    <3>4. Going' => Going
          BY <3>3, GoingKept
    <3>5. Awaiting /\ Awaiting'
          BY <3>1 DEF Awaiting, Unopened
    <3>6. Going' => status' \notin {"Playing", "Pause"}
          BY <3>5 DEF Going, Tracked, WindowInv
    <3> QED
        BY <3>1, <3>2, <3>4, <3>5, <3>6 DEF PauseInv
  <2> QED
      BY <1>3, <2>1, <2>2 DEF StreamOpen
<1>4. CASE window_thread
      BY <1>4, PauseWindow
<1>5. CASE HandleEvent
      BY <1>5, PauseHandled
<1>6. CASE read_thread
      BY <1>6, PauseRead
<1>8. CASE Settings \/ PumpEvents \/ Ended \/ StreamClose \/ SignalStop
  <2>1. /\ UNCHANGED <<events, rpc, step, status, paused>>
        /\ ppc # "open" /\ ppc' # "open" /\ ppc # "ignore"
        /\ ~Toggling /\ ~Toggling'
        BY <1>8 DEF Settings, PumpEvents, Ended, StreamClose, SignalStop, sdlVars,
           readVars, stateVars, windowVars, Toggling
  <2>2. Other /\ ~IgnoreUserEvents
        BY <1>8, <2>1 DEF Other, IgnoreUserEvents
  <2>3. WillPause' = WillPause
        BY <2>1 DEF WillPause, Toggling, SetsUpStep
  <2> QED
      BY <2>1, <2>2, <2>3, PauseKept
<1>9. CASE stream_toggle_pause \/ toggle_pause \/ Refresh \/ Freeze
      BY <1>9, PauseToggled
<1>10. CASE Quit
  <2>1. ppc' = "signal"
        BY <1>10 DEF Quit
  <2> QED
      BY <2>1, PauseGone DEF Going
<1>11. CASE FilterFails
  <2>1. SDL_PushEvent(<<"quit">>) /\ UNCHANGED ppc
        BY <1>11 DEF FilterFails, playVars
  <2> QED
      BY <2>1, QuitPushed, PauseGone
<1>12. CASE UNCHANGED vars
  <2>1. UNCHANGED <<events, rpc, step, status, paused, ppc>> /\ Other
        BY <1>12 DEF vars, sdlVars, readVars, stateVars, windowVars, playVars, Other
  <2>2. ~IgnoreUserEvents
        BY <2>1 DEF IgnoreUserEvents
  <2>3. WillPause' = WillPause
        BY <2>1 DEF WillPause, Toggling, SetsUpStep
  <2> QED
      BY <2>1, <2>2, <2>3, PauseKept
<1> QED
    BY <1>1, <1>2, <1>3, <1>4, <1>5, <1>6, <1>8, <1>9, <1>10, <1>11, <1>12
    DEF Next, PlayCmdThread

-----------------------------------------------------------------------------
(* The mute.                                                               *)

\* What keeps the mute of a playback that is listened to.
LEMMA MuteKept ==
    ASSUME TypeOK, PlayInv, SessionInv, MuteInv, Other, ~IgnoreUserEvents,
           Going' /\ status' = "Playing" => status = "Playing" \/ Awaiting,
           UNCHANGED <<m_bMute, events>>,
           \/ ppc' \in {"open", "settings"}
           \/ UNCHANGED muted /\ ppc \notin {"open", "settings"}
           \/ muted' = m_bMute
    PROVE  MuteInv'
<1> SUFFICES ASSUME Going', status' = "Playing" \/ Awaiting'
             PROVE  /\ LastMute(events', MuteEvent(m_bMute'))
                    /\ Mutes(events') = {} =>
                          ppc' \in {"open", "settings"} \/ muted' = m_bMute'
    BY DEF MuteInv
<1>1. Going /\ (status = "Playing" \/ Awaiting)
      BY GoingKept, StartsKept DEF Going
<1>2. /\ LastMute(events, MuteEvent(m_bMute))
      /\ Mutes(events) = {} => ppc \in {"open", "settings"} \/ muted = m_bMute
      BY <1>1 DEF MuteInv
<1> QED
    BY <1>2

\* The window thread and the mute.
LEMMA MuteWindow ==
    ASSUME TypeOK, PlayInv, SessionInv, WindowInv, MuteInv, window_thread
    PROVE  MuteInv'
<1>0. UNCHANGED <<ppc, muted>> /\ Other /\ ~IgnoreUserEvents
  <2>1. UNCHANGED <<ppc, muted>> /\ Other
        BY DEF Other, window_thread, WndProc, Play, StopContinues, OnBtnStop,
           DoPause, SetMute, Seek, OnStart, OnEnd, playVars, stateVars
  <2>2. ~IgnoreUserEvents
        BY <2>1 DEF IgnoreUserEvents
  <2> QED
      BY <2>1, <2>2
<1>1. ASSUME Going'
      PROVE  /\ Going /\ Tracked /\ (Awaiting' => Awaiting) /\ sdl = 1
             /\ events \in Seq(Event) /\ nopens' = nopens
      BY <1>0, <1>1, GoingKept, StartsKept, Tracking
      DEF Going, TypeOK, PlayInv
<1>2. ASSUME UNCHANGED m_bMute,
             Going' /\ status' = "Playing" => status = "Playing" \/ Awaiting,
             events' = events \/ SDL_PushEvent(<<"seek">>)
                \/ SDL_PushEvent(<<"quit">>)
      PROVE  MuteInv'
  <2>1. SUFFICES ASSUME Going', status' = "Playing" \/ Awaiting'
                 PROVE  /\ LastMute(events', MuteEvent(m_bMute'))
                        /\ Mutes(events') = {} =>
                              ppc' \in {"open", "settings"} \/ muted' = m_bMute'
        BY DEF MuteInv
  <2>2. /\ LastMute(events, MuteEvent(m_bMute))
        /\ Mutes(events) = {} => ppc \in {"open", "settings"} \/ muted = m_bMute
        BY <1>1, <1>2, <2>1 DEF MuteInv
  <2>3. /\ LastMute(events', MuteEvent(m_bMute))
        /\ Mutes(events') = Mutes(events)
    <3>1. CASE events' = events
          BY <2>2, <3>1
    <3>2. CASE \E e \in {"seek", "quit"} : SDL_PushEvent(<<e>>)
      <4>1. PICK e \in {"seek", "quit"} : SDL_PushEvent(<<e>>)
            BY <3>2
      <4>2. e \in Event /\ e \notin {"mute", "unmute"}
            BY DEF Event
      <4>3. events' = Append(events, e)
            BY <1>0, <1>1, <2>1, <4>1, <4>2, OtherPushed
      <4> QED
          BY <1>1, <2>1, <2>2, <4>2, <4>3, MuteAppended
    <3> QED
        BY <1>2, <3>1, <3>2
  <2> QED
      BY <1>0, <1>2, <2>2, <2>3
<1>3. CASE Play
  <2>1. UNCHANGED m_bMute /\ status' = "Stoped"
        /\ (events' = events \/ SDL_PushEvent(<<"quit">>))
        BY <1>3 DEF Play, StopWaits, sdlVars
  <2> QED
      BY <1>2, <2>1
<1>4. CASE StopContinues
      BY <1>2, <1>4 DEF StopContinues, sdlVars
<1>5. CASE OnBtnStop \/ OnEnd
  <2>1. UNCHANGED m_bMute /\ status' \in {status, "Stoped"}
        /\ (events' = events \/ SDL_PushEvent(<<"quit">>))
        BY <1>5 DEF OnBtnStop, OnEnd, DoStop, StopWaits
  <2> QED
      BY <1>2, <2>1
<1>6. CASE Seek
      BY <1>2, <1>6 DEF Seek, windowVars
<1>7. CASE SetMute
  <2> SUFFICES ASSUME Going'
               PROVE  LastMute(events', MuteEvent(m_bMute')) /\ Mutes(events') # {}
      BY DEF MuteInv
  <2> DEFINE e == MuteEvent(1 - m_bMute)
  <2>1. m_bMute' = 1 - m_bMute /\ SDL_PushEvent(<<e>>)
        BY <1>7 DEF SetMute
  <2>2. e \in Event /\ e \in {"mute", "unmute"}
        BY DEF MuteEvent, Event
  <2>3. MuteEvent(m_bMute') = e
        BY <2>1 DEF MuteEvent
  <2> HIDE DEF e
  <2>4. events' = Append(events, e)
        BY <1>0, <1>1, <2>1, <2>2, OtherPushed
  <2> QED
      BY <1>1, <2>2, <2>3, <2>4, MuteAppended
<1>8. CASE DoPause
  <2> SUFFICES ASSUME Going', status' = "Playing" \/ Awaiting'
               PROVE  LastMute(events', MuteEvent(m_bMute')) /\ Mutes(events') # {}
      BY DEF MuteInv
  <2>1. /\ dlg \in {"Playing", "Pause"} /\ status = dlg /\ ~Awaiting
        /\ status' = IF dlg = "Playing" THEN "Pause" ELSE "Playing"
        BY <1>1, <1>8 DEF DoPause, PlayOrPause, WindowInv, Tracked
  <2> DEFINE e == MuteEvent(m_bMute)
  <2>2. SDL_PushEvent(<<e, "toggle">>) /\ m_bMute' = m_bMute
        BY <1>1, <1>8, <2>1 DEF DoPause, PlayOrPause
  <2>3. /\ e \in Event /\ e \in {"mute", "unmute"}
        /\ "toggle" \in Event /\ "toggle" \notin {"mute", "unmute"}
        BY DEF MuteEvent, Event
  <2> HIDE DEF e
  <2> DEFINE q == Append(events, e)
  <2>4. events' = Append(q, "toggle") /\ q \in Seq(Event)
        BY <1>1, <2>2, <2>3, PushElements, AppendElements DEF SDL_PushEvent
  <2>5. LastMute(q, e) /\ Mutes(q) # {}
        BY <1>1, <2>3, MuteAppended
  <2> HIDE DEF q
  <2>6. LastMute(events', e) /\ Mutes(events') = Mutes(q)
        BY <2>3, <2>4, <2>5, MuteAppended
  <2> QED
      BY <2>2, <2>5, <2>6 DEF e
<1>9. CASE OnStart
  <2>1. UNCHANGED m_bMute /\ (events' = events \/ SDL_PushEvent(<<"seek">>))
        BY <1>9 DEF OnStart
  <2>2. Going' => Awaiting
    <3> SUFFICES ASSUME Going' PROVE Awaiting
        OBVIOUS
    <3>1. /\ wm # <<>> /\ wm' = Tail(wm) /\ Head(wm).msg = "START"
          /\ ~(Head(wm).session < nopens)
          BY <1>9 DEF OnStart, Going, Tracked
    <3>2. Head(wm) = wm[1] /\ 1 \in DOMAIN wm
          BY <3>1, Taking
    <3>3. wm[1].session = session
          BY <1>1, <3>1, <3>2, Shapes DEF SessionInv, Tracked
    <3>4. 1 \in Starts(session)
          BY <3>1, <3>2, <3>3 DEF Starts
    <3> QED
        BY <3>4 DEF Awaiting
  <2> QED
      BY <1>2, <2>1, <2>2
<1> QED
    BY <1>3, <1>4, <1>5, <1>6, <1>7, <1>8, <1>9 DEF window_thread, WndProc

\* An event is handled.
LEMMA MuteHandled ==
    ASSUME TypeOK, PlayInv, SessionInv, MuteInv, HandleEvent
    PROVE  MuteInv'
<1>0. /\ Other /\ ~IgnoreUserEvents /\ ppc = "peep" /\ events # <<>>
      /\ events' = Tail(events) /\ events \in Seq(Event)
      /\ UNCHANGED <<status, m_bMute>>
  <2>1. /\ Other /\ ppc = "peep" /\ events # <<>> /\ events' = Tail(events)
        /\ UNCHANGED <<status, m_bMute>>
        BY DEF Other, HandleEvent, windowVars
  <2>2. ~IgnoreUserEvents
        BY <2>1 DEF IgnoreUserEvents
  <2> QED
      BY <2>1, <2>2 DEF TypeOK
<1> SUFFICES ASSUME Going', status' = "Playing" \/ Awaiting'
             PROVE  /\ LastMute(events', MuteEvent(m_bMute'))
                    /\ Mutes(events') = {} => muted' = m_bMute'
    BY DEF MuteInv
<1>1. Going /\ (status = "Playing" \/ Awaiting)
      BY <1>0, GoingKept, StartsKept DEF Going
<1>2. /\ LastMute(events, MuteEvent(m_bMute))
      /\ Mutes(events) = {} => muted = m_bMute
      BY <1>0, <1>1 DEF MuteInv
<1>3. /\ LastMute(events', MuteEvent(m_bMute))
      /\ Head(events) \notin {"mute", "unmute"} /\ Mutes(events') = {} =>
            Mutes(events) = {}
      /\ Head(events) \in {"mute", "unmute"} /\ Mutes(events') = {} =>
            Head(events) = MuteEvent(m_bMute)
      BY <1>0, <1>2, MuteTaken
<1>4. CASE Head(events) \in {"mute", "unmute"}
  <2>1. muted' = IF Head(events) = "mute" THEN 1 ELSE 0
        BY <1>4 DEF HandleEvent
  <2>2. m_bMute \in {0, 1}
        BY DEF TypeOK
  <2>3. Head(events) = MuteEvent(m_bMute) => muted' = m_bMute
        BY <2>1, <2>2 DEF MuteEvent
  <2> QED
      BY <1>0, <1>3, <1>4, <2>3
<1>5. CASE Head(events) \notin {"mute", "unmute"}
  <2>1. UNCHANGED muted
        BY <1>5 DEF HandleEvent
  <2> QED
      BY <1>0, <1>2, <1>3, <1>5, <2>1
<1> QED
    BY <1>4, <1>5

\* The mute that is set is the one that the playback comes to.
LEMMA MuteStep ==
    ASSUME IInv, [Next]_vars
    PROVE  MuteInv'
<1> TypeOK /\ PlayInv /\ SessionInv /\ WindowInv /\ MuteInv
    BY DEF IInv
<1>1. CASE TakeOpen
  <2>1. ppc' \in {"ignore", "signal"}
        BY <1>1 DEF TakeOpen
  <2> QED
      BY <2>1 DEF MuteInv, Going
<1>2. CASE IgnoreUserEvents
  <2>1. ppc' = "open" /\ \A i \in DOMAIN events' : events'[i] = "quit"
        BY <1>2 DEF IgnoreUserEvents
  <2>2. Mutes(events') = {}
        BY <2>1 DEF Mutes
  <2> QED
      BY <2>1, <2>2 DEF MuteInv, LastMute
<1>3. CASE StreamOpen
  <2>1. CASE ppc' = "signal"
        BY <2>1 DEF MuteInv, Going
  <2>2. CASE ppc' = "settings"
    <3>1. UNCHANGED <<m_bMute, events, status>> /\ Other /\ ~IgnoreUserEvents
          BY <1>3, <2>2 DEF StreamOpen, windowVars, sdlVars, Other,
             IgnoreUserEvents
    <3> QED
        BY <2>2, <3>1, MuteKept
  <2> QED
      BY <1>3, <2>1, <2>2 DEF StreamOpen
<1>4. CASE window_thread
      BY <1>4, MuteWindow
<1>5. CASE HandleEvent
      BY <1>5, MuteHandled
<1>6. CASE Settings
  <2>1. UNCHANGED <<m_bMute, events, status>> /\ muted' = m_bMute
        /\ Other /\ ~IgnoreUserEvents
        BY <1>6 DEF Settings, windowVars, sdlVars, Other, IgnoreUserEvents
  <2> QED
      BY <2>1, MuteKept
<1>7. CASE PumpEvents \/ stream_toggle_pause \/ toggle_pause \/ Refresh \/
           Freeze \/ Ended \/ StreamClose \/ SignalStop
  <2>1. UNCHANGED <<m_bMute, events, status, muted>>
        /\ ppc \notin {"ignore", "open", "settings"}
        BY <1>7 DEF PumpEvents, stream_toggle_pause, toggle_pause, Refresh,
           Freeze, Ended, StreamClose, SignalStop,
           windowVars, sdlVars, stateVars
  <2>2. Other /\ ~IgnoreUserEvents
        BY <1>7, <2>1 DEF Other, IgnoreUserEvents
  <2> QED
      BY <2>1, <2>2, MuteKept
<1>8. CASE Quit
      BY <1>8 DEF Quit, MuteInv, Going
<1>9. CASE read_thread \/ FilterFails \/ UNCHANGED vars
  <2>1. /\ UNCHANGED <<m_bMute, status, muted, ppc>>
        /\ events' = events \/ SDL_PushEvent(<<"quit">>)
        BY <1>9 DEF read_thread, OpenFile, OpenStream, LowerStop, OpenFails, FailQuits,
           ReadLoop, StepWhenPaused, FilterFails, vars, windowVars, sdlVars,
           stateVars, playVars
  <2>2. CASE SDL_PushEvent(<<"quit">>)
        BY <2>1, <2>2, QuitPushed DEF MuteInv
  <2>3. CASE events' = events
    <3>1. Other
          BY <1>9 DEF Other
    <3>2. ASSUME Going', status' = "Playing" \/ Awaiting'
          PROVE  Going /\ (status = "Playing" \/ Awaiting)
          BY <2>1, <2>3, <3>1, <3>2, Tracking, StartsKept DEF Going, Quits
    <3> QED
        BY <2>1, <2>3, <3>2 DEF MuteInv
  <2> QED
      BY <2>1, <2>2, <2>3
<1> QED
    BY <1>1, <1>2, <1>3, <1>4, <1>5, <1>6, <1>7, <1>8, <1>9
    DEF Next, PlayCmdThread

-----------------------------------------------------------------------------
(* Who is heard.                                                           *)

\* A quit stays in the queue, whatever is pushed behind it.
LEMMA PushKeepsQuits ==
    ASSUME TypeOK, NEW es \in Seq(Event), SDL_PushEvent(es), Quits # {}
    PROVE  Quits' # {}
<1>1. PICK i \in DOMAIN events : events[i] = "quit"
  BY DEF Quits
<1>2. CASE sdl = 1
  <2>1. events' = events \o es /\ events \in Seq(Event)
    BY <1>2 DEF SDL_PushEvent, TypeOK
  <2>2. i \in DOMAIN events' /\ events'[i] = "quit"
    BY <1>1, <2>1
  <2>3. QED BY <2>2 DEF Quits
<1>3. CASE sdl # 1
  BY <1>3 DEF SDL_PushEvent, Quits
<1>4. QED BY <1>2, <1>3

\* A Stop that begins to wait is heard: the thread is idle and has signalled,
\* is about to signal, or has SDL up, which then has the quit.
LEMMA WaitIsHeard ==
    ASSUME IInv, NEW next \in {"return", "open"}, StopWaits(next),
           ~StopReturns, UNCHANGED <<stopEvent, ppc>>
    PROVE  Heard'
<1>1. TypeOK /\ PlayInv /\ FlagInv
  BY DEF IInv
<1>2. CASE ppc = "idle"
  <2>1. g_bStop = 0
    BY <1>1 DEF StopReturns, TypeOK
  <2>2. QED BY <1>1, <1>2, <2>1 DEF FlagInv, Heard
<1>3. CASE ppc = "signal"
  BY <1>3 DEF Heard
<1>4. CASE ppc \notin {"idle", "signal"}
  <2>1. events' = Append(events, "quit") /\ events \in Seq(Event)
    BY <1>1, <1>4, Pushing DEF PlayInv, StopWaits, Event, TypeOK
  <2>2. Len(events) + 1 \in DOMAIN events' /\ events'[Len(events) + 1] = "quit"
    BY <2>1, AppendElements DEF Event
  <2>3. Quits' # {}
    BY <2>2 DEF Quits
  <2>4. QED BY <2>3 DEF Heard
<1>5. QED BY <1>2, <1>3, <1>4

\* Ignoring the user events keeps the quits.
LEMMA IgnoringKeepsQuits ==
    ASSUME TypeOK, IgnoreUserEvents, Quits # {}
    PROVE  Quits' # {}
<1>1. IsFiniteSet(DOMAIN events)
  <2>1. DOMAIN events = 1 .. Len(events) /\ Len(events) \in Nat
    BY DEF TypeOK
  <2>2. QED BY <2>1, FS_Interval
<1>2. IsFiniteSet(Quits)
  BY <1>1, FS_Subset DEF Quits
<1>3. Cardinality(Quits) \in Nat /\ Cardinality(Quits) # 0
  BY <1>2, FS_CardinalityType, FS_EmptySet
<1>4. 1 \in 1 .. Cardinality(Quits)
  BY <1>3
<1>5. 1 \in DOMAIN events' /\ events'[1] = "quit"
  BY <1>4 DEF IgnoreUserEvents
<1>6. QED BY <1>5 DEF Quits

\* The event loop that takes a quit leaves; another event leaves the quits.
LEMMA HandlingIsHeard ==
    ASSUME TypeOK, HandleEvent, Quits # {}
    PROVE  Quits' # {} \/ ppc' = "exit"
<1> SUFFICES ASSUME Head(events) # "quit" PROVE Quits' # {}
  BY DEF HandleEvent
<1>1. events' = Tail(events) /\ events # <<>> /\ events \in Seq(Event)
  BY DEF HandleEvent, TypeOK
<1>2. ~(\A i \in DOMAIN events : events[i] # "quit")
  BY DEF Quits
<1>3. ~(\A i \in DOMAIN Tail(events) : Tail(events)[i] # "quit")
  BY <1>1, <1>2, QuitsKept DEF Event
<1>4. QED BY <1>1, <1>3 DEF Quits

\* What a step does to a stop that waits and to one that was heard.
StaysHeard ==
    /\ Len(waits') > Len(waits) => Heard'
    /\ Heard => Heard' \/ Len(waits') < Len(waits) \/ nopens' > nopens

LEMMA HeardStep == IInv /\ [Next]_vars => StaysHeard
<1> SUFFICES ASSUME IInv, [Next]_vars PROVE StaysHeard
  OBVIOUS
<1> USE DEF vars, windowVars, sharedVars, sdlVars, playVars, stateVars,
            readVars, historyVars
<1>1. TypeOK /\ PlayInv
  BY DEF IInv
<1>2. Len(waits) \in Nat /\ nopens \in Nat
  BY <1>1 DEF TypeOK
<1>3. ASSUME waits' = waits, Heard => Heard' PROVE StaysHeard
  BY <1>2, <1>3 DEF StaysHeard
<1>4. ASSUME NEW next \in {"return", "open"}, StopWaits(next),
             ~StopReturns, UNCHANGED <<stopEvent, ppc>>
      PROVE  StaysHeard
  <2>1. Heard'
    BY <1>4, WaitIsHeard
  <2>2. QED BY <2>1 DEF StaysHeard
<1>5. ASSUME UNCHANGED <<waits, stopEvent, events>>,
             ppc \in {"exit", "join", "signal"} => ppc' \in {"exit", "join", "signal"}
      PROVE  StaysHeard
  BY <1>3, <1>5 DEF Heard, Quits
<1>6. ASSUME NEW es \in Seq(Event), SDL_PushEvent(es),
             UNCHANGED <<waits, stopEvent, ppc>>
      PROVE  StaysHeard
  BY <1>1, <1>3, <1>6, PushKeepsQuits DEF Heard
<1>7. ASSUME DoStop, UNCHANGED <<stopEvent, ppc>> PROVE StaysHeard
  BY <1>4, <1>5, <1>7 DEF DoStop
<1>8. /\ <<"quit">> \in Seq(Event) /\ <<"seek">> \in Seq(Event)
      /\ \A m \in {0, 1} : <<MuteEvent(m)>> \in Seq(Event)
      /\ \A d, e \in Event : <<d, e>> \in Seq(Event)
  BY DEF MuteEvent, Event
<1>9. CASE Play
  <2>1. CASE StopReturns
    BY <1>2, <1>9, <2>1 DEF Play, StaysHeard
  <2>2. CASE ~StopReturns
    BY <1>4, <1>9, <2>2 DEF Play
  <2>3. QED BY <2>1, <2>2
<1>10. CASE StopContinues
  <2>1. Len(waits') = Len(waits) - 1
    BY <1>1, <1>10, WaitEnds DEF StopContinues
  <2>2. QED BY <1>2, <2>1 DEF StaysHeard
<1>11. CASE OnBtnStop
  BY <1>7, <1>11 DEF OnBtnStop
<1>12. CASE OnEnd
  BY <1>7, <1>12 DEF OnEnd
<1>13. CASE DoPause
  <2>1. CASE UNCHANGED events
    BY <1>5, <1>13, <2>1 DEF DoPause
  <2>2. CASE ~UNCHANGED events
    <3>1. PICK d \in Event, e \in Event : SDL_PushEvent(<<d, e>>)
      BY <1>13, <2>2 DEF DoPause, PlayOrPause, MuteEvent, Event
    <3>2. QED BY <1>6, <1>8, <1>13, <3>1 DEF DoPause
  <2>3. QED BY <2>1, <2>2
<1>14. CASE SetMute
  <2>1. 1 - m_bMute \in {0, 1}
    BY <1>1 DEF TypeOK
  <2>2. QED BY <1>6, <1>8, <1>14, <2>1 DEF SetMute
<1>15. CASE Seek
  BY <1>6, <1>8, <1>15 DEF Seek
<1>16. CASE OnStart
  BY <1>5, <1>6, <1>8, <1>16 DEF OnStart
<1>17. CASE IgnoreUserEvents
  <2>1. Quits # {} => Quits' # {}
    BY <1>1, <1>17, IgnoringKeepsQuits
  <2>2. QED BY <1>3, <1>17, <2>1 DEF IgnoreUserEvents, Heard
<1>18. CASE StreamOpen
  <2>1. CASE ppc' = "signal"
    BY <1>3, <1>18, <2>1 DEF StreamOpen, Heard
  <2>2. CASE ppc' # "signal"
    BY <1>5, <1>18, <2>2 DEF StreamOpen
  <2>3. QED BY <2>1, <2>2
<1>19. CASE HandleEvent
  <2>1. Quits # {} => Quits' # {} \/ ppc' = "exit"
    BY <1>1, <1>19, HandlingIsHeard
  <2>2. QED BY <1>3, <1>19, <2>1 DEF HandleEvent, Heard
<1>20. CASE Quit
  BY <1>3, <1>20 DEF Quit, Heard
<1>21. CASE SignalStop
  BY <1>3, <1>21 DEF SignalStop, Heard
<1>22. CASE FailQuits \/ FilterFails
  BY <1>6, <1>8, <1>22 DEF FailQuits, FilterFails
<1>23. CASE TakeOpen
  BY <1>5, <1>23 DEF TakeOpen
<1>24. ASSUME Settings \/ PumpEvents \/ stream_toggle_pause \/ toggle_pause \/
              Refresh \/ Freeze \/ Ended \/ StreamClose \/ OpenFile \/
              OpenStream \/ LowerStop \/ OpenFails \/ ReadLoop \/
              StepWhenPaused \/ UNCHANGED vars
       PROVE  /\ UNCHANGED <<waits, stopEvent, events>>
              /\ ppc \in {"exit", "join", "signal"} =>
                    ppc' \in {"exit", "join", "signal"}
  BY <1>24 DEF Settings, PumpEvents, stream_toggle_pause, toggle_pause,
     Refresh, Freeze, Ended, StreamClose, OpenFile, OpenStream,
     LowerStop, OpenFails, ReadLoop, StepWhenPaused
<1>25. QED
  BY <1>5, <1>9, <1>10, <1>11, <1>12, <1>13, <1>14, <1>15, <1>16, <1>17, <1>18,
     <1>19, <1>20, <1>21, <1>22, <1>23, <1>24
     DEF Next, window_thread, WndProc, PlayCmdThread, read_thread

-----------------------------------------------------------------------------
(* The results.                                                            *)

\* The inductive invariant holds at the start.
LEMMA InitHolds == Init => IInv
<1> SUFFICES ASSUME Init PROVE IInv
  OBVIOUS
<1>1. /\ <<>> \in Seq({"return", "open"}) /\ <<>> \in Seq(Message)
      /\ <<>> \in Seq(1 .. MaxOpens) /\ <<>> \in Seq(Event)
      /\ Len(<<>>) = 0
  OBVIOUS
<1>2. TypeOK
  BY <1>1 DEF Init, TypeOK, Statuses
<1>3. PlayInv
  BY DEF Init, PlayInv
<1>4. OpensInv
  <2>1. Pending = {}
    BY DEF Init, Pending
  <2>2. Cardinality(Pending) = 0
    BY <2>1, FS_EmptySet
  <2>3. nopens = 0 /\ lost = 0 /\ Len(tmsgs) = 0
    BY DEF Init
  <2>4. QED BY <2>2, <2>3 DEF OpensInv
<1>5. FlagInv /\ SessionInv /\ WindowInv /\ StepInv /\ PauseInv /\ MuteInv
  <2>1. /\ ppc = "idle" /\ g_bStop = 1 /\ rpc = "off" /\ dlg = "Init" /\ status = "Init"
        /\ session = 0 /\ nopens = 0 /\ wm = <<>> /\ tmsgs = <<>>
    BY DEF Init
  <2>2. ~Unopened /\ Starts(session) = {} /\ ~Going
    BY <2>1 DEF Unopened, Starts, Going
  <2>3. QED BY <2>1, <2>2 DEF FlagInv, SessionInv, WindowInv, StepInv, PauseInv,
                              MuteInv, Awaiting, Toggling, SetsUpStep
<1>6. QED BY <1>2, <1>3, <1>4, <1>5 DEF IInv

\* Who may be at work when holds in every reachable state.
THEOREM ControlInvariant == Spec => []IInv
<1>1. IInv /\ [Next]_vars => IInv'
  BY TypeStep, PlayStep, OpensStep, FlagStep, SessionStep, WindowStep, StepStep,
     PauseStep, MuteStep DEF IInv
<1>2. QED BY InitHolds, <1>1, PTL DEF Spec

\* Between two playbacks there is no read thread, SDL is down and its queue is
\* empty, whatever was asked for meanwhile.
THEOREM PlaybackLeavesNothing == Spec => []Teardown
<1>1. IInv => Teardown
  BY DEF IInv, PlayInv, Teardown
<1>2. QED BY <1>1, ControlInvariant, PTL

\* However the threads interleave, a Stop waits only for what has been asked to
\* end or has ended, and nobody loses the request.
THEOREM WaitingStopIsHeard == Spec => StopIsHeard
<1>1. IInv /\ [Next]_vars => [StaysHeard]_vars
  BY HeardStep
<1>2. QED BY <1>1, ControlInvariant, PTL DEF Spec, StopIsHeard, StaysHeard

\* When nothing is on its way ...
LEMMA QuietEvents ==
    ASSUME IInv, Watched, status \in {"Playing", "Pause"}
    PROVE  Going /\ events = <<>> /\ ppc \in {"pump", "peep"}
<1>1. /\ events = <<>> /\ ppc \in {"pump", "peep"} /\ excused = {}
      BY DEF Watched, Quiet
<1>2. session = nopens
      BY <1>1, Shapes DEF IInv, WindowInv, SessionInv
<1>3. Quits = {}
      BY <1>1 DEF Quits
<1> QED
    BY <1>1, <1>2, <1>3 DEF Going, Tracked

\* ... the pause that is shown is the playback's, ...
LEMMA PauseShown == IInv => PauseAgrees
<1> SUFFICES ASSUME IInv, Watched, status \in {"Playing", "Pause"}
             PROVE  paused = IF status = "Pause" THEN 1 ELSE 0
    BY DEF PauseAgrees
<1>1. /\ Going /\ events = <<>> /\ ~Toggling
      /\ ~SetsUpStep /\ ~(step = 1 /\ paused = 0)
      BY QuietEvents DEF Watched, Quiet, Stepping, Toggling
<1>2. Becomes(WillPause, <<>>, IF status = "Pause" THEN 1 ELSE 0)
      BY <1>1 DEF IInv, PauseInv
<1>3. WillPause = IF status = "Pause" THEN 1 ELSE 0
      BY <1>2 DEF Becomes
<1> QED
    BY <1>1, <1>3 DEF WillPause, Toggling, IInv, TypeOK

\* ... and so is the mute.
LEMMA MuteShown == IInv => MuteSticks
<1> SUFFICES ASSUME IInv, Watched, status = "Playing" PROVE muted = m_bMute
    BY DEF MuteSticks
<1>1. Going /\ events = <<>> /\ ppc \in {"pump", "peep"}
      BY QuietEvents
<1>2. Mutes(events) = {}
      BY <1>1 DEF Mutes
<1> QED
    BY <1>1, <1>2 DEF IInv, MuteInv

\* Whatever pauses, seeks, stops and opens came and went, in whatever order the
\* threads took them: when nothing is on its way, a window that has not lost
\* track shows the pause of the playback.
THEOREM PauseIsAgreedOn == Spec => []PauseAgrees
<1>1. QED BY PauseShown, ControlInvariant, PTL

\* The same of the mute, which is set before, while and after a file is opened.
THEOREM MuteIsHeard == Spec => []MuteSticks
<1>1. QED BY MuteShown, ControlInvariant, PTL
=============================================================================
