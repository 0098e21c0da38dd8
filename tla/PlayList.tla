------------------------------ MODULE PlayList ------------------------------
(***************************************************************************)
(* What plays next: the list window (SListDlg), the main window's handlers *)
(* of play, next and last (CMainDlg) and the dialog's state of the player  *)
(* (CPlayerDlg).  All run on the user interface thread and talk by posted  *)
(* messages, which it takes in order and before any input or timer; the    *)
(* player posts START, END and FILE_INVALID into the same queue.           *)
(*                                                                         *)
(* The list on the screen is a copy of the table LocalFileList, remade by  *)
(* some handlers and by a timer; the item that is marked as playing is a   *)
(* number, which is all PlayNext goes by.                                  *)
(***************************************************************************)
EXTENDS Integers, Sequences

CONSTANTS
    Files, NoFile,
    Gone,        \* files the player cannot open
    Unseen,      \* files PathFileExistsA does not find
    Orders,      \* play orders the user chooses between
    Marks,       \* values of noMark the user chooses between
    Stored,      \* the table when the program starts, newest first
    MaxInputs    \* things the user does

ASSUME ListAssumption ==
    /\ NoFile \notin Files
    /\ Gone \subseteq Unseen /\ Unseen \subseteq Files
    /\ Orders \subseteq 0 .. 4 /\ Orders # {} /\ Marks \subseteq BOOLEAN
    /\ Stored \in Seq(Files)
    /\ \A i, j \in DOMAIN Stored : Stored[i] = Stored[j] => i = j
    /\ MaxInputs \in Nat

VARIABLES
    \* the database: the table of files and two settings
    LocalFileList, playOrder, noMark,
    \* SListDlg: the items shown, the one marked, the file to mark, the
    \* reload timer, and the item a menu is open for
    items, m_nPlayingID, m_sPlayMd5, reload, m_nSelID,
    \* CPlayerDlg: its status, what it plays, the setting at the last START
    status, m_sPlayData, m_bNoMark,
    \* the messages posted to the thread, and the player
    posted, player,
    \* bound: things the user has done; history: no-trace playback has been on
    \* since a file was last started and marked
    inputs, unmarked

dataVars == <<LocalFileList, playOrder, noMark>>
listVars == <<items, m_nPlayingID, m_sPlayMd5, reload, m_nSelID>>
dlgVars == <<status, m_sPlayData, m_bNoMark, unmarked>>
markVars == <<m_bNoMark, unmarked>>
vars == <<dataVars, listVars, dlgVars, posted, player, inputs>>


Message == [msg : {"PLAY", "OPEN", "ADD", "PLAY_NEXT", "PLAY_LAST", "PLAY_PAUSE",
                   "CLEAR_LIST", "RBUTTONDOWN", "REDRAW", "REDRAW_NOSORT",
                   "START", "END", "FILE_INVALID"},
            arg : Files \cup {NoFile} \cup Nat]

IsList(l) == /\ l \in Seq(Files)
             /\ \A i, j \in DOMAIN l : l[i] = l[j] => i = j

TypeOK ==
    /\ IsList(LocalFileList) /\ playOrder \in Orders /\ noMark \in BOOLEAN
    /\ IsList(items) /\ m_nPlayingID \in Nat
    /\ m_sPlayMd5 \in Files \cup {NoFile} /\ reload \in BOOLEAN
    /\ m_nSelID \in Nat
    /\ status \in {"Init", "Opening", "Playing", "Pause", "Stoped"}
    /\ m_sPlayData \in [file : Files \cup {NoFile},
                        signal : {"none", "PLAY", "OPEN", "ADD"}]
    /\ m_bNoMark \in BOOLEAN
    /\ posted \in Seq(Message) /\ player \in {"idle", "opening", "playing"}
    /\ inputs \in 0 .. MaxInputs /\ unmarked \in BOOLEAN

\* The program starts with the list as it was left; SListDlg::OnInitDialog.
Init ==
    /\ LocalFileList = Stored /\ playOrder \in Orders /\ noMark = FALSE
    /\ items = Stored /\ m_nPlayingID = 0 /\ m_sPlayMd5 = NoFile
    /\ reload = FALSE /\ m_nSelID = 0
    /\ status = "Init" /\ m_sPlayData = [file |-> NoFile, signal |-> "none"]
    /\ m_bNoMark = FALSE
    /\ posted = <<>> /\ player = "idle"
    /\ inputs = 0 /\ unmarked = FALSE

-----------------------------------------------------------------------------
(* Pieces of handlers.  A message is [msg, arg]; UM_PLAY is PLAY when the    *)
(* list window posts it (eSignalType_PlayList), ADD with bOnlyAddList and   *)
(* OPEN without.                                                            *)

\* Defects the properties are tried against have the name of the definition
\* they would replace and a suffix; no behaviour uses them.

Msg(m, a) == [msg |-> m, arg |-> a]

\* A handler takes the first message and posts others.
Handles(m) == posted # <<>> /\ Head(posted).msg = m
Post(ms) == posted' = Tail(posted) \o ms

\* Defect: the item is marked once, when it starts.
ReListWnd_NoMark(list, md5, old) == items' = list /\ m_nPlayingID' = old

\* ReListWnd and ItemList: show the table as it is now; the item of
\* m_sPlayMd5, if there is one, is the marked one, else the number is kept.
ReListWnd(list, md5, old) ==
    /\ items' = list
    /\ \/ /\ \A i \in DOMAIN list : list[i] # md5
          /\ m_nPlayingID' = old
       \/ \E i \in DOMAIN list : list[i] = md5 /\ m_nPlayingID' = i

\* The rows of the list that stay, in their order.
Without(list, gone) ==
    LET F[n \in 0 .. Len(list)] ==
            IF n = 0 THEN <<>>
            ELSE IF list[n] \in gone THEN F[n - 1] ELSE Append(F[n - 1], list[n])
    IN  F[Len(list)]

\* SListDlg::StopPlay: the mark stays when a file has played to its end,
\* except in single play.
StopPlay(bPlayEnd) ==
    m_nPlayingID' = IF bPlayEnd /\ playOrder # 2 THEN m_nPlayingID ELSE 0

\* CPlayerDlg::DoStop
DoStop(bPlayEnd) ==
    /\ StopPlay(bPlayEnd)
    /\ status' = "Stoped"
    /\ player' = IF status = "Stoped" THEN player ELSE "idle"

\* SListDlg::OnItemCommand, after the messages in q
OnItemCommand(nID, q) ==
    /\ m_sPlayMd5' = NoFile
    /\ IF nID \in DOMAIN items
       THEN /\ m_nPlayingID' = nID
            /\ posted' = Append(q, Msg("PLAY", items[nID]))
       ELSE /\ m_nPlayingID' = 0
            /\ posted' = q

\* HandleHistroy and SListDlg::InsertList on what they change, h: a file not
\* chosen in the list enters it, on top, and is to be marked, unless it is
\* only added.
HandleHistroy(h, data) ==
    IF noMark \/ data.signal \in {"none", "PLAY"} THEN h
    ELSE [list |-> IF \E i \in DOMAIN h.list : h.list[i] = data.file
                   THEN h.list ELSE <<data.file>> \o h.list,
          md5 |-> IF data.signal = "ADD" THEN NoFile ELSE data.file,
          reload |-> TRUE]

-----------------------------------------------------------------------------
(* CMainDlg.                                                               *)

\* REDRAW_LISTWND_NOSORT carries a pointer to m_sMd5, which Play assigns.
Dangling == [i \in DOMAIN Tail(posted) |->
                IF Tail(posted)[i].msg = "REDRAW_NOSORT"
                THEN Msg("REDRAW_NOSORT", NoFile) ELSE Tail(posted)[i]]

\* UM_PLAY.  Native_Stop stops what plays before anyone asks whether the file
\* is only to be added; the file before this one enters the list again.
Play ==
    /\ posted # <<>> /\ Head(posted).msg \in {"PLAY", "OPEN", "ADD"}
    /\ LET data == [file |-> Head(posted).arg, signal |-> Head(posted).msg]
           h0 == [list |-> LocalFileList, md5 |-> m_sPlayMd5, reload |-> reload]
           h == HandleHistroy(HandleHistroy(h0, m_sPlayData), data)
       IN  /\ LocalFileList' = h.list /\ m_sPlayMd5' = h.md5
           /\ reload' = h.reload
           /\ IF data.signal = "ADD" /\ ~noMark
              THEN /\ IF status = "Playing" THEN DoStop(FALSE)
                      ELSE UNCHANGED <<m_nPlayingID, status, player>>
                   /\ posted' = Tail(posted)
                   /\ UNCHANGED m_sPlayData
              ELSE /\ IF status = "Playing" THEN StopPlay(FALSE)
                      ELSE UNCHANGED m_nPlayingID
                   /\ status' = "Opening" /\ player' = "opening"
                   /\ m_sPlayData' = data
                   /\ posted' = Dangling
    /\ UNCHANGED <<playOrder, noMark, items, m_nSelID, markVars, inputs>>

\* Defects: the last item is taken for one too many; the loop forgotten.
PlayNext_Short == {IF m_nPlayingID + 1 < Len(items) THEN m_nPlayingID + 1 ELSE 1}
PlayNext_NoWrap == {m_nPlayingID + 1} \cap DOMAIN items

\* The items PlayNext and PlayLast may choose; none where they return FALSE.
\* Random play divides by the number of items: with none the program ends,
\* and here the message is never taken.
PlayNext ==
    CASE playOrder = 0 -> {m_nPlayingID + 1} \cap DOMAIN items
      [] playOrder = 1 -> DOMAIN items
      [] playOrder = 2 -> {}
      [] playOrder = 3 -> {m_nPlayingID}
      [] playOrder = 4 -> IF m_nPlayingID + 1 \in DOMAIN items
                          THEN {m_nPlayingID + 1} ELSE {1}

PlayLast ==
    CASE playOrder = 0 -> {m_nPlayingID - 1} \ {0, -1}
      [] playOrder = 1 -> DOMAIN items
      [] playOrder = 2 -> {}
      [] playOrder = 3 -> {m_nPlayingID}
      [] playOrder = 4 -> IF m_nPlayingID > 1 THEN {m_nPlayingID - 1}
                          ELSE {Len(items)}

DividesByZero == playOrder = 1 /\ items = <<>>

\* Next and last do nothing before the first file has played.
OnNextOne ==
    /\ Handles("PLAY_NEXT")
    /\ IF m_sPlayData.signal = "none"
       THEN Post(<<>>) /\ UNCHANGED <<m_sPlayMd5, m_nPlayingID, status, player>>
       ELSE /\ ~DividesByZero
            /\ \/ \E nID \in PlayNext :
                     /\ OnItemCommand(nID, Tail(posted))
                     /\ UNCHANGED <<status, player>>
               \/ /\ PlayNext = {}
                  /\ DoStop(FALSE)
                  /\ Post(<<>>)
                  /\ UNCHANGED m_sPlayMd5
    /\ UNCHANGED <<dataVars, items, reload, m_nSelID, m_sPlayData, markVars,
                   inputs>>

OnLastOne ==
    /\ Handles("PLAY_LAST")
    /\ IF m_sPlayData.signal = "none"
       THEN Post(<<>>) /\ UNCHANGED <<m_sPlayMd5, m_nPlayingID>>
       ELSE /\ ~DividesByZero
            /\ \/ \E nID \in PlayLast : OnItemCommand(nID, Tail(posted))
               \/ /\ PlayLast = {}
                  /\ Post(<<>>)
                  /\ UNCHANGED <<m_sPlayMd5, m_nPlayingID>>
    /\ UNCHANGED <<dataVars, items, reload, m_nSelID, dlgVars, player, inputs>>

DoClearList ==
    /\ Handles("CLEAR_LIST") /\ Post(<<>>)
    /\ LocalFileList' = <<>> /\ m_sPlayMd5' = NoFile
    /\ ReListWnd(<<>>, NoFile, 0)
    /\ UNCHANGED <<playOrder, noMark, reload, m_nSelID, dlgVars, player, inputs>>

-----------------------------------------------------------------------------
(* CPlayerDlg.                                                             *)

OnPlayStart ==
    /\ Handles("START")
    /\ Post(IF m_bNoMark THEN <<>>
            ELSE <<Msg("REDRAW_NOSORT", m_sPlayData.file)>>)
    /\ status' = "Playing" /\ m_bNoMark' = noMark
    /\ unmarked' = (unmarked /\ (m_bNoMark \/ noMark))
    /\ UNCHANGED <<dataVars, listVars, m_sPlayData, player, inputs>>

\* Whichever playback has ended: the one that plays now is stopped.
OnPlayEnd ==
    /\ Handles("END")
    /\ DoStop(TRUE)
    /\ Post(<<Msg("PLAY_NEXT", NoFile)>>)
    /\ UNCHANGED <<dataVars, items, m_sPlayMd5, reload, m_nSelID, m_sPlayData,
                   markVars, inputs>>

OnFileInvalid ==
    /\ Handles("FILE_INVALID")
    /\ DoStop(FALSE)
    /\ Post(<<Msg("REDRAW", NoFile)>>)
    /\ UNCHANGED <<dataVars, items, m_sPlayMd5, reload, m_nSelID, m_sPlayData,
                   markVars, inputs>>

\* OnBtnPlay: play again when stopped, else DoPause, which redraws the list
\* whatever the status.
PlayOrPause(q) ==
    IF status = "Stoped"
    THEN /\ posted' = IF m_sPlayData.signal = "none" THEN q
                      ELSE Append(q, Msg(m_sPlayData.signal, m_sPlayData.file))
         /\ UNCHANGED status
    ELSE /\ status' = CASE status = "Playing" -> "Pause"
                        [] status = "Pause" -> "Playing"
                        [] OTHER -> status
         /\ posted' = Append(q, Msg("REDRAW", NoFile))

OnPlayPause ==
    /\ Handles("PLAY_PAUSE") /\ PlayOrPause(Tail(posted))
    /\ UNCHANGED <<dataVars, listVars, m_sPlayData, markVars, player, inputs>>

-----------------------------------------------------------------------------
(* SListDlg.                                                               *)

OnRedraw ==
    /\ Handles("REDRAW") /\ Post(<<>>)
    /\ ReListWnd(LocalFileList, m_sPlayMd5, m_nPlayingID)
    /\ UNCHANGED <<dataVars, m_sPlayMd5, reload, m_nSelID, dlgVars, player,
                   inputs>>

\* UpdateListItemTimer; freed memory may hold the name of any file.
OnRedrawNoSort ==
    /\ Handles("REDRAW_NOSORT") /\ Post(<<>>)
    /\ \/ Head(posted).arg # NoFile /\ m_sPlayMd5' = Head(posted).arg
       \/ Head(posted).arg = NoFile /\ m_sPlayMd5' \in Files \cup {NoFile}
    /\ ReListWnd(LocalFileList, m_sPlayMd5', m_nPlayingID)
    /\ UNCHANGED <<dataVars, reload, m_nSelID, dlgVars, player, inputs>>

\* ET_RELOAD_LIST, 500 ms after the last insertion.
OnTimer ==
    /\ posted = <<>> /\ reload
    /\ reload' = FALSE
    /\ ReListWnd(LocalFileList, m_sPlayMd5, m_nPlayingID)
    /\ UNCHANGED <<dataVars, m_sPlayMd5, m_nSelID, dlgVars, posted, player,
                   inputs>>

\* The context menu is open while m_nSelID is not 0.
OnRButtonDown ==
    /\ Handles("RBUTTONDOWN") /\ Post(<<>>)
    /\ m_nSelID' = IF Head(posted).arg \in DOMAIN items THEN Head(posted).arg
                   ELSE 0
    /\ UNCHANGED <<dataVars, items, m_nPlayingID, m_sPlayMd5, reload, dlgVars,
                   player, inputs>>

-----------------------------------------------------------------------------
(* The user.  Input waits until the queue is empty.  Bound: MaxInputs.      *)

Input == posted = <<>> /\ inputs < MaxInputs /\ inputs' = inputs + 1
AtMenu == Input /\ m_nSelID # 0 /\ m_nSelID' = 0
Free == Input /\ m_nSelID = 0 /\ UNCHANGED m_nSelID

\* Open a file, add one from the list window, open a folder of two, drop two.
OpenFiles ==
    /\ Free
    /\ \E f, g \in Files :
          \/ posted' = <<Msg("OPEN", f)>>
          \/ posted' = <<Msg(IF status = "Stoped" THEN "OPEN" ELSE "ADD", f)>>
          \/ posted' = <<Msg("ADD", f), Msg("ADD", g), Msg("OPEN", g)>>
          \/ posted' = <<Msg("OPEN", f), Msg("ADD", g)>>
    /\ UNCHANGED <<dataVars, items, m_nPlayingID, m_sPlayMd5, reload, dlgVars,
                   player>>

Buttons ==
    /\ Free
    /\ \/ \E m \in {"PLAY_NEXT", "PLAY_LAST", "CLEAR_LIST"} :
             posted' = <<Msg(m, NoFile)>>
       \/ \E i \in DOMAIN items : posted' = <<Msg("RBUTTONDOWN", i)>>
    /\ UNCHANGED <<dataVars, items, m_nPlayingID, m_sPlayMd5, reload, dlgVars,
                   player>>

OnBtnPlay ==
    /\ Free /\ PlayOrPause(<<>>)
    /\ UNCHANGED <<dataVars, items, m_nPlayingID, m_sPlayMd5, reload,
                   m_sPlayData, markVars, player>>

OnBtnStop ==
    /\ Free /\ DoStop(FALSE)
    /\ UNCHANGED <<dataVars, items, m_sPlayMd5, reload, m_sPlayData, markVars,
                   posted>>

ClickItem ==
    /\ Free
    /\ \E i \in DOMAIN items : OnItemCommand(i, <<>>)
    /\ UNCHANGED <<dataVars, items, reload, dlgVars, player>>

Settings ==
    /\ Free
    /\ \/ playOrder' \in Orders \ {playOrder} /\ UNCHANGED <<noMark, unmarked>>
       \/ /\ noMark' \in Marks \ {noMark}
          /\ unmarked' = TRUE
          /\ UNCHANGED playOrder
    /\ UNCHANGED <<LocalFileList, items, m_nPlayingID, m_sPlayMd5, reload,
                   status, m_sPlayData, m_bNoMark, posted, player>>

\* The menu's "play"
SelPaly ==
    /\ AtMenu
    /\ IF m_nSelID \notin DOMAIN items THEN UNCHANGED <<m_nPlayingID, posted>>
       ELSE IF m_nPlayingID = m_nSelID
       THEN /\ posted' = <<Msg("PLAY_PAUSE", NoFile)>>
            /\ UNCHANGED m_nPlayingID
       ELSE /\ posted' = <<Msg("PLAY", items[m_nSelID])>>
            /\ m_nPlayingID' = m_nSelID
    /\ UNCHANGED <<dataVars, items, m_sPlayMd5, reload, dlgVars, player>>

DelItem ==
    /\ AtMenu
    /\ IF m_nSelID \notin DOMAIN items
       THEN UNCHANGED <<LocalFileList, items, m_nPlayingID, m_sPlayMd5>>
       ELSE LET f == items[m_nSelID] IN
            /\ LocalFileList' = Without(LocalFileList, {f})
            /\ m_sPlayMd5' = IF m_sPlayMd5 = f THEN NoFile ELSE m_sPlayMd5
            /\ ReListWnd(LocalFileList', m_sPlayMd5',
                         IF m_sPlayMd5 = f THEN 0 ELSE m_nPlayingID)
    /\ UNCHANGED <<playOrder, noMark, reload, dlgVars, posted, player>>

\* Defect: the list is left to the timer.
ClearInvalid_NoRelist ==
    /\ AtMenu
    /\ LocalFileList' = Without(LocalFileList, Unseen) /\ reload' = TRUE
    /\ UNCHANGED <<playOrder, noMark, items, m_nPlayingID, m_sPlayMd5, dlgVars,
                   posted, player>>

\* The menu's "remove what is gone"; what is marked is left as it is.
ClearInvalid ==
    /\ AtMenu
    /\ LocalFileList' = Without(LocalFileList, Unseen)
    /\ ReListWnd(LocalFileList', m_sPlayMd5, m_nPlayingID)
    /\ UNCHANGED <<playOrder, noMark, m_sPlayMd5, reload, dlgVars, posted, player>>

Dismiss ==
    /\ posted = <<>> /\ m_nSelID # 0 /\ m_nSelID' = 0
    /\ UNCHANGED <<dataVars, items, m_nPlayingID, m_sPlayMd5, reload, dlgVars,
                   posted, player, inputs>>

-----------------------------------------------------------------------------
(* The player: external here, PlayControl and MediaPipe model it.           *)

Starts ==
    /\ player = "opening"
    /\ IF m_sPlayData.file \in Gone
       THEN player' = "idle" /\ posted' = Append(posted, Msg("FILE_INVALID", NoFile))
       ELSE player' = "playing" /\ posted' = Append(posted, Msg("START", NoFile))
    /\ UNCHANGED <<dataVars, listVars, dlgVars, inputs>>

\* Bound: a file is longer than its START waits in the queue.
Ends ==
    /\ player = "playing" /\ status # "Pause"
    /\ \A i \in DOMAIN posted : posted[i].msg # "START"
    /\ player' = "idle" /\ posted' = Append(posted, Msg("END", NoFile))
    /\ UNCHANGED <<dataVars, listVars, dlgVars, inputs>>

Handler ==
    \/ Play \/ OnNextOne \/ OnLastOne \/ DoClearList
    \/ OnPlayStart \/ OnPlayEnd \/ OnFileInvalid \/ OnPlayPause
    \/ OnRedraw \/ OnRedrawNoSort \/ OnRButtonDown

User ==
    \/ OpenFiles \/ Buttons \/ OnBtnPlay \/ OnBtnStop \/ ClickItem \/ Settings
    \/ SelPaly \/ DelItem \/ ClearInvalid \/ Dismiss

Next == Handler \/ OnTimer \/ User \/ Starts \/ Ends

Spec == Init /\ [][Next]_vars

FairSpec == Spec /\ WF_vars(Handler) /\ WF_vars(OnTimer)
                 /\ WF_vars(Starts) /\ WF_vars(Ends)

-----------------------------------------------------------------------------
Shown == {items[i] : i \in DOMAIN items}
Kept == {LocalFileList[i] : i \in DOMAIN LocalFileList}

\* Type invariant, and: every item on the screen is a row of the table, so
\* that SelectPath, whose answer nobody looks at, always finds one, although
\* the table changes at once and the list is remade by three handlers and a
\* timer.
ItemsStored == TypeOK /\ Shown \subseteq Kept

\* Nothing is waiting for the list window while a file plays.
Settled == posted = <<>> /\ status \in {"Playing", "Pause"}

\* While a file plays and the list window names a file to mark, it is that
\* file, and wherever insertions, deletions and reloads have moved its item,
\* the marked number is the item's.
MarkAgrees ==
    Settled /\ m_sPlayMd5 # NoFile /\ ~unmarked
      => /\ m_sPlayMd5 = m_sPlayData.file
         /\ \A i \in DOMAIN items :
               items[i] = m_sPlayData.file => m_nPlayingID = i

-----------------------------------------------------------------------------
(* The inductive invariant behind ItemsStored and MarkAgrees.               *)

\* What is on its way in a queue: files, to play and to mark, under their names;
\* the start of a file; no file to mark; one, and f the last of them; an item
\* to play.
Named(q) ==
    \A i \in DOMAIN q :
       /\ q[i].msg \in {"PLAY", "OPEN", "ADD"} => q[i].arg \in Files
       /\ q[i].msg = "REDRAW_NOSORT" => q[i].arg \in Files \cup {NoFile}
StartComes(q) == \E i \in DOMAIN q : q[i].msg = "START"
NoMarkComes(q) == \A i \in DOMAIN q : q[i].msg # "REDRAW_NOSORT"
MarkComes(q, f) ==
    \E i \in DOMAIN q :
       /\ q[i].msg = "REDRAW_NOSORT" /\ q[i].arg = f
       /\ \A j \in DOMAIN q : q[j].msg = "REDRAW_NOSORT" => j <= i
PlayComes(q) == \E i \in DOMAIN q : q[i].msg = "PLAY"

\* What is played has a name, and nothing starts before a file was opened.
PlayedInv ==
    /\ Named(posted)
    /\ m_sPlayData.signal # "none" => m_sPlayData.file \in Files
    /\ player # "idle" \/ status \in {"Playing", "Pause"} \/ StartComes(posted)
          => m_sPlayData.signal # "none"

\* Playback without traces is remembered until a START finds it off twice.
TracesInv == m_bNoMark \/ noMark => unmarked

\* The item of the file to mark, if it is shown, is the marked one.
MarkPlaced == \A i \in DOMAIN items : items[i] = m_sPlayMd5 => m_nPlayingID = i

\* While a file plays, the file to mark will be it, or none, or it is it already
\* and its item is marked, unless another item is about to be played.
MarkInv ==
    status \in {"Playing", "Pause"} /\ ~unmarked =>
       \/ MarkComes(posted, m_sPlayData.file)
       \/ /\ NoMarkComes(posted)
          /\ \/ PlayComes(posted)
             \/ m_sPlayMd5 = NoFile
             \/ m_sPlayMd5 = m_sPlayData.file /\ MarkPlaced

IInv == ItemsStored /\ PlayedInv /\ TracesInv /\ MarkInv

-----------------------------------------------------------------------------
\* SListDlg.h calls m_sPlayMd5 the MD5 of the file that is playing now: the
\* item of the file that plays is the one shown as playing.  A file added to
\* the list while another is paused takes its mark.
PlayingIsMarked ==
    Settled => \A i \in DOMAIN items :
                  items[i] = m_sPlayData.file => m_nPlayingID = i

\* In the list loop no file is passed over for ever: if the order stays and
\* files go on being opened, every file that stays shown is opened again and
\* again.
LoopVisitsAll ==
    \A f \in Files :
        <>[](playOrder = 4 /\ f \in Shown) /\ []<>(player = "opening")
          => []<>(player = "opening" /\ m_sPlayData.file = f)

\* The list loop goes on by itself: a file that plays in it is followed by
\* another unless the user does something, whatever he did before.
Looping == /\ player = "playing" /\ status = "Playing" /\ posted = <<>>
           /\ playOrder = 4 /\ items # <<>> /\ Shown \cap Gone = {}

LoopGoesOn ==
    \A k \in 0 .. MaxInputs :
        Looping /\ inputs = k ~> player = "opening" \/ inputs # k

=============================================================================
