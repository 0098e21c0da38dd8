------------------------------ MODULE Reporter ------------------------------
(***************************************************************************)
(* The usage reports of LeReport/Reporter.cpp.  Any thread of the player   *)
(* may report: it gets the one CReporter, appends the report to a list and *)
(* sets a manual-reset event.  A detached worker sleeps on the event, posts*)
(* what is in the list, resets the event and sleeps again.                 *)
(*                                                                         *)
(* Only the list is under the mutex.  The test for an empty list and the   *)
(* ResetEvent that follows it are two steps, and so are the test and the   *)
(* assignment of GetInstance: threads that report before the first         *)
(* CReporter is finished (its constructor asks WMI, which takes seconds)   *)
(* each build one.  List, mutex and event handle are static, so a second   *)
(* constructor replaces the event the first worker sleeps on.              *)
(*                                                                         *)
(* The CReporter built by caller c is called c, and so are its worker and  *)
(* the event its constructor creates.                                      *)
(***************************************************************************)
EXTENDS Integers, Sequences, FiniteSets

CONSTANTS
    Callers,     \* the threads of the player that report
    NoInstance,  \* NULL
    MaxReports,  \* bound: how many reports are made
    MaxQuits     \* bound: how many times QuitThread is called

ASSUME CallerAssumption == NoInstance \notin Callers
ASSUME BoundAssumption == MaxReports \in Nat /\ MaxQuits \in Nat

VARIABLES
    m_pInstance,  \* static: the CReporter GetInstance returns
    m_hBtnWork,   \* static: the event handle, null before any constructor ran
    m_lsBtnTJ,    \* static, under m_mtxBtn: the reports to be posted
    signalled,    \* the events that are set
    m_bQuit,      \* the CReporters told to stop
    m_hQuit,      \* the CReporters whose worker has said goodbye
    cpc,          \* the callers
    called,       \* the CReporter a caller asks to quit
    wpc,          \* the workers
    waitsOn,      \* the event handle a worker gave to WaitForSingleObject
    inHand,       \* the report a worker is posting, 0 for none
    posted,       \* what has reached the server, in order
    failed,       \* reports whose post failed
    made, quits,  \* how many reports and quits there have been
    dropped       \* history: a signal was thrown away over a list with work

vars == <<m_pInstance, m_hBtnWork, m_lsBtnTJ, signalled, m_bQuit, m_hQuit,
          cpc, called, wpc, waitsOn, inHand, posted, failed, made, quits,
          dropped>>
caller == <<cpc, called, made, quits>>
worker == <<wpc, waitsOn, inHand>>
server == <<posted, failed>>

Handles == Callers \cup {NoInstance}
Ids == 1 .. MaxReports

\* Reports are numbered in the order in which they enter the list.
TypeOK ==
    /\ m_pInstance \in Handles /\ m_hBtnWork \in Handles
    /\ m_lsBtnTJ \in Seq(Ids)
    /\ signalled \subseteq Callers
    /\ m_bQuit \subseteq Callers /\ m_hQuit \subseteq Callers
    /\ cpc \in [Callers -> {"idle", "new", "ctor", "built", "push", "wake",
                            "quit", "join"}]
    /\ called \in [Callers -> Handles]
    /\ wpc \in [Callers -> {"none", "test", "wait", "sleep", "look", "idle",
                            "count", "take", "break", "send", "recount",
                            "reset", "bye", "gone"}]
    /\ waitsOn \in [Callers -> Handles]
    /\ inHand \in [Callers -> 0 .. MaxReports]
    /\ posted \in Seq(Ids) /\ failed \subseteq Ids
    /\ made \in 0 .. MaxReports /\ quits \in 0 .. MaxQuits
    /\ dropped \in BOOLEAN

Init ==
    /\ m_pInstance = NoInstance /\ m_hBtnWork = NoInstance
    /\ m_lsBtnTJ = <<>>
    /\ signalled = {} /\ m_bQuit = {} /\ m_hQuit = {}
    /\ cpc = [c \in Callers |-> "idle"]
    /\ called = [c \in Callers |-> NoInstance]
    /\ wpc = [c \in Callers |-> "none"]
    /\ waitsOn = [c \in Callers |-> NoInstance]
    /\ inHand = [c \in Callers |-> 0]
    /\ posted = <<>> /\ failed = {}
    /\ made = 0 /\ quits = 0
    /\ dropped = FALSE

\* Definitions with a suffix are defects the properties are tried against;
\* no behaviour uses them.

Becomes(pc, p, l) == pc' = [pc EXCEPT ![p] = l]

\* A signal is lost when there is work it was the only word of.
Drops == dropped' = (dropped \/ m_lsBtnTJ # <<>>)

-----------------------------------------------------------------------------
(* A caller.                                                               *)

\* GetInstance's test.  Nothing keeps two callers from both finding NULL.
GetInstance(c) ==
    /\ cpc[c] = "idle"
    /\ m_pInstance = NoInstance
    /\ Becomes(cpc, c, "new")
    /\ UNCHANGED <<m_pInstance, m_hBtnWork, m_lsBtnTJ, signalled, m_bQuit,
                   m_hQuit, called, worker, server, made, quits, dropped>>

\* The constructor creates the event of the class, not of the object.
CreateEvent(c) ==
    /\ cpc[c] = "new"
    /\ m_hBtnWork' = c
    /\ Drops
    /\ Becomes(cpc, c, "ctor")
    /\ UNCHANGED <<m_pInstance, m_lsBtnTJ, signalled, m_bQuit, m_hQuit, called,
                   worker, server, made, quits>>

\* InitPublic's last act: the worker runs before there is an m_hQuit.
InitPublic(c) ==
    /\ cpc[c] = "ctor"
    /\ Becomes(wpc, c, "test")
    /\ Becomes(cpc, c, "built")
    /\ UNCHANGED <<m_pInstance, m_hBtnWork, m_lsBtnTJ, signalled, m_bQuit,
                   m_hQuit, called, waitsOn, inHand, server, made, quits,
                   dropped>>

\* The constructor returns and GetInstance stores what it built.
Publish(c) ==
    /\ cpc[c] = "built"
    /\ m_pInstance' = c
    /\ Becomes(cpc, c, "idle")
    /\ UNCHANGED <<m_hBtnWork, m_lsBtnTJ, signalled, m_bQuit, m_hQuit, called,
                   worker, server, made, quits, dropped>>

\* SendRTD_*: the report is appended under the mutex ...
SendRTD(c) ==
    /\ cpc[c] = "idle" /\ m_pInstance # NoInstance
    /\ made < MaxReports
    /\ made' = made + 1
    /\ m_lsBtnTJ' = Append(m_lsBtnTJ, made + 1)
    /\ Becomes(cpc, c, "wake")
    /\ UNCHANGED <<m_pInstance, m_hBtnWork, signalled, m_bQuit, m_hQuit,
                   called, worker, server, quits, dropped>>

\* Defect: a report that wakes nobody.
Wake_Nobody(c) ==
    /\ cpc[c] = "wake"
    /\ Becomes(cpc, c, "idle")
    /\ UNCHANGED <<m_pInstance, m_hBtnWork, m_lsBtnTJ, signalled, m_bQuit,
                   m_hQuit, called, worker, server, made, quits, dropped>>

\* ... and the event the static handle names by then is set after it.  Setting
\* a manual-reset event releases every thread that waits on it.
Wake(c) ==
    /\ cpc[c] = "wake"
    /\ signalled' = signalled \cup {m_hBtnWork}
    /\ wpc' = [w \in Callers |->
                   IF wpc[w] = "sleep" /\ waitsOn[w] = m_hBtnWork
                   THEN "look" ELSE wpc[w]]
    /\ Becomes(cpc, c, "idle")
    /\ UNCHANGED <<m_pInstance, m_hBtnWork, m_lsBtnTJ, m_bQuit, m_hQuit,
                   called, waitsOn, inHand, server, made, quits, dropped>>

\* QuitThread raises the flag and sets no event.
QuitThread(c) ==
    /\ cpc[c] = "idle" /\ m_pInstance # NoInstance
    /\ quits < MaxQuits
    /\ quits' = quits + 1
    /\ m_bQuit' = m_bQuit \cup {m_pInstance}
    /\ called' = [called EXCEPT ![c] = m_pInstance]
    /\ Becomes(cpc, c, "join")
    /\ UNCHANGED <<m_pInstance, m_hBtnWork, m_lsBtnTJ, signalled, m_hQuit,
                   worker, server, made, dropped>>

Join(c) ==
    /\ cpc[c] = "join" /\ called[c] \in m_hQuit
    /\ Becomes(cpc, c, "idle")
    /\ UNCHANGED <<m_pInstance, m_hBtnWork, m_lsBtnTJ, signalled, m_bQuit,
                   m_hQuit, called, worker, server, made, quits, dropped>>

CallerStep(c) ==
    \/ GetInstance(c) \/ CreateEvent(c) \/ InitPublic(c) \/ Publish(c)
    \/ SendRTD(c) \/ Wake(c) \/ QuitThread(c) \/ Join(c)

-----------------------------------------------------------------------------
(* DoBtnSend, the worker of the CReporter that caller w built.             *)

\* while (!m_bQuit)
TestQuit(w) ==
    /\ wpc[w] = "test"
    /\ Becomes(wpc, w, IF w \in m_bQuit THEN "bye" ELSE "wait")
    /\ UNCHANGED <<m_pInstance, m_hBtnWork, m_lsBtnTJ, signalled, m_bQuit,
                   m_hQuit, caller, waitsOn, inHand, server, dropped>>

\* WaitForSingleObject reads the handle once, when the wait begins, and does
\* not wait for an event that is set.
BeginWait(w) ==
    /\ wpc[w] = "wait"
    /\ waitsOn' = [waitsOn EXCEPT ![w] = m_hBtnWork]
    /\ Becomes(wpc, w, IF m_hBtnWork \in signalled THEN "look" ELSE "sleep")
    /\ UNCHANGED <<m_pInstance, m_hBtnWork, m_lsBtnTJ, signalled, m_bQuit,
                   m_hQuit, caller, inHand, server, dropped>>

\* A look at the size under the mutex, and where it leads.
Size(w, here, empty, full) ==
    /\ wpc[w] = here
    /\ Becomes(wpc, w, IF m_lsBtnTJ = <<>> THEN empty ELSE full)
    /\ UNCHANGED <<m_pInstance, m_hBtnWork, m_lsBtnTJ, signalled, m_bQuit,
                   m_hQuit, caller, waitsOn, inHand, server, dropped>>

Look(w) == Size(w, "look", "idle", "count")

Count(w) == Size(w, "count", "reset", "take")

\* Defect: the report is copied out and left in the list.
Take_Copy(w) ==
    /\ wpc[w] = "take"
    /\ \/ /\ m_lsBtnTJ = <<>>
          /\ Becomes(wpc, w, "break")
          /\ UNCHANGED inHand
       \/ /\ m_lsBtnTJ # <<>>
          /\ inHand' = [inHand EXCEPT ![w] = Head(m_lsBtnTJ)]
          /\ Becomes(wpc, w, "send")
    /\ UNCHANGED <<m_pInstance, m_hBtnWork, m_lsBtnTJ, signalled, m_bQuit,
                   m_hQuit, caller, waitsOn, server, dropped>>

\* The first report is copied and erased under one lock; with two workers
\* the list may be empty by now.
Take(w) ==
    /\ wpc[w] = "take"
    /\ \/ /\ m_lsBtnTJ = <<>>
          /\ Becomes(wpc, w, "break")
          /\ UNCHANGED <<inHand, m_lsBtnTJ>>
       \/ /\ m_lsBtnTJ # <<>>
          /\ inHand' = [inHand EXCEPT ![w] = Head(m_lsBtnTJ)]
          /\ m_lsBtnTJ' = Tail(m_lsBtnTJ)
          /\ Becomes(wpc, w, "send")
    /\ UNCHANGED <<m_pInstance, m_hBtnWork, signalled, m_bQuit, m_hQuit,
                   caller, waitsOn, server, dropped>>

\* Defect: SendBtnTJ tells the truth, and DoBtnSend puts the report back at
\* the end of the list.
SendBtnTJ_Honest(w) ==
    /\ wpc[w] = "send"
    /\ \/ /\ posted' = Append(posted, inHand[w])
          /\ UNCHANGED m_lsBtnTJ
       \/ /\ m_lsBtnTJ' = Append(m_lsBtnTJ, inHand[w])
          /\ UNCHANGED posted
    /\ inHand' = [inHand EXCEPT ![w] = 0]
    /\ Becomes(wpc, w, "recount")
    /\ UNCHANGED <<m_pInstance, m_hBtnWork, signalled, m_bQuit, m_hQuit,
                   caller, waitsOn, failed, dropped>>

\* Defect: a post that fails ends the worker.
SendBtnTJ_Dies(w) ==
    /\ wpc[w] = "send"
    /\ \/ /\ posted' = Append(posted, inHand[w])
          /\ Becomes(wpc, w, "recount")
          /\ UNCHANGED failed
       \/ /\ failed' = failed \cup {inHand[w]}
          /\ Becomes(wpc, w, "gone")
          /\ UNCHANGED posted
    /\ inHand' = [inHand EXCEPT ![w] = 0]
    /\ UNCHANGED <<m_pInstance, m_hBtnWork, m_lsBtnTJ, signalled, m_bQuit,
                   m_hQuit, caller, waitsOn, dropped>>

\* doPost reaches the server or does not; SendBtnTJ answers TRUE either way,
\* so that the push_back of DoBtnSend's "if (!bOk)" is never reached.
SendBtnTJ(w) ==
    /\ wpc[w] = "send"
    /\ \/ /\ posted' = Append(posted, inHand[w])
          /\ UNCHANGED failed
       \/ /\ failed' = failed \cup {inHand[w]}
          /\ UNCHANGED posted
    /\ inHand' = [inHand EXCEPT ![w] = 0]
    /\ Becomes(wpc, w, "recount")
    /\ UNCHANGED <<m_pInstance, m_hBtnWork, m_lsBtnTJ, signalled, m_bQuit,
                   m_hQuit, caller, waitsOn, dropped>>

Recount(w) == Size(w, "recount", "reset", "take")

\* ResetEvent on the event the static handle names now, which need not be the
\* one this worker waited on, outside the mutex.
ResetEvent(w, here, there) ==
    /\ wpc[w] = here
    /\ signalled' = signalled \ {m_hBtnWork}
    /\ Drops
    /\ Becomes(wpc, w, there)
    /\ UNCHANGED <<m_pInstance, m_hBtnWork, m_lsBtnTJ, m_bQuit, m_hQuit,
                   caller, waitsOn, inHand, server>>

Idle(w) == ResetEvent(w, "idle", "test")
Break(w) == ResetEvent(w, "break", "reset")
Reset(w) == ResetEvent(w, "reset", "test")

\* Defect: a worker that was told to stop sets no m_hQuit.
Goodbye_Silent(w) ==
    /\ wpc[w] = "bye"
    /\ Becomes(wpc, w, "gone")
    /\ UNCHANGED <<m_pInstance, m_hBtnWork, m_lsBtnTJ, signalled, m_bQuit,
                   m_hQuit, caller, waitsOn, inHand, server, dropped>>

Goodbye(w) ==
    /\ wpc[w] = "bye"
    /\ m_hQuit' = m_hQuit \cup {w}
    /\ Becomes(wpc, w, "gone")
    /\ UNCHANGED <<m_pInstance, m_hBtnWork, m_lsBtnTJ, signalled, m_bQuit,
                   caller, waitsOn, inHand, server, dropped>>

WorkerStep(w) ==
    \/ TestQuit(w) \/ BeginWait(w) \/ Look(w) \/ Idle(w) \/ Count(w)
    \/ Take(w) \/ Break(w) \/ SendBtnTJ(w) \/ Recount(w)
    \/ Reset(w) \/ Goodbye(w)

Next == \E c \in Callers : CallerStep(c) \/ WorkerStep(c)

Spec == Init /\ [][Next]_vars

\* A caller that has begun to report or to build finishes; nobody has to
\* report or to quit.  Every worker is a thread of its own.
FairSpec ==
    /\ Spec
    /\ \A c \in Callers :
           /\ WF_vars(CreateEvent(c) \/ InitPublic(c) \/ Publish(c) \/ Wake(c)
                      \/ Join(c))
           /\ WF_vars(WorkerStep(c))

-----------------------------------------------------------------------------
(* Properties.                                                             *)

InList == {m_lsBtnTJ[i] : i \in DOMAIN m_lsBtnTJ}
Posted == {posted[i] : i \in DOMAIN posted}
InHand == {inHand[w] : w \in Callers} \ {0}

\* A report is in one place only: a worker holds one while it posts and at no
\* other time, and what is in the list is in the order it was made.
Accounted ==
    /\ \A w \in Callers : inHand[w] # 0 <=> wpc[w] = "send"
    /\ InList \cap (InHand \cup failed) = {} /\ InHand \cap failed = {}
    /\ \A r \in InList \cup InHand \cup Posted \cup failed : r <= made
    /\ \A i, j \in DOMAIN m_lsBtnTJ : i < j => m_lsBtnTJ[i] < m_lsBtnTJ[j]

\* A report is posted at most once, even when two workers empty the list
\* (the copy and the erase of DoBtnSend are under one lock).
PostedOnce ==
    /\ \A i, j \in DOMAIN posted : posted[i] = posted[j] => i = j
    /\ Posted \cap (InList \cup InHand \cup failed) = {}
    /\ \A v, w \in Callers : inHand[v] # 0 /\ inHand[v] = inHand[w] => v = w

\* No second CReporter has been built (its worker, that is, not started).
OneWorker == \A v, w \in Callers : wpc[v] # "none" /\ wpc[w] # "none" => v = w

\* With one worker the reports reach the server in the order in which they
\* were made; a report that failed is missing, never late.
PostedInOrder ==
    OneWorker => \A i, j \in DOMAIN posted : i < j => posted[i] < posted[j]

\* Why: what is posted is older than what is in hand, and that than the list.
Older ==
    OneWorker =>
        /\ \A p \in Posted, r \in InHand \cup InList : p < r
        /\ \A h \in InHand, r \in InList : h < r

\* A worker that will look at the list, or throw a signal away, before it
\* waits again.
Looking(w) ==
    wpc[w] \in {"look", "idle", "count", "take", "break", "send", "recount",
                "reset"}

\* A report stays in the list with everybody asleep only if a ResetEvent, or
\* the CreateEvent of a second constructor, has thrown a signal away while
\* there was work: there is no other way to lose a wake-up in DoBtnSend.
LeftOnlyByDrop ==
    (/\ m_lsBtnTJ # <<>>
     /\ m_hBtnWork \notin signalled
     /\ \A c \in Callers : cpc[c] # "wake" /\ ~Looking(c))
        => dropped

\* No event is set, reset or waited for before a constructor has made one,
\* and a caller builds at most one CReporter.
Constructed ==
    /\ (\/ m_pInstance # NoInstance
        \/ \E c \in Callers : cpc[c] \in {"ctor", "built", "wake"}
        \/ \E w \in Callers : wpc[w] # "none")
           => m_hBtnWork # NoInstance
    /\ \A c \in Callers :
           /\ cpc[c] \in {"new", "ctor"} => wpc[c] = "none"
           /\ m_pInstance = NoInstance /\ wpc[c] # "none" => cpc[c] = "built"

\* The inductive invariant of ReporterProofs.
IInv == TypeOK /\ Constructed /\ Accounted /\ PostedOnce /\ Older

\* As long as no signal was thrown away and nobody asked a worker to quit,
\* every report leaves the list, whatever instances the callers have built.
ReportsLeave ==
    \A r \in Ids : r \in InList ~> r \notin InList \/ dropped \/ m_bQuit # {}

\* QuitThread returns when the worker it waits for is past its wait.  (It
\* sets no event: for a sleeping worker it may wait for ever.)
QuitReturns ==
    \A c \in Callers :
        cpc[c] = "join" /\ Looking(called[c]) ~> cpc[c] # "join"

\* "SetEvent(m_hBtnWork)" is commented "start the reporting work": a report
\* in the list goes out.
ReportsGoOut == \A r \in Ids : r \in InList ~> r \notin InList

=============================================================================
