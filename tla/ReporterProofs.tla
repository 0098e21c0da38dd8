--------------------------- MODULE ReporterProofs ---------------------------
(***************************************************************************)
(* For any set of threads that report and any number of reports: a report  *)
(* is posted at most once, one worker posts in order, and a report is left *)
(* behind only by a ResetEvent or a second constructor over a list with    *)
(* work in it.                                                             *)
(***************************************************************************)
EXTENDS Reporter, TLAPS

USE CallerAssumption, BoundAssumption DEF CallerAssumption, BoundAssumption

\* A report appended to the list is the last one and moves no other.
LEMMA AppendReport ==
    ASSUME NEW q \in Seq(Ids), NEW r \in Ids
    PROVE  /\ Append(q, r) \in Seq(Ids)
           /\ DOMAIN Append(q, r) = 1 .. Len(q) + 1
           /\ \A i \in DOMAIN q : Append(q, r)[i] = q[i]
           /\ Append(q, r)[Len(q) + 1] = r
           /\ DOMAIN q = 1 .. Len(q) /\ Len(q) \in Nat
    OBVIOUS

\* What is in a list after a report is appended.
LEMMA AppendRange ==
    ASSUME NEW q \in Seq(Ids), NEW r \in Ids
    PROVE  {Append(q, r)[i] : i \in DOMAIN Append(q, r)}
               = {q[i] : i \in DOMAIN q} \cup {r}
<1> DEFINE a == Append(q, r)
<1>1. /\ DOMAIN a = 1 .. Len(q) + 1 /\ DOMAIN q = 1 .. Len(q) /\ Len(q) \in Nat
      /\ \A i \in DOMAIN q : a[i] = q[i]
      /\ a[Len(q) + 1] = r
  BY AppendReport
<1> HIDE DEF a
<1>2. ASSUME NEW i \in DOMAIN a PROVE a[i] \in {q[k] : k \in DOMAIN q} \cup {r}
  <2>1. CASE i \in DOMAIN q
    BY <1>1, <2>1
  <2>2. CASE i = Len(q) + 1
    BY <1>1, <2>2
  <2>3. QED BY <1>1, <1>2, <2>1, <2>2
<1>3. ASSUME NEW i \in DOMAIN q PROVE q[i] \in {a[k] : k \in DOMAIN a}
  BY <1>1, <1>3
<1>4. r \in {a[k] : k \in DOMAIN a}
  BY <1>1
<1>5. {a[i] : i \in DOMAIN a} = {q[i] : i \in DOMAIN q} \cup {r}
  BY <1>2, <1>3, <1>4
<1>6. QED BY <1>5 DEF a

\* Erasing the first report moves every other one place forward.
LEMMA EraseReport ==
    ASSUME NEW q \in Seq(Ids), q # <<>>
    PROVE  /\ Head(q) \in Ids /\ Head(q) = q[1] /\ 1 \in DOMAIN q
           /\ Tail(q) \in Seq(Ids)
           /\ \A i \in DOMAIN Tail(q) :
                  i \in Nat /\ i + 1 \in DOMAIN q /\ Tail(q)[i] = q[i + 1]
    OBVIOUS

\* Every step keeps the types.
LEMMA TypeStep ==
    TypeOK /\ Constructed /\ Accounted /\ [Next]_vars => TypeOK'
<1> SUFFICES ASSUME TypeOK, Constructed, Accounted, [Next]_vars PROVE TypeOK'
  OBVIOUS
<1> USE DEF TypeOK, Becomes, Handles, Drops, caller, worker, server
<1>1. ASSUME NEW c \in Callers, CallerStep(c) PROVE TypeOK'
  <2>1. CASE GetInstance(c)
    BY <2>1 DEF GetInstance
  <2>2. CASE CreateEvent(c)
    BY <2>2 DEF CreateEvent
  <2>3. CASE InitPublic(c)
    BY <2>3 DEF InitPublic
  <2>4. CASE Publish(c)
    BY <2>4 DEF Publish
  <2>5. CASE SendRTD(c)
    <3>1. made + 1 \in Ids
      BY <2>5 DEF SendRTD, Ids
    <3>2. m_lsBtnTJ' \in Seq(Ids)
      BY <2>5, <3>1, AppendReport DEF SendRTD
    <3>3. QED BY <2>5, <3>1, <3>2 DEF SendRTD, Ids
  <2>6. CASE Wake(c)
    <3>1. m_hBtnWork \in Callers
      BY <2>6 DEF Wake, Constructed
    <3>2. QED BY <2>6, <3>1 DEF Wake
  <2>7. CASE QuitThread(c)
    BY <2>7 DEF QuitThread
  <2>8. CASE Join(c)
    BY <2>8 DEF Join
  <2>9. QED BY <1>1, <2>1, <2>2, <2>3, <2>4, <2>5, <2>6, <2>7, <2>8 DEF CallerStep
<1>2. ASSUME NEW w \in Callers, WorkerStep(w) PROVE TypeOK'
  <2>1. CASE TestQuit(w)
    BY <2>1 DEF TestQuit
  <2>2. CASE BeginWait(w)
    BY <2>2 DEF BeginWait
  <2>3. CASE Look(w) \/ Count(w) \/ Recount(w)
    BY <2>3 DEF Look, Count, Recount, Size
  <2>4. CASE Idle(w) \/ Break(w) \/ Reset(w)
    BY <2>4 DEF Idle, Break, Reset, ResetEvent
  <2>5. CASE Take(w)
    <3>1. m_lsBtnTJ' \in Seq(Ids)
      <4>1. m_lsBtnTJ # <<>> => Tail(m_lsBtnTJ) \in Seq(Ids)
        BY EraseReport
      <4>2. QED BY <2>5, <4>1 DEF Take
    <3>2. inHand' \in [Callers -> 0 .. MaxReports]
      <4>1. CASE m_lsBtnTJ = <<>>
        BY <2>5, <4>1 DEF Take
      <4>2. CASE m_lsBtnTJ # <<>>
        <5>1. Head(m_lsBtnTJ) \in 0 .. MaxReports
          <6>1. Head(m_lsBtnTJ) \in Ids
            BY <4>2, EraseReport
          <6>2. QED BY <6>1 DEF Ids
        <5>2. inHand' = [inHand EXCEPT ![w] = Head(m_lsBtnTJ)]
          BY <2>5, <4>2 DEF Take
        <5>3. QED BY <5>1, <5>2
      <4>3. QED BY <4>1, <4>2
    <3>3. QED BY <2>5, <3>1, <3>2 DEF Take
  <2>6. CASE SendBtnTJ(w)
    <3>1. inHand[w] \in Ids
      BY <2>6 DEF SendBtnTJ, Accounted, Ids
    <3>2. posted' \in Seq(Ids) /\ failed' \subseteq Ids
      <4>1. Append(posted, inHand[w]) \in Seq(Ids)
        BY <3>1, AppendReport
      <4>2. QED BY <2>6, <3>1, <4>1 DEF SendBtnTJ
    <3>3. QED BY <2>6, <3>2 DEF SendBtnTJ
  <2>7. CASE Goodbye(w)
    BY <2>7 DEF Goodbye
  <2>8. QED BY <1>2, <2>1, <2>2, <2>3, <2>4, <2>5, <2>6, <2>7 DEF WorkerStep
<1>3. CASE UNCHANGED vars
  BY <1>3 DEF vars
<1>4. QED BY <1>1, <1>2, <1>3 DEF Next

\* Every step keeps the event there and the constructors apart.
LEMMA ConstructedStep ==
    TypeOK /\ Constructed /\ [Next]_vars => Constructed'
<1> SUFFICES ASSUME TypeOK, Constructed, [Next]_vars PROVE Constructed'
  OBVIOUS
<1> USE DEF TypeOK, Constructed, Becomes, Handles, caller, worker, server
<1>1. ASSUME NEW c \in Callers, CallerStep(c) PROVE Constructed'
  <2>1. CASE GetInstance(c)
    BY <2>1 DEF GetInstance
  <2>2. CASE CreateEvent(c)
    BY <2>2 DEF CreateEvent
  <2>3. CASE InitPublic(c)
    BY <2>3 DEF InitPublic
  <2>4. CASE Publish(c)
    BY <2>4 DEF Publish
  <2>5. CASE SendRTD(c)
    BY <2>5 DEF SendRTD
  <2>6. CASE Wake(c)
    BY <2>6 DEF Wake
  <2>7. CASE QuitThread(c)
    BY <2>7 DEF QuitThread
  <2>8. CASE Join(c)
    BY <2>8 DEF Join
  <2>9. QED BY <1>1, <2>1, <2>2, <2>3, <2>4, <2>5, <2>6, <2>7, <2>8 DEF CallerStep
<1>2. ASSUME NEW w \in Callers, WorkerStep(w) PROVE Constructed'
  <2>1. /\ m_pInstance' = m_pInstance /\ m_hBtnWork' = m_hBtnWork /\ cpc' = cpc
        /\ wpc[w] # "none" /\ \A v \in Callers \ {w} : wpc'[v] = wpc[v]
    BY <1>2 DEF WorkerStep, TestQuit, BeginWait, Look, Count, Recount, Size,
                Idle, Break, Reset, ResetEvent, Take, SendBtnTJ, Goodbye
  <2>2. QED BY <2>1
<1>3. CASE UNCHANGED vars
  BY <1>3 DEF vars
<1>4. QED BY <1>1, <1>2, <1>3 DEF Next

\* ... and every report in one place.
LEMMA AccountedStep ==
    TypeOK /\ TypeOK' /\ Constructed /\ Accounted /\ PostedOnce /\ [Next]_vars
        => Accounted' /\ PostedOnce'
<1> SUFFICES ASSUME TypeOK, TypeOK', Constructed, Accounted, PostedOnce,
                    [Next]_vars
             PROVE  Accounted' /\ PostedOnce'
  OBVIOUS
<1> USE DEF Becomes, caller, worker, server
<1>1. ASSUME UNCHANGED <<m_lsBtnTJ, inHand, posted, failed, made>>,
             \A w \in Callers : wpc'[w] = "send" <=> wpc[w] = "send"
      PROVE  Accounted' /\ PostedOnce'
  BY <1>1 DEF Accounted, PostedOnce, InList, InHand, Posted
<1>2. ASSUME NEW c \in Callers, CallerStep(c), ~SendRTD(c)
      PROVE  Accounted' /\ PostedOnce'
  <2>1. UNCHANGED <<m_lsBtnTJ, inHand, posted, failed, made>>
    BY <1>2 DEF CallerStep, GetInstance, CreateEvent, InitPublic, Publish,
                Wake, QuitThread, Join
  <2>2. \A w \in Callers : wpc'[w] = "send" <=> wpc[w] = "send"
    <3>1. CASE InitPublic(c)
      <4>1. wpc[c] # "send"
        BY <3>1 DEF InitPublic, Constructed
      <4>2. QED BY <3>1, <4>1 DEF InitPublic, TypeOK
    <3>2. CASE Wake(c)
      BY <3>2 DEF Wake
    <3>3. CASE wpc' = wpc
      BY <3>3
    <3>4. QED BY <1>2, <3>1, <3>2, <3>3 DEF CallerStep, GetInstance,
                 CreateEvent, Publish, QuitThread, Join
  <2>3. QED BY <1>1, <2>1, <2>2
<1>3. ASSUME NEW c \in Callers, SendRTD(c)
      PROVE  Accounted' /\ PostedOnce'
  <2>1. made + 1 \in Ids /\ made' = made + 1 /\ m_lsBtnTJ \in Seq(Ids)
        /\ m_lsBtnTJ' = Append(m_lsBtnTJ, made + 1)
        /\ made \in Nat
    BY <1>3 DEF SendRTD, TypeOK, Ids
  <2>2. InList' = InList \cup {made + 1}
    BY <2>1, AppendRange DEF InList
  <2>3. Posted' = Posted /\ InHand' = InHand /\ failed' = failed /\ posted' = posted
        /\ inHand' = inHand /\ wpc' = wpc
    BY <1>3 DEF SendRTD, Posted, InHand
  <2>4. \A r \in InList \cup InHand \cup Posted \cup failed :
            r \in Int /\ r <= made
    <3>1. \A i \in DOMAIN m_lsBtnTJ : m_lsBtnTJ[i] \in Int
      BY DEF TypeOK, Ids
    <3>2. \A i \in DOMAIN posted : posted[i] \in Int
      BY DEF TypeOK, Ids
    <3>3. \A w \in Callers : inHand[w] \in Int
      BY DEF TypeOK
    <3>4. failed \subseteq Int
      BY DEF TypeOK, Ids
    <3>5. QED BY <3>1, <3>2, <3>3, <3>4 DEF Accounted, InList, InHand, Posted
  <2>5. made + 1 \notin InList \cup InHand \cup Posted \cup failed
    BY <2>1, <2>4
  <2>6. \A i, j \in DOMAIN m_lsBtnTJ' : i < j => m_lsBtnTJ'[i] < m_lsBtnTJ'[j]
    <3>1. SUFFICES ASSUME NEW i \in DOMAIN m_lsBtnTJ', NEW j \in DOMAIN m_lsBtnTJ', i < j
                   PROVE  m_lsBtnTJ'[i] < m_lsBtnTJ'[j]
      OBVIOUS
    <3>2. i \in DOMAIN m_lsBtnTJ /\ m_lsBtnTJ'[i] = m_lsBtnTJ[i]
      BY <2>1, <3>1, AppendReport
    <3>3. CASE j \in DOMAIN m_lsBtnTJ
      BY <2>1, <3>1, <3>2, <3>3, AppendReport DEF Accounted
    <3>4. CASE j \notin DOMAIN m_lsBtnTJ
      <4>1. m_lsBtnTJ'[j] = made + 1
        BY <2>1, <3>1, <3>4, AppendReport
      <4>2. m_lsBtnTJ[i] \in InList
        BY <3>2 DEF InList
      <4>3. QED BY <2>1, <2>4, <3>2, <4>1, <4>2
    <3>5. QED BY <3>3, <3>4
  <2>7. Accounted'
    BY <2>1, <2>2, <2>3, <2>4, <2>5, <2>6 DEF Accounted
  <2>8. PostedOnce'
    BY <2>2, <2>3, <2>5 DEF PostedOnce
  <2>9. QED BY <2>7, <2>8
<1>4. ASSUME NEW w \in Callers, WorkerStep(w), ~Take(w), ~SendBtnTJ(w)
      PROVE  Accounted' /\ PostedOnce'
  <2>1. UNCHANGED <<m_lsBtnTJ, inHand, posted, failed, made>>
    BY <1>4 DEF WorkerStep, TestQuit, BeginWait, Look, Count, Recount, Size,
                Idle, Break, Reset, ResetEvent, Goodbye
  <2>2. \A v \in Callers : wpc'[v] = "send" <=> wpc[v] = "send"
    BY <1>4 DEF WorkerStep, TestQuit, BeginWait, Look, Count, Recount, Size,
                Idle, Break, Reset, ResetEvent, Goodbye, TypeOK
  <2>3. QED BY <1>1, <2>1, <2>2
<1>5. ASSUME NEW w \in Callers, Take(w)
      PROVE  Accounted' /\ PostedOnce'
  <2>1. CASE m_lsBtnTJ = <<>>
    <3>1. UNCHANGED <<m_lsBtnTJ, inHand, posted, failed, made>>
      BY <1>5, <2>1 DEF Take
    <3>2. \A v \in Callers : wpc'[v] = "send" <=> wpc[v] = "send"
      BY <1>5, <2>1 DEF Take, TypeOK
    <3>3. QED BY <1>1, <3>1, <3>2
  <2>2. CASE m_lsBtnTJ # <<>>
    <3> DEFINE h == Head(m_lsBtnTJ)
    <3>1. /\ m_lsBtnTJ' = Tail(m_lsBtnTJ)
          /\ inHand' = [inHand EXCEPT ![w] = h]
          /\ wpc' = [wpc EXCEPT ![w] = "send"]
          /\ posted' = posted /\ failed' = failed /\ made' = made
          /\ wpc[w] = "take"
      BY <1>5, <2>2 DEF Take
    <3>2. h \in Ids /\ h \in InList /\ h # 0 /\ inHand[w] = 0
      BY <2>2, <3>1, EraseReport DEF TypeOK, InList, Ids, Accounted
    <3>3. \A i \in DOMAIN m_lsBtnTJ' : i \in Nat /\ i + 1 \in DOMAIN m_lsBtnTJ
              /\ m_lsBtnTJ'[i] = m_lsBtnTJ[i + 1]
              /\ m_lsBtnTJ[i + 1] # m_lsBtnTJ[1]
      <4>1. SUFFICES ASSUME NEW i \in DOMAIN m_lsBtnTJ'
                     PROVE  /\ i \in Nat /\ i + 1 \in DOMAIN m_lsBtnTJ
                            /\ m_lsBtnTJ'[i] = m_lsBtnTJ[i + 1]
                            /\ m_lsBtnTJ[i + 1] # m_lsBtnTJ[1]
        OBVIOUS
      <4>2. /\ i \in Nat \ {0} /\ i + 1 \in DOMAIN m_lsBtnTJ /\ 1 \in DOMAIN m_lsBtnTJ
            /\ m_lsBtnTJ'[i] = m_lsBtnTJ[i + 1]
        BY <2>2, <3>1, EraseReport DEF TypeOK
      <4>3. m_lsBtnTJ[1] < m_lsBtnTJ[i + 1]
        BY <4>2 DEF Accounted
      <4>4. m_lsBtnTJ[1] \in Int
        <5>1. Head(m_lsBtnTJ) \in Ids /\ Head(m_lsBtnTJ) = m_lsBtnTJ[1]
          BY <2>2, EraseReport DEF TypeOK
        <5>2. QED BY <5>1 DEF Ids
      <4>5. QED BY <4>2, <4>3, <4>4
    <3>4. InList' \subseteq InList \ {h}
      BY <2>2, <3>3, EraseReport DEF InList, TypeOK
    <3>5. InHand' = InHand \cup {h} /\ Posted' = Posted
      BY <3>1, <3>2 DEF InHand, Posted, TypeOK
    <3>6. h \notin InHand \cup failed \cup Posted
      BY <3>2 DEF Accounted, PostedOnce
    <3>7. \A i, j \in DOMAIN m_lsBtnTJ' : i < j => m_lsBtnTJ'[i] < m_lsBtnTJ'[j]
      BY <3>3 DEF Accounted
    <3>8. Accounted'
      <4>1. \A v \in Callers : inHand'[v] # 0 <=> wpc'[v] = "send"
        BY <3>1, <3>2 DEF Accounted, TypeOK
      <4>2. QED BY <3>1, <3>2, <3>4, <3>5, <3>6, <3>7, <4>1 DEF Accounted
    <3>9. PostedOnce'
      <4>1. \A u, v \in Callers : inHand'[v] # 0 /\ inHand'[v] = inHand'[u] => v = u
        <5>1. \A v \in Callers : v # w => inHand'[v] = inHand[v] /\ inHand[v] # h
          BY <3>1, <3>2, <3>6 DEF InHand, TypeOK
        <5>2. inHand'[w] = h
          BY <3>1 DEF TypeOK
        <5>3. QED BY <5>1, <5>2 DEF PostedOnce
      <4>2. QED BY <3>1, <3>4, <3>5, <3>6, <4>1 DEF PostedOnce
    <3>10. QED BY <3>8, <3>9
  <2>3. QED BY <2>1, <2>2
<1>6. ASSUME NEW w \in Callers, SendBtnTJ(w)
      PROVE  Accounted' /\ PostedOnce'
  <2> DEFINE h == inHand[w]
  <2>1. /\ m_lsBtnTJ' = m_lsBtnTJ /\ made' = made
        /\ inHand' = [inHand EXCEPT ![w] = 0]
        /\ wpc' = [wpc EXCEPT ![w] = "recount"]
        /\ wpc[w] = "send"
    BY <1>6 DEF SendBtnTJ
  <2>2. h \in Ids /\ h \in InHand
    BY <2>1 DEF Accounted, TypeOK, Ids, InHand
  <2>3. InList' = InList /\ InHand' = InHand \ {h}
    <3>1. InList' = InList
      BY <2>1 DEF InList
    <3>2. inHand'[w] = 0 /\ \A v \in Callers \ {w} : inHand'[v] = inHand[v]
      BY <2>1 DEF TypeOK
    <3>3. \A v \in Callers \ {w} : inHand[v] # h
      BY <2>2 DEF PostedOnce, Ids
    <3>4. QED BY <3>1, <3>2, <3>3 DEF InHand
  <2>4. h \notin InList /\ h \notin failed /\ h \notin Posted
    BY <2>2 DEF Accounted, PostedOnce
  <2>5. Posted' \cup failed' = Posted \cup failed \cup {h} /\ Posted' \cap failed' = {}
        /\ Posted \subseteq Posted' /\ failed \subseteq failed'
    <3>1. CASE posted' = Append(posted, h) /\ failed' = failed
      <4>1. Posted' = Posted \cup {h}
        <5>1. {Append(posted, h)[i] : i \in DOMAIN Append(posted, h)}
                  = {posted[i] : i \in DOMAIN posted} \cup {h}
          BY <2>2, AppendRange DEF TypeOK
        <5>2. QED BY <3>1, <5>1 DEF Posted
      <4>2. QED BY <3>1, <4>1, <2>4 DEF PostedOnce
    <3>2. CASE failed' = failed \cup {h} /\ posted' = posted
      BY <3>2, <2>4 DEF Posted, PostedOnce
    <3>3. QED BY <1>6, <3>1, <3>2 DEF SendBtnTJ
  <2>6. \A i, j \in DOMAIN posted' : posted'[i] = posted'[j] => i = j
    <3>1. CASE posted' = Append(posted, h)
      <4>1. \A i \in DOMAIN posted : posted[i] # h
        BY <2>4 DEF Posted
      <4>2. QED BY <2>2, <3>1, <4>1, AppendReport DEF PostedOnce, TypeOK
    <3>2. CASE posted' = posted
      BY <3>2 DEF PostedOnce
    <3>3. QED BY <1>6, <3>1, <3>2 DEF SendBtnTJ
  <2>7. Accounted'
    <3>1. \A v \in Callers : inHand'[v] # 0 <=> wpc'[v] = "send"
      BY <2>1 DEF Accounted, TypeOK
    <3>2. QED BY <2>1, <2>2, <2>3, <2>4, <2>5, <3>1 DEF Accounted
  <2>8. PostedOnce'
    <3>1. \A u, v \in Callers : inHand'[v] # 0 /\ inHand'[v] = inHand'[u] => v = u
      BY <2>1 DEF PostedOnce, TypeOK
    <3>2. QED BY <2>3, <2>4, <2>5, <2>6, <3>1 DEF PostedOnce
  <2>9. QED BY <2>7, <2>8
<1>7. CASE UNCHANGED vars
  BY <1>1, <1>7 DEF vars
<1>8. QED BY <1>2, <1>3, <1>4, <1>5, <1>6, <1>7 DEF Next

\* A worker that was started stays started.
LEMMA OneWorkerBefore == TypeOK /\ [Next]_vars /\ OneWorker' => OneWorker
<1> SUFFICES ASSUME TypeOK, [Next]_vars, OneWorker' PROVE OneWorker
  OBVIOUS
<1> USE DEF Becomes, caller, worker, server
<1>1. \A v \in Callers : wpc[v] # "none" => wpc'[v] # "none"
  <2>1. ASSUME NEW c \in Callers, CallerStep(c)
        PROVE  \A v \in Callers : wpc[v] # "none" => wpc'[v] # "none"
    BY <2>1 DEF CallerStep, GetInstance, CreateEvent, InitPublic, Publish,
              SendRTD, Wake, QuitThread, Join, TypeOK
  <2>2. ASSUME NEW w \in Callers, WorkerStep(w)
        PROVE  \A v \in Callers : wpc[v] # "none" => wpc'[v] # "none"
    BY <2>2 DEF WorkerStep, TestQuit, BeginWait, Look, Count, Recount, Size,
                Idle, Break, Reset, ResetEvent, Take, SendBtnTJ, Goodbye, TypeOK
  <2>3. CASE UNCHANGED vars
    BY <2>3 DEF vars
  <2>4. QED BY <2>1, <2>2, <2>3 DEF Next
<1>2. QED BY <1>1 DEF OneWorker

\* ... and, while there is one worker, the older reports further on.
LEMMA OlderStep ==
    TypeOK /\ Accounted /\ PostedOnce /\ Older /\ [Next]_vars => Older'
<1> SUFFICES ASSUME TypeOK, Accounted, PostedOnce, Older, [Next]_vars, OneWorker'
             PROVE  /\ \A p \in Posted', r \in InHand' \cup InList' : p < r
                    /\ \A h \in InHand', r \in InList' : h < r
  BY DEF Older
<1> USE DEF Becomes, caller, worker, server
<1>1. OneWorker
  BY OneWorkerBefore
<1>2. /\ \A p \in Posted, r \in InHand \cup InList : p < r
      /\ \A h \in InHand, r \in InList : h < r
  BY <1>1 DEF Older
<1>3. CASE UNCHANGED <<m_lsBtnTJ, inHand, posted>>
  BY <1>2, <1>3 DEF Posted, InHand, InList
<1>4. ASSUME NEW c \in Callers, SendRTD(c)
      PROVE  /\ \A p \in Posted', r \in InHand' \cup InList' : p < r
             /\ \A h \in InHand', r \in InList' : h < r
  <2>1. made + 1 \in Ids /\ m_lsBtnTJ' = Append(m_lsBtnTJ, made + 1)
    BY <1>4 DEF SendRTD, TypeOK, Ids
  <2>2. InList' = InList \cup {made + 1}
    <3>1. {Append(m_lsBtnTJ, made + 1)[i] : i \in DOMAIN Append(m_lsBtnTJ, made + 1)}
              = {m_lsBtnTJ[i] : i \in DOMAIN m_lsBtnTJ} \cup {made + 1}
      BY <2>1, AppendRange DEF TypeOK
    <3>2. QED BY <2>1, <3>1 DEF InList
  <2>3. Posted' = Posted /\ InHand' = InHand
    BY <1>4 DEF SendRTD, Posted, InHand
  <2>4. \A r \in InHand \cup Posted : r \in Int /\ r <= made
    BY DEF TypeOK, Accounted, InHand, Posted, Ids
  <2>5. QED BY <1>2, <2>1, <2>2, <2>3, <2>4 DEF TypeOK
<1>5. ASSUME NEW w \in Callers, Take(w)
      PROVE  /\ \A p \in Posted', r \in InHand' \cup InList' : p < r
             /\ \A h \in InHand', r \in InList' : h < r
  <2>1. CASE m_lsBtnTJ = <<>>
    BY <1>3, <1>5, <2>1 DEF Take
  <2>2. CASE m_lsBtnTJ # <<>>
    <3> DEFINE h == Head(m_lsBtnTJ)
    <3>1. /\ m_lsBtnTJ' = Tail(m_lsBtnTJ) /\ inHand' = [inHand EXCEPT ![w] = h]
          /\ wpc[w] = "take" /\ posted' = posted
      BY <1>5, <2>2 DEF Take
    <3>2. InHand = {}
      <4>1. \A v \in Callers : v # w => wpc[v] = "none"
        BY <1>1, <3>1 DEF OneWorker
      <4>2. QED BY <3>1, <4>1 DEF InHand, Accounted
    <3>3. InHand' \subseteq {h} /\ Posted' = Posted /\ h \in InList
      <4>1. \A v \in Callers : inHand[v] = 0
        BY <3>2 DEF InHand
      <4>2. QED BY <2>2, <3>1, <4>1, EraseReport DEF InHand, Posted, InList, TypeOK
    <3>4. \A i \in DOMAIN m_lsBtnTJ' :
              m_lsBtnTJ'[i] \in InList /\ h < m_lsBtnTJ'[i]
      <4>1. SUFFICES ASSUME NEW i \in DOMAIN m_lsBtnTJ'
                     PROVE  m_lsBtnTJ'[i] \in InList /\ h < m_lsBtnTJ'[i]
        OBVIOUS
      <4>2. /\ i \in Nat \ {0} /\ i + 1 \in DOMAIN m_lsBtnTJ /\ 1 \in DOMAIN m_lsBtnTJ
            /\ m_lsBtnTJ'[i] = m_lsBtnTJ[i + 1] /\ h = m_lsBtnTJ[1]
        BY <2>2, <3>1, EraseReport DEF TypeOK
      <4>3. h < m_lsBtnTJ[i + 1]
        BY <4>2 DEF Accounted
      <4>4. QED BY <4>2, <4>3 DEF InList
    <3>5. \A r \in InList' : r \in InList /\ h < r
      BY <3>4 DEF InList
    <3>6. QED BY <1>2, <3>3, <3>5
  <2>3. QED BY <2>1, <2>2
<1>6. ASSUME NEW w \in Callers, SendBtnTJ(w)
      PROVE  /\ \A p \in Posted', r \in InHand' \cup InList' : p < r
             /\ \A h \in InHand', r \in InList' : h < r
  <2> DEFINE h == inHand[w]
  <2>1. /\ m_lsBtnTJ' = m_lsBtnTJ /\ inHand' = [inHand EXCEPT ![w] = 0]
        /\ posted' \in {posted, Append(posted, h)} /\ wpc[w] = "send"
    BY <1>6 DEF SendBtnTJ
  <2>2. h \in Ids /\ h \in InHand
    BY <2>1 DEF Accounted, TypeOK, Ids, InHand
  <2>3. \A v \in Callers : v # w => inHand[v] = 0
    BY <1>1, <2>1 DEF OneWorker, Accounted
  <2>4. InHand' = {} /\ InList' = InList
    BY <2>1, <2>3 DEF InHand, InList, TypeOK
  <2>5. Posted' \subseteq Posted \cup {h}
    <3>1. posted' = posted => Posted' = Posted
      BY DEF Posted
    <3>2. posted' = Append(posted, h) => Posted' = Posted \cup {h}
      <4>1. {Append(posted, h)[i] : i \in DOMAIN Append(posted, h)}
                = {posted[i] : i \in DOMAIN posted} \cup {h}
        BY <2>2, AppendRange DEF TypeOK
      <4>2. QED BY <4>1 DEF Posted
    <3>3. QED BY <2>1, <3>1, <3>2
  <2>6. QED BY <1>2, <2>2, <2>4, <2>5
<1>7. ASSUME NEW c \in Callers, CallerStep(c), ~SendRTD(c)
      PROVE  UNCHANGED <<m_lsBtnTJ, inHand, posted>>
  BY <1>7 DEF CallerStep, GetInstance, CreateEvent, InitPublic, Publish,
              Wake, QuitThread, Join
<1>8. ASSUME NEW w \in Callers, WorkerStep(w), ~Take(w), ~SendBtnTJ(w)
      PROVE  UNCHANGED <<m_lsBtnTJ, inHand, posted>>
  BY <1>8 DEF WorkerStep, TestQuit, BeginWait, Look, Count, Recount, Size,
              Idle, Break, Reset, ResetEvent, Goodbye
<1>9. QED BY <1>3, <1>4, <1>5, <1>6, <1>7, <1>8 DEF Next, vars

\* The invariant holds from the start.
LEMMA ReporterInit == Init => IInv /\ LeftOnlyByDrop
<1> SUFFICES ASSUME Init PROVE IInv /\ LeftOnlyByDrop
  OBVIOUS
<1> USE DEF Init
<1>1. TypeOK
  <2>1. m_lsBtnTJ \in Seq(Ids) /\ posted \in Seq(Ids) /\ failed \subseteq Ids
    OBVIOUS
  <2>2. inHand \in [Callers -> 0 .. MaxReports]
    OBVIOUS
  <2>3. made \in 0 .. MaxReports /\ quits \in 0 .. MaxQuits
    OBVIOUS
  <2>4. /\ m_pInstance \in Handles /\ m_hBtnWork \in Handles
        /\ called \in [Callers -> Handles] /\ waitsOn \in [Callers -> Handles]
    BY DEF Handles
  <2>5. QED BY <2>1, <2>2, <2>3, <2>4 DEF TypeOK
<1>2. InList = {} /\ InHand = {} /\ Posted = {}
  BY DEF InList, InHand, Posted
<1>3. Constructed /\ Older
  BY <1>2 DEF Constructed, Older
<1>5. Accounted /\ PostedOnce
  BY <1>2 DEF Accounted, PostedOnce
<1>4. QED BY <1>1, <1>3, <1>5 DEF IInv, LeftOnlyByDrop

\* A step that leaves a report behind throws a signal away.
LEMMA LeftStep ==
    TypeOK /\ Constructed /\ LeftOnlyByDrop /\ [Next]_vars => LeftOnlyByDrop'
<1> DEFINE Held == m_hBtnWork \in signalled \/ \E c \in Callers : cpc[c] = "wake" \/ Looking(c)
<1> SUFFICES ASSUME TypeOK, Constructed, [Next]_vars,
                    m_lsBtnTJ # <<>> /\ ~Held => dropped,
                    m_lsBtnTJ' # <<>>, ~Held'
             PROVE  dropped'
  BY DEF LeftOnlyByDrop, Looking
<1> USE DEF Becomes, Drops, Looking, caller, worker, server
<1>1. ASSUME NEW c \in Callers, CallerStep(c) PROVE dropped'
  <2>1. CASE GetInstance(c)
    BY <2>1 DEF GetInstance, TypeOK
  <2>2. CASE CreateEvent(c)
    BY <2>2 DEF CreateEvent
  <2>3. CASE InitPublic(c)
    <3>1. \A w \in Callers : w # c => wpc'[w] = wpc[w]
      BY <2>3 DEF InitPublic, TypeOK
    <3>2. ~Looking(c)
      BY <2>3 DEF InitPublic, Constructed
    <3>3. QED BY <2>3, <3>1, <3>2 DEF InitPublic, TypeOK
  <2>4. CASE Publish(c)
    BY <2>4 DEF Publish, TypeOK
  <2>5. CASE SendRTD(c)
    BY <2>5 DEF SendRTD, TypeOK
  <2>6. CASE Wake(c)
    BY <2>6 DEF Wake
  <2>7. CASE QuitThread(c)
    BY <2>7 DEF QuitThread, TypeOK
  <2>8. CASE Join(c)
    BY <2>8 DEF Join, TypeOK
  <2>9. QED BY <1>1, <2>1, <2>2, <2>3, <2>4, <2>5, <2>6, <2>7, <2>8 DEF CallerStep
<1>2. ASSUME NEW w \in Callers, WorkerStep(w) PROVE dropped'
  <2>1. CASE TestQuit(w)
    BY <2>1 DEF TestQuit, TypeOK
  <2>2. CASE BeginWait(w)
    BY <2>2 DEF BeginWait, TypeOK
  <2>3. CASE Look(w) \/ Count(w) \/ Recount(w)
    BY <2>3 DEF Look, Count, Recount, Size, TypeOK
  <2>4. CASE Idle(w) \/ Break(w) \/ Reset(w)
    BY <2>4 DEF Idle, Break, Reset, ResetEvent
  <2>5. CASE Take(w)
    BY <2>5 DEF Take, TypeOK
  <2>6. CASE SendBtnTJ(w)
    BY <2>6 DEF SendBtnTJ, TypeOK
  <2>7. CASE Goodbye(w)
    BY <2>7 DEF Goodbye, TypeOK
  <2>8. QED BY <1>2, <2>1, <2>2, <2>3, <2>4, <2>5, <2>6, <2>7 DEF WorkerStep
<1>3. CASE UNCHANGED vars
  BY <1>3 DEF vars
<1>4. QED BY <1>1, <1>2, <1>3 DEF Next

\* The inductive invariant of the reporter, for any threads that report, any
\* number of reports and of quits.
THEOREM ReporterInvariant == Spec => []IInv
<1>1. Init => IInv
  BY ReporterInit
<1>2. IInv /\ [Next]_vars => IInv'
  BY TypeStep, ConstructedStep, AccountedStep, OlderStep DEF IInv
<1>3. QED BY <1>1, <1>2, PTL DEF Spec

\* No report is posted twice, however many workers there are.
THEOREM EveryReportOnce == Spec => []PostedOnce
<1>1. IInv => PostedOnce
  BY DEF IInv
<1>2. QED BY <1>1, ReporterInvariant, PTL

\* One worker posts the reports in the order in which they were made: the
\* newest report posted is older than everything still to be posted.
THEOREM ReportsInOrder == Spec => []PostedInOrder
<1>1. Init => PostedInOrder
  BY DEF Init, PostedInOrder
<1>2. IInv /\ PostedInOrder /\ [Next]_vars => PostedInOrder'
  <2> SUFFICES ASSUME IInv, PostedInOrder, [Next]_vars, OneWorker'
               PROVE  \A i, j \in DOMAIN posted' : i < j => posted'[i] < posted'[j]
    BY DEF PostedInOrder
  <2>1. OneWorker
    BY OneWorkerBefore DEF IInv
  <2>2. \A i, j \in DOMAIN posted : i < j => posted[i] < posted[j]
    BY <2>1 DEF PostedInOrder
  <2>3. CASE posted' = posted
    BY <2>2, <2>3
  <2>4. ASSUME NEW w \in Callers, SendBtnTJ(w), posted' = Append(posted, inHand[w])
        PROVE  \A i, j \in DOMAIN posted' : i < j => posted'[i] < posted'[j]
    <3>1. inHand[w] \in Ids /\ inHand[w] \in InHand
      BY <2>4 DEF SendBtnTJ, IInv, Accounted, TypeOK, Ids, InHand
    <3>2. \A i \in DOMAIN posted : posted[i] < inHand[w]
      BY <2>1, <3>1 DEF IInv, Older, Posted
    <3>3. posted \in Seq(Ids)
      BY DEF IInv, TypeOK
    <3>4. QED BY <2>2, <2>4, <3>1, <3>2, <3>3, AppendReport
  <2>5. posted' = posted \/ \E w \in Callers : SendBtnTJ(w) /\ posted' = Append(posted, inHand[w])
    <3>1. ASSUME NEW c \in Callers, CallerStep(c) PROVE posted' = posted
      BY <3>1 DEF CallerStep, GetInstance, CreateEvent, InitPublic, Publish,
                  SendRTD, Wake, QuitThread, Join, server
    <3>2. ASSUME NEW w \in Callers, WorkerStep(w), ~SendBtnTJ(w) PROVE posted' = posted
      BY <3>2 DEF WorkerStep, TestQuit, BeginWait, Look, Count, Recount, Size,
                  Idle, Break, Reset, ResetEvent, Take, Goodbye, server
    <3>3. ASSUME NEW w \in Callers, SendBtnTJ(w)
          PROVE  posted' = posted \/ posted' = Append(posted, inHand[w])
      BY <3>3 DEF SendBtnTJ
    <3>4. CASE UNCHANGED vars
      BY <3>4 DEF vars
    <3>5. QED BY <3>1, <3>2, <3>3, <3>4 DEF Next
  <2>6. QED BY <2>3, <2>4, <2>5
<1>3. QED BY <1>1, <1>2, ReporterInvariant, PTL DEF Spec

\* A report stays behind only when a ResetEvent, or a second constructor, has
\* thrown a signal away over a list with work in it.
THEOREM OnlyDropsLeave == Spec => []LeftOnlyByDrop
<1>1. Init => LeftOnlyByDrop
  BY ReporterInit
<1>2. IInv /\ LeftOnlyByDrop /\ [Next]_vars => LeftOnlyByDrop'
  BY LeftStep DEF IInv
<1>3. QED BY <1>1, <1>2, ReporterInvariant, PTL DEF Spec

=============================================================================
