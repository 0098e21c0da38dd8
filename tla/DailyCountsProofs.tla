-------------------------- MODULE DailyCountsProofs --------------------------
(***************************************************************************)
(* For any kinds of event, any number of them, of runs and of days: what   *)
(* was counted is on the server or in the file, once, outside the cases    *)
(* the history variables name, and an upload that was followed by its date *)
(* is the only one of its day.                                             *)
(***************************************************************************)
EXTENDS DailyCounts, TLAPS

USE CountsAssumption DEF CountsAssumption

\* Every step keeps the types.
LEMMA TypeStep == TypeOK /\ [Next]_vars => TypeOK'
<1> SUFFICES ASSUME TypeOK, [Next]_vars PROVE TypeOK'
  OBVIOUS
<1> USE DEF TypeOK, Zero, vars, fileVars, addVars, sendVars, lossVars, dayVars, serverVars
<1>1. ASSUME NEW t \in Threads, NEW k \in Keys, ReadCount(t, k) PROVE TypeOK'
  BY <1>1 DEF ReadCount
<1>2. ASSUME NEW t \in Threads, WriteCount(t) PROVE TypeOK'
  BY <1>2 DEF WriteCount
<1>3. CASE CompareDate
  BY <1>3 DEF CompareDate
<1>4. CASE EnumKeys
  BY <1>4 DEF EnumKeys
<1>5. ASSUME NEW k \in Keys, EnumCount(k) PROVE TypeOK'
  BY <1>5 DEF EnumCount
<1>6. CASE EndEnum
  BY <1>6 DEF EndEnum
<1>7. CASE doPost
  <2>1. [k \in Keys |-> uploaded[k] + map_Count[k]] \in [Keys -> Nat]
    OBVIOUS
  <2>2. QED BY <1>7, <2>1 DEF doPost
<1>8. CASE Answer
  BY <1>8 DEF Answer, Sent
<1>9. CASE RemoveDailyFile
  BY <1>9 DEF RemoveDailyFile, Sent, Held
<1>10. CASE SetTime
  BY <1>10 DEF SetTime
<1>11. CASE Restart
  BY <1>11 DEF Restart, Idle
<1>12. CASE Midnight
  BY <1>12 DEF Midnight
<1>13. CASE UNCHANGED vars
  BY <1>13
<1>14. QED
  BY <1>1, <1>2, <1>3, <1>4, <1>5, <1>6, <1>7, <1>8, <1>9, <1>10, <1>11, <1>12, <1>13
     DEF Next, AddCount, SendCollectData

\* What the server has in flight is a number.
LEMMA InFlightType == TypeOK => \A k \in Keys : InFlight(k) \in Nat
  BY DEF TypeOK, InFlight

\* A number a thread holds stays good while the numbers stay and nothing in
\* flight is forgotten without excuse.
LEMMA HeldStays ==
    ASSUME TypeOK, TypeOK', NEW u \in Threads, ReadLow(u), ReadHigh(u),
           nType'[u] = nType[u], nValue'[u] = nValue[u],
           UNCHANGED <<daily_count, uploaded, recorded, collided>>,
           doubled \subseteq doubled',
           \A k \in Keys \ doubled' : InFlight(k)' >= InFlight(k)
    PROVE  ReadLow(u)' /\ ReadHigh(u)'
<1>1. nType[u] \in Keys /\ nValue[u] \in Nat
  BY DEF TypeOK
<1>2. ReadLow(u)'
  BY <1>1 DEF ReadLow
<1>3. ReadHigh(u)'
  <2>1. InFlight(nType[u]) \in Nat /\ InFlight(nType[u])' \in Nat
    BY <1>1, InFlightType DEF TypeOK, InFlight
  <2>2. uploaded[nType[u]] \in Nat /\ recorded[nType[u]] \in Nat
    BY <1>1 DEF TypeOK
  <2>3. QED BY <1>1, <2>1, <2>2 DEF ReadHigh
<1>4. QED BY <1>2, <1>3

\* While AddCount holds a number it is the one in the file, until the file is
\* removed, or written by the other thread, under it.
LEMMA ReadStep == IInv /\ [Next]_vars => ReadInv'
<1> SUFFICES ASSUME IInv, [Next]_vars, NEW u \in Threads, apc'[u] = "write"
             PROVE  ReadLow(u)' /\ ReadHigh(u)'
  BY DEF ReadInv
<1>a. TypeOK /\ TypeOK'
  BY TypeStep DEF IInv
<1>b. apc[u] = "write" => ReadLow(u) /\ ReadHigh(u)
  BY DEF IInv, ReadInv
<1>c. nType[u] \in Keys /\ nValue[u] \in Nat
  BY <1>a DEF TypeOK
<1>d. \A k \in Keys : /\ daily_count[k] \in Nat /\ uploaded[k] \in Nat
                      /\ recorded[k] \in Nat /\ map_Count[k] \in Nat
                      /\ InFlight(k) \in Nat
  BY <1>a, InFlightType DEF TypeOK
<1>1. ASSUME NEW t \in Threads, NEW k \in Keys, ReadCount(t, k)
      PROVE  ReadLow(u)' /\ ReadHigh(u)'
  <2>1. \A i \in Keys : InFlight(i)' = InFlight(i)
    BY <1>1 DEF ReadCount, InFlight, serverVars, sendVars
  <2>2. CASE u = t
    <3>1. nType'[u] = k /\ nValue'[u] = daily_count[k]
      BY <1>1, <1>a, <2>2 DEF ReadCount, TypeOK
    <3>2. ReadLow(u)'
      BY <1>1, <1>d, <3>1 DEF ReadCount, ReadLow, fileVars
    <3>3. k \notin doubled =>
             uploaded[k] + daily_count[k] <= recorded[k] + InFlight(k)
      BY DEF IInv, AtMostOnce
    <3>4. ReadHigh(u)'
      BY <1>1, <2>1, <3>1, <3>3 DEF ReadCount, ReadHigh, serverVars, lossVars
    <3>5. QED BY <3>2, <3>4
  <2>3. CASE u # t
    <3>1. apc[u] = "write" /\ nType'[u] = nType[u] /\ nValue'[u] = nValue[u]
      BY <1>1, <1>a, <2>3 DEF ReadCount, TypeOK
    <3>2. UNCHANGED <<daily_count, uploaded, recorded, collided, doubled>>
      BY <1>1 DEF ReadCount, fileVars, serverVars, lossVars
    <3>3. QED BY <1>a, <1>b, <1>d, <2>1, <3>1, <3>2, HeldStays
  <2>4. QED BY <2>2, <2>3
<1>2. ASSUME NEW t \in Threads, WriteCount(t) PROVE ReadLow(u)' /\ ReadHigh(u)'
  <2>1. u # t /\ apc[u] = "write"
    BY <1>2, <1>a DEF WriteCount, TypeOK
  <2>2. nType' = nType /\ nValue'[u] = nValue[u]
    BY <1>2, <1>a, <2>1 DEF WriteCount, TypeOK
  <2>3. \A i \in Keys : InFlight(i)' = InFlight(i)
    BY <1>2 DEF WriteCount, InFlight, serverVars, sendVars
  <2>4. nType[t] \in Keys
    BY <1>a DEF TypeOK
  <2>5. ReadLow(u)'
    <3>1. CASE nType[u] = nType[t]
      <4>1. u \in Adding(nType[t])
        BY <2>1, <3>1 DEF Adding
      <4>2. nType[t] \in collided'
        BY <1>2, <2>1, <4>1 DEF WriteCount
      <4>3. QED BY <2>2, <3>1, <4>2 DEF ReadLow
    <3>2. CASE nType[u] # nType[t]
      <4>1. daily_count'[nType[u]] = daily_count[nType[u]]
        BY <1>2, <1>a, <1>c, <2>4, <3>2 DEF WriteCount, TypeOK
      <4>2. collided \subseteq collided'
        BY <1>2 DEF WriteCount
      <4>3. QED BY <1>b, <2>1, <2>2, <4>1, <4>2 DEF ReadLow
    <3>3. QED BY <3>1, <3>2
  <2>6. ReadHigh(u)'
    <3>1. recorded'[nType[u]] >= recorded[nType[u]] /\ recorded'[nType[u]] \in Nat
      BY <1>2, <1>a, <1>c, <1>d, <2>4 DEF WriteCount, TypeOK
    <3>2. uploaded' = uploaded /\ doubled' = doubled
      BY <1>2 DEF WriteCount, serverVars
    <3>3. QED BY <1>b, <1>c, <1>d, <2>1, <2>2, <2>3, <3>1, <3>2 DEF ReadHigh
  <2>7. QED BY <2>5, <2>6
<1>3. CASE \/ CompareDate \/ EnumKeys \/ (\E k \in Keys : EnumCount(k)) \/ EndEnum
           \/ Answer \/ SetTime \/ Midnight \/ UNCHANGED vars
  <2>1. UNCHANGED <<daily_count, uploaded, recorded, collided, addVars>>
        /\ doubled \subseteq doubled'
    BY <1>3 DEF CompareDate, EnumKeys, EnumCount, EndEnum, Answer, SetTime,
                Midnight, vars, fileVars, serverVars, lossVars, addVars
  <2>2. \A k \in Keys \ doubled' : InFlight(k)' >= InFlight(k)
    <3>1. CASE Answer
      BY <1>d, <3>1 DEF Answer, InFlight, Sent, serverVars
    <3>2. CASE ~Answer
      BY <1>3, <1>d, <3>2 DEF CompareDate, EnumKeys, EnumCount, EndEnum, SetTime,
         Midnight, vars, InFlight, serverVars, sendVars
    <3>3. QED BY <3>1, <3>2
  <2>3. QED BY <1>a, <1>b, <2>1, <2>2, HeldStays DEF addVars
<1>4. CASE doPost
  <2>1. /\ UNCHANGED <<daily_count, recorded, collided, addVars, doubled>>
        /\ \A k \in Keys : uploaded'[k] - InFlight(k)' = uploaded[k]
                            /\ uploaded'[k] \in Nat /\ InFlight(k)' \in Nat
    BY <1>4, <1>d DEF doPost, InFlight, fileVars, addVars, lossVars
  <2>2. InFlight(nType[u]) = 0
    BY <1>4 DEF doPost, InFlight
  <2>3. apc[u] = "write" /\ ReadLow(u) /\ ReadHigh(u)
    BY <1>b, <2>1 DEF addVars
  <2>4. ReadLow(u)'
    BY <2>1, <2>3 DEF ReadLow, addVars
  <2>5. ReadHigh(u)'
    BY <1>c, <1>d, <2>1, <2>2, <2>3 DEF ReadHigh, addVars
  <2>6. QED BY <2>4, <2>5
<1>5. CASE RemoveDailyFile
  <2>1. UNCHANGED <<addVars, uploaded, recorded, collided>> /\ spc = "remove"
        /\ doubled \subseteq doubled' /\ spc' = "stamp"
    BY <1>5 DEF RemoveDailyFile, addVars, serverVars
  <2>2. apc[u] = "write" /\ ReadLow(u) /\ ReadHigh(u)
    BY <1>b, <2>1 DEF addVars
  <2>3. ReadLow(u)'
    BY <1>5, <1>c, <1>d, <2>1, <2>2 DEF RemoveDailyFile, ReadLow, Zero, fileVars, addVars
  <2>4. InFlight(nType[u])' = 0
    BY <2>1 DEF InFlight
  <2>5. CASE ~taken
    <3>1. InFlight(nType[u]) = 0
      BY <2>5 DEF InFlight
    <3>2. QED BY <1>c, <1>d, <2>1, <2>2, <2>3, <2>4, <3>1 DEF ReadHigh, addVars
  <2>6. CASE taken /\ nType[u] \notin doubled'
    <3>1. nValue[u] = 0 \/ map_Count[nType[u]] = 0
      BY <1>5, <1>c, <1>d, <2>2, <2>6 DEF RemoveDailyFile, Held, Adding, Sent
    <3>2. uploaded[nType[u]] <= recorded[nType[u]]
      <4>1. uploaded[nType[u]] + map_Count[nType[u]]
              <= recorded[nType[u]] + InFlight(nType[u])
        BY <1>c, <2>1, <2>6 DEF IInv, SendInv, Reading
      <4>2. InFlight(nType[u]) = map_Count[nType[u]]
        BY <2>1, <2>6 DEF InFlight
      <4>3. QED BY <1>c, <1>d, <4>1, <4>2
    <3>3. InFlight(nType[u]) = map_Count[nType[u]]
      BY <2>1, <2>6 DEF InFlight
    <3>4. QED BY <1>c, <1>d, <2>1, <2>2, <2>3, <2>4, <3>1, <3>2, <3>3 DEF ReadHigh, addVars
  <2>7. QED BY <2>3, <2>5, <2>6, <2>1 DEF ReadHigh, addVars
<1>6. CASE Restart
  BY <1>6 DEF Restart, Idle
<1>7. QED
  BY <1>1, <1>2, <1>3, <1>4, <1>5, <1>6 DEF Next, AddCount, SendCollectData

\* What the second half of AddCount does to the number of any key.
LEMMA Written ==
    ASSUME TypeOK, NEW t \in Threads, WriteCount(t), NEW k \in Keys
    PROVE  /\ k # nType[t] => /\ daily_count'[k] = daily_count[k]
                              /\ recorded'[k] = recorded[k]
           /\ k = nType[t] => /\ daily_count'[k] = nValue[t] + 1
                              /\ recorded'[k] = recorded[k] + 1
           /\ Reading /\ k \notin names \cup wrote' => k # nType[t]
           /\ wrote \subseteq wrote' /\ collided \subseteq collided'
           /\ InFlight(k)' = InFlight(k) /\ Reading' = Reading
           /\ UNCHANGED <<sendVars, serverVars, missed, misread, doubled>>
           /\ nType[t] \in Keys /\ nValue[t] \in Nat /\ apc[t] = "write"
  BY DEF TypeOK, WriteCount, InFlight, Reading, sendVars, serverVars

\* What SendCollectData holds stays the number in the file of every key not
\* written since, and no more than was counted.
LEMMA SendStep == IInv /\ [Next]_vars => SendInv'
<1> DEFINE Exact(k) == Reading /\ k \notin names \cup wrote =>
                           map_Count[k] = daily_count[k]
           Bounded(k) == Reading /\ k \notin doubled =>
                           uploaded[k] + map_Count[k] <= recorded[k] + InFlight(k)
           Named == spc \in {"post", "answer", "remove"} => names = {}
<1> SUFFICES ASSUME IInv, [Next]_vars PROVE SendInv'
  OBVIOUS
<1> SUFFICES ASSUME NEW k \in Keys PROVE Exact(k)' /\ Bounded(k)' /\ Named'
  <2>1. Keys = {} => Named'
    BY TypeStep DEF IInv, TypeOK
  <2>2. QED BY <2>1 DEF SendInv
<1>c. Exact(k) /\ Bounded(k) /\ Named
  BY DEF IInv, SendInv
<1>d. k \notin doubled => uploaded[k] + daily_count[k] <= recorded[k] + InFlight(k)
  BY DEF IInv, AtMostOnce
<1>a. TypeOK /\ TypeOK'
  BY TypeStep DEF IInv
<1>b. /\ daily_count[k] \in Nat /\ uploaded[k] \in Nat
      /\ recorded[k] \in Nat /\ map_Count[k] \in Nat
  BY <1>a DEF TypeOK
<1> USE <1>a, <1>b, <1>c, <1>d DEF Reading, InFlight, TypeOK, Zero, vars, fileVars, addVars, sendVars, lossVars, dayVars, serverVars
<1>1. ASSUME NEW t \in Threads, NEW i \in Keys, ReadCount(t, i) PROVE Exact(k)' /\ Bounded(k)' /\ Named'
  BY <1>1 DEF ReadCount
<1>2. ASSUME NEW t \in Threads, WriteCount(t) PROVE Exact(k)' /\ Bounded(k)' /\ Named'
  BY <1>2, Written
<1>3. CASE CompareDate
  BY <1>3 DEF CompareDate
<1>4. CASE EnumKeys
  BY <1>4 DEF EnumKeys
<1>5. ASSUME NEW i \in Keys, EnumCount(i) PROVE Exact(k)' /\ Bounded(k)' /\ Named'
  BY <1>5 DEF EnumCount
<1>6. CASE EndEnum
  BY <1>6 DEF EndEnum
<1>7. CASE doPost
  BY <1>7 DEF doPost
<1>8. CASE Answer
  BY <1>8 DEF Answer
<1>9. CASE RemoveDailyFile
  BY <1>9 DEF RemoveDailyFile
<1>10. CASE SetTime
  BY <1>10 DEF SetTime
<1>11. CASE Restart
  BY <1>11 DEF Restart
<1>12. CASE Midnight
  BY <1>12 DEF Midnight
<1>13. CASE UNCHANGED vars
  BY <1>13
<1>14. QED
  BY <1>1, <1>2, <1>3, <1>4, <1>5, <1>6, <1>7, <1>8, <1>9, <1>10, <1>11, <1>12, <1>13
     DEF Next, AddCount, SendCollectData

\* What is removed was taken by the server, but for what is excused.
LEMMA TakenStep == IInv /\ [Next]_vars => TakenInv'
<1> DEFINE Took(k) == taken /\ spc \in {"answer", "remove"}
                      /\ k \notin missed \cup wrote \cup collided \cup misread =>
                          uploaded[k] >= recorded[k]
           Excused(k) == ~taken /\ spc = "remove" /\ map_Count[k] > 0 => k \in misread
<1> SUFFICES ASSUME IInv, [Next]_vars, NEW k \in Keys PROVE Took(k)' /\ Excused(k)'
  BY DEF TakenInv, Sent
<1>c. Took(k) /\ Excused(k)
  BY DEF IInv, TakenInv, Sent
<1>d. k \notin missed \cup collided \cup misread =>
          uploaded[k] + daily_count[k] >= recorded[k]
  BY DEF IInv, AtLeastOnce
<1>e. Reading /\ k \notin names \cup wrote => map_Count[k] = daily_count[k]
  BY DEF IInv, SendInv
<1>f. spc \in {"post", "answer", "remove"} => names = {}
  BY DEF IInv, SendInv
<1>a. TypeOK /\ TypeOK'
  BY TypeStep DEF IInv
<1>b. /\ daily_count[k] \in Nat /\ uploaded[k] \in Nat
      /\ recorded[k] \in Nat /\ map_Count[k] \in Nat
  BY <1>a DEF TypeOK
<1> USE <1>a, <1>b, <1>c, <1>d, <1>e, <1>f DEF Reading, Sent, TypeOK, Zero, vars, fileVars, addVars, sendVars, lossVars, dayVars, serverVars
<1>1. ASSUME NEW t \in Threads, NEW i \in Keys, ReadCount(t, i) PROVE Took(k)' /\ Excused(k)'
  BY <1>1 DEF ReadCount
<1>2. ASSUME NEW t \in Threads, WriteCount(t) PROVE Took(k)' /\ Excused(k)'
  BY <1>2, Written
<1>3. CASE CompareDate
  BY <1>3 DEF CompareDate
<1>4. CASE EnumKeys
  BY <1>4 DEF EnumKeys
<1>5. ASSUME NEW i \in Keys, EnumCount(i) PROVE Took(k)' /\ Excused(k)'
  BY <1>5 DEF EnumCount
<1>6. CASE EndEnum
  BY <1>6 DEF EndEnum
<1>7. CASE doPost
  BY <1>7 DEF doPost
<1>8. CASE Answer
  BY <1>8 DEF Answer
<1>9. CASE RemoveDailyFile
  BY <1>9 DEF RemoveDailyFile
<1>10. CASE SetTime
  BY <1>10 DEF SetTime
<1>11. CASE Restart
  BY <1>11 DEF Restart
<1>12. CASE Midnight
  BY <1>12 DEF Midnight
<1>13. CASE UNCHANGED vars
  BY <1>13
<1>14. QED
  BY <1>1, <1>2, <1>3, <1>4, <1>5, <1>6, <1>7, <1>8, <1>9, <1>10, <1>11, <1>12, <1>13
     DEF Next, AddCount, SendCollectData

\* The date in the file is never behind the last upload, unless the program did
\* not get to write it.
LEMMA DayStep == IInv /\ [Next]_vars => DayInv'
<1> SUFFICES ASSUME IInv, [Next]_vars PROVE DayInv'
  OBVIOUS
<1> USE DEF DayInv, IInv, TypeOK, vars, fileVars, addVars, sendVars, lossVars, dayVars, serverVars
<1>1. ASSUME NEW t \in Threads, NEW k \in Keys, ReadCount(t, k) PROVE DayInv'
  BY <1>1 DEF ReadCount
<1>2. ASSUME NEW t \in Threads, WriteCount(t) PROVE DayInv'
  BY <1>2 DEF WriteCount
<1>3. CASE CompareDate
  BY <1>3 DEF CompareDate
<1>4. CASE EnumKeys
  BY <1>4 DEF EnumKeys
<1>5. ASSUME NEW k \in Keys, EnumCount(k) PROVE DayInv'
  BY <1>5 DEF EnumCount
<1>6. CASE EndEnum
  BY <1>6 DEF EndEnum
<1>7. CASE doPost
  BY <1>7 DEF doPost
<1>8. CASE Answer
  BY <1>8 DEF Answer
<1>9. CASE RemoveDailyFile
  BY <1>9 DEF RemoveDailyFile
<1>10. CASE SetTime
  BY <1>10 DEF SetTime
<1>11. CASE Restart
  BY <1>11 DEF Restart
<1>12. CASE Midnight
  BY <1>12 DEF Midnight
<1>13. CASE UNCHANGED vars
  BY <1>13
<1>14. QED
  BY <1>1, <1>2, <1>3, <1>4, <1>5, <1>6, <1>7, <1>8, <1>9, <1>10, <1>11, <1>12, <1>13
     DEF Next, AddCount, SendCollectData

\* No step loses a count of a key that no excuse names.
LEMMA LeastStep == IInv /\ [Next]_vars => AtLeastOnce'
<1> DEFINE Kept(k) == k \notin missed \cup collided \cup misread =>
                          uploaded[k] + daily_count[k] >= recorded[k]
<1> SUFFICES ASSUME IInv, [Next]_vars, NEW k \in Keys PROVE Kept(k)'
  BY DEF AtLeastOnce
<1>c. Kept(k)
  BY DEF IInv, AtLeastOnce
<1>d. Reading /\ k \notin names \cup wrote => map_Count[k] = daily_count[k]
  BY DEF IInv, SendInv
<1>e. spc \in {"post", "answer", "remove"} => names = {}
  BY DEF IInv, SendInv
<1>f. taken /\ spc = "remove" /\ k \notin missed \cup wrote \cup collided \cup misread =>
          uploaded[k] >= recorded[k]
  BY DEF IInv, TakenInv
<1>g. ~taken /\ spc = "remove" /\ map_Count[k] > 0 => k \in misread
  BY DEF IInv, TakenInv, Sent
<1>h. \A t \in Threads : apc[t] = "write" /\ nType[t] = k /\ k \notin collided =>
                             nValue[t] >= daily_count[k]
  BY DEF IInv, ReadInv, ReadLow
<1>a. TypeOK /\ TypeOK'
  BY TypeStep DEF IInv
<1>b. /\ daily_count[k] \in Nat /\ uploaded[k] \in Nat
      /\ recorded[k] \in Nat /\ map_Count[k] \in Nat
  BY <1>a DEF TypeOK
<1> USE <1>a, <1>b, <1>c, <1>d, <1>e, <1>f, <1>g DEF Reading, TypeOK, Zero, vars, fileVars, addVars, sendVars, lossVars, dayVars, serverVars
<1>1. ASSUME NEW t \in Threads, NEW i \in Keys, ReadCount(t, i) PROVE Kept(k)'
  BY <1>1 DEF ReadCount
<1>2. ASSUME NEW t \in Threads, WriteCount(t) PROVE Kept(k)'
  BY <1>2, <1>h, Written
<1>3. CASE CompareDate
  BY <1>3 DEF CompareDate
<1>4. CASE EnumKeys
  BY <1>4 DEF EnumKeys
<1>5. ASSUME NEW i \in Keys, EnumCount(i) PROVE Kept(k)'
  BY <1>5 DEF EnumCount
<1>6. CASE EndEnum
  BY <1>6 DEF EndEnum
<1>7. CASE doPost
  BY <1>7 DEF doPost
<1>8. CASE Answer
  BY <1>8 DEF Answer
<1>9. CASE RemoveDailyFile
  BY <1>9 DEF RemoveDailyFile
<1>10. CASE SetTime
  BY <1>10 DEF SetTime
<1>11. CASE Restart
  BY <1>11 DEF Restart
<1>12. CASE Midnight
  BY <1>12 DEF Midnight
<1>13. CASE UNCHANGED vars
  BY <1>13
<1>14. QED
  BY <1>1, <1>2, <1>3, <1>4, <1>5, <1>6, <1>7, <1>8, <1>9, <1>10, <1>11, <1>12, <1>13
     DEF Next, AddCount, SendCollectData

\* No step counts an event a second time outside the named cases.
LEMMA MostStep == IInv /\ [Next]_vars => AtMostOnce'
<1> DEFINE Once(k) == k \notin doubled =>
                          uploaded[k] + daily_count[k] <= recorded[k] + InFlight(k)
<1> SUFFICES ASSUME IInv, [Next]_vars, NEW k \in Keys PROVE Once(k)'
  BY DEF AtMostOnce
<1>c. Once(k)
  BY DEF IInv, AtMostOnce
<1>d. Reading /\ k \notin doubled =>
          uploaded[k] + map_Count[k] <= recorded[k] + InFlight(k)
  BY DEF IInv, SendInv
<1>h. \A t \in Threads : apc[t] = "write" /\ nType[t] = k /\ k \notin doubled =>
                             uploaded[k] + nValue[t] <= recorded[k] + InFlight(k)
  BY DEF IInv, ReadInv, ReadHigh
<1>a. TypeOK /\ TypeOK'
  BY TypeStep DEF IInv
<1>b. /\ daily_count[k] \in Nat /\ uploaded[k] \in Nat
      /\ recorded[k] \in Nat /\ map_Count[k] \in Nat
  BY <1>a DEF TypeOK
<1> USE <1>a, <1>b, <1>c, <1>d DEF InFlight, Sent, Reading, TypeOK, Zero, vars, fileVars, addVars, sendVars, lossVars, dayVars, serverVars
<1>1. ASSUME NEW t \in Threads, NEW i \in Keys, ReadCount(t, i) PROVE Once(k)'
  BY <1>1 DEF ReadCount
<1>2. ASSUME NEW t \in Threads, WriteCount(t) PROVE Once(k)'
  BY <1>2, <1>h, Written
<1>3. CASE CompareDate
  BY <1>3 DEF CompareDate
<1>4. CASE EnumKeys
  BY <1>4 DEF EnumKeys
<1>5. ASSUME NEW i \in Keys, EnumCount(i) PROVE Once(k)'
  BY <1>5 DEF EnumCount
<1>6. CASE EndEnum
  BY <1>6 DEF EndEnum
<1>7. CASE doPost
  BY <1>7 DEF doPost
<1>8. CASE Answer
  BY <1>8 DEF Answer
<1>9. CASE RemoveDailyFile
  BY <1>9 DEF RemoveDailyFile
<1>10. CASE SetTime
  BY <1>10 DEF SetTime
<1>11. CASE Restart
  BY <1>11 DEF Restart
<1>12. CASE Midnight
  BY <1>12 DEF Midnight
<1>13. CASE UNCHANGED vars
  BY <1>13
<1>14. QED
  BY <1>1, <1>2, <1>3, <1>4, <1>5, <1>6, <1>7, <1>8, <1>9, <1>10, <1>11, <1>12, <1>13
     DEF Next, AddCount, SendCollectData

\* The inductive invariant holds at the start.
LEMMA InitHolds == Init => IInv
<1> SUFFICES ASSUME Init PROVE IInv
  OBVIOUS
<1>1. Zero \in [Keys -> Nat] /\ \A k \in Keys : Zero[k] = 0
  BY DEF Zero
<1>2. TypeOK
  <2>1. unstamped \in BOOLEAN
    BY DEF Init
  <2>2. wrote \subseteq Keys /\ missed \subseteq Keys /\ doubled \subseteq Keys
    BY DEF Init
  <2>3. collided \subseteq Keys /\ misread \subseteq Keys /\ names \subseteq Keys
    BY DEF Init
  <2>4. apc \in [Threads -> {"idle", "write"}] /\ nValue \in [Threads -> Nat]
        /\ nType \in [Threads -> Keys]
    BY DEF Init, Idle
  <2>5. taken \in BOOLEAN
    BY DEF Init
  <2>6. QED BY <1>1, <2>1, <2>2, <2>3, <2>4, <2>5 DEF Init, TypeOK
<1>3. ReadInv /\ SendInv /\ TakenInv /\ DayInv
  BY DEF Init, ReadInv, SendInv, TakenInv, DayInv, Reading, Idle
<1>4. AtLeastOnce /\ AtMostOnce
  BY <1>1 DEF Init, AtLeastOnce, AtMostOnce, InFlight
<1>5. QED BY <1>2, <1>3, <1>4 DEF IInv

\* It is kept by every step.
LEMMA StepHolds == IInv /\ [Next]_vars => IInv'
  BY TypeStep, ReadStep, SendStep, TakenStep, DayStep, LeastStep, MostStep DEF IInv

\* What SendCollectData and AddCount hold agrees with the file and the server
\* in every reachable state.
THEOREM CountsInvariant == Spec => []IInv
<1>1. QED BY InitHolds, StepHolds, PTL DEF Spec

\* No event is lost over any number of runs and lost answers, except of a kind
\* written between its reading and the removal of the file.
THEOREM CountsNotLost == Spec => []AtLeastOnce
<1>1. IInv => AtLeastOnce
  BY DEF IInv
<1>2. QED BY <1>1, CountsInvariant, PTL

\* No event is on the server twice, except where the answer was not heard, the
\* file not removed, or AddCount was in its middle.
THEOREM CountsNotDoubled == Spec => []AtMostOnce
<1>1. IInv => AtMostOnce
  BY DEF IInv
<1>2. QED BY <1>1, CountsInvariant, PTL

\* The server takes the counts at most once a day, whenever midnight falls,
\* unless the program ended between an upload and its date.
THEOREM UploadOncePerDay == Spec => OncePerDay
<1>1. IInv => (doPost /\ ~unstamped => lastDay < today)
  BY DEF IInv, DayInv, TypeOK, doPost
<1>2. QED BY <1>1, CountsInvariant, PTL DEF Spec, OncePerDay
=============================================================================
