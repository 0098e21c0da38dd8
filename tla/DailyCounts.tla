----------------------------- MODULE DailyCounts -----------------------------
(***************************************************************************)
(* The daily counts of LeReport.  Two threads call CRecorder::AddCount,    *)
(* which reads a number from the file SoftData and writes it back one      *)
(* larger: that of the user interface, for clicks and for the command      *)
(* lines other runs hand over (OnCopyData), and the start-up thread, for   *)
(* the command line of this run.  The start-up thread then calls           *)
(* CReporter::SendCollectData once, which reads the numbers, posts them,   *)
(* and after a good answer removes the file and writes the date into a     *)
(* new one.  Nothing is locked, and the program may end, or the answer be  *)
(* lost, anywhere.                                                         *)
(***************************************************************************)
EXTENDS Integers

CONSTANTS
    Keys,        \* kinds of event
    MaxAdds,     \* events of each kind
    MaxStarts,   \* runs of the program
    MaxDay       \* days

ASSUME CountsAssumption ==
    MaxAdds \in Nat /\ MaxStarts \in Nat /\ MaxDay \in Nat

Threads == {"ui", "startup"}

VARIABLES
    \* the file: a count of 0 is a key that is not there; the date of the
    \* last upload, 0 for none
    daily_count, logtime,
    \* each thread in AddCount: key and the number read
    apc, nType, nValue,
    \* the start-up thread in SendCollectData: keys still to be read, numbers
    \* read
    spc, names, map_Count,
    \* the server, and whether it took the last post; the clock, the runs of
    \* the program
    uploaded, taken, today, starts,
    \* history: events counted; keys written since they were read; keys whose
    \* file entry was removed after such a write; keys both threads were in
    \* AddCount for at once; keys posted, not taken, with an answer that reads
    \* like success; keys that may have been uploaded twice; the day of the
    \* last upload, and whether the program has not written a date since
    recorded, wrote, missed, collided, misread, doubled, lastDay, unstamped

fileVars == <<daily_count, logtime>>
addVars == <<apc, nType, nValue>>
sendVars == <<spc, names, map_Count>>
serverVars == <<uploaded, taken>>
lossVars == <<wrote, missed, collided, misread, doubled>>
dayVars == <<lastDay, unstamped>>
vars == <<fileVars, addVars, sendVars, serverVars, today, starts, recorded,
          lossVars, dayVars>>

TypeOK ==
    /\ daily_count \in [Keys -> Nat] /\ logtime \in Nat
    /\ apc \in [Threads -> {"idle", "write"}]
    /\ nType \in [Threads -> Keys] /\ nValue \in [Threads -> Nat]
    /\ spc \in {"start", "names", "enum", "post", "answer", "remove", "stamp",
                "off"}
    /\ names \subseteq Keys /\ map_Count \in [Keys -> Nat]
    /\ uploaded \in [Keys -> Nat] /\ taken \in BOOLEAN
    /\ today \in Nat \ {0} /\ starts \in Nat
    /\ recorded \in [Keys -> Nat]
    /\ wrote \subseteq Keys /\ missed \subseteq Keys
    /\ collided \subseteq Keys /\ misread \subseteq Keys
    /\ doubled \subseteq Keys
    /\ lastDay \in Nat /\ unstamped \in BOOLEAN

Zero == [k \in Keys |-> 0]
Idle == [t \in Threads |-> "idle"]

Init ==
    /\ daily_count = Zero /\ logtime = 0
    /\ apc = Idle /\ nValue = [t \in Threads |-> 0]
    /\ \E k \in Keys : nType = [t \in Threads |-> k]
    /\ spc = "start" /\ names = {} /\ map_Count = Zero
    /\ uploaded = Zero /\ taken = FALSE /\ today = 1 /\ starts = 1
    /\ recorded = Zero
    /\ wrote = {} /\ missed = {} /\ collided = {} /\ misread = {}
    /\ doubled = {}
    /\ lastDay = 0 /\ unstamped = FALSE

\* Defects the properties are tried against have the name of the definition
\* they would replace and a suffix; no behaviour uses them.

-----------------------------------------------------------------------------
(* CRecorder::AddCount on thread t, for an event of kind k.  The start-up   *)
(* thread counts before it compares the dates.  Bound: MaxAdds.             *)

ReadCount(t, k) ==
    /\ apc[t] = "idle" /\ recorded[k] < MaxAdds
    /\ t = "startup" => spc = "start"
    /\ apc' = [apc EXCEPT ![t] = "write"]
    /\ nType' = [nType EXCEPT ![t] = k]
    /\ nValue' = [nValue EXCEPT ![t] = daily_count[k]]
    /\ UNCHANGED <<fileVars, sendVars, serverVars, today, starts, recorded,
                   lossVars, dayVars>>

\* What SendCollectData has read of a key is out of date once it is written.
Reading == spc \in {"enum", "post", "answer", "remove"}

\* Threads that have read the number of k and not written it.
Adding(k) == {t \in Threads : apc[t] = "write" /\ nType[t] = k}

WriteCount(t) ==
    /\ apc[t] = "write"
    /\ LET k == nType[t]
       IN  /\ daily_count' = [daily_count EXCEPT ![k] = nValue[t] + 1]
           /\ recorded' = [recorded EXCEPT ![k] = @ + 1]
           /\ wrote' = IF Reading /\ k \notin names THEN wrote \cup {k}
                       ELSE wrote
           /\ collided' = IF Adding(k) # {t} THEN collided \cup {k}
                          ELSE collided
    /\ apc' = [apc EXCEPT ![t] = "idle"]
    /\ nValue' = [nValue EXCEPT ![t] = 0]
    /\ UNCHANGED <<logtime, nType, sendVars, serverVars, today, starts,
                   missed, misread, doubled, dayVars>>

-----------------------------------------------------------------------------
(* CReporter::SendCollectData.                                             *)

\* Was there an upload today?
CompareDate ==
    /\ spc = "start" /\ apc["startup"] = "idle"
    /\ spc' = IF logtime = today THEN "off" ELSE "names"
    /\ UNCHANGED <<fileVars, addVars, names, map_Count, serverVars, today,
                   starts, recorded, lossVars, dayVars>>

\* EnumCount asks for the keys, then for the number of each.  With no count
\* there may still be a daily_bool or a daily_string to send.
EnumKeys ==
    /\ spc = "names"
    /\ names' = {k \in Keys : daily_count[k] > 0}
    /\ map_Count' = Zero /\ wrote' = {}
    /\ spc' \in IF names' = {} THEN {"enum", "off"} ELSE {"enum"}
    /\ UNCHANGED <<fileVars, addVars, serverVars, today, starts, recorded,
                   missed, collided, misread, doubled, dayVars>>

EnumCount(k) ==
    /\ spc = "enum" /\ k \in names
    /\ map_Count' = [map_Count EXCEPT ![k] = daily_count[k]]
    /\ names' = names \ {k}
    /\ UNCHANGED <<fileVars, addVars, spc, serverVars, today, starts, recorded,
                   lossVars, dayVars>>

EndEnum_Early ==
    /\ spc = "enum"
    /\ spc' = "post"
    /\ UNCHANGED <<fileVars, addVars, names, map_Count, serverVars, today,
                   starts, recorded, lossVars, dayVars>>

EndEnum ==
    /\ spc = "enum" /\ names = {}
    /\ spc' = "post"
    /\ UNCHANGED <<fileVars, addVars, names, map_Count, serverVars, today,
                   starts, recorded, lossVars, dayVars>>

\* The server adds the numbers up, or refuses or never gets them.
doPost ==
    /\ spc = "post" /\ spc' = "answer"
    /\ \/ /\ taken' = TRUE
          /\ uploaded' = [k \in Keys |-> uploaded[k] + map_Count[k]]
          /\ lastDay' = today /\ unstamped' = TRUE
       \/ taken' = FALSE /\ UNCHANGED <<uploaded, lastDay, unstamped>>
    /\ UNCHANGED <<fileVars, addVars, names, map_Count, today, starts, recorded,
                   lossVars>>

Sent == {k \in Keys : map_Count[k] > 0}

\* What the answer says is not looked at.
Answer_Blind ==
    /\ spc = "answer" /\ spc' = "remove"
    /\ UNCHANGED <<fileVars, addVars, names, map_Count, serverVars, today,
                   starts, recorded, lossVars, dayVars>>

\* The answer is none, no JSON, or has a code that is not 0; or its code is 0.
\* The HTTP status is not asked for and a code that is not there reads as 0,
\* so that an answer which parses can pass for success though the server took
\* nothing.
Answer ==
    /\ spc = "answer"
    /\ \/ /\ spc' = "off"
          /\ doubled' = IF taken THEN doubled \cup Sent ELSE doubled
          /\ UNCHANGED misread
       \/ /\ spc' = "remove"
          /\ misread' = IF taken THEN misread ELSE misread \cup Sent
          /\ UNCHANGED doubled
    /\ UNCHANGED <<fileVars, addVars, names, map_Count, serverVars, today,
                   starts, recorded, wrote, missed, collided, dayVars>>

\* The counts stay after an answer that was heard.
RemoveDailyFile_Not ==
    /\ spc = "remove" /\ spc' = "stamp"
    /\ UNCHANGED <<fileVars, addVars, names, map_Count, serverVars, today,
                   starts, recorded, lossVars, dayVars>>

\* Keys whose number AddCount holds, and will write into the next file.
Held == {k \in Keys : \E t \in Adding(k) : nValue[t] > 0}

\* RemoveDailyFile takes the date with the counts.  The result of remove is
\* not looked at; it fails while the file is open elsewhere.
RemoveDailyFile ==
    /\ spc = "remove"
    /\ spc' = "stamp"
    /\ \/ /\ daily_count' = Zero /\ logtime' = 0
          /\ missed' = missed \cup wrote
          /\ doubled' = IF taken THEN doubled \cup Held ELSE doubled
       \/ /\ doubled' = IF taken THEN doubled \cup Sent ELSE doubled
          /\ UNCHANGED <<fileVars, missed>>
    /\ UNCHANGED <<addVars, names, map_Count, serverVars, today, starts,
                   recorded, wrote, collided, misread, dayVars>>

\* The date written before the removal, and removed.
SetTime_First ==
    /\ spc = "stamp"
    /\ logtime' = 0
    /\ spc' = "off" /\ unstamped' = FALSE
    /\ UNCHANGED <<daily_count, addVars, names, map_Count, serverVars, today,
                   starts, recorded, lossVars, lastDay>>

\* SetTime, with the clock read again.
SetTime ==
    /\ spc = "stamp"
    /\ logtime' = today
    /\ spc' = "off" /\ unstamped' = FALSE
    /\ UNCHANGED <<daily_count, addVars, names, map_Count, serverVars, today,
                   starts, recorded, lossVars, lastDay>>

-----------------------------------------------------------------------------
\* Numbers the server has while the file still holds them.
InFlight(k) ==
    IF taken /\ spc \in {"answer", "remove"} THEN map_Count[k] ELSE 0

\* The program ends, whatever it is doing, and is started again: the file and
\* the server are what is left.
Restart ==
    /\ starts < MaxStarts /\ starts' = starts + 1
    /\ apc' = Idle /\ nValue' = [t \in Threads |-> 0]
    /\ spc' = "start" /\ names' = {} /\ map_Count' = Zero /\ wrote' = {}
    /\ doubled' = doubled \cup {k \in Keys : InFlight(k) > 0}
    /\ UNCHANGED <<fileVars, nType, serverVars, today, recorded, missed,
                   collided, misread, dayVars>>

Midnight ==
    /\ today < MaxDay /\ today' = today + 1
    /\ UNCHANGED <<fileVars, addVars, sendVars, serverVars, starts, recorded,
                   lossVars, dayVars>>

AddCount ==
    \E t \in Threads : (\E k \in Keys : ReadCount(t, k)) \/ WriteCount(t)

SendCollectData ==
    \/ CompareDate \/ EnumKeys \/ (\E k \in Keys : EnumCount(k)) \/ EndEnum
    \/ doPost \/ Answer \/ RemoveDailyFile \/ SetTime

Next == AddCount \/ SendCollectData \/ Restart \/ Midnight

Spec == Init /\ [][Next]_vars

-----------------------------------------------------------------------------
\* No event is lost, over any number of runs, crashes and answers that never
\* came: what was counted is on the server or still in the file, except for
\* a kind counted between its reading and the removal of the file, counted by
\* both threads at once, or removed on an answer that only read like success.
AtLeastOnce ==
    \A k \in Keys \ (missed \cup collided \cup misread) :
        uploaded[k] + daily_count[k] >= recorded[k]

\* No event is counted twice, except where the program did not hear the
\* answer, did not get to remove the file, or was in the middle of AddCount
\* when it did.  Two threads that count at once lose events, and double none.
AtMostOnce ==
    \A k \in Keys \ doubled :
        uploaded[k] + daily_count[k] <= recorded[k] + InFlight(k)

\* The comparison of dates keeps the second upload of a day away, wherever
\* midnight falls, unless the program ended between the first and its date.
OncePerDay ==
    [][doPost /\ taken' /\ ~unstamped => lastDay < today]_vars

-----------------------------------------------------------------------------
(* The inductive invariant behind the properties.                          *)

\* A number AddCount holds is no less than the file's, where one thread at a
\* time was in it, and adds nothing to what was counted.
ReadLow(t) ==
    nType[t] \notin collided => nValue[t] >= daily_count[nType[t]]
ReadHigh(t) ==
    nType[t] \notin doubled =>
        uploaded[nType[t]] + nValue[t] <=
            recorded[nType[t]] + InFlight(nType[t])
ReadInv == \A t \in Threads : apc[t] = "write" => ReadLow(t) /\ ReadHigh(t)

\* What SendCollectData has read is in the file, where nothing was written
\* since; what it read, or the server has, is no more than what was counted.
SendInv ==
    /\ Reading => \A k \in Keys \ (names \cup wrote) :
                      map_Count[k] = daily_count[k]
    /\ Reading => \A k \in Keys \ doubled :
                      uploaded[k] + map_Count[k] <= recorded[k] + InFlight(k)
    /\ spc \in {"post", "answer", "remove"} => names = {}

\* Before the file is removed, what is not excused was taken.
TakenInv ==
    /\ taken /\ spc \in {"answer", "remove"} =>
           \A k \in Keys \ (missed \cup wrote \cup collided \cup misread) :
               uploaded[k] >= recorded[k]
    /\ ~taken /\ spc = "remove" => Sent \subseteq misread

\* The last upload was dated, or was before today.
DayInv ==
    /\ logtime <= today /\ lastDay <= today
    /\ ~unstamped => lastDay <= logtime \/ lastDay < today
    /\ spc \in {"names", "enum", "post"} => logtime < today
    /\ ~unstamped /\ ~taken /\ spc \in {"answer", "remove"} => lastDay < today
    /\ taken /\ spc \in {"answer", "remove", "stamp"} => unstamped

\* It joins the types and the two promises on the counts.
IInv == TypeOK /\ ReadInv /\ SendInv /\ TakenInv /\ DayInv
        /\ AtLeastOnce /\ AtMostOnce
=============================================================================
