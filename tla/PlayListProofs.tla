--------------------------- MODULE PlayListProofs ---------------------------
(***************************************************************************)
(* For any files, any table to start with and any number of things the     *)
(* user does: every item shown is a row of the table, and while a file     *)
(* plays the file to mark is that file and its item is the marked one.     *)
(***************************************************************************)
EXTENDS PlayList, WellFoundedInduction, TLAPS

USE ListAssumption DEF ListAssumption

-----------------------------------------------------------------------------
(* The filter of a list.                                                    *)

\* A set that holds 0 and every successor of what it holds is all of Nat: a
\* least number outside it would have a predecessor in it.
LEMMA Inductive ==
    ASSUME NEW S, 0 \in S, \A n \in Nat : n \in S => n + 1 \in S
    PROVE  Nat \subseteq S
<1> DEFINE R == {p \in Nat \X Nat : p[1] < p[2]}
           T == Nat \ S
<1>1. IsWellFoundedOn(R, Nat)
  BY NatLessThanWellFounded DEF OpToRel
<1>2. SUFFICES ASSUME T # {} PROVE FALSE
  OBVIOUS
<1>3. T \subseteq Nat
  OBVIOUS
<1> HIDE DEF T, R
<1>4. PICK n \in T : \A k \in T : <<k, n>> \notin R
  BY <1>1, <1>2, <1>3, WFMin
<1>5. n \in Nat /\ n \notin S /\ n # 0
  BY <1>4 DEF T
<1>6. n - 1 \in Nat /\ n - 1 \notin S
  BY <1>5
<1>7. n - 1 \in T
  BY <1>6 DEF T
<1>8. <<n - 1, n>> \in R
  BY <1>5, <1>6 DEF R
<1>9. QED BY <1>4, <1>7, <1>8

\* One step of the filter: what it makes of n rows, from what it made of one
\* row less.
Filtered(F, list, gone, n) ==
    IF n = 0 THEN <<>>
    ELSE IF list[n] \in gone THEN F[n - 1] ELSE Append(F[n - 1], list[n])

\* The function that Without chooses exists, so it obeys its equation.
LEMMA WithoutUnfolds ==
    ASSUME NEW list, Len(list) \in Nat, NEW gone
    PROVE  \E F : /\ F = [n \in 0 .. Len(list) |-> Filtered(F, list, gone, n)]
                  /\ Without(list, gone) = F[Len(list)]
<1> DEFINE L == Len(list)
           Good(f, m) == f = [n \in 0 .. m |-> Filtered(f, list, gone, n)]
           S == {m \in Nat : \E f : Good(f, m)}
<1>1. 0 \in S
  <2> DEFINE f == [n \in 0 .. 0 |-> <<>>]
  <2>1. Good(f, 0)
    BY DEF Filtered
  <2>2. QED BY <2>1
<1>2. ASSUME NEW m \in Nat, m \in S PROVE m + 1 \in S
  <2>1. PICK f : Good(f, m)
    BY <1>2
  <2> DEFINE g == [n \in 0 .. m + 1 |->
                      IF n <= m THEN f[n] ELSE Filtered(f, list, gone, n)]
  <2>2. ASSUME NEW n \in 0 .. m + 1 PROVE g[n] = Filtered(g, list, gone, n)
    <3>1. n # 0 => n - 1 \in 0 .. m /\ g[n - 1] = f[n - 1]
      OBVIOUS
    <3>2. Filtered(g, list, gone, n) = Filtered(f, list, gone, n)
      BY <3>1 DEF Filtered
    <3>3. n <= m => f[n] = Filtered(f, list, gone, n)
      <4> DEFINE h == [k \in 0 .. m |-> Filtered(f, list, gone, k)]
      <4>1. n <= m => h[n] = Filtered(f, list, gone, n)
        OBVIOUS
      <4>2. f = h
        BY <2>1
      <4> HIDE DEF h
      <4>3. QED BY <4>1, <4>2
    <3>4. QED BY <3>2, <3>3
  <2>3. Good(g, m + 1)
    BY <2>2
  <2> HIDE DEF g
  <2>4. QED BY <2>3
<1>3. L \in S
  <2> HIDE DEF S
  <2>1. QED BY <1>1, <1>2, Inductive
<1>4. PICK f : Good(f, L)
  BY <1>3
<1> DEFINE F == CHOOSE h : Good(h, L)
<1>5. Good(F, L)
  BY <1>4
<1>6. Without(list, gone) = F[L]
  BY DEF Without, Filtered
<1>7. QED BY <1>5, <1>6

\* w is made of the first n rows that stay, in their order: the k-th comes from
\* row p[k].
KeptRows(w, p, list, gone, n) ==
    /\ p \in [1 .. Len(w) -> 1 .. n]
    /\ \A k \in 1 .. Len(w) : w[k] = list[p[k]] /\ list[p[k]] \notin gone
    /\ \A i, j \in 1 .. Len(w) : i < j => p[i] < p[j]
    /\ \A i \in 1 .. n : list[i] \notin gone => \E k \in 1 .. Len(w) : p[k] = i

\* A row more, that goes or that stays.
LEMMA KeptOneMore ==
    ASSUME NEW X, NEW list \in Seq(X), NEW gone, NEW n \in Nat,
           n + 1 \in 1 .. Len(list),
           NEW w \in Seq(X), NEW p, KeptRows(w, p, list, gone, n)
    PROVE  /\ list[n + 1] \in gone => KeptRows(w, p, list, gone, n + 1)
           /\ list[n + 1] \notin gone =>
                 \E q : KeptRows(Append(w, list[n + 1]), q, list, gone, n + 1)
<1>1. CASE list[n + 1] \in gone
  BY <1>1 DEF KeptRows
<1>2. CASE list[n + 1] \notin gone
  <2> DEFINE l == Len(w)
             v == Append(w, list[n + 1])
             q == [k \in 1 .. l + 1 |-> IF k = l + 1 THEN n + 1 ELSE p[k]]
  <2>1. /\ l \in Nat /\ Len(v) = l + 1 /\ v[l + 1] = list[n + 1]
        /\ \A k \in 1 .. l : v[k] = w[k]
    OBVIOUS
  <2> HIDE DEF v, l
  <2>2. /\ p \in [1 .. l -> 1 .. n]
        /\ \A k \in 1 .. l : w[k] = list[p[k]] /\ list[p[k]] \notin gone
        /\ \A i, j \in 1 .. l : i < j => p[i] < p[j]
        /\ \A i \in 1 .. n : list[i] \notin gone => \E k \in 1 .. l : p[k] = i
    BY DEF KeptRows, l
  <2>3. q \in [1 .. l + 1 -> 1 .. n + 1]
    BY <2>1, <2>2
  <2>4. \A k \in 1 .. l + 1 : v[k] = list[q[k]] /\ list[q[k]] \notin gone
    BY <1>2, <2>1, <2>2
  <2>5. ASSUME NEW i \in 1 .. l + 1, NEW j \in 1 .. l + 1, i < j
        PROVE  q[i] < q[j]
    <3>1. i \in 1 .. l /\ q[i] = p[i] /\ p[i] \in 1 .. n
      BY <2>1, <2>2, <2>5
    <3>2. CASE j = l + 1
      BY <3>1, <3>2
    <3>3. CASE j # l + 1
      BY <2>1, <2>2, <2>5, <3>1, <3>3
    <3>4. QED BY <3>2, <3>3
  <2>6. ASSUME NEW i \in 1 .. n + 1, list[i] \notin gone
        PROVE  \E k \in 1 .. l + 1 : q[k] = i
    <3>1. CASE i = n + 1
      BY <2>1, <3>1
    <3>2. CASE i # n + 1
      <4>1. PICK k \in 1 .. l : p[k] = i
        BY <2>2, <2>6, <3>2
      <4>2. k \in 1 .. l + 1 /\ q[k] = i
        BY <2>1, <4>1
      <4>3. QED BY <4>2
    <3>3. QED BY <3>1, <3>2
  <2>7. KeptRows(v, q, list, gone, n + 1)
    BY <2>1, <2>3, <2>4, <2>5, <2>6 DEF KeptRows
  <2>8. QED BY <1>2, <2>7 DEF v
<1>3. QED BY <1>1, <1>2

\* Without gives the rows that stay, all of them and in their order, for every
\* list and every set of files that go.
THEOREM WithoutIsFilter ==
    ASSUME NEW X, NEW list \in Seq(X), NEW gone
    PROVE  /\ Without(list, gone) \in Seq(X)
           /\ \E p : KeptRows(Without(list, gone), p, list, gone, Len(list))
<1> DEFINE L == Len(list)
<1>1. L \in Nat /\ DOMAIN list = 1 .. L /\ \A i \in 1 .. L : list[i] \in X
  OBVIOUS
<1>2. PICK F : /\ F = [n \in 0 .. L |-> Filtered(F, list, gone, n)]
               /\ Without(list, gone) = F[L]
  BY <1>1, WithoutUnfolds
<1> DEFINE Good(n) == /\ F[n] \in Seq(X)
                      /\ \E p : KeptRows(F[n], p, list, gone, n)
           S == {n \in Nat : n <= L => Good(n)}
<1>3. \A n \in 0 .. L : F[n] = Filtered(F, list, gone, n)
  BY <1>2
<1>4. 0 \in S
  <2>1. F[0] = <<>>
    BY <1>1, <1>3 DEF Filtered
  <2>2. \E p : KeptRows(<<>>, p, list, gone, 0)
    <3> DEFINE p == [k \in 1 .. 0 |-> 0]
    <3>1. KeptRows(<<>>, p, list, gone, 0)
      BY DEF KeptRows
    <3> HIDE DEF p
    <3>2. QED BY <3>1
  <2>3. F[0] \in Seq(X)
    BY <2>1
  <2>4. \E p : KeptRows(F[0], p, list, gone, 0)
    BY <2>1, <2>2
  <2>5. QED BY <2>3, <2>4
<1>5. ASSUME NEW n \in Nat, n \in S PROVE n + 1 \in S
  <2>1. SUFFICES ASSUME n + 1 <= L PROVE Good(n + 1)
    BY <1>1, <1>5
  <2>2. F[n] \in Seq(X) /\ n + 1 \in 1 .. L
    BY <1>1, <1>5, <2>1
  <2>3. PICK p : KeptRows(F[n], p, list, gone, n)
    BY <1>1, <1>5, <2>1
  <2>4. F[n + 1] = IF list[n + 1] \in gone THEN F[n]
                   ELSE Append(F[n], list[n + 1])
    <3>1. n + 1 \in 0 .. L /\ n + 1 # 0 /\ (n + 1) - 1 = n
      BY <1>1, <2>1
    <3>2. QED BY <1>3, <3>1 DEF Filtered
  <2>5. F[n + 1] \in Seq(X)
    BY <1>1, <2>2, <2>4
  <2>6. /\ list[n + 1] \in gone => KeptRows(F[n], p, list, gone, n + 1)
        /\ list[n + 1] \notin gone =>
              \E q : KeptRows(Append(F[n], list[n + 1]), q, list, gone, n + 1)
    BY <2>2, <2>3, KeptOneMore
  <2>7. QED BY <2>4, <2>5, <2>6
<1>6. L \in S
  <2> HIDE DEF S
  <2>1. QED BY <1>1, <1>4, <1>5, Inductive
<1>7. QED BY <1>1, <1>2, <1>6

\* The filter of a list of different files is one of the files that stay.
LEMMA WithoutIsList ==
    ASSUME NEW list, IsList(list), NEW gone
    PROVE  IsList(Without(list, gone))
<1> DEFINE w == Without(list, gone)
<1>1. /\ list \in Seq(Files)
      /\ \A i, j \in DOMAIN list : list[i] = list[j] => i = j
  BY DEF IsList
<1>2. w \in Seq(Files)
  BY <1>1, WithoutIsFilter
<1>3. PICK p : KeptRows(w, p, list, gone, Len(list))
  BY <1>1, WithoutIsFilter
<1> HIDE DEF w
<1>4. ASSUME NEW i \in DOMAIN w, NEW j \in DOMAIN w, w[i] = w[j]
      PROVE  i = j
  <2>1. /\ Len(w) \in Nat /\ DOMAIN w = 1 .. Len(w)
        /\ Len(list) \in Nat /\ DOMAIN list = 1 .. Len(list)
    BY <1>1, <1>2
  <2>2. /\ p[i] \in DOMAIN list /\ p[j] \in DOMAIN list
        /\ list[p[i]] = list[p[j]]
    BY <1>3, <1>4, <2>1 DEF KeptRows
  <2>3. p[i] = p[j] /\ p[i] \in Nat
    BY <1>1, <2>1, <2>2
  <2>4. ~(i < j) /\ ~(j < i)
    BY <1>3, <2>1, <2>3 DEF KeptRows
  <2>5. QED BY <2>1, <2>4
<1>5. QED BY <1>2, <1>4 DEF IsList, w

-----------------------------------------------------------------------------
(* The queue of messages.                                                   *)

\* Messages that are posted are messages.
LEMMA ToPost ==
    /\ \A m \in {"PLAY_NEXT", "PLAY_LAST", "CLEAR_LIST", "REDRAW", "START", "END",
                "FILE_INVALID", "PLAY_PAUSE"} : Msg(m, NoFile) \in Message
    /\ \A f \in Files : \A m \in {"PLAY", "OPEN", "ADD"} : Msg(m, f) \in Message
    /\ \A f \in Files \cup {NoFile} : Msg("REDRAW_NOSORT", f) \in Message
    /\ \A i \in Nat : Msg("RBUTTONDOWN", i) \in Message
    /\ \A m, a : Msg(m, a).msg = m /\ Msg(m, a).arg = a
BY DEF Msg, Message

\* What a handler takes and what it leaves.
LEMMA TakeFirst ==
    ASSUME NEW q \in Seq(Message), q # <<>>
    PROVE  /\ Head(q) \in Message /\ Head(q) = q[1] /\ 1 \in DOMAIN q
           /\ Tail(q) \in Seq(Message)
           /\ \A i \in DOMAIN Tail(q) :
                 i \in Nat /\ i + 1 \in DOMAIN q /\ Tail(q)[i] = q[i + 1]
           /\ \A i \in DOMAIN q : i # 1 =>
                 i - 1 \in DOMAIN Tail(q) /\ Tail(q)[i - 1] = q[i]
OBVIOUS

\* A message posted comes last and moves no other.
LEMMA PutLast ==
    ASSUME NEW q \in Seq(Message), NEW m \in Message
    PROVE  /\ Append(q, m) \in Seq(Message) /\ q \o <<m>> = Append(q, m)
           /\ q \o <<>> = q
           /\ DOMAIN q = 1 .. Len(q) /\ Len(q) \in Nat
           /\ DOMAIN Append(q, m) = 1 .. Len(q) + 1
           /\ \A i \in DOMAIN q : Append(q, m)[i] = q[i]
           /\ Append(q, m)[Len(q) + 1] = m
OBVIOUS

\* Files to play keep their names, and a start that comes was there before or
\* is posted now.
LEMMA TailNamed ==
    ASSUME NEW q \in Seq(Message), q # <<>>
    PROVE  /\ Named(q) => Named(Tail(q))
           /\ StartComes(Tail(q)) => StartComes(q)
<1>1. Named(q) => Named(Tail(q))
  BY TakeFirst DEF Named
<1>2. StartComes(Tail(q)) => StartComes(q)
  BY TakeFirst DEF StartComes
<1>3. QED BY <1>1, <1>2

Names(m) == /\ m.msg \in {"PLAY", "OPEN", "ADD"} => m.arg \in Files
            /\ m.msg = "REDRAW_NOSORT" => m.arg \in Files \cup {NoFile}

LEMMA AppendNamed ==
    ASSUME NEW q \in Seq(Message), NEW m \in Message
    PROVE  /\ Named(q) /\ Names(m) => Named(Append(q, m))
           /\ StartComes(Append(q, m)) => StartComes(q) \/ m.msg = "START"
<1> DEFINE a == Append(q, m)
<1>1. /\ DOMAIN q = 1 .. Len(q) /\ Len(q) \in Nat
      /\ DOMAIN a = 1 .. Len(q) + 1
      /\ \A i \in DOMAIN q : a[i] = q[i]
      /\ a[Len(q) + 1] = m
  BY PutLast
<1> HIDE DEF a
<1>2. ASSUME NEW i \in DOMAIN a PROVE i \in DOMAIN q \/ i = Len(q) + 1
  BY <1>1, <1>2
<1>3. ASSUME Named(q), Names(m), NEW i \in DOMAIN a PROVE Names(a[i])
  <2>1. CASE i \in DOMAIN q
    BY <1>1, <1>3, <2>1 DEF Named, Names
  <2>2. CASE i = Len(q) + 1
    BY <1>1, <1>3, <2>2
  <2>3. QED BY <1>2, <2>1, <2>2
<1>4. StartComes(a) => StartComes(q) \/ m.msg = "START"
  BY <1>1, <1>2 DEF StartComes
<1>5. Named(q) /\ Names(m) => Named(a)
  BY <1>3 DEF Named, Names
<1>6. QED BY <1>4, <1>5 DEF a

\* What is on its way stays so when another message is taken or one is added.
LEMMA TailOnItsWay ==
    ASSUME NEW q \in Seq(Message), q # <<>>, NEW f,
           Head(q).msg # "REDRAW_NOSORT"
    PROVE  /\ NoMarkComes(q) => NoMarkComes(Tail(q))
           /\ MarkComes(q, f) => MarkComes(Tail(q), f)
           /\ PlayComes(q) /\ Head(q).msg # "PLAY" => PlayComes(Tail(q))
<1>1. /\ Head(q) = q[1] /\ 1 \in DOMAIN q
      /\ \A i \in DOMAIN Tail(q) :
            i \in Nat /\ i + 1 \in DOMAIN q /\ Tail(q)[i] = q[i + 1]
      /\ \A i \in DOMAIN q : i # 1 =>
            i - 1 \in DOMAIN Tail(q) /\ Tail(q)[i - 1] = q[i]
  BY TakeFirst
<1>2. NoMarkComes(q) => NoMarkComes(Tail(q))
  BY <1>1 DEF NoMarkComes
<1>3. ASSUME MarkComes(q, f) PROVE MarkComes(Tail(q), f)
  <2>1. PICK i \in DOMAIN q :
           /\ q[i].msg = "REDRAW_NOSORT" /\ q[i].arg = f
           /\ \A j \in DOMAIN q : q[j].msg = "REDRAW_NOSORT" => j <= i
    BY <1>3 DEF MarkComes
  <2>2. i # 1 /\ i \in Nat
    BY <1>1, <2>1
  <2>3. /\ i - 1 \in DOMAIN Tail(q)
        /\ Tail(q)[i - 1].msg = "REDRAW_NOSORT" /\ Tail(q)[i - 1].arg = f
    BY <1>1, <2>1, <2>2
  <2>4. ASSUME NEW j \in DOMAIN Tail(q), Tail(q)[j].msg = "REDRAW_NOSORT"
        PROVE  j <= i - 1
    <3>1. j \in Nat /\ j + 1 \in DOMAIN q /\ q[j + 1].msg = "REDRAW_NOSORT"
      BY <1>1, <2>4
    <3>2. j + 1 <= i
      BY <2>1, <3>1
    <3>3. QED BY <2>2, <3>1, <3>2
  <2>5. QED BY <2>3, <2>4 DEF MarkComes
<1>4. ASSUME PlayComes(q), Head(q).msg # "PLAY" PROVE PlayComes(Tail(q))
  BY <1>1, <1>4 DEF PlayComes
<1>5. QED BY <1>2, <1>3, <1>4

LEMMA AppendOnItsWay ==
    ASSUME NEW q \in Seq(Message), NEW m \in Message, NEW f
    PROVE  /\ m.msg # "REDRAW_NOSORT" =>
                 /\ NoMarkComes(q) => NoMarkComes(Append(q, m))
                 /\ MarkComes(q, f) => MarkComes(Append(q, m), f)
           /\ m.msg = "REDRAW_NOSORT" => MarkComes(Append(q, m), m.arg)
           /\ PlayComes(q) => PlayComes(Append(q, m))
           /\ m.msg = "PLAY" => PlayComes(Append(q, m))
<1> DEFINE a == Append(q, m)
<1>1. /\ DOMAIN q = 1 .. Len(q) /\ Len(q) \in Nat
      /\ DOMAIN a = 1 .. Len(q) + 1
      /\ \A i \in DOMAIN q : a[i] = q[i]
      /\ a[Len(q) + 1] = m
  BY PutLast
<1> HIDE DEF a
<1>2. ASSUME m.msg # "REDRAW_NOSORT", NoMarkComes(q) PROVE NoMarkComes(a)
  <2>1. ASSUME NEW i \in DOMAIN a PROVE i \in DOMAIN q \/ i = Len(q) + 1
    BY <1>1, <2>1
  <2>2. QED BY <1>1, <1>2, <2>1 DEF NoMarkComes
<1>3. ASSUME m.msg # "REDRAW_NOSORT", MarkComes(q, f) PROVE MarkComes(a, f)
  <2>1. PICK i \in DOMAIN q :
           /\ q[i].msg = "REDRAW_NOSORT" /\ q[i].arg = f
           /\ \A j \in DOMAIN q : q[j].msg = "REDRAW_NOSORT" => j <= i
    BY <1>3 DEF MarkComes
  <2>2. i \in DOMAIN a /\ a[i] = q[i]
    BY <1>1, <2>1
  <2>3. ASSUME NEW j \in DOMAIN a, a[j].msg = "REDRAW_NOSORT" PROVE j <= i
    <3>1. j \in DOMAIN q \/ j = Len(q) + 1
      BY <1>1, <2>3
    <3>2. j \in DOMAIN q /\ q[j].msg = "REDRAW_NOSORT"
      BY <1>1, <1>3, <2>3, <3>1
    <3>3. QED BY <2>1, <3>2
  <2>4. QED BY <2>1, <2>2, <2>3 DEF MarkComes
<1>4. ASSUME m.msg = "REDRAW_NOSORT" PROVE MarkComes(a, m.arg)
  BY <1>1, <1>4 DEF MarkComes
<1>5. PlayComes(q) => PlayComes(a)
  BY <1>1 DEF PlayComes
<1>6. m.msg = "PLAY" => PlayComes(a)
  BY <1>1 DEF PlayComes
<1>7. QED BY <1>2, <1>3, <1>4, <1>5, <1>6 DEF a

-----------------------------------------------------------------------------
(* The pieces of handlers.                                                  *)

\* A handler has a first message, and the rest is a queue.
LEMMA Handled ==
    ASSUME TypeOK, NEW m, Handles(m)
    PROVE  /\ posted # <<>> /\ posted \in Seq(Message)
           /\ Head(posted) \in Message /\ Head(posted).msg = m
           /\ Tail(posted) \in Seq(Message)
<1>1. posted # <<>> /\ posted \in Seq(Message) /\ Head(posted).msg = m
  BY DEF TypeOK, Handles
<1>2. QED BY <1>1, TakeFirst

\* A list made again shows the table, and the item of the file, if it is in the
\* table, is marked.
LEMMA Relisted ==
    ASSUME NEW list, IsList(list), NEW md5, NEW old \in Nat,
           ReListWnd(list, md5, old)
    PROVE  /\ items' = list /\ m_nPlayingID' \in Nat
           /\ \A i \in DOMAIN list : list[i] = md5 => m_nPlayingID' = i
<1>1. DOMAIN list \subseteq Nat /\ \A i, j \in DOMAIN list : list[i] = list[j] => i = j
  BY DEF IsList
<1>2. QED BY <1>1 DEF ReListWnd

\* The table stays a list and only grows; a file that is only added leaves no
\* file to mark, while traces are kept.
LEMMA HistoryGrows ==
    ASSUME NEW list, IsList(list), NEW md5 \in Files \cup {NoFile},
           NEW r \in BOOLEAN, NEW data, noMark \in BOOLEAN,
           data.signal \in {"none", "PLAY", "OPEN", "ADD"},
           data.signal # "none" => data.file \in Files,
           NEW h, h = HandleHistroy([list |-> list, md5 |-> md5, reload |-> r], data)
    PROVE  /\ h = [list |-> h.list, md5 |-> h.md5, reload |-> h.reload]
           /\ IsList(h.list) /\ h.md5 \in Files \cup {NoFile}
           /\ h.reload \in BOOLEAN
           /\ {list[i] : i \in DOMAIN list}
                 \subseteq {h.list[i] : i \in DOMAIN h.list}
           /\ ~noMark /\ data.signal = "ADD" => h.md5 = NoFile
<1> DEFINE h0 == [list |-> list, md5 |-> md5, reload |-> r]
<1>1. CASE noMark \/ data.signal \in {"none", "PLAY"}
  <2>1. h = h0
    BY <1>1 DEF HandleHistroy
  <2>2. QED BY <1>1, <2>1
<1>2. CASE ~(noMark \/ data.signal \in {"none", "PLAY"})
  <2>1. data.file \in Files
    BY <1>2
  <2> DEFINE l == IF \E i \in DOMAIN list : list[i] = data.file THEN list
                  ELSE <<data.file>> \o list
             m == IF data.signal = "ADD" THEN NoFile ELSE data.file
  <2>2. h = [list |-> l, md5 |-> m, reload |-> TRUE]
    BY <1>2 DEF HandleHistroy
  <2>3. IsList(l) /\ {list[i] : i \in DOMAIN list} \subseteq {l[i] : i \in DOMAIN l}
    <3>1. CASE \E i \in DOMAIN list : list[i] = data.file
      BY <3>1
    <3>2. CASE ~\E i \in DOMAIN list : list[i] = data.file
      <4> DEFINE a == <<data.file>> \o list
      <4>1. list \in Seq(Files) /\ \A i, j \in DOMAIN list : list[i] = list[j] => i = j
        BY DEF IsList
      <4>2. /\ a \in Seq(Files) /\ a[1] = data.file
            /\ DOMAIN list = 1 .. Len(list) /\ Len(list) \in Nat
            /\ DOMAIN a = 1 .. Len(list) + 1
            /\ \A i \in 2 .. Len(list) + 1 : a[i] = list[i - 1]
            /\ \A i \in 1 .. Len(list) : a[i + 1] = list[i]
        BY <2>1, <4>1
      <4> HIDE DEF a
      <4>3. ASSUME NEW i \in DOMAIN a, NEW j \in DOMAIN a, a[i] = a[j]
            PROVE  i = j
        <5>1. ASSUME NEW k \in DOMAIN a
              PROVE  k = 1 \/ (k \in 2 .. Len(list) + 1 /\ k - 1 \in DOMAIN list)
          BY <4>2, <5>1
        <5>2. ASSUME NEW k \in 2 .. Len(list) + 1 PROVE a[k] # a[1]
          <6>1. k - 1 \in DOMAIN list /\ a[k] = list[k - 1]
            BY <4>2, <5>2
          <6>2. QED BY <3>2, <4>2, <6>1
        <5>3. CASE i = 1 \/ j = 1
          BY <4>3, <5>1, <5>2, <5>3
        <5>4. CASE i # 1 /\ j # 1
          <6>1. /\ i - 1 \in DOMAIN list /\ a[i] = list[i - 1]
                /\ j - 1 \in DOMAIN list /\ a[j] = list[j - 1]
                /\ i \in Nat /\ j \in Nat
            BY <4>2, <5>1, <5>4
          <6>2. i - 1 = j - 1
            BY <4>1, <4>3, <6>1
          <6>3. QED BY <6>1, <6>2
        <5>5. QED BY <5>3, <5>4
      <4>4. ASSUME NEW i \in DOMAIN list PROVE list[i] \in {a[k] : k \in DOMAIN a}
        <5>1. i + 1 \in DOMAIN a /\ a[i + 1] = list[i]
          BY <4>2, <4>4
        <5>2. QED BY <5>1
      <4>5. IsList(a) /\ {list[i] : i \in DOMAIN list} \subseteq {a[i] : i \in DOMAIN a}
        BY <4>2, <4>3, <4>4 DEF IsList
      <4>6. QED BY <3>2, <4>5 DEF a
    <3>3. QED BY <3>1, <3>2
  <2>4. m \in Files \cup {NoFile} /\ (data.signal = "ADD" => m = NoFile)
    BY <2>1
  <2> HIDE DEF l, m
  <2>5. h.list = l /\ h.md5 = m /\ h.reload = TRUE
    BY <2>2
  <2>6. h = [list |-> h.list, md5 |-> h.md5, reload |-> h.reload]
    BY <2>2, <2>5
  <2>7. /\ IsList(h.list)
        /\ {list[i] : i \in DOMAIN list} \subseteq {h.list[i] : i \in DOMAIN h.list}
    BY <2>3, <2>5
  <2>8. /\ h.md5 \in Files \cup {NoFile} /\ h.reload \in BOOLEAN
        /\ data.signal = "ADD" => h.md5 = NoFile
    BY <2>4, <2>5
  <2>9. QED BY <2>6, <2>7, <2>8
<1>3. QED BY <1>1, <1>2

\* An item that is chosen is to be played, and no file to be marked.
LEMMA ItemChosen ==
    ASSUME TypeOK, NEW nID, NEW q \in Seq(Message), OnItemCommand(nID, q)
    PROVE  /\ m_sPlayMd5' = NoFile /\ m_nPlayingID' \in Nat
           /\ posted' \in Seq(Message)
           /\ posted' = q \/ \E f \in Files : posted' = Append(q, Msg("PLAY", f))
<1>1. DOMAIN items \subseteq Nat /\ \A i \in DOMAIN items : items[i] \in Files
  BY DEF TypeOK, IsList
<1>2. CASE nID \in DOMAIN items
  <2>1. Msg("PLAY", items[nID]) \in Message
    BY <1>1, <1>2 DEF Msg, Message
  <2>2. /\ m_sPlayMd5' = NoFile /\ m_nPlayingID' = nID
        /\ posted' = Append(q, Msg("PLAY", items[nID]))
    BY <1>2 DEF OnItemCommand
  <2>3. posted' \in Seq(Message)
    BY <2>1, <2>2, PutLast
  <2>4. QED BY <1>1, <1>2, <2>2, <2>3
<1>3. CASE nID \notin DOMAIN items
  BY <1>3 DEF OnItemCommand
<1>4. QED BY <1>2, <1>3

\* A stop leaves nothing playing in the window.
LEMMA Stopped ==
    ASSUME TypeOK, NEW b, DoStop(b)
    PROVE  /\ m_nPlayingID' \in Nat /\ status' = "Stoped"
           /\ player' \in {player, "idle"}
BY DEF TypeOK, DoStop, StopPlay

\* The play button.
LEMMA PlayedOrPaused ==
    ASSUME TypeOK, PlayedInv, NEW q \in Seq(Message), PlayOrPause(q)
    PROVE  /\ posted' \in Seq(Message)
           /\ status' \in {"Init", "Opening", "Playing", "Pause", "Stoped"}
           /\ status' \in {"Playing", "Pause"} => status \in {"Playing", "Pause"}
           /\ \/ posted' = q
              \/ \E m \in Message :
                    /\ posted' = Append(q, m)
                    /\ m.msg \notin {"REDRAW_NOSORT", "START"}
                    /\ m.msg \in {"PLAY", "OPEN", "ADD"} => m.arg \in Files
<1>1. CASE status = "Stoped" /\ m_sPlayData.signal = "none"
  BY <1>1 DEF PlayOrPause, TypeOK
<1>2. CASE status = "Stoped" /\ m_sPlayData.signal # "none"
  <2> DEFINE m == Msg(m_sPlayData.signal, m_sPlayData.file)
  <2>1. m_sPlayData.signal \in {"PLAY", "OPEN", "ADD"} /\ m_sPlayData.file \in Files
    BY <1>2 DEF TypeOK, PlayedInv
  <2>2. /\ m \in Message /\ m.msg \notin {"REDRAW_NOSORT", "START"}
        /\ m.arg \in Files
    BY <2>1 DEF Msg, Message
  <2>3. posted' = Append(q, m) /\ status' = status
    BY <1>2 DEF PlayOrPause
  <2> HIDE DEF m
  <2>4. QED BY <1>2, <2>2, <2>3, PutLast
<1>3. CASE status # "Stoped"
  <2> DEFINE m == Msg("REDRAW", NoFile)
  <2>1. /\ m \in Message /\ m.msg = "REDRAW"
    BY DEF Msg, Message
  <2>2. posted' = Append(q, m)
    BY <1>3 DEF PlayOrPause
  <2>3. /\ status' \in {"Init", "Opening", "Playing", "Pause", "Stoped"}
        /\ status' \in {"Playing", "Pause"} => status \in {"Playing", "Pause"}
    BY <1>3 DEF PlayOrPause, TypeOK
  <2> HIDE DEF m
  <2>4. QED BY <2>1, <2>2, <2>3, PutLast
<1>4. QED BY <1>1, <1>2, <1>3

\* What the user makes the window post.
LEMMA Asked ==
    ASSUME TypeOK, OpenFiles \/ Buttons
    PROVE  /\ posted = <<>> /\ posted' \in Seq(Message)
           /\ \E a, b, c \in Message :
                 /\ posted' \in {<<a>>, <<a, b>>, <<a, b, c>>}
                 /\ \A m \in {a, b, c} :
                       /\ m.msg \notin {"REDRAW_NOSORT", "START"}
                       /\ m.msg \in {"PLAY", "OPEN", "ADD"} => m.arg \in Files
<1>1. CASE OpenFiles
  <2>1. PICK f \in Files, g \in Files :
          \/ posted' = <<Msg("OPEN", f)>>
          \/ posted' = <<Msg(IF status = "Stoped" THEN "OPEN" ELSE "ADD", f)>>
          \/ posted' = <<Msg("ADD", f), Msg("ADD", g), Msg("OPEN", g)>>
          \/ posted' = <<Msg("OPEN", f), Msg("ADD", g)>>
    BY <1>1 DEF OpenFiles
  <2> DEFINE of == Msg("OPEN", f)
             af == Msg("ADD", f)
             og == Msg("OPEN", g)
             ag == Msg("ADD", g)
  <2>2. posted' \in {<<of>>, <<af>>, <<af, ag, og>>, <<of, ag>>}
    BY <2>1
  <2>3. /\ {of, af, og, ag} \subseteq Message
        /\ \A m \in {of, af, og, ag} : m.msg \in {"OPEN", "ADD"} /\ m.arg \in Files
    BY ToPost
  <2> HIDE DEF of, af, og, ag
  <2>4. posted' \in Seq(Message)
    <3>1. \A a, b, c \in Message :
             {<<a>>, <<a, b>>, <<a, b, c>>} \subseteq Seq(Message)
      OBVIOUS
    <3>2. of \in Message /\ af \in Message /\ og \in Message /\ ag \in Message
      BY <2>3
    <3>3. {<<of>>, <<af>>, <<af, ag, og>>, <<of, ag>>} \subseteq Seq(Message)
      BY <3>1, <3>2
    <3>4. QED BY <2>2, <3>3
  <2>5. \E a, b, c \in {of, af, og, ag} : posted' \in {<<a>>, <<a, b>>, <<a, b, c>>}
    BY <2>2
  <2>6. QED BY <1>1, <2>3, <2>4, <2>5 DEF OpenFiles, Free, Input
<1>2. CASE Buttons
  <2>1. \/ \E m \in {"PLAY_NEXT", "PLAY_LAST", "CLEAR_LIST"} :
              posted' = <<Msg(m, NoFile)>>
        \/ \E i \in DOMAIN items : posted' = <<Msg("RBUTTONDOWN", i)>>
    BY <1>2 DEF Buttons
  <2>2. DOMAIN items \subseteq Nat
    BY DEF TypeOK, IsList
  <2>3. PICK a \in Message :
           /\ posted' = <<a>>
           /\ a.msg \in {"PLAY_NEXT", "PLAY_LAST", "CLEAR_LIST", "RBUTTONDOWN"}
    <3>1. CASE \E m \in {"PLAY_NEXT", "PLAY_LAST", "CLEAR_LIST"} :
                  posted' = <<Msg(m, NoFile)>>
      BY <3>1, ToPost
    <3>2. CASE \E i \in DOMAIN items : posted' = <<Msg("RBUTTONDOWN", i)>>
      BY <2>2, <3>2, ToPost
    <3>3. QED BY <2>1, <3>1, <3>2
  <2>4. posted' \in Seq(Message)
    BY <2>3
  <2>5. QED BY <1>2, <2>3, <2>4 DEF Buttons, Free, Input
<1>3. QED BY <1>1, <1>2

-----------------------------------------------------------------------------
(* Types, and every item shown is a row.                                    *)

\* The messages that Play leaves are those that were there, but for the files
\* that REDRAW_NOSORT names.
LEMMA DanglingKeeps ==
    ASSUME TypeOK, posted # <<>>
    PROVE  /\ Dangling \in Seq(Message)
           /\ DOMAIN Dangling = DOMAIN Tail(posted)
           /\ \A i \in DOMAIN Dangling :
                 /\ Dangling[i].msg = Tail(posted)[i].msg
                 /\ Dangling[i].msg # "REDRAW_NOSORT" =>
                        Dangling[i] = Tail(posted)[i]
<1> DEFINE q == Tail(posted)
<1>1. q \in Seq(Message)
  BY TakeFirst DEF TypeOK
<1>2. DOMAIN q = 1 .. Len(q) /\ Len(q) \in Nat /\ \A i \in DOMAIN q : q[i] \in Message
  BY <1>1
<1>3. Dangling = [i \in DOMAIN q |-> IF q[i].msg = "REDRAW_NOSORT"
                                    THEN Msg("REDRAW_NOSORT", NoFile) ELSE q[i]]
  BY DEF Dangling
<1> HIDE DEF q
<1>4. \A i \in DOMAIN q : Dangling[i] \in Message
  BY <1>2, <1>3, ToPost
<1>5. Dangling \in [1 .. Len(q) -> Message]
  BY <1>2, <1>3, <1>4
<1>6. Dangling \in Seq(Message)
  BY <1>2, <1>5
<1>7. \A i \in DOMAIN q :
         /\ Dangling[i].msg = q[i].msg
         /\ Dangling[i].msg # "REDRAW_NOSORT" => Dangling[i] = q[i]
  BY <1>3, ToPost
<1>8. QED BY <1>2, <1>5, <1>6, <1>7 DEF q

\* What Play makes of the table and of the file to mark.
LEMMA PlayHistory ==
    ASSUME TypeOK, PlayedInv, Play
    PROVE  /\ IsList(LocalFileList') /\ Kept \subseteq Kept'
           /\ m_sPlayMd5' \in Files \cup {NoFile} /\ reload' \in BOOLEAN
           /\ Head(posted).arg \in Files
           /\ Head(posted).msg = "ADD" /\ ~noMark => m_sPlayMd5' = NoFile
<1> DEFINE data == [file |-> Head(posted).arg, signal |-> Head(posted).msg]
           h0 == [list |-> LocalFileList, md5 |-> m_sPlayMd5, reload |-> reload]
           h1 == HandleHistroy(h0, m_sPlayData)
           h == HandleHistroy(h1, data)
<1>1. /\ LocalFileList' = h.list /\ m_sPlayMd5' = h.md5 /\ reload' = h.reload
      /\ posted # <<>> /\ Head(posted).msg \in {"PLAY", "OPEN", "ADD"}
  BY DEF Play
<1>2. Head(posted).arg \in Files
  <2>1. posted \in Seq(Message)
    BY DEF TypeOK
  <2>2. QED BY <1>1, <2>1, TakeFirst DEF PlayedInv, Named
<1>3. /\ h1 = [list |-> h1.list, md5 |-> h1.md5, reload |-> h1.reload]
      /\ IsList(h1.list) /\ h1.md5 \in Files \cup {NoFile} /\ h1.reload \in BOOLEAN
      /\ {LocalFileList[i] : i \in DOMAIN LocalFileList}
            \subseteq {h1.list[i] : i \in DOMAIN h1.list}
  <2>1. /\ IsList(LocalFileList) /\ m_sPlayMd5 \in Files \cup {NoFile}
        /\ reload \in BOOLEAN /\ noMark \in BOOLEAN
        /\ m_sPlayData.signal \in {"none", "PLAY", "OPEN", "ADD"}
        /\ m_sPlayData.signal # "none" => m_sPlayData.file \in Files
    BY DEF TypeOK, PlayedInv
  <2>2. h1 = HandleHistroy([list |-> LocalFileList, md5 |-> m_sPlayMd5,
                            reload |-> reload], m_sPlayData)
    OBVIOUS
  <2> HIDE DEF h1
  <2>3. QED BY <2>1, <2>2, HistoryGrows
<1> HIDE DEF h1
<1>4. /\ data.signal \in {"none", "PLAY", "OPEN", "ADD"} /\ data.file \in Files
      /\ data.signal = Head(posted).msg
  BY <1>1, <1>2
<1> HIDE DEF data
<1>5. /\ IsList(h.list) /\ h.md5 \in Files \cup {NoFile} /\ h.reload \in BOOLEAN
      /\ {h1.list[i] : i \in DOMAIN h1.list} \subseteq {h.list[i] : i \in DOMAIN h.list}
      /\ ~noMark /\ data.signal = "ADD" => h.md5 = NoFile
  <2>1. noMark \in BOOLEAN
    BY DEF TypeOK
  <2>2. h = HandleHistroy([list |-> h1.list, md5 |-> h1.md5,
                           reload |-> h1.reload], data)
    BY <1>3
  <2> HIDE DEF h
  <2>3. IsList(h1.list) /\ h1.md5 \in Files \cup {NoFile} /\ h1.reload \in BOOLEAN
    BY <1>3
  <2>4. /\ data.signal \in {"none", "PLAY", "OPEN", "ADD"}
        /\ data.signal # "none" => data.file \in Files
    BY <1>4
  <2>5. QED BY ONLY <2>1, <2>2, <2>3, <2>4, HistoryGrows, SMTT(30)
<1> HIDE DEF h
<1>6. Kept' = {h.list[i] : i \in DOMAIN h.list}
  BY <1>1 DEF Kept
<1>7. Kept \subseteq Kept'
  BY <1>3, <1>5, <1>6 DEF Kept
<1>8. QED BY <1>1, <1>2, <1>4, <1>5, <1>7

\* Every step keeps the types and the items in the table.
LEMMA StoredStep ==
    ItemsStored /\ PlayedInv /\ [Next]_vars => ItemsStored'
<1> SUFFICES ASSUME ItemsStored, PlayedInv, [Next]_vars PROVE ItemsStored'
  OBVIOUS
<1> USE DEF dataVars, listVars, dlgVars, markVars
<1>0. TypeOK /\ Shown \subseteq Kept
  BY DEF ItemsStored
<1> DEFINE Same == items' = items /\ LocalFileList' = LocalFileList
<1>a. ASSUME Same PROVE (Shown \subseteq Kept)'
  BY <1>0, <1>a DEF Shown, Kept
<1>b. ASSUME items' = LocalFileList' PROVE (Shown \subseteq Kept)'
  BY <1>b DEF Shown, Kept
<1>1. CASE Play
  <2>1. /\ IsList(LocalFileList') /\ Kept \subseteq Kept'
        /\ m_sPlayMd5' \in Files \cup {NoFile} /\ reload' \in BOOLEAN
        /\ Head(posted).arg \in Files
    BY <1>0, <1>1, PlayHistory
  <2>2. Shown' \subseteq Kept'
    BY <1>0, <1>1, <2>1 DEF Play, Shown
  <2>3. posted' \in Seq(Message)
    <3>1. posted # <<>> /\ posted \in Seq(Message)
      BY <1>0, <1>1 DEF Play, TypeOK
    <3>2. Tail(posted) \in Seq(Message) /\ Dangling \in Seq(Message)
      BY <1>0, <3>1, TakeFirst, DanglingKeeps
    <3>3. QED BY <1>1, <3>2 DEF Play
  <2>4. /\ m_nPlayingID' \in Nat
        /\ status' \in {"Init", "Opening", "Playing", "Pause", "Stoped"}
        /\ player' \in {"idle", "opening", "playing"}
    BY <1>0, <1>1 DEF Play, DoStop, StopPlay, TypeOK
  <2>5. m_sPlayData' \in [file : Files \cup {NoFile},
                         signal : {"none", "PLAY", "OPEN", "ADD"}]
    <3>1. \/ m_sPlayData' = m_sPlayData
          \/ m_sPlayData' = [file |-> Head(posted).arg, signal |-> Head(posted).msg]
      BY <1>1 DEF Play
    <3>2. Head(posted).msg \in {"PLAY", "OPEN", "ADD"}
      BY <1>1 DEF Play
    <3>3. QED BY <1>0, <2>1, <3>1, <3>2 DEF TypeOK
  <2>6. TypeOK'
    BY <1>0, <1>1, <2>1, <2>3, <2>4, <2>5 DEF Play, TypeOK
  <2>7. QED BY <2>2, <2>6 DEF ItemsStored
<1>2. CASE OnNextOne
  <2>1. posted \in Seq(Message) /\ Tail(posted) \in Seq(Message)
    BY <1>0, <1>2, Handled DEF OnNextOne
  <2>2. /\ m_nPlayingID' \in Nat /\ posted' \in Seq(Message)
        /\ m_sPlayMd5' \in Files \cup {NoFile}
        /\ status' \in {"Init", "Opening", "Playing", "Pause", "Stoped"}
        /\ player' \in {"idle", "opening", "playing"}
    <3>1. CASE m_sPlayData.signal = "none"
      <4>1. Post(<<>>) /\ UNCHANGED <<m_sPlayMd5, m_nPlayingID, status, player>>
        BY <1>2, <3>1 DEF OnNextOne
      <4>2. posted' = Tail(posted)
        BY <2>1, <4>1 DEF Post
      <4>3. QED BY <1>0, <2>1, <4>1, <4>2 DEF TypeOK
    <3>2. CASE m_sPlayData.signal # "none" /\ PlayNext = {} /\ DoStop(FALSE)
               /\ Post(<<>>) /\ UNCHANGED m_sPlayMd5
      <4>1. m_nPlayingID' \in Nat /\ status' = "Stoped" /\ player' \in {player, "idle"}
        BY <1>0, <3>2, Stopped
      <4>2. posted' = Tail(posted)
        BY <2>1, <3>2 DEF Post
      <4>3. QED BY <1>0, <2>1, <3>2, <4>1, <4>2 DEF TypeOK
    <3>3. CASE m_sPlayData.signal # "none" /\ UNCHANGED <<status, player>>
               /\ \E nID \in PlayNext : OnItemCommand(nID, Tail(posted))
      BY <1>0, <2>1, <3>3, ItemChosen DEF TypeOK
    <3>4. QED BY <1>2, <3>1, <3>2, <3>3 DEF OnNextOne
  <2>3. TypeOK'
    BY <1>0, <1>2, <2>2 DEF OnNextOne, TypeOK
  <2>4. QED BY <1>a, <1>2, <2>3 DEF ItemsStored, OnNextOne
<1>3. CASE OnLastOne
  <2>1. posted \in Seq(Message) /\ Tail(posted) \in Seq(Message)
    BY <1>0, <1>3, Handled DEF OnLastOne
  <2>2. /\ m_nPlayingID' \in Nat /\ posted' \in Seq(Message)
        /\ m_sPlayMd5' \in Files \cup {NoFile}
    <3>1. CASE Post(<<>>) /\ UNCHANGED <<m_sPlayMd5, m_nPlayingID>>
      BY <1>0, <2>1, <3>1 DEF Post, TypeOK
    <3>2. CASE \E nID \in PlayLast : OnItemCommand(nID, Tail(posted))
      BY <1>0, <2>1, <3>2, ItemChosen DEF TypeOK
    <3>3. QED BY <1>3, <3>1, <3>2 DEF OnLastOne
  <2>3. TypeOK'
    BY <1>0, <1>3, <2>2 DEF OnLastOne, TypeOK
  <2>4. QED BY <1>a, <1>3, <2>3 DEF ItemsStored, OnLastOne
<1>4. CASE DoClearList
  <2>1. Tail(posted) \in Seq(Message)
    BY <1>0, <1>4, Handled DEF DoClearList
  <2>2. IsList(<<>>)
    BY DEF IsList
  <2>3. items' = <<>> /\ m_nPlayingID' \in Nat
    BY <1>4, <2>2, Relisted DEF DoClearList
  <2>4. TypeOK'
    BY <1>0, <1>4, <2>1, <2>2, <2>3 DEF DoClearList, Post, TypeOK
  <2>5. QED BY <1>b, <1>4, <2>3, <2>4 DEF ItemsStored, DoClearList
<1>5. CASE OnPlayStart
  <2>1. Tail(posted) \in Seq(Message)
    BY <1>0, <1>5, Handled DEF OnPlayStart
  <2>2. m_sPlayData.file \in Files \cup {NoFile}
    BY <1>0 DEF TypeOK
  <2>3. posted' \in Seq(Message)
    BY <1>5, <2>1, <2>2, ToPost, PutLast DEF OnPlayStart, Post
  <2>4. TypeOK'
    BY <1>0, <1>5, <2>3 DEF OnPlayStart, TypeOK
  <2>5. QED BY <1>a, <1>5, <2>4 DEF ItemsStored, OnPlayStart
<1>6. CASE OnPlayEnd
  <2>1. Tail(posted) \in Seq(Message)
    BY <1>0, <1>6, Handled DEF OnPlayEnd
  <2>2. posted' \in Seq(Message)
    BY <1>6, <2>1, ToPost, PutLast DEF OnPlayEnd, Post
  <2>3. TypeOK'
    BY <1>0, <1>6, <2>2, Stopped DEF OnPlayEnd, TypeOK
  <2>4. QED BY <1>a, <1>6, <2>3 DEF ItemsStored, OnPlayEnd
<1>7. CASE OnFileInvalid
  <2>1. Tail(posted) \in Seq(Message)
    BY <1>0, <1>7, Handled DEF OnFileInvalid
  <2>2. posted' \in Seq(Message)
    BY <1>7, <2>1, ToPost, PutLast DEF OnFileInvalid, Post
  <2>3. TypeOK'
    BY <1>0, <1>7, <2>2, Stopped DEF OnFileInvalid, TypeOK
  <2>4. QED BY <1>a, <1>7, <2>3 DEF ItemsStored, OnFileInvalid
<1>8. CASE OnPlayPause
  <2>1. Tail(posted) \in Seq(Message)
    BY <1>0, <1>8, Handled DEF OnPlayPause
  <2>2. /\ posted' \in Seq(Message)
        /\ status' \in {"Init", "Opening", "Playing", "Pause", "Stoped"}
    BY <1>0, <1>8, <2>1, PlayedOrPaused DEF OnPlayPause
  <2>3. TypeOK'
    BY <1>0, <1>8, <2>2 DEF OnPlayPause, TypeOK
  <2>4. QED BY <1>a, <1>8, <2>3 DEF ItemsStored, OnPlayPause
<1>9. CASE OnRedraw
  <2>1. Tail(posted) \in Seq(Message)
    BY <1>0, <1>9, Handled DEF OnRedraw
  <2>2. items' = LocalFileList /\ m_nPlayingID' \in Nat
    BY <1>0, <1>9, Relisted DEF OnRedraw, TypeOK
  <2>3. TypeOK'
    BY <1>0, <1>9, <2>1, <2>2 DEF OnRedraw, Post, TypeOK
  <2>4. QED BY <1>b, <1>9, <2>2, <2>3 DEF ItemsStored, OnRedraw
<1>10. CASE OnRedrawNoSort
  <2>1. Tail(posted) \in Seq(Message)
    BY <1>0, <1>10, Handled DEF OnRedrawNoSort
  <2>2. items' = LocalFileList /\ m_nPlayingID' \in Nat
    BY <1>0, <1>10, Relisted DEF OnRedrawNoSort, TypeOK
  <2>3. m_sPlayMd5' \in Files \cup {NoFile}
    <3>1. posted # <<>> /\ posted \in Seq(Message)
      BY <1>0, <1>10, Handled DEF OnRedrawNoSort
    <3>2. Head(posted).arg \in Files \cup {NoFile}
      <4>1. Head(posted) = posted[1] /\ 1 \in DOMAIN posted
        BY <3>1, TakeFirst
      <4>2. Head(posted).msg = "REDRAW_NOSORT"
        BY <1>10 DEF OnRedrawNoSort, Handles
      <4>3. QED BY <4>1, <4>2 DEF PlayedInv, Named
    <3>3. QED BY <1>10, <3>2 DEF OnRedrawNoSort
  <2>4. TypeOK'
    BY <1>0, <1>10, <2>1, <2>2, <2>3 DEF OnRedrawNoSort, Post, TypeOK
  <2>5. QED BY <1>b, <1>10, <2>2, <2>4 DEF ItemsStored, OnRedrawNoSort
<1>11. CASE OnRButtonDown
  <2>1. Tail(posted) \in Seq(Message)
    BY <1>0, <1>11, Handled DEF OnRButtonDown
  <2>2. DOMAIN items \subseteq Nat
    BY <1>0 DEF TypeOK, IsList
  <2>3. TypeOK'
    BY <1>0, <1>11, <2>1, <2>2 DEF OnRButtonDown, Post, TypeOK
  <2>4. QED BY <1>a, <1>11, <2>3 DEF ItemsStored, OnRButtonDown
<1>12. CASE OnTimer
  <2>1. items' = LocalFileList /\ m_nPlayingID' \in Nat
    BY <1>0, <1>12, Relisted DEF OnTimer, TypeOK
  <2>2. TypeOK'
    BY <1>0, <1>12, <2>1 DEF OnTimer, TypeOK
  <2>3. QED BY <1>b, <1>12, <2>1, <2>2 DEF ItemsStored, OnTimer
<1> USE DEF Free, AtMenu, Input
<1>13. CASE OpenFiles
  <2>1. posted' \in Seq(Message)
    BY <1>0, <1>13, Asked
  <2>2. TypeOK'
    BY <1>0, <1>13, <2>1 DEF OpenFiles, TypeOK
  <2>3. QED BY <1>a, <1>13, <2>2 DEF ItemsStored, OpenFiles
<1>14. CASE Buttons
  <2>1. posted' \in Seq(Message)
    BY <1>0, <1>14, Asked
  <2>2. TypeOK'
    BY <1>0, <1>14, <2>1 DEF Buttons, TypeOK
  <2>3. QED BY <1>a, <1>14, <2>2 DEF ItemsStored, Buttons
<1>15. CASE OnBtnPlay
  <2>1. <<>> \in Seq(Message)
    OBVIOUS
  <2>2. /\ posted' \in Seq(Message)
        /\ status' \in {"Init", "Opening", "Playing", "Pause", "Stoped"}
    BY <1>0, <1>15, <2>1, PlayedOrPaused DEF OnBtnPlay
  <2>3. TypeOK'
    BY <1>0, <1>15, <2>2 DEF OnBtnPlay, TypeOK
  <2>4. QED BY <1>a, <1>15, <2>3 DEF ItemsStored, OnBtnPlay
<1>16. CASE OnBtnStop
  <2>1. m_nPlayingID' \in Nat /\ status' = "Stoped" /\ player' \in {player, "idle"}
    BY <1>0, <1>16, Stopped DEF OnBtnStop
  <2>2. TypeOK'
    BY <1>0, <1>16, <2>1 DEF OnBtnStop, TypeOK
  <2>3. QED BY <1>a, <1>16, <2>2 DEF ItemsStored, OnBtnStop
<1>17. CASE ClickItem
  <2>1. <<>> \in Seq(Message)
    OBVIOUS
  <2>2. /\ m_nPlayingID' \in Nat /\ posted' \in Seq(Message)
        /\ m_sPlayMd5' \in Files \cup {NoFile}
    BY <1>0, <1>17, <2>1, ItemChosen DEF ClickItem
  <2>3. TypeOK'
    BY <1>0, <1>17, <2>2 DEF ClickItem, TypeOK
  <2>4. QED BY <1>a, <1>17, <2>3 DEF ItemsStored, ClickItem
<1>18. CASE Settings
  <2>1. /\ playOrder' \in Orders /\ noMark' \in BOOLEAN
        /\ unmarked' \in BOOLEAN
    BY <1>0, <1>18 DEF Settings, TypeOK
  <2>2. TypeOK'
    BY <1>0, <1>18, <2>1 DEF Settings, TypeOK
  <2>3. QED BY <1>a, <1>18, <2>2 DEF ItemsStored, Settings
<1>19. CASE SelPaly
  <2>1. m_nPlayingID' \in Nat
    BY <1>0, <1>19 DEF SelPaly, TypeOK
  <2>2. \A i \in DOMAIN items : items[i] \in Files
    BY <1>0 DEF TypeOK, IsList
  <2>3. posted' \in Seq(Message)
    <3>1. \/ posted' = posted
          \/ posted' = <<Msg("PLAY_PAUSE", NoFile)>>
          \/ \E f \in Files : posted' = <<Msg("PLAY", f)>>
      BY <1>19, <2>2 DEF SelPaly
    <3>2. \A m \in Message : <<m>> \in Seq(Message)
      OBVIOUS
    <3>3. Msg("PLAY_PAUSE", NoFile) \in Message /\ \A f \in Files : Msg("PLAY", f) \in Message
      BY ToPost
    <3>4. posted \in Seq(Message)
      BY <1>0 DEF TypeOK
    <3>5. QED BY <3>1, <3>2, <3>3, <3>4
  <2>4. TypeOK'
    BY <1>0, <1>19, <2>1, <2>3 DEF SelPaly, TypeOK
  <2>5. QED BY <1>a, <1>19, <2>4 DEF ItemsStored, SelPaly
<1>20. CASE DelItem
  <2>1. CASE m_nSelID \notin DOMAIN items
    <3>1. TypeOK'
      BY <1>0, <1>20, <2>1 DEF DelItem, TypeOK
    <3>2. QED BY <1>a, <1>20, <2>1, <3>1 DEF ItemsStored, DelItem
  <2>2. CASE m_nSelID \in DOMAIN items
    <3>1. /\ m_sPlayMd5' \in Files \cup {NoFile}
          /\ LocalFileList' = Without(LocalFileList, {items[m_nSelID]})
          /\ \E old \in Nat : ReListWnd(LocalFileList', m_sPlayMd5', old)
      BY <1>0, <1>20, <2>2 DEF DelItem, TypeOK
    <3>2. IsList(LocalFileList')
      BY <1>0, <3>1, WithoutIsList DEF TypeOK
    <3>3. items' = LocalFileList' /\ m_nPlayingID' \in Nat
      BY <3>1, <3>2, Relisted
    <3>4. TypeOK'
      BY <1>0, <1>20, <3>1, <3>2, <3>3 DEF DelItem, TypeOK
    <3>5. QED BY <1>b, <3>3, <3>4 DEF ItemsStored
  <2>3. QED BY <2>1, <2>2
<1>21. CASE ClearInvalid
  <2>1. IsList(LocalFileList')
    BY <1>0, <1>21, WithoutIsList DEF ClearInvalid, TypeOK
  <2>2. items' = LocalFileList' /\ m_nPlayingID' \in Nat
    BY <1>0, <1>21, <2>1, Relisted DEF ClearInvalid, TypeOK
  <2>3. TypeOK'
    BY <1>0, <1>21, <2>1, <2>2 DEF ClearInvalid, TypeOK
  <2>4. QED BY <1>b, <2>2, <2>3 DEF ItemsStored
<1>22. CASE Dismiss
  <2>1. TypeOK'
    BY <1>0, <1>22 DEF Dismiss, TypeOK
  <2>2. QED BY <1>a, <1>22, <2>1 DEF ItemsStored, Dismiss
<1>23. CASE Starts
  <2>1. posted' \in Seq(Message)
    <3>1. \E m \in {"FILE_INVALID", "START"} :
             posted' = Append(posted, Msg(m, NoFile))
      BY <1>23 DEF Starts
    <3>2. QED BY <1>0, <3>1, ToPost, PutLast DEF TypeOK
  <2>2. TypeOK'
    BY <1>0, <1>23, <2>1 DEF Starts, TypeOK
  <2>3. QED BY <1>a, <1>23, <2>2 DEF ItemsStored, Starts
<1>24. CASE Ends
  <2>1. posted' \in Seq(Message)
    BY <1>0, <1>24, ToPost, PutLast DEF Ends, TypeOK
  <2>2. TypeOK'
    BY <1>0, <1>24, <2>1 DEF Ends, TypeOK
  <2>3. QED BY <1>a, <1>24, <2>2 DEF ItemsStored, Ends
<1>25. CASE UNCHANGED vars
  <2>1. TypeOK'
    BY <1>0, <1>25 DEF vars, TypeOK
  <2>2. QED BY <1>a, <1>25, <2>1 DEF ItemsStored, vars
<1>26. QED
  BY <1>1, <1>2, <1>3, <1>4, <1>5, <1>6, <1>7, <1>8, <1>9, <1>10, <1>11, <1>12,
     <1>13, <1>14, <1>15, <1>16, <1>17, <1>18, <1>19, <1>20, <1>21, <1>22,
     <1>23, <1>24, <1>25 DEF Next, Handler, User

-----------------------------------------------------------------------------
(* What the steps do to the queue.                                          *)

\* A message that names what it should, starts nothing and marks nothing.
Plain(m) == m \in Message /\ Names(m) /\ m.msg \notin {"START", "REDRAW_NOSORT"}

LEMMA PlainMessages ==
    /\ \A m \in {"PLAY_NEXT", "PLAY_LAST", "CLEAR_LIST", "REDRAW", "END",
                "FILE_INVALID", "PLAY_PAUSE"} : Plain(Msg(m, NoFile))
    /\ \A f \in Files : \A m \in {"PLAY", "OPEN", "ADD"} : Plain(Msg(m, f))
BY ToPost DEF Plain, Names

\* Most handlers post one plain message or none.
Answers == \/ posted' = Tail(posted)
           \/ \E m : Plain(m) /\ posted' = Append(Tail(posted), m)

LEMMA AnswersKeep ==
    ASSUME TypeOK, posted # <<>>, Answers, NEW f
    PROVE  /\ posted' \in Seq(Message)
           /\ Named(posted) => Named(posted')
           /\ StartComes(posted') => StartComes(posted)
           /\ Head(posted).msg # "REDRAW_NOSORT" =>
                 /\ NoMarkComes(posted) => NoMarkComes(posted')
                 /\ MarkComes(posted, f) => MarkComes(posted', f)
           /\ Head(posted).msg # "PLAY" /\ PlayComes(posted) => PlayComes(posted')
<1> DEFINE q == Tail(posted)
<1>1. posted \in Seq(Message) /\ q \in Seq(Message)
  BY TakeFirst DEF TypeOK
<1>2. /\ Named(posted) => Named(q)
      /\ StartComes(q) => StartComes(posted)
  BY <1>1, TailNamed
<1>3. /\ Head(posted).msg # "REDRAW_NOSORT" =>
            /\ NoMarkComes(posted) => NoMarkComes(q)
            /\ MarkComes(posted, f) => MarkComes(q, f)
            /\ Head(posted).msg # "PLAY" /\ PlayComes(posted) => PlayComes(q)
  BY <1>1, TailOnItsWay
<1>4. ASSUME Head(posted).msg # "PLAY", PlayComes(posted) PROVE PlayComes(q)
  <2>1. PICK i \in DOMAIN posted : posted[i].msg = "PLAY"
    BY <1>4 DEF PlayComes
  <2>2. Head(posted) = posted[1]
    BY <1>1, TakeFirst
  <2>3. i - 1 \in DOMAIN q /\ q[i - 1] = posted[i]
    BY <1>1, <1>4, <2>1, <2>2, TakeFirst
  <2>4. QED BY <2>1, <2>3 DEF PlayComes
<1> HIDE DEF q
<1>5. CASE posted' = q
  BY <1>1, <1>2, <1>3, <1>4, <1>5
<1>6. ASSUME NEW m, Plain(m), posted' = Append(q, m)
      PROVE  /\ posted' \in Seq(Message)
             /\ Named(q) => Named(posted')
             /\ StartComes(posted') => StartComes(q)
             /\ NoMarkComes(q) => NoMarkComes(posted')
             /\ MarkComes(q, f) => MarkComes(posted', f)
             /\ PlayComes(q) => PlayComes(posted')
  <2>1. /\ m \in Message /\ Names(m)
        /\ m.msg # "START" /\ m.msg # "REDRAW_NOSORT"
    BY <1>6 DEF Plain
  <2>2. Append(q, m) \in Seq(Message)
    BY <1>1, <2>1
  <2>3. /\ Named(q) => Named(Append(q, m))
        /\ StartComes(Append(q, m)) => StartComes(q)
    BY <1>1, <2>1, AppendNamed
  <2>4. /\ NoMarkComes(q) => NoMarkComes(Append(q, m))
        /\ MarkComes(q, f) => MarkComes(Append(q, m), f)
        /\ PlayComes(q) => PlayComes(Append(q, m))
    BY <1>1, <2>1, AppendOnItsWay
  <2>5. QED BY <1>6, <2>2, <2>3, <2>4
<1>7. CASE \E m : Plain(m) /\ posted' = Append(q, m)
  BY <1>2, <1>3, <1>4, <1>6, <1>7
<1>8. QED BY <1>5, <1>7 DEF Answers, q

\* These are the handlers that do.
LEMMA HandlersAnswer ==
    ASSUME TypeOK, PlayedInv,
           \/ OnNextOne \/ OnLastOne \/ DoClearList \/ OnPlayEnd \/ OnFileInvalid
           \/ OnPlayPause \/ OnRedraw \/ OnRedrawNoSort \/ OnRButtonDown
    PROVE  /\ posted # <<>> /\ Answers
           /\ Head(posted).msg \notin {"PLAY", "OPEN", "ADD", "START"}
           /\ ~OnRedrawNoSort => Head(posted).msg # "REDRAW_NOSORT"
           /\ m_sPlayData' = m_sPlayData
<1>1. ASSUME NEW k, Handles(k)
      PROVE  /\ posted # <<>> /\ Head(posted).msg = k
             /\ Tail(posted) \in Seq(Message)
             /\ Post(<<>>) => posted' = Tail(posted)
             /\ \A m : Post(<<m>>) /\ Plain(m) => Answers
             /\ \A nID : OnItemCommand(nID, Tail(posted)) => Answers
  <2>1. posted # <<>> /\ Head(posted).msg = k /\ Tail(posted) \in Seq(Message)
    BY <1>1, Handled
  <2>2. Post(<<>>) => posted' = Tail(posted)
    BY <2>1 DEF Post
  <2>3. ASSUME NEW m, Post(<<m>>), Plain(m) PROVE Answers
    <3>1. posted' = Append(Tail(posted), m)
      BY <2>1, <2>3, PutLast DEF Post, Plain
    <3>2. QED BY <2>3, <3>1 DEF Answers
  <2>4. ASSUME NEW nID, OnItemCommand(nID, Tail(posted)) PROVE Answers
    BY <2>1, <2>4, ItemChosen, PlainMessages DEF Answers
  <2>5. QED BY <2>1, <2>2, <2>3, <2>4
<1>2. CASE OnNextOne
  <2>1. Handles("PLAY_NEXT")
    BY <1>2 DEF OnNextOne
  <2>2. \/ Post(<<>>) \/ \E nID : OnItemCommand(nID, Tail(posted))
    BY <1>2 DEF OnNextOne
  <2>3. QED BY <1>1, <1>2, <2>1, <2>2 DEF Answers, OnNextOne
<1>3. CASE OnLastOne
  <2>1. Handles("PLAY_LAST")
    BY <1>3 DEF OnLastOne
  <2>2. \/ Post(<<>>) \/ \E nID : OnItemCommand(nID, Tail(posted))
    BY <1>3 DEF OnLastOne
  <2>3. QED BY <1>1, <1>3, <2>1, <2>2 DEF Answers, OnLastOne, dlgVars
<1>4. CASE DoClearList
  <2>1. Handles("CLEAR_LIST") /\ Post(<<>>)
    BY <1>4 DEF DoClearList
  <2>2. QED BY <1>1, <1>4, <2>1 DEF Answers, DoClearList, dlgVars
<1>5. CASE OnPlayEnd
  <2>1. Handles("END") /\ Post(<<Msg("PLAY_NEXT", NoFile)>>)
    BY <1>5 DEF OnPlayEnd
  <2>2. QED BY <1>1, <1>5, <2>1, PlainMessages DEF OnPlayEnd
<1>6. CASE OnFileInvalid
  <2>1. Handles("FILE_INVALID") /\ Post(<<Msg("REDRAW", NoFile)>>)
    BY <1>6 DEF OnFileInvalid
  <2>2. QED BY <1>1, <1>6, <2>1, PlainMessages DEF OnFileInvalid
<1>7. CASE OnPlayPause
  <2>1. Handles("PLAY_PAUSE") /\ PlayOrPause(Tail(posted))
    BY <1>7 DEF OnPlayPause
  <2>2. Tail(posted) \in Seq(Message)
    BY <1>1, <2>1
  <2>3. Answers
    BY <2>1, <2>2, PlayedOrPaused DEF Answers, Plain, Names
  <2>4. QED BY <1>1, <1>7, <2>1, <2>3 DEF OnPlayPause
<1>8. CASE OnRedraw
  <2>1. Handles("REDRAW") /\ Post(<<>>)
    BY <1>8 DEF OnRedraw
  <2>2. QED BY <1>1, <1>8, <2>1 DEF Answers, OnRedraw, dlgVars
<1>9. CASE OnRedrawNoSort
  <2>1. Handles("REDRAW_NOSORT") /\ Post(<<>>)
    BY <1>9 DEF OnRedrawNoSort
  <2>2. QED BY <1>1, <1>9, <2>1 DEF Answers, OnRedrawNoSort, dlgVars
<1>10. CASE OnRButtonDown
  <2>1. Handles("RBUTTONDOWN") /\ Post(<<>>)
    BY <1>10 DEF OnRButtonDown
  <2>2. QED BY <1>1, <1>10, <2>1 DEF Answers, OnRButtonDown, dlgVars
<1>11. QED
  BY <1>2, <1>3, <1>4, <1>5, <1>6, <1>7, <1>8, <1>9, <1>10

\* The user finds the queue empty and fills it with plain messages.
LEMMA UserPosts ==
    ASSUME TypeOK, PlayedInv, User
    PROVE  /\ posted = <<>> /\ posted' \in Seq(Message)
           /\ \A i \in DOMAIN posted' : Plain(posted'[i])
           /\ m_sPlayData' = m_sPlayData
<1> USE DEF dlgVars, Free, AtMenu, Input
<1>1. posted = <<>> /\ m_sPlayData' = m_sPlayData
  BY DEF User, OpenFiles, Buttons, OnBtnPlay, OnBtnStop, ClickItem, Settings,
         SelPaly, DelItem, ClearInvalid, Dismiss
<1>2. ASSUME NEW a, Plain(a)
      PROVE  <<a>> \in Seq(Message) /\ \A i \in DOMAIN <<a>> : Plain(<<a>>[i])
  <2>1. a \in Message
    BY <1>2 DEF Plain
  <2>2. <<a>> \in Seq(Message) /\ DOMAIN <<a>> = {1} /\ <<a>>[1] = a
    BY <2>1
  <2>3. QED BY <1>2, <2>2
<1>3. ASSUME posted' = <<>>
      PROVE  posted' \in Seq(Message) /\ \A i \in DOMAIN posted' : Plain(posted'[i])
  BY <1>3
<1>4. CASE OpenFiles \/ Buttons
  <2>1. PICK a \in Message, b \in Message, c \in Message :
           /\ posted' \in {<<a>>, <<a, b>>, <<a, b, c>>}
           /\ \A m \in {a, b, c} :
                 /\ m.msg \notin {"REDRAW_NOSORT", "START"}
                 /\ m.msg \in {"PLAY", "OPEN", "ADD"} => m.arg \in Files
    BY <1>4, Asked
  <2>2. Plain(a) /\ Plain(b) /\ Plain(c)
    BY <2>1 DEF Plain, Names
  <2>3. ASSUME NEW q \in {<<a>>, <<a, b>>, <<a, b, c>>}
        PROVE  q \in Seq(Message) /\ \A i \in DOMAIN q : q[i] \in {a, b, c}
    <3>1. CASE q = <<a>>
      BY <3>1
    <3>2. CASE q = <<a, b>>
      BY <3>2
    <3>3. CASE q = <<a, b, c>>
      BY <3>3
    <3>4. QED BY <2>3, <3>1, <3>2, <3>3
  <2>4. QED BY <1>1, <2>1, <2>2, <2>3
<1>5. CASE OnBtnPlay
  <2>1. PlayOrPause(<<>>) /\ <<>> \in Seq(Message)
    BY <1>5 DEF OnBtnPlay
  <2>2. posted' = <<>> \/ \E m : Plain(m) /\ posted' = Append(<<>>, m)
    BY <2>1, PlayedOrPaused DEF Plain, Names
  <2>3. \A m : Append(<<>>, m) = <<m>>
    OBVIOUS
  <2>4. QED BY <1>1, <1>2, <1>3, <2>2, <2>3
<1>6. CASE ClickItem
  <2>1. (\E i \in DOMAIN items : OnItemCommand(i, <<>>)) /\ <<>> \in Seq(Message)
    BY <1>6 DEF ClickItem
  <2>2. posted' = <<>> \/ \E f \in Files : posted' = Append(<<>>, Msg("PLAY", f))
    BY <2>1, ItemChosen
  <2>3. \A m : Append(<<>>, m) = <<m>>
    OBVIOUS
  <2>4. QED BY <1>1, <1>2, <1>3, <2>2, <2>3, PlainMessages
<1>7. CASE SelPaly
  <2>1. \A i \in DOMAIN items : items[i] \in Files
    BY DEF TypeOK, IsList
  <2>2. \/ posted' = <<>>
        \/ posted' = <<Msg("PLAY_PAUSE", NoFile)>>
        \/ \E f \in Files : posted' = <<Msg("PLAY", f)>>
    BY <1>1, <1>7, <2>1 DEF SelPaly
  <2>3. QED BY <1>1, <1>2, <1>3, <2>2, PlainMessages
<1>8. CASE OnBtnStop \/ Settings \/ DelItem \/ ClearInvalid \/ Dismiss
  <2>1. posted' = posted
    BY <1>8 DEF OnBtnStop, Settings, DelItem, ClearInvalid, Dismiss
  <2>2. QED BY <1>1, <1>3, <2>1
<1>9. QED BY <1>4, <1>5, <1>6, <1>7, <1>8 DEF User

-----------------------------------------------------------------------------
(* What is played has a name, and playback without traces is remembered.    *)

\* No handler but Play, and nothing the user does, makes the player open a file.
\* Nothing but a START makes a window play that neither plays nor is paused.
LEMMA PlayerKept ==
    ASSUME TypeOK,
           \/ OnNextOne \/ OnLastOne \/ DoClearList \/ OnPlayEnd \/ OnFileInvalid
           \/ OnPlayPause \/ OnRedraw \/ OnRedrawNoSort \/ OnRButtonDown
           \/ OnPlayStart \/ OnTimer \/ User
    PROVE  /\ player' \in {player, "idle"}
           /\ ~OnPlayStart /\ status' \in {"Playing", "Pause"}
                 => status \in {"Playing", "Pause"}
<1>1. CASE OnPlayEnd \/ OnFileInvalid \/ OnBtnStop
  BY <1>1, Stopped DEF OnPlayEnd, OnFileInvalid, OnBtnStop
<1>2. CASE OnNextOne
  BY <1>2, Stopped DEF OnNextOne
<1>3. CASE \/ OnLastOne \/ DoClearList \/ OnRedraw \/ OnRedrawNoSort
           \/ OnRButtonDown \/ OnPlayStart \/ OnTimer
  BY <1>3 DEF OnLastOne, DoClearList, OnRedraw, OnRedrawNoSort, OnRButtonDown,
     OnPlayStart, OnTimer, dlgVars
<1>4. CASE OnPlayPause \/ OnBtnPlay
  BY <1>4 DEF OnPlayPause, OnBtnPlay, PlayOrPause
<1>5. CASE \/ OpenFiles \/ Buttons \/ ClickItem \/ Settings \/ SelPaly
           \/ DelItem \/ ClearInvalid \/ Dismiss
  BY <1>5 DEF OpenFiles, Buttons, ClickItem, Settings, SelPaly, DelItem,
     ClearInvalid, Dismiss, dlgVars
<1>6. QED BY <1>1, <1>2, <1>3, <1>4, <1>5 DEF User

LEMMA PlayedStep ==
    TypeOK /\ PlayedInv /\ [Next]_vars => PlayedInv'
<1> SUFFICES ASSUME TypeOK, PlayedInv, [Next]_vars PROVE PlayedInv'
  OBVIOUS
<1>0. /\ Named(posted)
      /\ m_sPlayData.signal # "none" => m_sPlayData.file \in Files
      /\ player # "idle" \/ status \in {"Playing", "Pause"} \/ StartComes(posted)
            => m_sPlayData.signal # "none"
      /\ posted \in Seq(Message)
  BY DEF PlayedInv, TypeOK
<1>1. ASSUME m_sPlayData' = m_sPlayData, player' \in {player, "idle"},
             status' \in {"Playing", "Pause"} => status \in {"Playing", "Pause"},
             Named(posted'), StartComes(posted') => StartComes(posted)
      PROVE  PlayedInv'
  BY <1>0, <1>1 DEF PlayedInv
<1>2. CASE \/ OnNextOne \/ OnLastOne \/ DoClearList \/ OnPlayEnd \/ OnFileInvalid
           \/ OnPlayPause \/ OnRedraw \/ OnRedrawNoSort \/ OnRButtonDown
  <2>1. posted # <<>> /\ Answers /\ m_sPlayData' = m_sPlayData
    BY <1>2, HandlersAnswer
  <2>2. Named(posted') /\ (StartComes(posted') => StartComes(posted))
    BY <1>0, <2>1, AnswersKeep
  <2>3. ~OnPlayStart
    BY <1>2 DEF OnPlayStart, Handles, OnNextOne, OnLastOne, DoClearList, OnPlayEnd,
       OnFileInvalid, OnPlayPause, OnRedraw, OnRedrawNoSort, OnRButtonDown
  <2>4. /\ player' \in {player, "idle"}
        /\ status' \in {"Playing", "Pause"} => status \in {"Playing", "Pause"}
    BY <1>2, <2>3, PlayerKept
  <2>5. QED BY <1>1, <2>1, <2>2, <2>4
<1>3. CASE Play
  <2>1. posted # <<>> /\ Head(posted).msg \in {"PLAY", "OPEN", "ADD"}
        /\ Head(posted).arg \in Files
    BY <1>3, PlayHistory DEF Play
  <2>2. Named(Tail(posted)) /\ (StartComes(Tail(posted)) => StartComes(posted))
    BY <1>0, <2>1, TailNamed
  <2>3. CASE posted' = Tail(posted) /\ m_sPlayData' = m_sPlayData
             /\ player' \in {player, "idle"}
             /\ status' \in {status, "Stoped"}
    BY <1>1, <2>2, <2>3
  <2>4. CASE posted' = Dangling
             /\ m_sPlayData' = [file |-> Head(posted).arg,
                               signal |-> Head(posted).msg]
    <3>1. Named(posted')
      <4>1. /\ DOMAIN Dangling = DOMAIN Tail(posted)
            /\ \A i \in DOMAIN Dangling :
                  Dangling[i].msg # "REDRAW_NOSORT" => Dangling[i] = Tail(posted)[i]
        BY <2>1, DanglingKeeps
      <4>2. \A i \in DOMAIN Dangling :
               Dangling[i].msg = "REDRAW_NOSORT" => Dangling[i].arg \in Files \cup {NoFile}
        <5>1. ASSUME NEW i \in DOMAIN Tail(posted),
                     Tail(posted)[i].msg = "REDRAW_NOSORT"
              PROVE  Tail(posted)[i].arg \in Files \cup {NoFile}
          BY <2>2, <5>1 DEF Named
        <5>2. QED BY <4>1, <5>1, ToPost DEF Dangling
      <4>3. QED BY <2>2, <2>4, <4>1, <4>2 DEF Named
    <3>2. m_sPlayData'.signal # "none" /\ m_sPlayData'.file \in Files
      BY <2>1, <2>4
    <3>3. QED BY <3>1, <3>2 DEF PlayedInv
  <2>5. \/ posted' = Tail(posted) /\ m_sPlayData' = m_sPlayData
           /\ player' \in {player, "idle"} /\ status' \in {status, "Stoped"}
        \/ posted' = Dangling
           /\ m_sPlayData' = [file |-> Head(posted).arg,
                             signal |-> Head(posted).msg]
    BY <1>3, Stopped DEF Play
  <2>6. QED BY <2>3, <2>4, <2>5
<1>4. CASE OnPlayStart
  <2> DEFINE q == Tail(posted)
             m == Msg("REDRAW_NOSORT", m_sPlayData.file)
  <2>1. posted # <<>> /\ q \in Seq(Message) /\ m_sPlayData' = m_sPlayData
    BY <1>4, Handled DEF OnPlayStart
  <2>2. Named(q) /\ (StartComes(q) => StartComes(posted))
    BY <1>0, <2>1, TailNamed
  <2>3. m \in Message /\ Names(m) /\ m.msg # "START"
    <3>1. m_sPlayData.file \in Files \cup {NoFile}
      BY DEF TypeOK
    <3>2. QED BY <3>1, ToPost DEF Names
  <2> HIDE DEF m
  <2>4. posted' = q \/ posted' = Append(q, m)
    BY <1>4, <2>1, <2>3, PutLast DEF OnPlayStart, Post, m
  <2> HIDE DEF q
  <2>5. Named(posted') /\ (StartComes(posted') => StartComes(posted))
    BY <2>1, <2>2, <2>3, <2>4, AppendNamed
  <2>6. StartComes(posted)
    BY <1>4, Handled, <2>1, TakeFirst DEF OnPlayStart, Handles, StartComes
  <2>7. QED BY <1>0, <2>1, <2>5, <2>6 DEF PlayedInv
<1>5. CASE OnTimer
  <2>1. /\ m_sPlayData' = m_sPlayData /\ posted' = posted /\ player' = player
        /\ status' = status
    BY <1>5 DEF OnTimer, dlgVars
  <2>2. QED BY <1>0, <1>1, <2>1
<1>6. CASE User
  <2>1. /\ m_sPlayData' = m_sPlayData
        /\ \A i \in DOMAIN posted' : Plain(posted'[i])
    BY <1>6, UserPosts
  <2>2. Named(posted') /\ ~StartComes(posted')
    BY <2>1 DEF Plain, Names, Named, StartComes
  <2>3. ~OnPlayStart
    <3>1. CASE Free \/ AtMenu \/ Dismiss
      BY <3>1 DEF Free, AtMenu, Input, Dismiss, OnPlayStart, Handles
    <3>2. QED BY <1>6, <3>1 DEF User, OpenFiles, Buttons, OnBtnPlay, OnBtnStop,
             ClickItem, Settings, SelPaly, DelItem, ClearInvalid
  <2>4. QED BY <1>1, <1>6, <2>1, <2>2, <2>3, PlayerKept
<1>7. CASE Starts \/ Ends
  <2>1. player # "idle" /\ m_sPlayData' = m_sPlayData
    BY <1>7 DEF Starts, Ends, dlgVars
  <2>2. \E m \in {"FILE_INVALID", "START", "END"} :
           posted' = Append(posted, Msg(m, NoFile))
    BY <1>7 DEF Starts, Ends
  <2>3. \A m \in {"FILE_INVALID", "START", "END"} :
           Msg(m, NoFile) \in Message /\ Names(Msg(m, NoFile))
    BY ToPost DEF Names
  <2>4. Named(posted')
    BY <1>0, <2>2, <2>3, AppendNamed
  <2>5. QED BY <1>0, <2>1, <2>4 DEF PlayedInv
<1>8. CASE UNCHANGED vars
  BY <1>0, <1>1, <1>8 DEF vars, dlgVars
<1>9. QED
  BY <1>2, <1>3, <1>4, <1>5, <1>6, <1>7, <1>8 DEF Next, Handler

\* The settings and the history of them change in two steps only.
LEMMA TracesKept ==
    ASSUME [Next]_vars, ~OnPlayStart, ~Settings
    PROVE  UNCHANGED <<noMark, m_bNoMark, unmarked>>
BY DEF Next, Handler, User, Play, OnNextOne, OnLastOne, DoClearList, OnPlayEnd,
   OnFileInvalid, OnPlayPause, OnRedraw, OnRedrawNoSort, OnTimer, OnRButtonDown,
   OpenFiles, Buttons, OnBtnPlay, OnBtnStop, ClickItem, SelPaly, DelItem,
   ClearInvalid, Dismiss, Starts, Ends, vars, dataVars, dlgVars, markVars

LEMMA TracesStep ==
    TypeOK /\ TracesInv /\ [Next]_vars
       => TracesInv' /\ (~OnPlayStart /\ unmarked => unmarked')
<1> SUFFICES ASSUME TypeOK, TracesInv, [Next]_vars
             PROVE  TracesInv' /\ (~OnPlayStart /\ unmarked => unmarked')
  OBVIOUS
<1>1. CASE OnPlayStart
  BY <1>1 DEF OnPlayStart, TracesInv, TypeOK, dataVars
<1>2. CASE Settings
  BY <1>2 DEF Settings, TracesInv, TypeOK
<1>3. CASE ~OnPlayStart /\ ~Settings
  BY <1>3, TracesKept DEF TracesInv
<1>4. QED BY <1>1, <1>2, <1>3

-----------------------------------------------------------------------------
(* The mark.                                                                *)

\* A step of a playing window keeps MarkInv if what is on its way stays so, and
\* the file to mark is dropped, or stays and its item stays marked, or another
\* item is about to be played.
LEMMA MarkKept ==
    ASSUME MarkInv, unmarked => unmarked',
           status' \in {"Playing", "Pause"} => status \in {"Playing", "Pause"},
           m_sPlayData' = m_sPlayData,
           MarkComes(posted, m_sPlayData.file) => MarkComes(posted', m_sPlayData.file),
           NoMarkComes(posted) => NoMarkComes(posted'),
           PlayComes(posted) => PlayComes(posted'),
           \/ m_sPlayMd5' = NoFile
           \/ m_sPlayMd5' = m_sPlayMd5 /\ (MarkPlaced => MarkPlaced')
           \/ PlayComes(posted')
    PROVE  MarkInv'
<1> SUFFICES ASSUME status' \in {"Playing", "Pause"}, ~unmarked'
             PROVE  \/ MarkComes(posted', m_sPlayData'.file)
                    \/ /\ NoMarkComes(posted')
                       /\ \/ PlayComes(posted')
                          \/ m_sPlayMd5' = NoFile
                          \/ m_sPlayMd5' = m_sPlayData'.file /\ MarkPlaced'
  BY DEF MarkInv
<1>1. \/ MarkComes(posted, m_sPlayData.file)
      \/ /\ NoMarkComes(posted)
         /\ \/ PlayComes(posted)
            \/ m_sPlayMd5 = NoFile
            \/ m_sPlayMd5 = m_sPlayData.file /\ MarkPlaced
  BY DEF MarkInv
<1>2. QED BY <1>1

\* A stopped or opening window has nothing to mark.
LEMMA NothingToMark ==
    ASSUME status' \notin {"Playing", "Pause"} PROVE MarkInv'
BY DEF MarkInv

\* A list made again has the item of the file to mark marked.
LEMMA PlacedAgain ==
    ASSUME NEW list, IsList(list), NEW old \in Nat,
           ReListWnd(list, m_sPlayMd5', old)
    PROVE  MarkPlaced'
BY Relisted DEF MarkPlaced

\* The start of a file puts it on its way to be marked, if traces are kept.
LEMMA StartMarks ==
    ASSUME TypeOK, PlayedInv, TracesInv, OnPlayStart
    PROVE  MarkInv'
<1> SUFFICES ASSUME ~unmarked' PROVE MarkComes(posted', m_sPlayData'.file)
  BY DEF MarkInv
<1> DEFINE q == Tail(posted)
           m == Msg("REDRAW_NOSORT", m_sPlayData.file)
<1>1. q \in Seq(Message) /\ m_sPlayData' = m_sPlayData
  BY Handled DEF OnPlayStart
<1>2. ~m_bNoMark
  BY DEF OnPlayStart, TracesInv, TypeOK
<1>3. m \in Message /\ m.msg = "REDRAW_NOSORT" /\ m.arg = m_sPlayData.file
  <2>1. m_sPlayData.file \in Files \cup {NoFile}
    BY DEF TypeOK
  <2>2. QED BY <2>1, ToPost
<1>4. Post(<<m>>)
  BY <1>2 DEF OnPlayStart
<1> HIDE DEF m
<1>5. posted' = Append(q, m)
  BY <1>1, <1>3, <1>4, PutLast DEF Post
<1> HIDE DEF q
<1>6. QED BY <1>1, <1>3, <1>5, AppendOnItsWay

\* The file to mark arrives and is marked; only the last on its way counts.
LEMMA MarkArrives ==
    ASSUME TypeOK, PlayedInv, MarkInv, OnRedrawNoSort
    PROVE  MarkInv'
<1>1. /\ posted # <<>> /\ posted \in Seq(Message) /\ posted' = Tail(posted)
      /\ Head(posted).msg = "REDRAW_NOSORT" /\ m_sPlayData' = m_sPlayData
      /\ status' = status /\ unmarked' = unmarked
  <2>1. /\ posted # <<>> /\ posted \in Seq(Message) /\ Tail(posted) \in Seq(Message)
        /\ Head(posted).msg = "REDRAW_NOSORT"
    BY Handled DEF OnRedrawNoSort
  <2>2. Post(<<>>)
    BY DEF OnRedrawNoSort
  <2>3. posted' = Tail(posted)
    BY <2>1, <2>2 DEF Post
  <2>4. QED BY <2>1, <2>3 DEF OnRedrawNoSort, dlgVars
<1>2. MarkPlaced'
  BY PlacedAgain DEF OnRedrawNoSort, TypeOK
<1>3. SUFFICES ASSUME status \in {"Playing", "Pause"}, ~unmarked
               PROVE  \/ MarkComes(posted', m_sPlayData.file)
                      \/ NoMarkComes(posted') /\ m_sPlayMd5' \in {NoFile, m_sPlayData.file}
  BY <1>1, <1>2 DEF MarkInv
<1>4. /\ Head(posted) = posted[1] /\ 1 \in DOMAIN posted
      /\ \A i \in DOMAIN Tail(posted) :
            i \in Nat /\ i + 1 \in DOMAIN posted /\ Tail(posted)[i] = posted[i + 1]
      /\ \A i \in DOMAIN posted : i # 1 =>
            i - 1 \in DOMAIN Tail(posted) /\ Tail(posted)[i - 1] = posted[i]
      /\ DOMAIN posted \subseteq Nat
  BY <1>1, TakeFirst
<1>5. ~NoMarkComes(posted)
  BY <1>1, <1>4 DEF NoMarkComes
<1>6. PICK k \in DOMAIN posted :
         /\ posted[k].msg = "REDRAW_NOSORT" /\ posted[k].arg = m_sPlayData.file
         /\ \A j \in DOMAIN posted : posted[j].msg = "REDRAW_NOSORT" => j <= k
  BY <1>3, <1>5 DEF MarkInv, MarkComes
<1>7. CASE k = 1
  <2>1. ASSUME NEW i \in DOMAIN Tail(posted), Tail(posted)[i].msg = "REDRAW_NOSORT"
        PROVE  FALSE
    <3>1. i \in Nat /\ i + 1 \in DOMAIN posted /\ posted[i + 1].msg = "REDRAW_NOSORT"
      BY <1>4, <2>1
    <3>2. i + 1 <= 1
      BY <1>6, <1>7, <3>1
    <3>3. i \in DOMAIN Tail(posted) => i >= 1
      BY <1>1, TakeFirst
    <3>4. QED BY <2>1, <3>1, <3>2, <3>3
  <2>2. NoMarkComes(posted')
    BY <1>1, <2>1 DEF NoMarkComes
  <2>3. m_sPlayData.file # NoFile
    BY <1>3, ListAssumption DEF PlayedInv
  <2>4. m_sPlayMd5' = m_sPlayData.file
    BY <1>4, <1>6, <1>7, <2>3 DEF OnRedrawNoSort
  <2>5. QED BY <2>2, <2>4
<1>8. CASE k # 1
  <2>1. /\ k - 1 \in DOMAIN Tail(posted) /\ k \in Nat
        /\ Tail(posted)[k - 1].msg = "REDRAW_NOSORT"
        /\ Tail(posted)[k - 1].arg = m_sPlayData.file
    BY <1>4, <1>6, <1>8
  <2>2. ASSUME NEW j \in DOMAIN Tail(posted), Tail(posted)[j].msg = "REDRAW_NOSORT"
        PROVE  j <= k - 1
    <3>1. j \in Nat /\ j + 1 \in DOMAIN posted /\ posted[j + 1].msg = "REDRAW_NOSORT"
      BY <1>4, <2>2
    <3>2. j + 1 <= k
      BY <1>6, <3>1
    <3>3. QED BY <2>1, <3>1, <3>2
  <2>3. MarkComes(posted', m_sPlayData.file)
    BY <1>1, <2>1, <2>2 DEF MarkComes
  <2>4. QED BY <2>3
<1>9. QED BY <1>7, <1>8

LEMMA MarkStep ==
    TypeOK /\ PlayedInv /\ TracesInv /\ MarkInv /\ [Next]_vars => MarkInv'
<1> SUFFICES ASSUME TypeOK, PlayedInv, TracesInv, MarkInv, [Next]_vars
             PROVE  MarkInv'
  OBVIOUS
<1> DEFINE f == m_sPlayData.file
           Coming == /\ MarkComes(posted, f) => MarkComes(posted', f)
                     /\ NoMarkComes(posted) => NoMarkComes(posted')
                     /\ PlayComes(posted) => PlayComes(posted')
           Playing == status' \in {"Playing", "Pause"} => status \in {"Playing", "Pause"}
<1>1. ASSUME ~OnPlayStart PROVE unmarked => unmarked'
  BY <1>1, TracesStep
<1>2. CASE Play
  <2>1. posted # <<>> /\ posted \in Seq(Message)
    BY <1>2 DEF Play, TypeOK
  <2>2. CASE Head(posted).msg = "ADD" /\ ~noMark
    <3>1. posted' = Tail(posted) /\ m_sPlayData' = m_sPlayData
      BY <1>2, <2>2 DEF Play
    <3>2. Coming
      BY <2>1, <2>2, <3>1, TailOnItsWay
    <3>3. m_sPlayMd5' = NoFile
      BY <1>2, <2>2, PlayHistory
    <3>4. Playing
      BY <1>2, <2>2 DEF Play, DoStop
    <3>5. unmarked' = unmarked
      BY <1>2 DEF Play, markVars
    <3>6. QED BY <3>1, <3>2, <3>3, <3>4, <3>5, MarkKept
  <2>3. CASE ~(Head(posted).msg = "ADD" /\ ~noMark)
    <3>1. status' = "Opening"
      BY <1>2, <2>3 DEF Play
    <3>2. QED BY <3>1, NothingToMark
  <2>4. QED BY <2>2, <2>3
<1>3. CASE OnPlayEnd \/ OnFileInvalid \/ OnBtnStop
  <2>1. status' = "Stoped"
    BY <1>3 DEF OnPlayEnd, OnFileInvalid, OnBtnStop, DoStop
  <2>2. QED BY <2>1, NothingToMark
<1>4. CASE \/ OnNextOne \/ OnLastOne \/ DoClearList \/ OnPlayPause \/ OnRedraw
           \/ OnRButtonDown
  <2>1. /\ posted # <<>> /\ Answers /\ Head(posted).msg \notin {"PLAY", "START"}
        /\ m_sPlayData' = m_sPlayData
    BY <1>4, HandlersAnswer
  <2>2. Head(posted).msg # "REDRAW_NOSORT"
    BY <1>4 DEF OnNextOne, OnLastOne, DoClearList, OnPlayPause, OnRedraw,
       OnRButtonDown, Handles
  <2>3. Coming
    BY <2>1, <2>2, AnswersKeep
  <2>4. unmarked' = unmarked
    BY <1>4 DEF OnNextOne, OnLastOne, DoClearList, OnPlayPause, OnRedraw,
       OnRButtonDown, markVars, dlgVars
  <2> DEFINE Marked == \/ m_sPlayMd5' = NoFile
                       \/ m_sPlayMd5' = m_sPlayMd5 /\ (MarkPlaced => MarkPlaced')
  <2>5. CASE OnNextOne
    <3>1. CASE Post(<<>>) /\ UNCHANGED <<m_sPlayMd5, m_nPlayingID, status>>
      <4>1. Playing /\ Marked
        BY <1>4, <2>5, <3>1 DEF OnNextOne, MarkPlaced
      <4>2. QED BY <2>1, <2>3, <2>4, <4>1, MarkKept
    <3>2. CASE \E nID : OnItemCommand(nID, Tail(posted)) /\ UNCHANGED status
      <4>1. Playing /\ Marked
        BY <3>2 DEF OnItemCommand
      <4>2. QED BY <2>1, <2>3, <2>4, <4>1, MarkKept
    <3>3. CASE DoStop(FALSE)
      BY <3>3, NothingToMark DEF DoStop
    <3>4. QED BY <2>5, <3>1, <3>2, <3>3 DEF OnNextOne
  <2>6. CASE OnLastOne
    <3>1. Playing
      BY <2>6 DEF OnLastOne, dlgVars
    <3>2. CASE UNCHANGED <<m_sPlayMd5, m_nPlayingID>>
      <4>1. Marked
        BY <2>6, <3>2 DEF OnLastOne, MarkPlaced
      <4>2. QED BY <2>1, <2>3, <2>4, <3>1, <4>1, MarkKept
    <3>3. CASE \E nID : OnItemCommand(nID, Tail(posted))
      <4>1. Marked
        BY <3>3 DEF OnItemCommand
      <4>2. QED BY <2>1, <2>3, <2>4, <3>1, <4>1, MarkKept
    <3>4. QED BY <2>6, <3>2, <3>3 DEF OnLastOne
  <2>7. CASE DoClearList
    <3>1. Playing /\ Marked
      BY <2>7 DEF DoClearList, dlgVars
    <3>2. QED BY <2>1, <2>3, <2>4, <3>1, MarkKept
  <2>8. CASE OnPlayPause
    <3>1. Tail(posted) \in Seq(Message)
      BY <2>1, TakeFirst DEF TypeOK
    <3>2. Playing
      BY <2>8, <3>1, PlayedOrPaused DEF OnPlayPause
    <3>3. Marked
      BY <2>8 DEF OnPlayPause, listVars, MarkPlaced
    <3>4. QED BY <2>1, <2>3, <2>4, <3>2, <3>3, MarkKept
  <2>9. CASE OnRedraw
    <3>1. m_sPlayMd5' = m_sPlayMd5 /\ Playing
      BY <2>9 DEF OnRedraw, dlgVars
    <3>2. MarkPlaced'
      BY <2>9, <3>1, PlacedAgain DEF OnRedraw, TypeOK
    <3>3. QED BY <2>1, <2>3, <2>4, <3>1, <3>2, MarkKept
  <2>10. CASE OnRButtonDown
    <3>1. Playing /\ Marked
      BY <2>10 DEF OnRButtonDown, dlgVars, MarkPlaced
    <3>2. QED BY <2>1, <2>3, <2>4, <3>1, MarkKept
  <2>11. QED BY <1>4, <2>5, <2>6, <2>7, <2>8, <2>9, <2>10
<1>5. CASE OnPlayStart
  BY <1>5, StartMarks
<1>6. CASE OnRedrawNoSort
  BY <1>6, MarkArrives
<1>7. CASE OnTimer
  <2>1. /\ posted' = posted /\ m_sPlayData' = m_sPlayData /\ status' = status
        /\ unmarked' = unmarked /\ m_sPlayMd5' = m_sPlayMd5
    BY <1>7 DEF OnTimer, dlgVars
  <2>2. MarkPlaced'
    BY <1>7, <2>1, PlacedAgain DEF OnTimer, TypeOK
  <2>3. QED BY <2>1, <2>2, MarkKept
<1>8. CASE User /\ ~OnBtnStop
  <2>1. /\ posted = <<>> /\ m_sPlayData' = m_sPlayData
        /\ \A i \in DOMAIN posted' : Plain(posted'[i])
    BY <1>8, UserPosts
  <2>2. Coming
    <3>1. ~MarkComes(posted, f) /\ ~PlayComes(posted)
      BY <2>1 DEF MarkComes, PlayComes
    <3>2. NoMarkComes(posted')
      BY <2>1 DEF NoMarkComes, Plain
    <3>3. QED BY <3>1, <3>2
  <2>3. unmarked => unmarked'
    BY <1>8 DEF User, OpenFiles, Buttons, OnBtnPlay, ClickItem, Settings, SelPaly,
       DelItem, ClearInvalid, Dismiss, markVars, dlgVars
  <2>4. Playing
    <3>1. CASE OnBtnPlay
      <4>1. <<>> \in Seq(Message) /\ PlayOrPause(<<>>)
        BY <3>1 DEF OnBtnPlay
      <4>2. QED BY <4>1, PlayedOrPaused
    <3>2. CASE ~OnBtnPlay
      BY <1>8, <3>2 DEF User, OpenFiles, Buttons, ClickItem, Settings, SelPaly,
         DelItem, ClearInvalid, Dismiss, dlgVars
    <3>3. QED BY <3>1, <3>2
  <2>5. CASE OpenFiles \/ Buttons \/ OnBtnPlay \/ Settings \/ Dismiss
    <3>1. m_sPlayMd5' = m_sPlayMd5 /\ (MarkPlaced => MarkPlaced')
      BY <2>5 DEF OpenFiles, Buttons, OnBtnPlay, Settings, Dismiss, MarkPlaced
    <3>2. QED BY <2>1, <2>2, <2>3, <2>4, <3>1, MarkKept
  <2>6. CASE ClickItem
    <3>1. m_sPlayMd5' = NoFile
      BY <2>6 DEF ClickItem, OnItemCommand
    <3>2. QED BY <2>1, <2>2, <2>3, <2>4, <3>1, MarkKept
  <2>7. CASE SelPaly
    <3>1. CASE m_nSelID \in DOMAIN items /\ m_nPlayingID # m_nSelID
      <4>1. posted' = <<Msg("PLAY", items[m_nSelID])>>
        BY <2>7, <3>1 DEF SelPaly
      <4>2. PlayComes(posted')
        BY <4>1 DEF PlayComes, Msg
      <4>3. QED BY <2>1, <2>2, <2>3, <2>4, <4>2, MarkKept
    <3>2. CASE ~(m_nSelID \in DOMAIN items /\ m_nPlayingID # m_nSelID)
      <4>1. m_sPlayMd5' = m_sPlayMd5 /\ (MarkPlaced => MarkPlaced')
        BY <2>7, <3>2 DEF SelPaly, MarkPlaced
      <4>2. QED BY <2>1, <2>2, <2>3, <2>4, <4>1, MarkKept
    <3>3. QED BY <3>1, <3>2
  <2>8. CASE DelItem
    <3>1. CASE m_nSelID \notin DOMAIN items
      <4>1. m_sPlayMd5' = m_sPlayMd5 /\ (MarkPlaced => MarkPlaced')
        BY <2>8, <3>1 DEF DelItem, MarkPlaced
      <4>2. QED BY <2>1, <2>2, <2>3, <2>4, <4>1, MarkKept
    <3>2. CASE m_nSelID \in DOMAIN items
      <4>1. /\ m_sPlayMd5' \in {m_sPlayMd5, NoFile}
            /\ LocalFileList' = Without(LocalFileList, {items[m_nSelID]})
            /\ \E old \in Nat : ReListWnd(LocalFileList', m_sPlayMd5', old)
        BY <2>8, <3>2 DEF DelItem, TypeOK
      <4>2. IsList(LocalFileList')
        BY <4>1, WithoutIsList DEF TypeOK
      <4>3. MarkPlaced'
        BY <4>1, <4>2, PlacedAgain
      <4>4. QED BY <2>1, <2>2, <2>3, <2>4, <4>1, <4>3, MarkKept
    <3>3. QED BY <3>1, <3>2
  <2>9. CASE ClearInvalid
    <3>1. /\ m_sPlayMd5' = m_sPlayMd5
          /\ LocalFileList' = Without(LocalFileList, Unseen)
          /\ ReListWnd(LocalFileList', m_sPlayMd5', m_nPlayingID)
      BY <2>9 DEF ClearInvalid
    <3>2. IsList(LocalFileList')
      BY <3>1, WithoutIsList DEF TypeOK
    <3>3. MarkPlaced'
      BY <3>1, <3>2, PlacedAgain DEF TypeOK
    <3>4. QED BY <2>1, <2>2, <2>3, <2>4, <3>1, <3>3, MarkKept
  <2>10. QED BY <1>8, <2>5, <2>6, <2>7, <2>8, <2>9 DEF User
<1>9. CASE Starts \/ Ends
  <2>1. /\ m_sPlayData' = m_sPlayData /\ status' = status /\ unmarked' = unmarked
        /\ m_sPlayMd5' = m_sPlayMd5 /\ (MarkPlaced => MarkPlaced')
    BY <1>9 DEF Starts, Ends, dlgVars, listVars, MarkPlaced
  <2>2. PICK m \in {"FILE_INVALID", "START", "END"} :
           posted' = Append(posted, Msg(m, NoFile))
    BY <1>9 DEF Starts, Ends
  <2>3. Msg(m, NoFile) \in Message /\ Msg(m, NoFile).msg # "REDRAW_NOSORT"
    BY ToPost
  <2>4. Coming
    BY <2>2, <2>3, AppendOnItsWay DEF TypeOK
  <2>5. QED BY <2>1, <2>4, MarkKept
<1>10. CASE UNCHANGED vars
  <2>1. /\ m_sPlayData' = m_sPlayData /\ status' = status /\ unmarked' = unmarked
        /\ m_sPlayMd5' = m_sPlayMd5 /\ posted' = posted
        /\ (MarkPlaced => MarkPlaced')
    BY <1>10 DEF vars, dlgVars, listVars, MarkPlaced
  <2>2. QED BY <2>1, MarkKept
<1>11. QED
  BY <1>2, <1>3, <1>4, <1>5, <1>6, <1>7, <1>8, <1>9, <1>10 DEF Next, Handler, User

-----------------------------------------------------------------------------
(* The theorems.                                                            *)

LEMMA Initially == Init => IInv
<1> SUFFICES ASSUME Init PROVE IInv
  OBVIOUS
<1>1. IsList(Stored) /\ <<>> \in Seq(Message)
  BY DEF IsList
<1>2. TypeOK
  <2>1. IsList(LocalFileList) /\ IsList(items) /\ posted \in Seq(Message)
    BY <1>1 DEF Init
  <2>2. /\ playOrder \in Orders /\ noMark \in BOOLEAN /\ reload \in BOOLEAN
        /\ m_bNoMark \in BOOLEAN /\ unmarked \in BOOLEAN
    BY DEF Init
  <2>3. m_nPlayingID \in Nat /\ m_nSelID \in Nat /\ inputs \in 0 .. MaxInputs
    BY ListAssumption DEF Init
  <2>4. /\ m_sPlayMd5 \in Files \cup {NoFile}
        /\ m_sPlayData \in [file : Files \cup {NoFile},
                            signal : {"none", "PLAY", "OPEN", "ADD"}]
        /\ status \in {"Init", "Opening", "Playing", "Pause", "Stoped"}
        /\ player \in {"idle", "opening", "playing"}
    BY DEF Init
  <2>5. QED BY <2>1, <2>2, <2>3, <2>4 DEF TypeOK
<1>3. Shown \subseteq Kept
  BY DEF Init, Shown, Kept
<1>4. PlayedInv
  BY DEF Init, PlayedInv, Named, StartComes
<1>5. TracesInv /\ MarkInv
  BY DEF Init, TracesInv, MarkInv
<1>6. QED BY <1>2, <1>3, <1>4, <1>5 DEF IInv, ItemsStored

LEMMA InductiveStep == IInv /\ [Next]_vars => IInv'
BY StoredStep, PlayedStep, TracesStep, MarkStep DEF IInv, ItemsStored

\* What the list window, the dialog and the queue know of one another holds in
\* every state, whatever is stored, opened, deleted or clicked, and however often.
THEOREM ListInvariant == Spec => []IInv
<1>1. QED BY Initially, InductiveStep, PTL DEF Spec

\* Every item shown is a row of the table, so SelectPath finds a path for it.
THEOREM ItemsAreStored == Spec => []ItemsStored
<1>1. IInv => ItemsStored
  BY DEF IInv
<1>2. QED BY <1>1, ListInvariant, PTL

\* While a file plays with traces kept, the file to mark, if there is one, is
\* that file, and its item is the marked one wherever it has moved.
THEOREM MarkFollowsFile == Spec => []MarkAgrees
<1>1. IInv => MarkAgrees
  <2> SUFFICES ASSUME IInv, Settled, m_sPlayMd5 # NoFile, ~unmarked
               PROVE  m_sPlayMd5 = m_sPlayData.file /\ MarkPlaced
    BY DEF MarkAgrees, MarkPlaced
  <2>1. ~MarkComes(posted, m_sPlayData.file) /\ ~PlayComes(posted)
    BY DEF Settled, MarkComes, PlayComes
  <2>2. QED BY <2>1 DEF IInv, MarkInv, Settled
<1>2. QED BY <1>1, ListInvariant, PTL

=============================================================================
