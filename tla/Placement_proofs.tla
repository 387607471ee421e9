-------------------------- MODULE Placement_proofs --------------------------
(* Proofs about Placement, for any students, campuses, batches, requests,   *)
(* days and environments: that columns and histories agree, that an import  *)
(* archives nobody its roster names, and that the histories keep what they  *)
(* said of past days.                                                       *)
EXTENDS Placement, SequenceTheorems, WellFoundedInduction, TLAPS

-----------------------------------------------------------------------------
(* What a history answers: the row that is newest on the day.              *)

LEMMA LastIndexExists ==
  ASSUME NEW n \in Nat, NEW S \in SUBSET (1..n), S # {}
  PROVE  \E i \in S : \A j \in S : j <= i
<1> DEFINE T == {n - i : i \in S}
           R == OpToRel(<, Nat)
<1>1. T \subseteq Nat /\ T # {}
  <2>1. \A i \in S : i \in Nat /\ n - i \in Nat
    OBVIOUS
  <2>2. PICK i \in S : TRUE
    OBVIOUS
  <2>3. n - i \in T
    OBVIOUS
  <2> QED BY <2>1, <2>3
<1>2. \E x \in T : \A y \in T : ~ (<<y, x>> \in R)
  <2> HIDE DEF T
  <2> QED BY <1>1, NatLessThanWellFounded, WFMin
<1>3. PICK x \in T : \A y \in T : ~ (<<y, x>> \in R)
  BY <1>2
<1>4. PICK i \in S : x = n - i
  BY <1>3
<1>5. \A y \in T : ~ (y < x)
  BY <1>1, <1>3 DEF OpToRel
<1>6. ASSUME NEW j \in S PROVE j <= i
  <2>1. n - j \in T
    OBVIOUS
  <2>2. ~ (n - j < x)
    BY <1>5, <2>1
  <2> QED BY <1>4, <2>2
<1> QED BY <1>6

LEMMA RowTypes ==
  ASSUME NEW H, NEW rows \in Rows(H)
  PROVE  /\ Len(rows) \in Nat /\ DOMAIN rows = 1..Len(rows)
         /\ \A i \in DOMAIN rows : /\ rows[i].to \in H \cup {None}
                                   /\ rows[i].day \in 1..LastDay /\ rows[i].day \in Nat
<1>1. Len(rows) \in Nat /\ DOMAIN rows = 1..Len(rows)
  BY DEF Rows
<1>2. ASSUME NEW i \in DOMAIN rows PROVE rows[i] \in [to : H \cup {None}, day : Days]
  BY <1>1, ElementOfSeq DEF Rows
<1>3. Days \subseteq Nat
  BY PlacementAssumption DEF Days
<1> QED BY <1>1, <1>2, <1>3 DEF Days

(* Row i is the newest on a day: effective by it, no other is effective    *)
(* later, and of those of one day it was recorded last.                    *)
Due(rows, day, i) == i \in DOMAIN rows /\ rows[i].day <= day
Newest(rows, day, i) ==
    /\ Due(rows, day, i)
    /\ \A j \in DOMAIN rows : Due(rows, day, j) =>
          \/ rows[j].day < rows[i].day
          \/ rows[j].day = rows[i].day /\ j <= i

LEMMA NewestAnswers ==
  ASSUME NEW H, NEW rows \in Rows(H), NEW day \in Nat, NEW i, Newest(rows, day, i)
  PROVE  ResolveOnDay(rows, day) = rows[i].to
<1> DEFINE due == {k \in DOMAIN rows : rows[k].day <= day}
           newest == {k \in due : \A j \in due : rows[j].day <= rows[k].day}
<1>1. DOMAIN rows = 1..Len(rows) /\ Len(rows) \in Nat
  BY RowTypes
<1>2. \A k \in DOMAIN rows : rows[k].day \in Nat
  BY RowTypes
<1>3. i \in newest
  BY <1>1, <1>2 DEF Newest, Due
<1>4. ASSUME NEW k \in newest PROVE k <= i /\ k \in Nat
  BY <1>1, <1>2, <1>3 DEF Newest, Due
<1>5. Max(newest) = i
  <2> HIDE DEF newest
  <2> QED BY <1>1, <1>3, <1>4 DEF Max
<1> QED BY <1>3, <1>5 DEF ResolveOnDay

LEMMA NoneDueAnswers ==
  ASSUME NEW rows, NEW day, \A i \in DOMAIN rows : ~ Due(rows, day, i)
  PROVE  ResolveOnDay(rows, day) = None
  BY DEF ResolveOnDay, Due

LEMMA NewestExists ==
  ASSUME NEW H, NEW rows \in Rows(H), NEW day \in Nat, NEW k \in DOMAIN rows, Due(rows, day, k)
  PROVE  \E i \in DOMAIN rows : Newest(rows, day, i)
<1> DEFINE due == {i \in DOMAIN rows : rows[i].day <= day}
           days == {rows[i].day : i \in due}
<1>1. DOMAIN rows = 1..Len(rows) /\ Len(rows) \in Nat
  BY RowTypes
<1>2. \A i \in DOMAIN rows : rows[i].day \in 1..LastDay /\ LastDay \in Nat
  BY RowTypes, PlacementAssumption
<1>3. k \in due
  BY DEF Due
<1>4. days \in SUBSET (1..LastDay) /\ days # {} /\ LastDay \in Nat
  BY <1>2, <1>3
<1>5. PICK d \in days : \A e \in days : e <= d
  BY <1>4, LastIndexExists
<1> DEFINE S == {i \in due : rows[i].day = d}
<1>6. S \in SUBSET (1..Len(rows)) /\ S # {} /\ Len(rows) \in Nat
  BY <1>1, <1>5
<1>7. PICK i \in S : \A j \in S : j <= i
  BY <1>6, LastIndexExists
<1>8. ASSUME NEW j \in DOMAIN rows, Due(rows, day, j)
      PROVE  rows[j].day < rows[i].day \/ (rows[j].day = rows[i].day /\ j <= i)
  <2>1. j \in due /\ rows[j].day \in days
    BY <1>8 DEF Due
  <2>2. rows[j].day <= rows[i].day
    BY <2>1, <1>5, <1>7
  <2>3. rows[j].day = rows[i].day => j <= i
    BY <2>1, <1>7
  <2> QED BY <2>2, <2>3, <1>2
<1> QED BY <1>7, <1>8 DEF Newest, Due

LEMMA AnswerTyped ==
  ASSUME NEW H, NEW rows \in Rows(H), NEW day \in Nat
  PROVE  ResolveOnDay(rows, day) \in H \cup {None}
<1>1. CASE \E k \in DOMAIN rows : Due(rows, day, k)
  <2>1. PICK i \in DOMAIN rows : Newest(rows, day, i)
    BY <1>1, NewestExists
  <2> QED BY <2>1, NewestAnswers, RowTypes
<1>2. CASE \A k \in DOMAIN rows : ~ Due(rows, day, k)
  BY <1>2, NoneDueAnswers
<1> QED BY <1>1, <1>2

LEMMA EmptyAnswers ==
  ASSUME NEW day
  PROVE  ResolveOnDay(<<>>, day) = None
<1>1. \A i \in DOMAIN <<>> : ~ Due(<<>>, day, i)
  OBVIOUS
<1> QED BY <1>1, NoneDueAnswers

(* A row added at the end answers from its day on, when none is of a later *)
(* day; before its day nothing changes.                                    *)
LEMMA AddedRow ==
  ASSUME NEW H, NEW rows \in Rows(H), NEW row \in [to : H \cup {None}, day : Days]
  PROVE  /\ rows \o <<row>> \in Rows(H) /\ Append(rows, row) = rows \o <<row>>
         /\ Len(rows \o <<row>>) = Len(rows) + 1
         /\ DOMAIN (rows \o <<row>>) = 1..(Len(rows) + 1)
         /\ \A i \in 1..(Len(rows) + 1) :
               (rows \o <<row>>)[i] = IF i = Len(rows) + 1 THEN row ELSE rows[i]
<1> DEFINE S == [to : H \cup {None}, day : Days]
<1>1. rows \in Seq(S) /\ <<row>> \in Seq(S) /\ Len(<<row>>) = 1 /\ <<row>>[1] = row
  BY DEF Rows
<1>2. Append(rows, row) = rows \o <<row>>
  BY <1>1, AppendIsConcat
<1>3. Append(rows, row) \in Seq(S) /\ Len(Append(rows, row)) = Len(rows) + 1
  BY <1>1
<1>4. \A i \in 1..(Len(rows) + 1) :
         Append(rows, row)[i] = IF i = Len(rows) + 1 THEN row ELSE rows[i]
  BY <1>1
<1> QED BY <1>2, <1>3, <1>4 DEF Rows

LEMMA AddedAnswers ==
  ASSUME NEW H, NEW rows \in Rows(H), NEW row \in [to : H \cup {None}, day : Days],
         NEW day \in Nat, row.day <= day, \A i \in DOMAIN rows : rows[i].day <= row.day
  PROVE  ResolveOnDay(rows \o <<row>>, day) = row.to
<1> DEFINE all == rows \o <<row>>
           n == Len(rows) + 1
<1>1. all \in Rows(H) /\ DOMAIN all = 1..n /\ all[n] = row /\ n \in DOMAIN all /\ n \in Nat
  BY AddedRow, RowTypes
<1>2. \A i \in DOMAIN all : i <= n /\ all[i].day <= row.day /\ all[i].day \in Nat
  <2>1. \A i \in DOMAIN all : i \in 1..n /\ (i # n => i \in DOMAIN rows /\ all[i] = rows[i])
    BY AddedRow, RowTypes
  <2>2. row.day \in Nat
    BY PlacementAssumption DEF Days
  <2>3. \A i \in DOMAIN rows : rows[i].day \in Nat
    BY RowTypes
  <2> HIDE DEF all, n
  <2> QED BY <2>1, <2>2, <2>3, <1>1
<1> HIDE DEF all, n
<1>3. Newest(all, day, n)
  BY <1>1, <1>2 DEF Newest, Due
<1>4. ResolveOnDay(all, day) = all[n].to
  BY <1>1, <1>3, NewestAnswers
<1> QED BY <1>1, <1>4 DEF all

LEMMA AddedLater ==
  ASSUME NEW H, NEW rows \in Rows(H), NEW row \in [to : H \cup {None}, day : Days],
         NEW day \in Nat, day < row.day
  PROVE  ResolveOnDay(rows \o <<row>>, day) = ResolveOnDay(rows, day)
<1> DEFINE all == rows \o <<row>>
           n == Len(rows) + 1
<1>1. all \in Rows(H) /\ DOMAIN all = 1..n /\ all[n] = row /\ DOMAIN rows = 1..Len(rows)
  BY AddedRow, RowTypes
<1>2. \A i \in DOMAIN all : ~ (all[i].day <= day) \/ (i \in DOMAIN rows /\ all[i] = rows[i])
  <2>1. row.day \in Nat
    BY PlacementAssumption DEF Days
  <2> QED BY <2>1, AddedRow, RowTypes
<1>3. \A i \in DOMAIN rows : i \in DOMAIN all /\ all[i] = rows[i]
  BY AddedRow, RowTypes
<1> HIDE DEF all, n
<1>4. \A i : Due(all, day, i) <=> Due(rows, day, i)
  BY <1>2, <1>3 DEF Due
<1>5. ResolveOnDay(all, day) = ResolveOnDay(rows, day)
  <2>1. CASE \E k \in DOMAIN rows : Due(rows, day, k)
    <3>1. PICK i \in DOMAIN rows : Newest(rows, day, i)
      BY <2>1, NewestExists
    <3>2. Newest(all, day, i)
      BY <3>1, <1>3, <1>4 DEF Newest, Due
    <3>3. ResolveOnDay(rows, day) = rows[i].to
      BY <3>1, NewestAnswers
    <3>4. ResolveOnDay(all, day) = all[i].to
      BY <3>2, <1>1, NewestAnswers
    <3> QED BY <3>1, <3>3, <3>4, <1>3
  <2>2. CASE \A k \in DOMAIN rows : ~ Due(rows, day, k)
    <3>1. \A k \in DOMAIN all : ~ Due(all, day, k)
      BY <1>4, <2>2 DEF Due
    <3> QED BY <3>1, <2>2, NoneDueAnswers
  <2> QED BY <2>1, <2>2
<1> QED BY <1>5 DEF all

(* When all rows are of days so far, a day to come answers as today.       *)
LEMMA LaterAnswers ==
  ASSUME NEW H, NEW rows \in Rows(H), NEW day \in Nat, NEW later \in Nat, day <= later,
         \A i \in DOMAIN rows : rows[i].day <= day
  PROVE  ResolveOnDay(rows, later) = ResolveOnDay(rows, day)
<1>1. \A i \in DOMAIN rows : Due(rows, day, i) /\ Due(rows, later, i)
  BY RowTypes DEF Due
<1>2. CASE \E k : k \in DOMAIN rows
  <2>1. PICK i \in DOMAIN rows : Newest(rows, day, i)
    BY <1>1, <1>2, NewestExists
  <2>2. Newest(rows, later, i)
    BY <2>1, <1>1 DEF Newest
  <2> QED BY <2>1, <2>2, NewestAnswers
<1>3. CASE ~ \E k : k \in DOMAIN rows
  BY <1>3, NoneDueAnswers DEF Due
<1> QED BY <1>2, <1>3

(* A home that is deleted is forgotten on every day.                       *)
Forgotten(rows, b) == [i \in DOMAIN rows |-> IF rows[i].to = b THEN Row(None, rows[i].day) ELSE rows[i]]

LEMMA ForgottenAnswers ==
  ASSUME NEW H, NEW rows \in Rows(H), NEW day \in Nat, NEW b \in H, b # None
  PROVE  /\ Forgotten(rows, b) \in Rows(H)
         /\ Len(Forgotten(rows, b)) = Len(rows) /\ DOMAIN Forgotten(rows, b) = DOMAIN rows
         /\ \A i \in DOMAIN rows : Forgotten(rows, b)[i].day = rows[i].day
         /\ ResolveOnDay(Forgotten(rows, b), day) =
               IF ResolveOnDay(rows, day) = b THEN None ELSE ResolveOnDay(rows, day)
<1> DEFINE left == Forgotten(rows, b)
<1>1. DOMAIN left = 1..Len(rows) /\ DOMAIN rows = 1..Len(rows) /\ Len(rows) \in Nat
  BY RowTypes DEF Forgotten
<1>2. \A i \in DOMAIN rows : /\ left[i] \in [to : H \cup {None}, day : Days]
                             /\ left[i].day = rows[i].day
                             /\ left[i].to = IF rows[i].to = b THEN None ELSE rows[i].to
  <2>1. \A i \in DOMAIN rows : rows[i] \in [to : H \cup {None}, day : Days]
    BY <1>1, ElementOfSeq DEF Rows
  <2> QED BY <2>1 DEF Forgotten, Row
<1>3. left \in Rows(H) /\ Len(left) = Len(rows)
  <2>1. left = [i \in 1..Len(rows) |-> left[i]]
    BY <1>1 DEF Forgotten
  <2>2. left \in [1..Len(rows) -> [to : H \cup {None}, day : Days]]
    BY <2>1, <1>1, <1>2
  <2> HIDE DEF left
  <2> QED BY <2>2, <1>1, SeqDef, LenProperties DEF Rows
<1>4. ResolveOnDay(left, day) = IF ResolveOnDay(rows, day) = b THEN None ELSE ResolveOnDay(rows, day)
  <2> HIDE DEF left
  <2>1. \A i : Due(left, day, i) <=> Due(rows, day, i)
    BY <1>1, <1>2 DEF Due
  <2>2. CASE \E k \in DOMAIN rows : Due(rows, day, k)
    <3>1. PICK i \in DOMAIN rows : Newest(rows, day, i)
      BY <2>2, NewestExists
    <3>2. Newest(left, day, i)
      BY <3>1, <2>1, <1>1, <1>2 DEF Newest
    <3>3. ResolveOnDay(rows, day) = rows[i].to /\ ResolveOnDay(left, day) = left[i].to
      BY <3>1, <3>2, <1>1, <1>3, NewestAnswers
    <3> QED BY <3>3, <1>2
  <2>3. CASE \A k \in DOMAIN rows : ~ Due(rows, day, k)
    <3>1. ResolveOnDay(rows, day) = None /\ ResolveOnDay(left, day) = None
      BY <2>1, <2>3, <1>1, NoneDueAnswers
    <3> QED BY <3>1
  <2> QED BY <2>2, <2>3
<1> QED BY <1>1, <1>2, <1>3, <1>4

LEMMA ForgottenEmpty ==
  ASSUME NEW H, NEW rows \in Rows(H), NEW b \in H, b # None
  PROVE  Forgotten(rows, b) = <<>> <=> rows = <<>>
<1>1. Forgotten(rows, b) \in Rows(H) /\ Len(Forgotten(rows, b)) = Len(rows)
  BY ForgottenAnswers, 1 \in Nat
<1>2. Len(rows) = 0 <=> rows = <<>>
  BY EmptySeq DEF Rows
<1>3. Len(Forgotten(rows, b)) = 0 <=> Forgotten(rows, b) = <<>>
  BY <1>1, EmptySeq DEF Rows
<1> QED BY <1>1, <1>2, <1>3

-----------------------------------------------------------------------------
(* Typing.                                                                 *)

LEMMA GotoStep ==
  ASSUME DOMAIN req = Requests, NEW r \in Requests, NEW x, Goto(r, x)
  PROVE  /\ DOMAIN req' = Requests /\ req'[r] = x
         /\ \A q \in Requests : q # r => req'[q] = req[q]
  BY DEF Goto

(* What each kind of request holds.                                        *)
LEMMA Held ==
  ASSUME TypeOK, NEW r \in Requests
  PROVE  /\ At(r, "date") =>
              req[r] \in [pc : {"date"}, student : Students, campus : Column(Campuses),
                          batch : Column(Batches), seen : StudentRows]
         /\ At(r, "write") => req[r] \in [pc : {"write"}, student : Students, write : Writes]
         /\ At(r, "bulkWrite") \/ At(r, "bulkDate") =>
              \E S \in SUBSET Students :
                 req[r] \in [pc : {"bulkWrite", "bulkDate"}, batch : Batches \cup {None}, seen : [S -> StudentRows]]
         /\ At(r, "bulkRows") =>
              \E S \in SUBSET Students :
                 req[r] \in [pc : {"bulkRows"}, batch : Batches \cup {None}, days : [S -> Days]]
         /\ At(r, "archive") \/ At(r, "delete") => req[r] \in [pc : {"archive", "delete"}, student : Students]
         /\ At(r, "find") \/ At(r, "createRow") => DOMAIN req[r] = ImportFields /\ Importing(req[r])
         /\ At(r, "dateRow") =>
              /\ DOMAIN req[r] = ImportFields \cup {"student", "seen"} /\ Importing(req[r])
              /\ req[r].student \in Students /\ req[r].seen \in StudentRows
         /\ At(r, "writeRow") =>
              /\ DOMAIN req[r] = ImportFields \cup {"student", "seen", "write"} /\ Importing(req[r])
              /\ req[r].student \in Students /\ req[r].seen \in StudentRows /\ req[r].write \in Writes
         /\ At(r, "archiveAbsent") =>
              req[r] \in [pc : {"archiveAbsent"}, absent : SUBSET Students, named : SUBSET Students]
<1>1. RequestOK(req[r])
  BY DEF TypeOK
<1> QED BY <1>1 DEF RequestOK, At, Idle

LEMMA PresentTyped ==
  ASSUME TypeOK, NEW s \in Students
  PROVE  /\ Present(s) => student[s] \in StudentRows
         /\ ~ Present(s) => student[s] = NoStudent
         /\ student[s].batch \in Batches \cup {None} /\ student[s].campus \in Campuses \cup {None}
  BY DEF TypeOK, Present, StudentRows, NoStudent

LEMMA EffectiveDayTyped ==
  ASSUME TypeOK, NEW rows, NEW enrolled \in Days
  PROVE  EffectiveDay(rows, enrolled) \in Days
  BY DEF EffectiveDay, TypeOK

LEMMA EntryTyped ==
  ASSUME TypeOK, NEW q, Importing(q), q.left # <<>>
  PROVE  /\ Head(q.left) \in Entries /\ Tail(q.left) \in Seq(Entries)
         /\ q.roster.campus \in Campuses /\ q.roster.archive \in BOOLEAN /\ q.roster.overwrite \in BOOLEAN
<1>1. q.roster \in env.rosters /\ q.left \in Seq(Entries)
  BY DEF Importing
<1>2. Head(q.left) \in Entries /\ Tail(q.left) \in Seq(Entries)
  BY <1>1
<1>3. q.roster \in [campus : Campuses, overwrite : BOOLEAN, archive : BOOLEAN, rows : Seq(Entries)]
  BY <1>1, PlacementAssumption DEF TypeOK
<1> QED BY <1>2, <1>3

RequestsOK == DOMAIN req = Requests /\ \A r \in Requests : RequestOK(req[r])

LEMMA RequestsTyped ==
  ASSUME TypeOK, NEW r \in Requests, NEW x, Goto(r, x), RequestOK(x), UNCHANGED env
  PROVE  RequestsOK'
<1>1. ASSUME NEW q \in Requests PROVE RequestOK(req[q])'
  <2>1. RequestOK(req[q]) /\ req'[r] = x /\ (q # r => req'[q] = req[q])
    BY GotoStep DEF TypeOK
  <2>2. RequestOK(req'[q])
    BY <2>1, <1>1
  <2> QED BY <2>2 DEF RequestOK, Importing
<1> QED BY <1>1, GotoStep DEF RequestsOK, TypeOK

LEMMA IdleTyped == RequestOK(Idle)
  BY DEF RequestOK

LEMMA ColumnTyped ==
  ASSUME NEW H, NEW column \in Column(H), NEW old \in H \cup {None}
  PROVE  /\ Given(column, old) \in H \cup {None}
         /\ column # <<>> => column[1] \in H \cup {None}
  BY DEF Column, Given

LEMMA OneRowTyped ==
  ASSUME NEW H, NEW h \in H \cup {None}, NEW d \in Days
  PROVE  Row(h, d) \in [to : H \cup {None}, day : Days] /\ <<Row(h, d)>> \in Rows(H) /\ <<>> \in Rows(H)
<1>1. Row(h, d) \in [to : H \cup {None}, day : Days]
  BY DEF Row
<1> QED BY <1>1 DEF Rows

(* The steps that write nothing but the request.                           *)
LEMMA DatePlacementTyped ==
  ASSUME TypeOK, NEW r \in Requests, DatePlacement(r)
  PROVE  TypeOK'
<1> DEFINE q == req[r]
           campusRow == IF Changed(q.campus, q.seen.campus) THEN <<Row(q.campus[1], today)>> ELSE <<>>
           day == EffectiveDay(batchRows[q.student], q.seen.enrolled)
           batchRow == IF Changed(q.batch, q.seen.batch) THEN <<Row(q.batch[1], day)>> ELSE <<>>
           w == [campus |-> q.campus, batch |-> q.batch, campusRow |-> campusRow, batchRow |-> batchRow]
           x == [pc |-> "write", student |-> q.student, write |-> w]
<1>1. q \in [pc : {"date"}, student : Students, campus : Column(Campuses), batch : Column(Batches),
            seen : StudentRows]
  BY Held DEF DatePlacement
<1>2. today \in Days /\ day \in Days
  BY <1>1, EffectiveDayTyped DEF TypeOK, StudentRows
<1>3. campusRow \in Rows(Campuses) /\ batchRow \in Rows(Batches)
  <2> HIDE DEF day
  <2>1. q.campus \in Column(Campuses) /\ q.batch \in Column(Batches)
    BY <1>1
  <2>2. q.campus # <<>> => q.campus[1] \in Campuses \cup {None}
    BY <2>1 DEF Column
  <2>3. q.batch # <<>> => q.batch[1] \in Batches \cup {None}
    BY <2>1 DEF Column
  <2> QED BY <2>2, <2>3, <1>2, OneRowTyped DEF Changed
<1>4. RequestOK(x)
  <2>1. w \in Writes
    BY <1>1, <1>3 DEF Writes
  <2>2. x \in [pc : {"write"}, student : Students, write : Writes]
    BY <1>1, <2>1
  <2> HIDE DEF x
  <2> QED BY <2>2 DEF RequestOK
<1>5. Goto(r, x) /\ UNCHANGED <<world, placement, made, droppedBy>>
  BY DEF DatePlacement
<1> HIDE DEF x
<1>6. RequestsOK'
  BY <1>4, <1>5, RequestsTyped DEF world
<1> QED BY <1>5, <1>6 DEF TypeOK, RequestsOK, world, placement

LEMMA ReadTyped ==
  ASSUME TypeOK, NEW r \in Requests, NEW x, Goto(r, x), RequestOK(x),
         UNCHANGED <<world, placement, droppedBy>>, made' \in 0..MaxRequests
  PROVE  TypeOK'
<1>1. RequestsOK'
  BY RequestsTyped DEF world
<1> QED BY <1>1 DEF TypeOK, RequestsOK, world, placement

LEMMA MadeTyped ==
  ASSUME TypeOK
  PROVE  /\ made < MaxRequests => made + 1 \in 0..MaxRequests
         /\ \A r, route : MayStart(r, route) => made < MaxRequests
  BY PlacementAssumption DEF TypeOK, MayStart

LEMMA ReadForMoveTyped ==
  ASSUME TypeOK, NEW r \in Requests, NEW s \in Students, NEW b \in Batches, ReadForMove(r, s, b)
  PROVE  TypeOK'
<1> DEFINE x == [pc |-> "date", student |-> s, campus |-> <<>>, batch |-> <<b>>, seen |-> student[s]]
<1>1. /\ Goto(r, x) /\ made' = made + 1 /\ made < MaxRequests /\ Present(s)
      /\ UNCHANGED <<world, placement, droppedBy>>
  BY DEF ReadForMove, Start, MayStart
<1>2. <<b>> \in Column(Batches) /\ <<>> \in Column(Campuses)
  BY DEF Column
<1>3. RequestOK(x)
  BY <1>1, <1>2, PresentTyped DEF RequestOK
<1> HIDE DEF x
<1> QED BY <1>1, <1>3, MadeTyped, ReadTyped

LEMMA ReadForUpdateTyped ==
  ASSUME TypeOK, NEW r \in Requests, NEW s \in Students, NEW c \in Column(Campuses), NEW b \in Column(Batches),
         ReadForUpdate(r, s, c, b)
  PROVE  TypeOK'
<1> DEFINE x == [pc |-> "date", student |-> s, campus |-> c, batch |-> b, seen |-> student[s]]
<1>1. /\ Goto(r, x) /\ made' = made + 1 /\ made < MaxRequests /\ Present(s)
      /\ UNCHANGED <<world, placement, droppedBy>>
  BY DEF ReadForUpdate, Start, MayStart
<1>2. RequestOK(x)
  BY <1>1, PresentTyped DEF RequestOK
<1> HIDE DEF x
<1> QED BY <1>1, <1>2, MadeTyped, ReadTyped

LEMMA ReadForTransferTyped ==
  ASSUME TypeOK, NEW r \in Requests, NEW s \in Students, NEW c \in Campuses, NEW b \in Batches \cup {None},
         ReadForTransfer(r, s, c, b)
  PROVE  TypeOK'
<1> DEFINE campusRow == IF student[s].campus # c THEN <<Row(c, today)>> ELSE <<>>
           batchRow == IF student[s].batch # b THEN <<Row(b, today)>> ELSE <<>>
           w == [campus |-> <<c>>, batch |-> <<b>>, campusRow |-> campusRow, batchRow |-> batchRow]
           x == [pc |-> "write", student |-> s, write |-> w]
<1>1. /\ Goto(r, x) /\ made' = made + 1 /\ made < MaxRequests /\ Present(s)
      /\ UNCHANGED <<world, placement, droppedBy>>
  BY DEF ReadForTransfer, Start, MayStart
<1>2. campusRow \in Rows(Campuses) /\ batchRow \in Rows(Batches)
  BY OneRowTyped DEF TypeOK
<1>3. w \in Writes
  BY <1>2 DEF Writes, Column
<1>4. RequestOK(x)
  BY <1>3 DEF RequestOK
<1> HIDE DEF x
<1> QED BY <1>1, <1>4, MadeTyped, ReadTyped

LEMMA BulkReadTyped ==
  ASSUME TypeOK, NEW r \in Requests, NEW S \in SUBSET Students, NEW b \in Batches \cup {None}, BulkRead(r, S, b)
  PROVE  TypeOK'
<1> DEFINE seen == [s \in S |-> student[s]]
           x == [pc |-> "bulkWrite", batch |-> b, seen |-> seen]
<1>1. /\ Goto(r, x) /\ made' = made + 1 /\ made < MaxRequests /\ \A s \in S : Present(s)
      /\ UNCHANGED <<world, placement, droppedBy>>
  BY DEF BulkRead, Start, MayStart
<1>2. seen \in [S -> StudentRows]
  BY <1>1, PresentTyped
<1>3. RequestOK(x)
  BY <1>2 DEF RequestOK
<1> HIDE DEF x
<1> QED BY <1>1, <1>3, MadeTyped, ReadTyped

LEMMA ReadForRemoveTyped ==
  ASSUME TypeOK, NEW r \in Requests, NEW s \in Students, NEW done \in BOOLEAN, ReadForRemove(r, s, done)
  PROVE  TypeOK'
<1> DEFINE x == [pc |-> IF done \/ batchRows[s] # <<>> THEN "archive" ELSE "delete", student |-> s]
<1>1. /\ Goto(r, x) /\ made' = made + 1 /\ made < MaxRequests
      /\ UNCHANGED <<world, placement, droppedBy>>
  BY DEF ReadForRemove, Start, MayStart
<1>2. RequestOK(x)
  BY DEF RequestOK
<1> HIDE DEF x
<1> QED BY <1>1, <1>2, MadeTyped, ReadTyped

LEMMA ReadRosterTyped ==
  ASSUME TypeOK, NEW r \in Requests, NEW roster \in env.rosters, ReadRoster(r, roster)
  PROVE  TypeOK'
<1> DEFINE x == [pc |-> "find", roster |-> roster, left |-> roster.rows, onRoster |-> {}, ok |-> TRUE]
<1>1. /\ Goto(r, x) /\ made' = made + 1 /\ made < MaxRequests
      /\ UNCHANGED <<world, placement, droppedBy>>
  BY DEF ReadRoster, Start, MayStart
<1>2. roster.rows \in Seq(Entries)
  BY PlacementAssumption DEF TypeOK
<1>3. RequestOK(x)
  <2>1. Importing(x) /\ DOMAIN x = ImportFields /\ x.pc = "find"
    BY <1>2 DEF Importing, ImportFields
  <2> HIDE DEF x
  <2> QED BY <2>1 DEF RequestOK
<1> HIDE DEF x
<1> QED BY <1>1, <1>3, MadeTyped, ReadTyped

LEMMA NextRowTyped ==
  ASSUME TypeOK, NEW q, Importing(q), q.left # <<>>, NEW named \in SUBSET Students, NEW saved \in BOOLEAN
  PROVE  RequestOK(NextRow(q, named, saved))
<1> DEFINE x == NextRow(q, named, saved)
<1>1. Importing(x) /\ DOMAIN x = ImportFields /\ x.pc = "find"
  BY EntryTyped DEF Importing, ImportFields, NextRow
<1> HIDE DEF x
<1>2. RequestOK(x)
  BY <1>1 DEF RequestOK
<1> QED BY <1>2 DEF x

LEMMA RowFailsTyped ==
  ASSUME TypeOK, NEW r \in Requests, RowFails(r)
  PROVE  TypeOK'
<1>1. RequestOK(NextRow(req[r], {}, FALSE))
  BY Held, NextRowTyped DEF RowFails
<1> QED BY <1>1, ReadTyped DEF RowFails, TypeOK

LEMMA MatchRowTyped ==
  ASSUME TypeOK, NEW r \in Requests, MatchRow(r)
  PROVE  TypeOK'
<1>1. DOMAIN req[r] = ImportFields /\ Importing(req[r]) /\ req[r].left # <<>>
  BY Held DEF MatchRow
<1>2. UNCHANGED <<world, placement, made, droppedBy>> /\ made \in 0..MaxRequests
  BY DEF MatchRow, TypeOK
<1>3. ASSUME Goto(r, [req[r] EXCEPT !.pc = "createRow"]) PROVE TypeOK'
  <2> DEFINE x == [req[r] EXCEPT !.pc = "createRow"]
  <2>1. Importing(x) /\ DOMAIN x = ImportFields /\ x.pc = "createRow"
    BY <1>1 DEF Importing, ImportFields
  <2>2. Goto(r, x)
    BY <1>3
  <2> HIDE DEF x
  <2>3. RequestOK(x)
    BY <2>1 DEF RequestOK
  <2> QED BY <2>2, <2>3, <1>2, ReadTyped
<1>4. ASSUME NEW s \in Matches(req[r]), Goto(r, NextRow(req[r], {s}, FALSE)) PROVE TypeOK'
  <2>1. {s} \in SUBSET Students
    BY DEF Matches
  <2>2. RequestOK(NextRow(req[r], {s}, FALSE))
    BY <2>1, <1>1, NextRowTyped
  <2> QED BY <2>2, <1>2, <1>4, ReadTyped
<1>5. ASSUME NEW s \in Matches(req[r]),
             Goto(r, [pc |-> "dateRow", roster |-> req[r].roster, left |-> req[r].left,
                      onRoster |-> req[r].onRoster \cup {s}, ok |-> req[r].ok,
                      student |-> s, seen |-> student[s]])
      PROVE  TypeOK'
  <2> DEFINE x == [pc |-> "dateRow", roster |-> req[r].roster, left |-> req[r].left,
                   onRoster |-> req[r].onRoster \cup {s}, ok |-> req[r].ok,
                   student |-> s, seen |-> student[s]]
  <2>1. s \in Students /\ Present(s)
    BY DEF Matches
  <2>2. /\ Importing(x) /\ DOMAIN x = ImportFields \cup {"student", "seen"} /\ x.pc = "dateRow"
        /\ x.student \in Students /\ x.seen \in StudentRows
    BY <1>1, <2>1, PresentTyped DEF Importing, ImportFields
  <2>3. Goto(r, x)
    BY <1>5
  <2> HIDE DEF x
  <2>4. RequestOK(x)
    BY <2>2 DEF RequestOK
  <2> QED BY <2>3, <2>4, <1>2, ReadTyped
<1> QED BY <1>3, <1>4, <1>5 DEF MatchRow

LEMMA DateRowTyped ==
  ASSUME TypeOK, NEW r \in Requests, DateRow(r)
  PROVE  TypeOK'
<1> DEFINE q == req[r]
           s == q.student
           c == q.roster.campus
           b == Head(q.left).batch
           campusDay == EffectiveDay(campusRows[s], q.seen.enrolled)
           batchDay == EffectiveDay(batchRows[s], q.seen.enrolled)
           campusRow == IF q.seen.campus # c THEN <<Row(c, campusDay)>> ELSE <<>>
           batchRow == IF b # None /\ q.seen.batch # b THEN <<Row(b, batchDay)>> ELSE <<>>
           w == [campus |-> <<c>>, batch |-> IF b = None THEN <<>> ELSE <<b>>,
                 campusRow |-> campusRow, batchRow |-> batchRow]
           x == [pc |-> "writeRow", roster |-> q.roster, left |-> q.left, onRoster |-> q.onRoster, ok |-> q.ok,
                 student |-> s, seen |-> q.seen, write |-> w]
<1>1. Importing(q) /\ q.left # <<>> /\ s \in Students /\ q.seen \in StudentRows
  BY Held DEF DateRow, Importing, At
<1>2. b \in Batches \cup {None} /\ c \in Campuses
  BY <1>1, EntryTyped DEF Entries
<1>3. q.seen.enrolled \in Days
  BY <1>1 DEF StudentRows
<1>4. campusDay \in Days /\ batchDay \in Days
  BY <1>3, EffectiveDayTyped
<1>5. w \in Writes
  <2>1. campusRow \in Rows(Campuses) /\ batchRow \in Rows(Batches)
    <3> HIDE DEF b, c, campusDay, batchDay
    <3> QED BY <1>2, <1>4, OneRowTyped
  <2>2. <<c>> \in Column(Campuses) /\ (IF b = None THEN <<>> ELSE <<b>>) \in Column(Batches)
    BY <1>2 DEF Column
  <2> HIDE DEF campusRow, batchRow, b, c
  <2> QED BY <2>1, <2>2 DEF Writes
<1>6. /\ Importing(x) /\ DOMAIN x = ImportFields \cup {"student", "seen", "write"} /\ x.pc = "writeRow"
      /\ x.student \in Students /\ x.seen \in StudentRows /\ x.write \in Writes
  <2> HIDE DEF w
  <2> QED BY <1>1, <1>5 DEF Importing, ImportFields
<1>7. Goto(r, x) /\ UNCHANGED <<world, placement, made, droppedBy>>
  BY DEF DateRow
<1> HIDE DEF x
<1>8. RequestOK(x)
  BY <1>6 DEF RequestOK
<1> QED BY <1>7, <1>8, ReadTyped DEF TypeOK

LEMMA ReadAbsentTyped ==
  ASSUME TypeOK, NEW r \in Requests, ReadAbsent(r)
  PROVE  TypeOK'
<1> DEFINE q == req[r]
           named == {q.roster.rows[i].owner : i \in DOMAIN q.roster.rows}
           x == [pc |-> "archiveAbsent", absent |-> AbsentFromRoster(q), named |-> named]
<1>1. Importing(q)
  BY Held DEF ReadAbsent
<1>2. q.roster.rows \in Seq(Entries)
  BY <1>1, PlacementAssumption DEF Importing, TypeOK
<1>3. \A i \in DOMAIN q.roster.rows : q.roster.rows[i].owner \in Students
  <2>1. ASSUME NEW i \in DOMAIN q.roster.rows PROVE q.roster.rows[i] \in Entries
    BY <1>2, LenProperties, ElementOfSeq
  <2> QED BY <2>1 DEF Entries
<1>4. named \in SUBSET Students /\ AbsentFromRoster(q) \in SUBSET Students
  BY <1>3 DEF AbsentFromRoster
<1>5. RequestOK(x)
  <2> HIDE DEF named, q
  <2> QED BY <1>4 DEF RequestOK
<1>6. (Goto(r, x) \/ Goto(r, Idle)) /\ UNCHANGED <<world, placement, made, droppedBy>> /\ made \in 0..MaxRequests
  BY DEF ReadAbsent, TypeOK
<1> HIDE DEF x
<1> QED BY <1>5, <1>6, IdleTyped, ReadTyped

LEMMA BulkDateTyped ==
  ASSUME TypeOK, NEW r \in Requests, BulkDate(r)
  PROVE  TypeOK'
<1> DEFINE q == req[r]
           days == [s \in Moved(q) |-> EffectiveDay(batchRows[s], q.seen[s].enrolled)]
           x == [pc |-> "bulkRows", batch |-> q.batch, days |-> days]
<1>1. PICK S \in SUBSET Students :
         q \in [pc : {"bulkWrite", "bulkDate"}, batch : Batches \cup {None}, seen : [S -> StudentRows]]
  BY Held DEF BulkDate
<1>2. Moved(q) \in SUBSET Students
  BY <1>1 DEF Moved
<1>3. ASSUME NEW s \in Moved(q) PROVE EffectiveDay(batchRows[s], q.seen[s].enrolled) \in Days
  <2>1. q.seen[s].enrolled \in Days
    BY <1>1 DEF Moved, StudentRows
  <2> QED BY <2>1, EffectiveDayTyped
<1>4. days \in [Moved(q) -> Days]
  BY <1>3
<1>5. RequestOK(x)
  <2> HIDE DEF days
  <2> QED BY <1>1, <1>2, <1>4 DEF RequestOK
<1>6. Goto(r, x) /\ UNCHANGED <<world, placement, made, droppedBy>>
  BY DEF BulkDate
<1> HIDE DEF x
<1> QED BY <1>5, <1>6, ReadTyped DEF TypeOK

LEMMA CrashTyped ==
  ASSUME TypeOK, NEW r \in Requests, Crash(r)
  PROVE  TypeOK'
  BY IdleTyped, ReadTyped DEF Crash, TypeOK

(* The steps that write.                                                   *)
PlacementOK ==
    /\ student \in [Students -> StudentRows \cup {NoStudent}]
    /\ batchRows \in [Students -> Rows(Batches)] /\ campusRows \in [Students -> Rows(Campuses)]

LEMMA WrittenTyped ==
  ASSUME TypeOK, NEW r \in Requests, NEW x, Goto(r, x), RequestOK(x), PlacementOK',
         UNCHANGED <<world, droppedBy>>, made' \in 0..MaxRequests
  PROVE  TypeOK'
<1>1. RequestsOK'
  BY RequestsTyped DEF world
<1> QED BY <1>1 DEF TypeOK, RequestsOK, PlacementOK, world

LEMMA PlacedTyped ==
  ASSUME TypeOK, NEW s \in Students, NEW st \in StudentRows \cup {NoStudent},
         NEW cr \in Rows(Campuses), NEW br \in Rows(Batches),
         student' = [student EXCEPT ![s] = st], campusRows' = [campusRows EXCEPT ![s] = cr],
         batchRows' = [batchRows EXCEPT ![s] = br]
  PROVE  PlacementOK'
  BY DEF PlacementOK, TypeOK

LEMMA NotPlacedTyped ==
  ASSUME TypeOK, UNCHANGED placement
  PROVE  PlacementOK'
  BY DEF PlacementOK, TypeOK, placement

LEMMA SameRequests ==
  ASSUME TypeOK, UNCHANGED <<env, req>>
  PROVE  RequestsOK'
<1>1. ASSUME NEW q \in Requests PROVE RequestOK(req[q])'
  BY DEF TypeOK, RequestOK, Importing
<1> QED BY <1>1 DEF RequestsOK, TypeOK

LEMMA CreateTyped ==
  ASSUME TypeOK, NEW r \in Requests, NEW s \in Students, NEW c \in Campuses \cup {None},
         NEW b \in Batches \cup {None}, Create(r, s, c, b)
  PROVE  TypeOK'
<1>1. [status |-> "ACTIVE", campus |-> c, batch |-> b, enrolled |-> today] \in StudentRows
  BY DEF StudentRows, TypeOK
<1>2. /\ (IF b = None THEN <<>> ELSE <<Row(b, today)>>) \in Rows(Batches)
      /\ (IF c = None THEN <<>> ELSE <<Row(c, today)>>) \in Rows(Campuses)
  BY OneRowTyped DEF TypeOK
<1>3. PlacementOK'
  BY <1>1, <1>2, PlacedTyped DEF Create
<1>4. made' \in 0..MaxRequests
  BY MadeTyped DEF Create
<1>5. RequestsOK'
  BY SameRequests DEF Create, world
<1> QED BY <1>3, <1>4, <1>5 DEF Create, TypeOK, PlacementOK, RequestsOK, world

LEMMA CreateRowTyped ==
  ASSUME TypeOK, NEW r \in Requests, CreateRow(r)
  PROVE  TypeOK'
<1> DEFINE q == req[r]
           s == Head(q.left).owner
           b == Head(q.left).batch
           c == q.roster.campus
<1>1. Importing(q) /\ q.left # <<>>
  BY Held DEF CreateRow, Importing, At
<1>2. s \in Students /\ b \in Batches \cup {None} /\ c \in Campuses
  BY <1>1, EntryTyped DEF Entries
<1>3. [status |-> "ACTIVE", campus |-> c, batch |-> b, enrolled |-> today] \in StudentRows
  BY <1>2 DEF StudentRows, TypeOK
<1>4. (IF b = None THEN <<>> ELSE <<Row(b, today)>>) \in Rows(Batches) /\ <<Row(c, today)>> \in Rows(Campuses)
  BY <1>2, OneRowTyped DEF TypeOK
<1>5. /\ UNCHANGED <<world, made, droppedBy>>
      /\ \/ /\ student' = [student EXCEPT ![s] =
                      [status |-> "ACTIVE", campus |-> c, batch |-> b, enrolled |-> today]]
            /\ campusRows' = [campusRows EXCEPT ![s] = <<Row(c, today)>>]
            /\ batchRows' = [batchRows EXCEPT ![s] = IF b = None THEN <<>> ELSE <<Row(b, today)>>]
            /\ Goto(r, NextRow(q, {s}, TRUE))
         \/ UNCHANGED placement /\ Goto(r, NextRow(q, {}, FALSE))
  BY DEF CreateRow
<1>6. RequestOK(NextRow(q, {s}, TRUE)) /\ RequestOK(NextRow(q, {}, FALSE))
  BY <1>1, <1>2, NextRowTyped
<1>7. PlacementOK'
  <2> DEFINE br == IF b = None THEN <<>> ELSE <<Row(b, today)>>
  <2>1. br \in Rows(Batches)
    BY <1>4
  <2>2. CASE UNCHANGED placement
    BY <2>2, NotPlacedTyped
  <2>3. CASE ~ UNCHANGED placement
    <3> DEFINE st == [status |-> "ACTIVE", campus |-> c, batch |-> b, enrolled |-> today]
               cr == <<Row(c, today)>>
    <3>1. /\ student' = [student EXCEPT ![s] = st] /\ campusRows' = [campusRows EXCEPT ![s] = cr]
          /\ batchRows' = [batchRows EXCEPT ![s] = br]
      BY <1>5, <2>3
    <3>2. s \in Students /\ st \in StudentRows \cup {NoStudent} /\ cr \in Rows(Campuses) /\ br \in Rows(Batches)
      BY <1>2, <1>3, <1>4
    <3> HIDE DEF s, b, c, br, st, cr
    <3> QED BY <3>1, <3>2, PlacedTyped
  <2> QED BY <2>2, <2>3
<1>8. made' \in 0..MaxRequests
  BY <1>5 DEF TypeOK
<1> HIDE DEF q, s, b, c
<1> QED BY <1>5, <1>6, <1>7, <1>8, WrittenTyped

LEMMA JoinedTyped ==
  ASSUME NEW H, NEW rows \in Rows(H), NEW more \in Rows(H)
  PROVE  rows \o more \in Rows(H)
  BY ConcatProperties DEF Rows

LEMMA WriteTyped ==
  ASSUME TypeOK, NEW s \in Students, Present(s), NEW w \in Writes, Write(s, w)
  PROVE  PlacementOK'
<1> DEFINE st == [[student[s] EXCEPT !.campus = Given(w.campus, @)] EXCEPT !.batch = Given(w.batch, @)]
<1>1. /\ w.campus \in Column(Campuses) /\ w.batch \in Column(Batches)
      /\ w.campusRow \in Rows(Campuses) /\ w.batchRow \in Rows(Batches)
  BY DEF Writes
<1>2. student[s] \in StudentRows
  BY PresentTyped
<1>3. /\ Given(w.campus, student[s].campus) \in Campuses \cup {None}
      /\ Given(w.batch, student[s].batch) \in Batches \cup {None}
  BY <1>1, <1>2, ColumnTyped DEF StudentRows
<1>4. student' \in [Students -> StudentRows \cup {NoStudent}]
  BY <1>2, <1>3 DEF Write, TypeOK, StudentRows
<1>5. campusRows[s] \o w.campusRow \in Rows(Campuses) /\ batchRows[s] \o w.batchRow \in Rows(Batches)
  BY <1>1, JoinedTyped DEF TypeOK
<1>6. campusRows' \in [Students -> Rows(Campuses)] /\ batchRows' \in [Students -> Rows(Batches)]
  BY <1>5 DEF Write, TypeOK
<1> QED BY <1>4, <1>6 DEF PlacementOK

LEMMA WritePlacementTyped ==
  ASSUME TypeOK, NEW r \in Requests, WritePlacement(r)
  PROVE  TypeOK'
<1>1. req[r] \in [pc : {"write"}, student : Students, write : Writes]
  BY Held DEF WritePlacement
<1>2. PlacementOK'
  <2>1. CASE Present(req[r].student) /\ Exists(req[r].write.batch)
    <3>1. Write(req[r].student, req[r].write)
      BY <2>1 DEF WritePlacement
    <3>2. req[r].student \in Students /\ req[r].write \in Writes
      BY <1>1
    <3> QED BY <3>1, <3>2, <2>1, WriteTyped
  <2>2. CASE ~ (Present(req[r].student) /\ Exists(req[r].write.batch))
    BY <2>2, NotPlacedTyped DEF WritePlacement
  <2> QED BY <2>1, <2>2
<1> QED BY <1>2, IdleTyped, WrittenTyped DEF WritePlacement, TypeOK

LEMMA BulkWriteTyped ==
  ASSUME TypeOK, NEW r \in Requests, BulkWrite(r)
  PROVE  TypeOK'
<1> DEFINE q == req[r]
           x == [q EXCEPT !.pc = "bulkDate"]
<1>1. PICK S \in SUBSET Students :
         q \in [pc : {"bulkWrite", "bulkDate"}, batch : Batches \cup {None}, seen : [S -> StudentRows]]
  BY Held DEF BulkWrite
<1>2. x \in [pc : {"bulkWrite", "bulkDate"}, batch : Batches \cup {None}, seen : [S -> StudentRows]]
  BY <1>1
<1>3. PlacementOK'
  <2>1. student' \in [Students -> StudentRows \cup {NoStudent}]
    <3>1. \A s \in Students : Present(s) => [student[s] EXCEPT !.batch = q.batch] \in StudentRows
      BY <1>1, PresentTyped DEF StudentRows
    <3>2. \A s \in Students : student[s] \in StudentRows \cup {NoStudent}
      BY DEF TypeOK
    <3>3. \/ UNCHANGED student
          \/ student' = [s \in Students |->
                IF s \in DOMAIN q.seen /\ Present(s) THEN [student[s] EXCEPT !.batch = q.batch] ELSE student[s]]
      BY DEF BulkWrite
    <3> HIDE DEF q
    <3> QED BY <3>1, <3>2, <3>3 DEF TypeOK
  <2> QED BY <2>1 DEF PlacementOK, BulkWrite, TypeOK
<1>4. RequestOK(x)
  <2> HIDE DEF x
  <2> QED BY <1>2 DEF RequestOK
<1>5. (Goto(r, x) \/ Goto(r, Idle)) /\ UNCHANGED <<world, droppedBy>> /\ made' \in 0..MaxRequests
  BY DEF BulkWrite, TypeOK
<1> HIDE DEF x
<1> QED BY <1>3, <1>4, <1>5, IdleTyped, WrittenTyped

LEMMA BulkRowsTyped ==
  ASSUME TypeOK, NEW r \in Requests, BulkRows(r)
  PROVE  TypeOK'
<1>1. PICK S \in SUBSET Students :
         req[r] \in [pc : {"bulkRows"}, batch : Batches \cup {None}, days : [S -> Days]]
  BY Held DEF BulkRows
<1>2. ASSUME NEW s \in Students
      PROVE  batchRows'[s] \in Rows(Batches)
  <2>1. batchRows[s] \in Rows(Batches)
    BY DEF TypeOK
  <2>2. CASE s \in DOMAIN req[r].days
    <3>1. Row(req[r].batch, req[r].days[s]) \in [to : Batches \cup {None}, day : Days]
      BY <1>1, <2>2, OneRowTyped
    <3>2. \A row \in [to : Batches \cup {None}, day : Days] : Append(batchRows[s], row) \in Rows(Batches)
      BY <2>1 DEF Rows
    <3> QED BY <2>1, <3>1, <3>2 DEF BulkRows
  <2>3. CASE s \notin DOMAIN req[r].days
    BY <2>1, <2>3 DEF BulkRows
  <2> QED BY <2>2, <2>3
<1>3. PlacementOK'
  BY <1>2 DEF BulkRows, PlacementOK, TypeOK
<1> QED BY <1>3, IdleTyped, WrittenTyped DEF BulkRows, TypeOK

LEMMA ArchiveTyped ==
  ASSUME TypeOK, NEW r \in Requests, Archive(r)
  PROVE  TypeOK'
<1>1. req[r].student \in Students
  BY Held DEF Archive
<1>2. PlacementOK'
  <2>1. Present(req[r].student) => [student[req[r].student] EXCEPT !.status = "ARCHIVED"] \in StudentRows
    BY <1>1, PresentTyped DEF StudentRows
  <2> QED BY <1>1, <2>1 DEF Archive, PlacementOK, TypeOK
<1> QED BY <1>2, IdleTyped, WrittenTyped DEF Archive, TypeOK

LEMMA DeleteTyped ==
  ASSUME TypeOK, NEW r \in Requests, Delete(r)
  PROVE  TypeOK'
<1>1. req[r].student \in Students
  BY Held DEF Delete
<1>2. <<>> \in Rows(Batches) /\ <<>> \in Rows(Campuses)
  BY DEF Rows
<1>3. PlacementOK'
  BY <1>1, <1>2, PlacedTyped DEF Delete
<1> QED BY <1>3, IdleTyped, WrittenTyped DEF Delete, TypeOK

LEMMA WriteRowTyped ==
  ASSUME TypeOK, NEW r \in Requests, WriteRow(r)
  PROVE  TypeOK'
<1> DEFINE q == req[r]
           s == q.student
           w == q.write
<1>1. Importing(q) /\ q.left # <<>> /\ s \in Students /\ q.seen \in StudentRows /\ w \in Writes
  BY Held DEF WriteRow, Importing, At
<1>2. RequestOK(NextRow(q, {}, TRUE)) /\ RequestOK(NextRow(q, {}, FALSE))
  BY <1>1, NextRowTyped
<1>3. (Goto(r, NextRow(q, {}, TRUE)) \/ Goto(r, NextRow(q, {}, FALSE))) /\ UNCHANGED <<world, made, droppedBy>>
  BY DEF WriteRow
<1>4. PlacementOK'
  <2>1. CASE UNCHANGED placement
    BY <2>1, NotPlacedTyped
  <2>2. CASE ~ UNCHANGED placement
    <3>1. /\ Present(s)
          /\ student' = [student EXCEPT
                      ![s].campus = q.roster.campus,
                      ![s].batch = Given(w.batch, @),
                      ![s].status = IF q.seen.status = "ARCHIVED" THEN "ACTIVE" ELSE @]
          /\ campusRows' = [campusRows EXCEPT ![s] = @ \o w.campusRow]
          /\ batchRows' = [batchRows EXCEPT ![s] = @ \o w.batchRow]
      BY <2>2 DEF WriteRow
    <3>2. student[s] \in StudentRows /\ q.roster.campus \in Campuses
      BY <1>1, <3>1, PresentTyped, EntryTyped
    <3>3. /\ w.batch \in Column(Batches) /\ w.campusRow \in Rows(Campuses) /\ w.batchRow \in Rows(Batches)
      BY <1>1 DEF Writes
    <3>4. Given(w.batch, student[s].batch) \in Batches \cup {None}
      BY <3>2, <3>3, ColumnTyped DEF StudentRows
    <3> HIDE DEF q, s, w
    <3>5. student' \in [Students -> StudentRows \cup {NoStudent}]
      BY <1>1, <3>1, <3>2, <3>4 DEF TypeOK, StudentRows
    <3>6. campusRows[s] \o w.campusRow \in Rows(Campuses) /\ batchRows[s] \o w.batchRow \in Rows(Batches)
      BY <1>1, <3>3, JoinedTyped DEF TypeOK
    <3>7. campusRows' \in [Students -> Rows(Campuses)] /\ batchRows' \in [Students -> Rows(Batches)]
      BY <1>1, <3>1, <3>6 DEF TypeOK
    <3> QED BY <3>5, <3>7 DEF PlacementOK
  <2> QED BY <2>1, <2>2
<1>5. made' \in 0..MaxRequests
  BY <1>3 DEF TypeOK
<1> QED BY <1>2, <1>3, <1>4, <1>5, WrittenTyped

LEMMA ArchiveAbsentTyped ==
  ASSUME TypeOK, NEW r \in Requests, ArchiveAbsent(r)
  PROVE  TypeOK'
<1>1. req[r] \in [pc : {"archiveAbsent"}, absent : SUBSET Students, named : SUBSET Students]
  BY Held DEF ArchiveAbsent
<1>2. PlacementOK'
  <2>1. \A s \in Students : Present(s) => [student[s] EXCEPT !.status = "ARCHIVED"] \in StudentRows
    BY PresentTyped DEF StudentRows
  <2> QED BY <2>1 DEF ArchiveAbsent, PlacementOK, TypeOK
<1>3. droppedBy' \in [Students -> SUBSET Students]
  BY <1>1 DEF ArchiveAbsent, TypeOK
<1>4. RequestsOK'
  BY IdleTyped, RequestsTyped DEF ArchiveAbsent, world
<1> QED BY <1>2, <1>3, <1>4 DEF ArchiveAbsent, TypeOK, RequestsOK, PlacementOK, world

LEMMA DeleteBatchTyped ==
  ASSUME TypeOK, NEW b \in Batches, DeleteBatch(b)
  PROVE  /\ TypeOK'
         /\ \A s \in Students : batchRows'[s] = Forgotten(batchRows[s], b)
<1>1. b # None
  BY PlacementAssumption
<1>2. batchRows' = [s \in Students |-> Forgotten(batchRows[s], b)]
  BY DEF DeleteBatch, Forgotten
<1>3. \A s \in Students : Forgotten(batchRows[s], b) \in Rows(Batches)
  BY <1>1, ForgottenAnswers, 1 \in Nat DEF TypeOK
<1>4. student' \in [Students -> StudentRows \cup {NoStudent}]
  <2>1. ASSUME NEW s \in Students, student[s].batch = b
        PROVE  [student[s] EXCEPT !.batch = None] \in StudentRows
    BY <1>1, <2>1 DEF TypeOK, StudentRows, NoStudent
  <2>2. \A s \in Students : student[s] \in StudentRows \cup {NoStudent}
    BY DEF TypeOK
  <2> QED BY <2>1, <2>2 DEF DeleteBatch
<1>5. RequestsOK'
  BY SameRequests DEF DeleteBatch
<1> QED BY <1>2, <1>3, <1>4, <1>5 DEF DeleteBatch, TypeOK, RequestsOK

LEMMA NextDayTyped ==
  ASSUME TypeOK, NextDay
  PROVE  TypeOK'
<1>1. today + 1 \in Days
  BY PlacementAssumption DEF NextDay, TypeOK, Days
<1>2. RequestsOK'
  BY SameRequests DEF NextDay
<1> QED BY <1>1, <1>2 DEF NextDay, TypeOK, RequestsOK, placement

LEMMA InitTyped == Init => TypeOK
<1> SUFFICES ASSUME Init PROVE TypeOK
  OBVIOUS
<1>1. 1 \in Days /\ 2 \in Days /\ today \in Days /\ None \in Batches \cup {None}
  BY PlacementAssumption DEF Init, Days
<1>2. /\ env.start \in [Students -> [campus : Campuses \cup {None}, batch : Batches \cup {None}]]
      /\ env \in Environments
  BY PlacementAssumption DEF Init
<1>3. student \in [Students -> StudentRows \cup {NoStudent}]
  BY <1>1, <1>2 DEF Init, StudentRows
<1>4. batchRows \in [Students -> Rows(Batches)] /\ campusRows \in [Students -> Rows(Campuses)]
  <2>1. \A s \in Students : /\ <<Row(env.start[s].batch, 1)>> \in Rows(Batches) /\ <<>> \in Rows(Batches)
                            /\ <<Row(env.start[s].campus, 1)>> \in Rows(Campuses) /\ <<>> \in Rows(Campuses)
    BY <1>1, <1>2, OneRowTyped
  <2> QED BY <2>1 DEF Init
<1>5. 0 \in 0..MaxRequests
  BY PlacementAssumption
<1> QED BY <1>1, <1>2, <1>3, <1>4, <1>5, IdleTyped DEF Init, TypeOK

LEMMA TargetsTyped ==
  ASSUME TypeOK
  PROVE  /\ env.targets \subseteq Batches \cup {None}
         /\ \A c \in {<<>>} \cup {<<x>> : x \in Campuses} : c \in Column(Campuses)
         /\ \A b \in {<<>>} \cup {<<x>> : x \in env.targets} : b \in Column(Batches)
  BY PlacementAssumption DEF TypeOK, Column

LEMMA NextTyped == TypeOK /\ [Next]_vars => TypeOK'
<1> SUFFICES ASSUME TypeOK, [Next]_vars PROVE TypeOK'
  OBVIOUS
<1>1. CASE UNCHANGED vars
  <2>1. RequestsOK'
    BY <1>1, SameRequests DEF vars
  <2> QED BY <1>1, <2>1 DEF vars, TypeOK, RequestsOK
<1>2. CASE NextDay
  BY <1>2, NextDayTyped
<1>3. ASSUME NEW b \in Batches, DeleteBatch(b) PROVE TypeOK'
  BY <1>3, DeleteBatchTyped
<1>4. ASSUME NEW r \in Requests, Request(r) PROVE TypeOK'
  BY <1>4, TargetsTyped, CreateTyped, ReadForMoveTyped, ReadForTransferTyped, ReadForUpdateTyped,
     BulkReadTyped, ReadForRemoveTyped, ReadRosterTyped DEF Request
<1>5. ASSUME NEW r \in Requests, Continue(r) PROVE TypeOK'
  BY <1>5, DatePlacementTyped, WritePlacementTyped, BulkWriteTyped, BulkDateTyped, BulkRowsTyped,
     ArchiveTyped, DeleteTyped, RowFailsTyped, MatchRowTyped, DateRowTyped, WriteRowTyped,
     CreateRowTyped, ReadAbsentTyped, ArchiveAbsentTyped, CrashTyped DEF Continue
<1> QED BY <1>1, <1>2, <1>3, <1>4, <1>5 DEF Next

(* Every request holds what the queries it made returned, every row is     *)
(* about a home that exists and a day of the calendar.                     *)
THEOREM Typing == Spec => []TypeOK
<1> QED BY InitTyped, NextTyped, PTL DEF Spec

(* Where each step leaves its request.                                     *)
LEMMA Transitions ==
  ASSUME TypeOK, NEW r \in Requests
  PROVE  /\ \A s, c, b : Create(r, s, c, b) => req' = req /\ At(r, "idle")
         /\ \A s, b : ReadForMove(r, s, b) => At(r, "date")'
         /\ \A s, c, b : ReadForUpdate(r, s, c, b) => At(r, "date")'
         /\ \A s, c, b : ReadForTransfer(r, s, c, b) => At(r, "write")'
         /\ \A S, b : BulkRead(r, S, b) => At(r, "bulkWrite")'
         /\ \A s, done : ReadForRemove(r, s, done) => At(r, "archive")' \/ (At(r, "delete")' /\ "remove" \in env.may)
         /\ \A roster : ReadRoster(r, roster) => At(r, "find")'
         /\ DatePlacement(r) => At(r, "write")'
         /\ BulkWrite(r) => At(r, "idle")' \/ At(r, "bulkDate")'
         /\ BulkDate(r) => At(r, "bulkRows")'
         /\ WritePlacement(r) \/ BulkRows(r) \/ Archive(r) \/ Delete(r) \/ ArchiveAbsent(r) \/ Crash(r)
               => At(r, "idle")'
         /\ RowFails(r) \/ WriteRow(r) \/ CreateRow(r) => At(r, "find")'
         /\ MatchRow(r) => At(r, "find")' \/ At(r, "createRow")' \/ At(r, "dateRow")'
         /\ DateRow(r) => At(r, "writeRow")'
         /\ ReadAbsent(r) => At(r, "idle")' \/ At(r, "archiveAbsent")'
<1>1. \A x : Goto(r, x) => (\A pc : x.pc = pc => At(r, pc)')
  BY GotoStep DEF At, TypeOK
<1>2. Idle.pc = "idle"
  BY DEF Idle
<1>3. \A q, named, saved : NextRow(q, named, saved).pc = "find"
  BY DEF NextRow
<1>4. \A s, c, b : Create(r, s, c, b) => req' = req /\ At(r, "idle")
  BY DEF Create, MayStart
<1>5. /\ \A s, b : ReadForMove(r, s, b) => At(r, "date")'
      /\ \A s, c, b : ReadForUpdate(r, s, c, b) => At(r, "date")'
  BY <1>1 DEF ReadForMove, ReadForUpdate, Start
<1>6. \A s, c, b : ReadForTransfer(r, s, c, b) => At(r, "write")'
  BY <1>1 DEF ReadForTransfer, Start
<1>7. \A S, b : BulkRead(r, S, b) => At(r, "bulkWrite")'
  BY <1>1 DEF BulkRead, Start
<1>8. ASSUME NEW s, NEW done, ReadForRemove(r, s, done)
      PROVE  At(r, "archive")' \/ (At(r, "delete")' /\ "remove" \in env.may)
  <2>1. CASE done \/ batchRows[s] # <<>>
    BY <1>1, <1>8, <2>1 DEF ReadForRemove, Start
  <2>2. CASE ~ (done \/ batchRows[s] # <<>>)
    BY <1>1, <1>8, <2>2 DEF ReadForRemove, Start, MayStart
  <2> QED BY <2>1, <2>2
<1>9. \A roster : ReadRoster(r, roster) => At(r, "find")'
  BY <1>1 DEF ReadRoster, Start
<1>10. DatePlacement(r) => At(r, "write")'
  BY <1>1 DEF DatePlacement
<1>11. ASSUME BulkWrite(r) PROVE At(r, "idle")' \/ At(r, "bulkDate")'
  <2> DEFINE y == [req[r] EXCEPT !.pc = "bulkDate"]
  <2>1. y.pc = "bulkDate"
    BY <1>11, Held DEF BulkWrite, At
  <2>2. Goto(r, y) \/ Goto(r, Idle)
    BY <1>11 DEF BulkWrite
  <2> HIDE DEF y
  <2> QED BY <2>1, <2>2, <1>1, <1>2
<1>12. BulkDate(r) => At(r, "bulkRows")'
  BY <1>1 DEF BulkDate
<1>13. WritePlacement(r) \/ BulkRows(r) \/ Archive(r) \/ Delete(r) \/ ArchiveAbsent(r) \/ Crash(r)
          => At(r, "idle")'
  BY <1>1, <1>2 DEF WritePlacement, BulkRows, Archive, Delete, ArchiveAbsent, Crash
<1>14. RowFails(r) \/ WriteRow(r) \/ CreateRow(r) => At(r, "find")'
  <2>1. ASSUME RowFails(r) \/ WriteRow(r) \/ CreateRow(r)
        PROVE  \E q, named, saved : Goto(r, NextRow(q, named, saved))
    BY <2>1 DEF RowFails, WriteRow, CreateRow
  <2> QED BY <2>1, <1>1, <1>3
<1>15. ASSUME MatchRow(r) PROVE At(r, "find")' \/ At(r, "createRow")' \/ At(r, "dateRow")'
  <2> DEFINE y == [req[r] EXCEPT !.pc = "createRow"]
  <2>1. y.pc = "createRow"
    BY <1>15, Held DEF MatchRow, At, ImportFields
  <2>2. ASSUME Goto(r, y) PROVE At(r, "createRow")'
    <3> HIDE DEF y
    <3> QED BY <2>1, <2>2, <1>1
  <2>3. ASSUME NEW s,
               Goto(r, IF req[r].roster.overwrite
                     THEN [pc |-> "dateRow", roster |-> req[r].roster, left |-> req[r].left,
                           onRoster |-> req[r].onRoster \cup {s}, ok |-> req[r].ok,
                           student |-> s, seen |-> student[s]]
                     ELSE NextRow(req[r], {s}, FALSE))
        PROVE  At(r, "find")' \/ At(r, "dateRow")'
    <3>1. CASE req[r].roster.overwrite
      BY <1>1, <2>3, <3>1
    <3>2. CASE ~ req[r].roster.overwrite
      BY <1>1, <1>3, <2>3, <3>2
    <3> QED BY <3>1, <3>2
  <2> QED BY <1>15, <2>2, <2>3 DEF MatchRow
<1>16. DateRow(r) => At(r, "writeRow")'
  BY <1>1 DEF DateRow
<1>17. ASSUME ReadAbsent(r) PROVE At(r, "idle")' \/ At(r, "archiveAbsent")'
  <2>1. CASE req[r].roster.archive /\ req[r].ok
    BY <1>17, <2>1, <1>1 DEF ReadAbsent
  <2>2. CASE ~ (req[r].roster.archive /\ req[r].ok)
    BY <1>17, <2>2, <1>1, <1>2 DEF ReadAbsent
  <2> QED BY <2>1, <2>2
<1> QED BY <1>4, <1>5, <1>6, <1>7, <1>8, <1>9, <1>10, <1>11, <1>12, <1>13, <1>14, <1>15, <1>16, <1>17

-----------------------------------------------------------------------------
(* Requests that do not overlap come one by one.                           *)
OneBusy ==
    "overlap" \notin env.may => \A q, r \in Requests : ~ At(q, "idle") /\ ~ At(r, "idle") => q = r
Steps(r) == Request(r) \/ Continue(r)

LEMMA BusyStep ==
  ASSUME TypeOK, NEW r \in Requests, Steps(r)
  PROVE  /\ DOMAIN req' = Requests /\ env' = env /\ today' = today /\ batches' = batches
         /\ \A q \in Requests : q # r => req'[q] = req[q]
         /\ ~ At(r, "idle") \/ "overlap" \in env.may \/ Alone
<1>1. CASE Request(r)
  <2>1. ASSUME NEW s \in Students, NEW c, NEW b, Create(r, s, c, b)
        PROVE  UNCHANGED <<world, req>> /\ ("overlap" \in env.may \/ Alone)
    BY <2>1 DEF Create, MayStart
  <2>2. ASSUME NEW x, Start(r, x) PROVE Goto(r, x)
    BY <2>2 DEF Start
  <2> DEFINE Goes == (\E x : Goto(r, x)) /\ UNCHANGED world /\ ("overlap" \in env.may \/ Alone)
  <2>3. ASSUME NEW s, NEW b, ReadForMove(r, s, b) PROVE Goes
    BY <2>2, <2>3 DEF ReadForMove, MayStart
  <2>4. ASSUME NEW s, NEW c, NEW b, ReadForTransfer(r, s, c, b) PROVE Goes
    BY <2>2, <2>4 DEF ReadForTransfer, MayStart
  <2>5. ASSUME NEW s, NEW c, NEW b, ReadForUpdate(r, s, c, b) PROVE Goes
    BY <2>2, <2>5 DEF ReadForUpdate, MayStart
  <2>6. ASSUME NEW S, NEW b, BulkRead(r, S, b) PROVE Goes
    BY <2>2, <2>6 DEF BulkRead, MayStart
  <2>7. ASSUME NEW s, NEW done, ReadForRemove(r, s, done) PROVE Goes
    BY <2>2, <2>7 DEF ReadForRemove, MayStart
  <2>8. ASSUME NEW roster, ReadRoster(r, roster) PROVE Goes
    BY <2>2, <2>8 DEF ReadRoster, MayStart
  <2> HIDE DEF Goes
  <2>9. (UNCHANGED <<world, req>> /\ ("overlap" \in env.may \/ Alone)) \/ Goes
    BY <1>1, <2>1, <2>3, <2>4, <2>5, <2>6, <2>7, <2>8 DEF Request
  <2> QED BY <2>9, GotoStep DEF world, TypeOK, Goes
<1>2. CASE Continue(r)
  <2>1. ~ At(r, "idle")
    BY <1>2 DEF Continue, DatePlacement, WritePlacement, BulkWrite, BulkDate, BulkRows, Archive, Delete,
       RowFails, MatchRow, DateRow, WriteRow, CreateRow, ReadAbsent, ArchiveAbsent, Crash, At
  <2>2. (\E x : Goto(r, x)) /\ UNCHANGED world
    <3>1. ASSUME WriteRow(r) PROVE (\E x : Goto(r, x)) /\ UNCHANGED world
      BY <3>1 DEF WriteRow
    <3>2. ASSUME CreateRow(r) PROVE (\E x : Goto(r, x)) /\ UNCHANGED world
      BY <3>2 DEF CreateRow
    <3>3. ASSUME BulkWrite(r) PROVE (\E x : Goto(r, x)) /\ UNCHANGED world
      BY <3>3 DEF BulkWrite
    <3>4. ASSUME MatchRow(r) PROVE (\E x : Goto(r, x)) /\ UNCHANGED world
      BY <3>4 DEF MatchRow
    <3> QED BY <1>2, <3>1, <3>2, <3>3, <3>4 DEF Continue, DatePlacement, WritePlacement, BulkDate, BulkRows,
       Archive, Delete, RowFails, DateRow, ReadAbsent, ArchiveAbsent, Crash
  <2> QED BY <2>1, <2>2, GotoStep DEF world, TypeOK
<1> QED BY <1>1, <1>2 DEF Steps

LEMMA OthersIdle ==
  ASSUME TypeOK, OneBusy, NEW r \in Requests, Steps(r), "overlap" \notin env.may, NEW q \in Requests, q # r
  PROVE  At(q, "idle")
  BY BusyStep DEF OneBusy, Alone

LEMMA OneBusyNext ==
  ASSUME TypeOK, OneBusy, [Next]_vars
  PROVE  OneBusy'
<1>1. ASSUME NEW r \in Requests, Steps(r) PROVE OneBusy'
  <2> SUFFICES ASSUME "overlap" \notin env'.may,
                      NEW p \in Requests, NEW q \in Requests, ~ At(p, "idle")', ~ At(q, "idle")'
               PROVE  p = q
    BY DEF OneBusy
  <2>1. env' = env /\ \A t \in Requests : t # r => req'[t] = req[t] /\ At(t, "idle")
    BY <1>1, BusyStep, OthersIdle
  <2> QED BY <2>1 DEF At
<1>2. CASE NextDay
  BY <1>2 DEF NextDay, OneBusy, At
<1>3. ASSUME NEW b \in Batches, DeleteBatch(b) PROVE OneBusy'
  BY <1>3 DEF DeleteBatch, OneBusy, At
<1>4. CASE UNCHANGED vars
  BY <1>4 DEF vars, OneBusy, At
<1> QED BY <1>1, <1>2, <1>3, <1>4 DEF Next, Steps

LEMMA OneBusyInit == Init => OneBusy
  BY DEF Init, OneBusy, At, Idle

(* Who is there: only create and the import add to them, only remove       *)
(* takes away.                                                             *)
Here == {s \in Students : Present(s)}

LEMMA HereKept ==
  ASSUME TypeOK, NEW r \in Requests,
         \/ WritePlacement(r) \/ BulkWrite(r) \/ Archive(r) \/ WriteRow(r) \/ ArchiveAbsent(r)
         \/ (\E b \in Batches : DeleteBatch(b))
         \/ UNCHANGED student
  PROVE  Here' = Here
<1>1. ASSUME NEW s \in Students, WritePlacement(r) PROVE Present(s)' <=> Present(s)
  <2>1. CASE UNCHANGED student
    BY <2>1 DEF Present
  <2>2. CASE ~ UNCHANGED student
    <3>1. Write(req[r].student, req[r].write)
      BY <1>1, <2>2 DEF WritePlacement, placement
    <3>2. PICK t, c, b : student' = [student EXCEPT ![t].campus = c, ![t].batch = b]
      BY <3>1 DEF Write
    <3>3. student[s] \in StudentRows \cup {NoStudent}
      BY DEF TypeOK
    <3>4. student'[s].status = student[s].status
      BY <3>2, <3>3 DEF TypeOK, StudentRows, NoStudent
    <3> QED BY <3>4 DEF Present
  <2> QED BY <2>1, <2>2
<1>2. ASSUME NEW s \in Students, BulkWrite(r) PROVE Present(s)' <=> Present(s)
  <2>1. student[s] \in StudentRows \cup {NoStudent}
    BY DEF TypeOK
  <2>2. Present(s) => [student[s] EXCEPT !.batch = req[r].batch].status = student[s].status
    BY <2>1 DEF Present, StudentRows, NoStudent
  <2> QED BY <1>2, <2>2 DEF BulkWrite, Present
<1>3. ASSUME NEW s \in Students, Archive(r) PROVE Present(s)' <=> Present(s)
  BY <1>3, Held, PresentTyped DEF Archive, Present, TypeOK, StudentRows
<1>4. ASSUME NEW s \in Students, WriteRow(r) PROVE Present(s)' <=> Present(s)
  <2>1. CASE UNCHANGED student
    BY <2>1 DEF Present
  <2>2. CASE ~ UNCHANGED student
    <3> DEFINE q == req[r]
    <3>1. /\ Present(q.student)
          /\ student' = [student EXCEPT ![q.student].campus = q.roster.campus,
                                        ![q.student].batch = Given(q.write.batch, @),
                                        ![q.student].status = IF q.seen.status = "ARCHIVED" THEN "ACTIVE" ELSE @]
      BY <1>4, <2>2 DEF WriteRow, placement
    <3>2. student[s] \in StudentRows \cup {NoStudent}
      BY DEF TypeOK
    <3> HIDE DEF q
    <3>3. \/ student'[s].status = student[s].status
          \/ s = q.student /\ student'[s].status = "ACTIVE"
      BY <3>1, <3>2 DEF TypeOK, StudentRows, NoStudent
    <3> QED BY <3>1, <3>3 DEF Present
  <2> QED BY <2>1, <2>2
<1>5. ASSUME NEW s \in Students, ArchiveAbsent(r) PROVE Present(s)' <=> Present(s)
  <2>1. student[s] \in StudentRows \cup {NoStudent}
    BY DEF TypeOK
  <2>2. [student[s] EXCEPT !.status = "ARCHIVED"].status = "ARCHIVED"
    BY <2>1 DEF StudentRows, NoStudent
  <2> QED BY <1>5, <2>2 DEF ArchiveAbsent, Present
<1>6. ASSUME NEW s \in Students, NEW b \in Batches, DeleteBatch(b) PROVE Present(s)' <=> Present(s)
  <2>1. student[s] \in StudentRows \cup {NoStudent}
    BY DEF TypeOK
  <2>2. [student[s] EXCEPT !.batch = None].status = student[s].status
    BY <2>1 DEF StudentRows, NoStudent
  <2> QED BY <1>6, <2>2 DEF DeleteBatch, Present
<1> QED BY <1>1, <1>2, <1>3, <1>4, <1>5, <1>6 DEF Here, Present

-----------------------------------------------------------------------------
(* An import archives nobody its roster names.                             *)

(* When requests overlap, a row with namesakes is of a student who is there *)
(* and stays: otherwise a namesake takes the row over, and whoever creates *)
(* its owner meanwhile is dropped.                                         *)
HoldersStay ==
    "overlap" \in env.may =>
        \A roster \in env.rosters : \A i \in DOMAIN roster.rows :
            roster.rows[i].namesakes # {} =>
                env.start[roster.rows[i].owner].campus # None /\ "remove" \notin env.may

(* A row of the roster is still to do, or on the roster is its owner, or   *)
(* there is no owner, nor anyone else to create one.                       *)
InImport == {"find", "createRow", "dateRow", "writeRow"}
Accounted(q, row, here, may) ==
    \/ \E k \in DOMAIN q.left : q.left[k] = row
    \/ row.owner \in q.onRoster
    \/ row.owner \notin here /\ "overlap" \notin may
Accounts(q, here, may) ==
    q.pc \in InImport =>
        /\ \A k \in DOMAIN q.left : \E i \in DOMAIN q.roster.rows : q.left[k] = q.roster.rows[i]
        /\ q.pc \in {"dateRow", "writeRow"} =>
              q.student \in q.onRoster /\ q.student \in {Head(q.left).owner} \cup Head(q.left).namesakes
        /\ q.ok => \A i \in DOMAIN q.roster.rows : Accounted(q, q.roster.rows[i], here, may)

NamesKept ==
    /\ HoldersStay
    /\ OneBusy
    /\ \A r \in Requests : At(r, "delete") => "remove" \in env.may
    /\ "remove" \notin env.may => \A s \in Students : env.start[s].campus # None => Present(s)
    /\ \A r \in Requests : Accounts(req[r], Here, env.may)
    /\ \A r \in Requests : At(r, "archiveAbsent") => req[r].absent \cap req[r].named = {}
    /\ NamedNotArchived

LEMMA AccountsKept ==
  ASSUME NEW q, NEW here, NEW here2, NEW may, Accounts(q, here, may),
         "overlap" \in may \/ here2 \subseteq here
  PROVE  Accounts(q, here2, may)
  BY DEF Accounts, Accounted

LEMMA TailElements ==
  ASSUME NEW S, NEW left \in Seq(S), left # <<>>
  PROVE  /\ \A k \in DOMAIN left : left[k] = Head(left) \/ \E j \in DOMAIN Tail(left) : Tail(left)[j] = left[k]
         /\ \A j \in DOMAIN Tail(left) : \E k \in DOMAIN left : left[k] = Tail(left)[j]
         /\ \E k \in DOMAIN left : left[k] = Head(left)
<1>1. /\ Len(left) \in Nat \ {0} /\ DOMAIN left = 1..Len(left)
      /\ Tail(left) \in Seq(S) /\ Len(Tail(left)) = Len(left) - 1 /\ DOMAIN Tail(left) = 1..(Len(left) - 1)
      /\ Head(left) = left[1]
  BY EmptySeq, HeadTailProperties, LenProperties
<1>2. \A j \in 1..(Len(left) - 1) : Tail(left)[j] = left[j + 1] /\ j + 1 \in DOMAIN left
  BY <1>1, HeadTailProperties
<1>3. ASSUME NEW k \in DOMAIN left, k # 1
      PROVE  \E j \in DOMAIN Tail(left) : Tail(left)[j] = left[k]
  <2>1. k - 1 \in 1..(Len(left) - 1) /\ (k - 1) + 1 = k
    BY <1>1, <1>3
  <2>2. Tail(left)[k - 1] = left[k]
    BY <1>2, <2>1
  <2> QED BY <2>1, <2>2, <1>1
<1> QED BY <1>1, <1>2, <1>3

LEMMA NextRowAccounts ==
  ASSUME NEW q, NEW here, NEW here2, NEW may, Accounts(q, here, may), q.pc \in InImport,
         q.left \in Seq(Entries), q.left # <<>>, NEW named, NEW saved \in BOOLEAN, q.ok \in BOOLEAN,
         "overlap" \in may \/ here2 \subseteq here \cup named,
         saved => \/ Head(q.left).owner \in q.onRoster \cup named
                  \/ Head(q.left).owner \notin here2 /\ "overlap" \notin may
  PROVE  Accounts(NextRow(q, named, saved), here2, may)
<1> DEFINE x == NextRow(q, named, saved)
<1>1. /\ x.pc = "find" /\ x.left = Tail(q.left) /\ x.roster = q.roster
      /\ x.onRoster = q.onRoster \cup named /\ x.ok = (q.ok /\ saved)
  BY DEF NextRow
<1> HIDE DEF x
<1>2. \A k \in DOMAIN x.left : \E i \in DOMAIN x.roster.rows : x.left[k] = x.roster.rows[i]
  <2>1. \A k \in DOMAIN q.left : \E i \in DOMAIN q.roster.rows : q.left[k] = q.roster.rows[i]
    BY DEF Accounts
  <2>2. ASSUME NEW j \in DOMAIN Tail(q.left)
        PROVE  \E i \in DOMAIN q.roster.rows : Tail(q.left)[j] = q.roster.rows[i]
    <3>1. PICK k \in DOMAIN q.left : q.left[k] = Tail(q.left)[j]
      BY TailElements
    <3> QED BY <3>1, <2>1
  <2> QED BY <2>2, <1>1
<1>3. ASSUME x.ok, NEW i \in DOMAIN x.roster.rows PROVE Accounted(x, x.roster.rows[i], here2, may)
  <2>1. q.ok /\ saved /\ Accounted(q, q.roster.rows[i], here, may)
    BY <1>1, <1>3 DEF Accounts
  <2> DEFINE row == q.roster.rows[i]
  <2> HIDE DEF row
  <2>2. CASE \E k \in DOMAIN q.left : q.left[k] = row
    <3>1. row = Head(q.left) \/ \E j \in DOMAIN x.left : x.left[j] = row
      BY <2>2, <1>1, TailElements
    <3> QED BY <3>1, <2>1, <1>1 DEF Accounted, row
  <2>3. CASE row.owner \in q.onRoster
    BY <2>3, <1>1 DEF Accounted, row
  <2>4. CASE row.owner \notin here /\ "overlap" \notin may
    BY <2>4, <1>1 DEF Accounted, row
  <2> QED BY <2>1, <2>2, <2>3, <2>4 DEF Accounted, row
<1>4. Accounts(x, here2, may)
  BY <1>1, <1>2, <1>3 DEF Accounts
<1> QED BY <1>4 DEF x

(* One step of a request keeps the accounts of all.                        *)
LEMMA AccountsStep ==
  ASSUME TypeOK, OneBusy, NEW r \in Requests, Steps(r),
         \A q \in Requests : Accounts(req[q], Here, env.may),
         Accounts(req'[r], Here', env.may)
  PROVE  \A q \in Requests : Accounts(req'[q], Here', env'.may)
<1>1. env' = env /\ \A q \in Requests : q # r => req'[q] = req[q]
  BY BusyStep
<1>2. ASSUME NEW q \in Requests, q # r PROVE Accounts(req[q], Here', env.may)
  <2>1. CASE "overlap" \in env.may
    BY <2>1, AccountsKept
  <2>2. CASE "overlap" \notin env.may
    <3>1. req[q].pc = "idle"
      BY <2>2, <1>2, OthersIdle DEF At
    <3> QED BY <3>1 DEF Accounts, InImport
  <2> QED BY <2>1, <2>2
<1> QED BY <1>1, <1>2

LEMMA WriteRowAccounts ==
  ASSUME TypeOK, NamesKept, NEW r \in Requests, WriteRow(r)
  PROVE  Accounts(req'[r], Here', env.may)
<1> DEFINE q == req[r]
<1>1. Importing(q) /\ q.left # <<>> /\ q.left \in Seq(Entries) /\ q.ok \in BOOLEAN /\ q.pc = "writeRow"
  BY Held DEF WriteRow, Importing, At
<1>2. Accounts(q, Here, env.may) /\ Here' = Here
  BY HereKept DEF NamesKept
<1>3. /\ \/ req'[r] = NextRow(q, {}, FALSE)
         \/ req'[r] = NextRow(q, {}, TRUE) /\ (q.student = Head(q.left).owner \/ ~ Present(Head(q.left).owner))
  BY GotoStep DEF WriteRow, TypeOK
<1> DEFINE owner == Head(q.left).owner
<1>4. ASSUME q.student = owner \/ ~ Present(owner)
      PROVE  owner \in q.onRoster \/ (owner \notin Here /\ "overlap" \notin env.may)
  <2>1. q.student \in q.onRoster /\ q.student \in {owner} \cup Head(q.left).namesakes
    BY <1>1, <1>2 DEF Accounts, InImport
  <2>2. CASE q.student = owner
    BY <2>1, <2>2
  <2>3. CASE q.student # owner
    <3>1. ~ Present(owner) /\ Head(q.left).namesakes # {}
      BY <1>4, <2>1, <2>3
    <3>2. \E i \in DOMAIN q.roster.rows : Head(q.left) = q.roster.rows[i]
      <4>1. PICK k \in DOMAIN q.left : q.left[k] = Head(q.left)
        BY <1>1, TailElements
      <4> QED BY <4>1, <1>1, <1>2 DEF Accounts, InImport
    <3>3. q.roster \in env.rosters /\ owner \in Students
      BY <1>1, EntryTyped DEF Importing, Entries
    <3>4. ASSUME "overlap" \in env.may PROVE FALSE
      <4>1. env.start[owner].campus # None /\ "remove" \notin env.may
        BY <3>1, <3>2, <3>3, <3>4 DEF NamesKept, HoldersStay
      <4> QED BY <4>1, <3>1, <3>3 DEF NamesKept
    <3> QED BY <3>1, <3>3, <3>4 DEF Here
  <2> QED BY <2>2, <2>3
<1>5. \A saved \in BOOLEAN :
         (saved => q.student = owner \/ ~ Present(owner)) => Accounts(NextRow(q, {}, saved), Here, env.may)
  <2> HIDE DEF q, owner
  <2>1. q.pc \in InImport
    BY <1>1 DEF InImport
  <2> TAKE saved \in BOOLEAN
  <2> HAVE saved => q.student = owner \/ ~ Present(owner)
  <2>2. saved => owner \in q.onRoster \cup {} \/ (owner \notin Here /\ "overlap" \notin env.may)
    BY <1>4
  <2> QED BY <1>1, <1>2, <2>1, <2>2, NextRowAccounts DEF owner
<1> QED BY <1>2, <1>3, <1>5

LEMMA CreateRowAccounts ==
  ASSUME TypeOK, NamesKept, NEW r \in Requests, CreateRow(r)
  PROVE  Accounts(req'[r], Here', env.may)
<1> DEFINE q == req[r]
           owner == Head(q.left).owner
<1>1. Importing(q) /\ q.left # <<>> /\ q.left \in Seq(Entries) /\ q.ok \in BOOLEAN /\ q.pc = "createRow"
  BY Held DEF CreateRow, Importing, At
<1>2. Accounts(q, Here, env.may)
  BY DEF NamesKept
<1>3. owner \in Students
  BY <1>1, EntryTyped DEF Entries
<1>4. \/ req'[r] = NextRow(q, {}, FALSE) /\ Here' = Here
      \/ req'[r] = NextRow(q, {owner}, TRUE) /\ Here' = Here \cup {owner}
  <2>1. CASE UNCHANGED placement /\ Goto(r, NextRow(q, {}, FALSE))
    BY <2>1, HereKept, GotoStep DEF placement, TypeOK
  <2>2. CASE ~ (UNCHANGED placement /\ Goto(r, NextRow(q, {}, FALSE)))
    <3>1. /\ Goto(r, NextRow(q, {owner}, TRUE))
          /\ student' = [student EXCEPT ![owner] = [status |-> "ACTIVE", campus |-> q.roster.campus,
                             batch |-> Head(q.left).batch, enrolled |-> today]]
      BY <2>2 DEF CreateRow
    <3> HIDE DEF q, owner
    <3>2. \A s \in Students : Present(s)' <=> Present(s) \/ s = owner
      BY <3>1, <1>3 DEF Present, TypeOK
    <3> QED BY <1>3, <3>1, <3>2, GotoStep DEF Here, TypeOK
  <2> QED BY <2>1, <2>2
<1>5. q.pc \in InImport
  BY <1>1 DEF InImport
<1>6. CASE req'[r] = NextRow(q, {}, FALSE) /\ Here' = Here
  BY <1>1, <1>2, <1>5, <1>6, NextRowAccounts
<1>7. CASE req'[r] = NextRow(q, {owner}, TRUE) /\ Here' = Here \cup {owner}
  <2>1. Here' \subseteq Here \cup {owner} /\ owner \in q.onRoster \cup {owner}
    BY <1>7
  <2>2. Accounts(NextRow(q, {owner}, TRUE), Here', env.may)
    BY <1>1, <1>2, <1>5, <2>1, NextRowAccounts
  <2> QED BY <2>2, <1>7
<1> QED BY <1>4, <1>6, <1>7

LEMMA MatchRowAccounts ==
  ASSUME TypeOK, NamesKept, NEW r \in Requests, MatchRow(r)
  PROVE  Accounts(req'[r], Here', env.may)
<1> DEFINE q == req[r]
<1>1. Importing(q) /\ q.left # <<>> /\ q.left \in Seq(Entries) /\ q.ok \in BOOLEAN /\ q.pc = "find"
      /\ DOMAIN q = ImportFields
  BY Held DEF MatchRow, Importing, At
<1>2. Accounts(q, Here, env.may) /\ Here' = Here /\ q.pc \in InImport
  BY <1>1, HereKept DEF NamesKept, MatchRow, placement, InImport
<1>3. CASE req'[r] = [q EXCEPT !.pc = "createRow"]
  <2>1. /\ req'[r].left = q.left /\ req'[r].roster = q.roster /\ req'[r].ok = q.ok
        /\ req'[r].onRoster = q.onRoster /\ req'[r].pc = "createRow"
    BY <1>1, <1>3 DEF ImportFields
  <2> QED BY <2>1, <1>2 DEF Accounts, Accounted
<1>4. ASSUME NEW s \in Matches(q), req'[r] = NextRow(q, {s}, FALSE)
      PROVE  Accounts(req'[r], Here', env.may)
  <2> HIDE DEF q
  <2>1. Accounts(NextRow(q, {s}, FALSE), Here, env.may)
    BY <1>1, <1>2, NextRowAccounts
  <2> QED BY <2>1, <1>2, <1>4
<1>5. ASSUME NEW s \in Matches(q),
             req'[r] = [pc |-> "dateRow", roster |-> q.roster, left |-> q.left,
                        onRoster |-> q.onRoster \cup {s}, ok |-> q.ok, student |-> s, seen |-> student[s]]
      PROVE  Accounts(req'[r], Here', env.may)
  <2>1. s \in {Head(q.left).owner} \cup Head(q.left).namesakes
    BY DEF Matches
  <2> QED BY <2>1, <1>1, <1>2, <1>5 DEF Accounts, Accounted
<1> QED BY ZenonT(40), <1>3, <1>4, <1>5, GotoStep DEF MatchRow, TypeOK

LEMMA OtherAccounts ==
  ASSUME TypeOK, NamesKept, NEW r \in Requests,
         Request(r) \/ RowFails(r) \/ DateRow(r) \/ ReadAbsent(r) \/ DatePlacement(r) \/ WritePlacement(r)
         \/ BulkWrite(r) \/ BulkDate(r) \/ BulkRows(r) \/ Archive(r) \/ Delete(r) \/ ArchiveAbsent(r) \/ Crash(r)
  PROVE  Accounts(req'[r], Here', env.may)
<1>1. ASSUME req'[r].pc \notin InImport PROVE Accounts(req'[r], Here', env.may)
  BY <1>1 DEF Accounts
<1>2. CASE RowFails(r)
  <2>1. Importing(req[r]) /\ req[r].left # <<>> /\ req[r].pc \in InImport
    BY <1>2, Held DEF RowFails, At, InImport
  <2>2. Accounts(req[r], Here, env.may) /\ Here' = Here
    BY <1>2, HereKept DEF NamesKept, RowFails, placement
  <2>3. req'[r] = NextRow(req[r], {}, FALSE)
    BY <1>2, GotoStep DEF RowFails, TypeOK
  <2> QED BY <2>1, <2>2, <2>3, NextRowAccounts DEF Importing
<1>3. CASE DateRow(r)
  <2>1. Accounts(req[r], Here, env.may) /\ Here' = Here /\ req[r].pc \in InImport /\ req[r].pc = "dateRow"
    BY <1>3, HereKept DEF NamesKept, DateRow, placement, InImport, At
  <2>2. /\ req'[r].left = req[r].left /\ req'[r].roster = req[r].roster /\ req'[r].ok = req[r].ok
        /\ req'[r].onRoster = req[r].onRoster /\ req'[r].student = req[r].student
    BY <1>3, GotoStep DEF DateRow, TypeOK
  <2> QED BY <2>1, <2>2 DEF Accounts, Accounted
<1>4. CASE Request(r)
  <2>1. CASE \E s \in Students : \E c \in Campuses \cup {None}, b \in env.targets : Create(r, s, c, b)
    <3>1. req' = req /\ At(r, "idle")
      BY <2>1 DEF Create, MayStart
    <3> QED BY <3>1, <1>1 DEF At, InImport
  <2>2. CASE \E roster \in env.rosters : ReadRoster(r, roster)
    <3>1. PICK roster \in env.rosters : ReadRoster(r, roster)
      BY <2>2
    <3>2. req'[r] = [pc |-> "find", roster |-> roster, left |-> roster.rows, onRoster |-> {}, ok |-> TRUE]
      BY <3>1, GotoStep DEF ReadRoster, Start, TypeOK
    <3> QED BY <3>2 DEF Accounts, Accounted
  <2>3. CASE /\ ~ \E s \in Students : \E c \in Campuses \cup {None}, b \in env.targets : Create(r, s, c, b)
             /\ ~ \E roster \in env.rosters : ReadRoster(r, roster)
    <3>1. At(r, "date")' \/ At(r, "write")' \/ At(r, "bulkWrite")' \/ At(r, "archive")' \/ At(r, "delete")'
      BY <1>4, <2>3, Transitions DEF Request
    <3> QED BY <3>1, <1>1 DEF At, InImport
  <2> QED BY <2>1, <2>2, <2>3
<1>5. CASE ReadAbsent(r) \/ DatePlacement(r) \/ WritePlacement(r) \/ BulkWrite(r) \/ BulkDate(r) \/ BulkRows(r)
           \/ Archive(r) \/ Delete(r) \/ ArchiveAbsent(r) \/ Crash(r)
  BY <1>1, <1>5, Transitions DEF At, InImport
<1> QED BY <1>2, <1>3, <1>4, <1>5

LEMMA HereGrows ==
  ASSUME TypeOK, NEW r \in Requests, Steps(r), ~ Delete(r), NEW s \in Students, Present(s)
  PROVE  Present(s)'
<1>1. CASE Request(r)
  <2>1. CASE UNCHANGED student
    BY <2>1 DEF Present
  <2>2. CASE ~ UNCHANGED student
    <3>1. PICK t \in Students, c \in Campuses \cup {None}, b \in env.targets : Create(r, t, c, b)
      BY <1>1, <2>2 DEF Request, ReadForMove, ReadForTransfer, ReadForUpdate, BulkRead, ReadForRemove,
         ReadRoster, placement
    <3> QED BY <3>1 DEF Create, Present, TypeOK
  <2> QED BY <2>1, <2>2
<1>2. CASE Continue(r)
  <2>1. CASE UNCHANGED student
    BY <2>1 DEF Present
  <2>2. CASE CreateRow(r)
    <3> DEFINE t == Head(req[r].left).owner
               x == [status |-> "ACTIVE", campus |-> req[r].roster.campus,
                     batch |-> Head(req[r].left).batch, enrolled |-> today]
    <3>1. UNCHANGED student \/ student' = [student EXCEPT ![t] = x]
      BY <2>2 DEF CreateRow, placement
    <3>2. x.status = "ACTIVE"
      OBVIOUS
    <3> HIDE DEF t, x
    <3> QED BY <3>1, <3>2 DEF Present, TypeOK
  <2>3. CASE WritePlacement(r) \/ BulkWrite(r) \/ Archive(r) \/ WriteRow(r) \/ ArchiveAbsent(r)
    BY <2>3, HereKept DEF Here
  <2> QED BY <1>2, <2>1, <2>2, <2>3 DEF Continue, DatePlacement, BulkDate, BulkRows, RowFails, MatchRow,
     DateRow, ReadAbsent, Crash, placement
<1> QED BY <1>1, <1>2 DEF Steps

LEMMA DeleteAsked ==
  ASSUME TypeOK, NEW r \in Requests, Steps(r), At(r, "delete")'
  PROVE  "remove" \in env.may \/ At(r, "delete")
  BY Transitions DEF Steps, Request, Continue, At

(* What is absent when the roster has been read is not named by it.        *)
LEMMA ReadAbsentSafe ==
  ASSUME TypeOK, NamesKept, NEW r \in Requests, ReadAbsent(r), At(r, "archiveAbsent")'
  PROVE  req'[r].absent \cap req'[r].named = {}
<1> DEFINE q == req[r]
           named == {q.roster.rows[i].owner : i \in DOMAIN q.roster.rows}
<1>1. CASE q.roster.archive /\ q.ok
  <2>1. req'[r].absent = AbsentFromRoster(q) /\ req'[r].named = named
    BY <1>1, GotoStep DEF ReadAbsent, TypeOK
  <2>2. Accounts(q, Here, env.may) /\ q.pc \in InImport /\ q.left = <<>>
    BY DEF NamesKept, ReadAbsent, At, InImport
  <2>3. ASSUME NEW i \in DOMAIN q.roster.rows
        PROVE  q.roster.rows[i].owner \in q.onRoster \/ q.roster.rows[i].owner \notin Here
    BY <1>1, <2>2 DEF Accounts, Accounted
  <2>4. ASSUME NEW s \in AbsentFromRoster(q) PROVE s \in Here /\ s \notin q.onRoster
    BY DEF AbsentFromRoster, Here, Present
  <2> HIDE DEF q
  <2>5. AbsentFromRoster(q) \cap named = {}
    BY <2>3, <2>4
  <2> QED BY <2>1, <2>5
<1>2. CASE ~ (q.roster.archive /\ q.ok)
  <2>1. req'[r] = Idle
    BY <1>2, GotoStep DEF ReadAbsent, TypeOK
  <2> QED BY <2>1 DEF Idle, At
<1> QED BY <1>1, <1>2

LEMMA NamesKeptStep ==
  ASSUME TypeOK, NamesKept, NEW r \in Requests, Steps(r)
  PROVE  NamesKept'
<1>1. env' = env /\ \A q \in Requests : q # r => req'[q] = req[q]
  BY BusyStep
<1>2. HoldersStay'
  BY <1>1 DEF NamesKept, HoldersStay
<1>3. OneBusy'
  BY OneBusyNext DEF NamesKept, Next, Steps
<1>4. ASSUME NEW q \in Requests, At(q, "delete")' PROVE "remove" \in env'.may
  <2>1. CASE q = r
    BY <1>1, <1>4, <2>1, DeleteAsked DEF NamesKept
  <2>2. CASE q # r
    BY <1>1, <1>4, <2>2 DEF NamesKept, At
  <2> QED BY <2>1, <2>2
<1>5. ASSUME "remove" \notin env'.may, NEW s \in Students, env'.start[s].campus # None PROVE Present(s)'
  <2>1. Present(s) /\ ~ Delete(r)
    BY <1>1, <1>5 DEF NamesKept, Delete
  <2> QED BY <2>1, HereGrows
<1>6. Accounts(req'[r], Here', env.may)
  BY WriteRowAccounts, CreateRowAccounts, MatchRowAccounts, OtherAccounts DEF Steps, Continue
<1>7. \A q \in Requests : Accounts(req'[q], Here', env'.may)
  BY <1>6, AccountsStep DEF NamesKept
<1>8. ASSUME NEW q \in Requests, At(q, "archiveAbsent")'
      PROVE  req'[q].absent \cap req'[q].named = {}
  <2>1. CASE q = r
    <3>1. CASE req' = req
      BY <3>1, <1>8, <2>1 DEF NamesKept, At
    <3>2. CASE ReadAbsent(r)
      BY <3>2, <1>8, <2>1, ReadAbsentSafe
    <3>3. CASE req' # req /\ ~ ReadAbsent(r)
      BY <3>3, <1>8, <2>1, Transitions DEF Steps, Request, Continue, At
    <3> QED BY <3>1, <3>2, <3>3
  <2>2. CASE q # r
    BY <1>1, <1>8, <2>2 DEF NamesKept, At
  <2> QED BY <2>1, <2>2
<1>9. NamedNotArchived'
  <2>1. CASE UNCHANGED droppedBy
    BY <2>1 DEF NamesKept, NamedNotArchived
  <2>2. CASE ArchiveAbsent(r)
    <3>1. req[r].absent \cap req[r].named = {}
      BY <2>2 DEF NamesKept, ArchiveAbsent
    <3> QED BY <3>1, <2>2 DEF NamesKept, NamedNotArchived, ArchiveAbsent
  <2>3. CASE ~ UNCHANGED droppedBy /\ ~ ArchiveAbsent(r)
    <3>1. Request(r) => UNCHANGED droppedBy
      BY DEF Request, Create, ReadForMove, ReadForTransfer, ReadForUpdate, BulkRead, ReadForRemove, ReadRoster
    <3>2. WriteRow(r) \/ CreateRow(r) \/ MatchRow(r) \/ DateRow(r) => UNCHANGED droppedBy
      BY DEF WriteRow, CreateRow, MatchRow, DateRow
    <3> QED BY <2>3, <3>1, <3>2 DEF Steps, Continue, DatePlacement, WritePlacement, BulkWrite, BulkDate, BulkRows,
          Archive, Delete, RowFails, ReadAbsent, Crash
  <2> QED BY <2>1, <2>2, <2>3
<1> QED BY <1>2, <1>3, <1>4, <1>5, <1>7, <1>8, <1>9 DEF NamesKept

LEMMA NamesKeptNext ==
  ASSUME TypeOK, NamesKept, [Next]_vars
  PROVE  NamesKept'
<1>1. ASSUME NEW r \in Requests, Steps(r) PROVE NamesKept'
  BY <1>1, NamesKeptStep
<1>2. CASE NextDay \/ (\E b \in Batches : DeleteBatch(b)) \/ UNCHANGED vars
  <2>1. UNCHANGED <<env, req, droppedBy>>
    BY <1>2 DEF NextDay, DeleteBatch, vars
  <2>2. Here' = Here
    <3>1. ASSUME NEW r \in Requests PROVE Here' = Here
      BY <1>2, HereKept DEF NextDay, vars, placement
    <3>2. CASE Requests = {}
      <4>1. ASSUME NEW s \in Students, NEW b \in Batches, DeleteBatch(b) PROVE Present(s)' <=> Present(s)
        <5>1. student[s] \in StudentRows \cup {NoStudent}
          BY DEF TypeOK
        <5>2. [student[s] EXCEPT !.batch = None].status = student[s].status
          BY <5>1 DEF StudentRows, NoStudent
        <5> QED BY <4>1, <5>2 DEF DeleteBatch, Present
      <4> QED BY <1>2, <4>1 DEF NextDay, vars, placement, Here, Present
    <3> QED BY <3>1, <3>2
  <2>3. \A s \in Students : Present(s)' <=> Present(s)
    BY <2>2 DEF Here
  <2>4. OneBusy'
    BY <2>1 DEF NamesKept, OneBusy, At
  <2>5. HoldersStay'
    BY <2>1 DEF NamesKept, HoldersStay
  <2>6. \A q \in Requests : Accounts(req'[q], Here', env'.may)
    BY <2>1, <2>2 DEF NamesKept
  <2> QED BY <2>1, <2>3, <2>4, <2>5, <2>6 DEF NamesKept, NamedNotArchived, At
<1> QED BY <1>1, <1>2 DEF Next, Steps

LEMMA NamesKeptInit ==
  ASSUME Init, HoldersStay
  PROVE  NamesKept
<1>1. \A r \in Requests : req[r] = Idle /\ Idle.pc = "idle"
  BY DEF Init, Idle
<1>2. \A r \in Requests : Accounts(req[r], Here, env.may)
  BY <1>1 DEF Accounts, InImport
<1>3. \A s \in Students : env.start[s].campus # None => Present(s)
  BY DEF Init, Present
<1>4. NamedNotArchived
  BY DEF Init, NamedNotArchived
<1> QED BY <1>1, <1>2, <1>3, <1>4, OneBusyInit DEF NamesKept, At

(* A student whom a roster names is never archived by that import, however *)
(* many imports, moves, failing rows and stops there are: of requests that *)
(* overlap it is required that a row taken for a namesake's has its owner, *)
(* who stays.                                                              *)
THEOREM NamedStay == Spec /\ HoldersStay => []NamedNotArchived
<1>1. TypeOK /\ NamesKept /\ [Next]_vars => NamesKept'
  BY NamesKeptNext
<1>2. Init /\ HoldersStay => NamesKept
  BY NamesKeptInit
<1>3. NamesKept => NamedNotArchived
  BY DEF NamesKept
<1> QED BY <1>1, <1>2, <1>3, Typing, PTL DEF Spec

-----------------------------------------------------------------------------
(* Nothing is dated later than today.                                      *)
SoFar(rows, day) == \A i \in DOMAIN rows : rows[i].day <= day
ReadSoFar(q, day) ==
    /\ q.pc \in {"date", "dateRow"} => q.seen.enrolled <= day
    /\ q.pc \in {"write", "writeRow"} => SoFar(q.write.batchRow, day) /\ SoFar(q.write.campusRow, day)
    /\ q.pc \in {"bulkWrite", "bulkDate"} => \A t \in DOMAIN q.seen : q.seen[t].enrolled <= day
    /\ q.pc = "bulkRows" => \A t \in DOMAIN q.days : q.days[t] <= day

(* Who is not there has no history; who is has a batch that exists.        *)
WellPlaced(s) ==
    /\ SoFar(batchRows[s], today) /\ SoFar(campusRows[s], today)
    /\ Present(s) => student[s].enrolled <= today
    /\ ~ Present(s) => batchRows[s] = <<>> /\ campusRows[s] = <<>>
    /\ student[s].batch \in batches \cup {None}

DatesSound ==
    /\ \A s \in Students : WellPlaced(s)
    /\ \A r \in Requests : ReadSoFar(req[r], today)

LEMMA EmptySoFar == \A day : SoFar(<<>>, day)
  BY DEF SoFar

LEMMA OneSoFar == \A h, d, day : d <= day => SoFar(<<Row(h, d)>>, day)
  BY DEF SoFar, Row

LEMMA JoinedSoFar ==
  ASSUME NEW H, NEW rows \in Rows(H), NEW more \in Rows(H), NEW day, SoFar(rows, day), SoFar(more, day)
  PROVE  SoFar(rows \o more, day)
<1>1. /\ Len(rows \o more) = Len(rows) + Len(more) /\ DOMAIN (rows \o more) = 1..(Len(rows) + Len(more))
      /\ \A i \in 1..(Len(rows) + Len(more)) :
            (rows \o more)[i] = IF i <= Len(rows) THEN rows[i] ELSE more[i - Len(rows)]
  BY ConcatProperties DEF Rows
<1>2. DOMAIN rows = 1..Len(rows) /\ DOMAIN more = 1..Len(more) /\ Len(rows) \in Nat /\ Len(more) \in Nat
  BY RowTypes
<1>3. \A i \in 1..(Len(rows) + Len(more)) :
         \/ i \in DOMAIN rows /\ (rows \o more)[i] = rows[i]
         \/ i - Len(rows) \in DOMAIN more /\ (rows \o more)[i] = more[i - Len(rows)]
  BY <1>1, <1>2
<1> QED BY <1>1, <1>3 DEF SoFar

LEMMA EffectiveSoFar ==
  ASSUME TypeOK, NEW rows, NEW e, e <= today
  PROVE  EffectiveDay(rows, e) <= today
  BY DEF EffectiveDay, TypeOK, Days

(* What a step of a request leaves in it.                                  *)
LEMMA DatePlacementSoFar ==
  ASSUME TypeOK, DatesSound, NEW r \in Requests, DatePlacement(r)
  PROVE  ReadSoFar(req'[r], today)
<1> DEFINE q == req[r]
           day == EffectiveDay(batchRows[q.student], q.seen.enrolled)
           campusRow == IF Changed(q.campus, q.seen.campus) THEN <<Row(q.campus[1], today)>> ELSE <<>>
           batchRow == IF Changed(q.batch, q.seen.batch) THEN <<Row(q.batch[1], day)>> ELSE <<>>
<1>1. /\ req'[r].pc = "write" /\ req'[r].write.batchRow = batchRow /\ req'[r].write.campusRow = campusRow
  BY GotoStep DEF DatePlacement, TypeOK
<1>2. q.seen.enrolled <= today
  BY DEF DatesSound, ReadSoFar, DatePlacement, At
<1>3. day <= today /\ today <= today
  BY <1>2, EffectiveSoFar DEF TypeOK, Days
<1>4. SoFar(campusRow, today) /\ SoFar(batchRow, today)
  <2> HIDE DEF day
  <2> QED BY <1>3, EmptySoFar, OneSoFar
<1> HIDE DEF campusRow, batchRow
<1> QED BY <1>1, <1>4 DEF ReadSoFar

LEMMA DateRowSoFar ==
  ASSUME TypeOK, DatesSound, NEW r \in Requests, DateRow(r)
  PROVE  ReadSoFar(req'[r], today)
<1> DEFINE q == req[r]
           s == q.student
           c == q.roster.campus
           b == Head(q.left).batch
           campusDay == EffectiveDay(campusRows[s], q.seen.enrolled)
           batchDay == EffectiveDay(batchRows[s], q.seen.enrolled)
           campusRow == IF q.seen.campus # c THEN <<Row(c, campusDay)>> ELSE <<>>
           batchRow == IF b # None /\ q.seen.batch # b THEN <<Row(b, batchDay)>> ELSE <<>>
<1>1. /\ req'[r].pc = "writeRow" /\ req'[r].write.batchRow = batchRow /\ req'[r].write.campusRow = campusRow
  BY GotoStep DEF DateRow, TypeOK
<1>2. q.seen.enrolled <= today
  BY DEF DatesSound, ReadSoFar, DateRow, At
<1>3. campusDay <= today /\ batchDay <= today
  BY <1>2, EffectiveSoFar
<1>4. SoFar(campusRow, today) /\ SoFar(batchRow, today)
  <2> HIDE DEF campusDay, batchDay, c, b
  <2> QED BY <1>3, EmptySoFar, OneSoFar
<1> HIDE DEF campusRow, batchRow
<1> QED BY <1>1, <1>4 DEF ReadSoFar

LEMMA BulkDateSoFar ==
  ASSUME TypeOK, DatesSound, NEW r \in Requests, BulkDate(r)
  PROVE  ReadSoFar(req'[r], today)
<1> DEFINE q == req[r]
<1>1. /\ req'[r].pc = "bulkRows"
      /\ req'[r].days = [s \in Moved(q) |-> EffectiveDay(batchRows[s], q.seen[s].enrolled)]
  BY GotoStep DEF BulkDate, TypeOK
<1>2. \A t \in DOMAIN q.seen : q.seen[t].enrolled <= today
  BY DEF DatesSound, ReadSoFar, BulkDate, At
<1>3. \A t \in Moved(q) : EffectiveDay(batchRows[t], q.seen[t].enrolled) <= today
  BY <1>2, EffectiveSoFar DEF Moved
<1> QED BY <1>1, <1>3 DEF ReadSoFar

LEMMA RequestSoFar ==
  ASSUME TypeOK, DatesSound, NEW r \in Requests, Request(r)
  PROVE  ReadSoFar(req'[r], today)
<1>1. today <= today
  BY DEF TypeOK, Days
<1>2. ASSUME NEW s \in Students, NEW c, NEW b, Create(r, s, c, b) PROVE ReadSoFar(req'[r], today)
  BY <1>2, Transitions DEF DatesSound
<1>3. ASSUME NEW s \in Students, NEW c, NEW b, ReadForMove(r, s, b) \/ ReadForUpdate(r, s, c, b)
      PROVE  ReadSoFar(req'[r], today)
  <2>1. req'[r].pc = "date" /\ req'[r].seen = student[s] /\ Present(s)
    BY <1>3, GotoStep DEF ReadForMove, ReadForUpdate, Start, TypeOK
  <2> QED BY <2>1 DEF ReadSoFar, DatesSound, WellPlaced
<1>4. ASSUME NEW s \in Students, NEW c, NEW b, ReadForTransfer(r, s, c, b)
      PROVE  ReadSoFar(req'[r], today)
  <2>1. /\ req'[r].pc = "write"
        /\ req'[r].write.campusRow = IF student[s].campus # c THEN <<Row(c, today)>> ELSE <<>>
        /\ req'[r].write.batchRow = IF student[s].batch # b THEN <<Row(b, today)>> ELSE <<>>
    BY <1>4, GotoStep DEF ReadForTransfer, Start, TypeOK
  <2> QED BY <2>1, <1>1, EmptySoFar, OneSoFar DEF ReadSoFar
<1>5. ASSUME NEW S \in SUBSET Students, NEW b, BulkRead(r, S, b) PROVE ReadSoFar(req'[r], today)
  <2>1. req'[r].pc = "bulkWrite" /\ req'[r].seen = [s \in S |-> student[s]] /\ \A s \in S : Present(s)
    BY <1>5, GotoStep DEF BulkRead, Start, TypeOK
  <2> QED BY <2>1 DEF ReadSoFar, DatesSound, WellPlaced
<1>6. ASSUME At(r, "archive")' \/ At(r, "delete")' \/ At(r, "find")' PROVE ReadSoFar(req'[r], today)
  BY <1>6 DEF ReadSoFar, At
<1> QED BY <1>2, <1>3, <1>4, <1>5, <1>6, Transitions DEF Request

LEMMA ContinueSoFar ==
  ASSUME TypeOK, DatesSound, NEW r \in Requests, Continue(r)
  PROVE  ReadSoFar(req'[r], today)
<1>1. ASSUME At(r, "idle")' \/ At(r, "find")' \/ At(r, "createRow")' \/ At(r, "archiveAbsent")'
      PROVE  ReadSoFar(req'[r], today)
  BY <1>1 DEF ReadSoFar, At
<1>2. CASE BulkWrite(r) /\ At(r, "bulkDate")'
  <2>1. req'[r].pc = "bulkDate" /\ req'[r].seen = req[r].seen
    <3>1. req'[r] = [req[r] EXCEPT !.pc = "bulkDate"] \/ req'[r] = Idle
      BY <1>2, GotoStep DEF BulkWrite, TypeOK
    <3> QED BY <1>2, <3>1, Held DEF At, Idle, BulkWrite
  <2> QED BY <2>1, <1>2 DEF ReadSoFar, DatesSound, BulkWrite, At
<1>3. CASE MatchRow(r) /\ At(r, "dateRow")'
  <2>1. PICK s \in Students : Present(s) /\ req'[r].seen = student[s]
    <3>1. [req[r] EXCEPT !.pc = "createRow"].pc = "createRow"
      BY <1>3, Held DEF MatchRow, At, ImportFields
    <3>2. req'[r] # [req[r] EXCEPT !.pc = "createRow"]
      BY <3>1, <1>3 DEF At
    <3>3. \A s : req'[r] # NextRow(req[r], {s}, FALSE)
      BY <1>3 DEF At, NextRow
    <3>4. PICK s \in Matches(req[r]) :
             req'[r] = IF req[r].roster.overwrite
                       THEN [pc |-> "dateRow", roster |-> req[r].roster, left |-> req[r].left,
                             onRoster |-> req[r].onRoster \cup {s}, ok |-> req[r].ok,
                             student |-> s, seen |-> student[s]]
                       ELSE NextRow(req[r], {s}, FALSE)
      BY ZenonT(40), <1>3, <3>2, GotoStep DEF MatchRow, TypeOK
    <3>5. req[r].roster.overwrite
      BY <3>3, <3>4
    <3>6. req'[r].seen = student[s]
      BY <3>4, <3>5
    <3> QED BY <3>6 DEF Matches
  <2> QED BY <2>1, <1>3 DEF ReadSoFar, DatesSound, WellPlaced, At
<1> QED BY <1>1, <1>2, <1>3, Transitions, DatePlacementSoFar, DateRowSoFar, BulkDateSoFar DEF Continue

-----------------------------------------------------------------------------
(* What a step of a request does to one student.                           *)
SameColumns(s) ==
    /\ student'[s].campus = student[s].campus /\ student'[s].batch = student[s].batch
    /\ student'[s].enrolled = student[s].enrolled /\ (Present(s)' <=> Present(s))
SameHistory(s) == batchRows'[s] = batchRows[s] /\ campusRows'[s] = campusRows[s]
Quiet(s) == SameColumns(s) /\ SameHistory(s)

FirstRows(home) == IF home = None THEN <<>> ELSE <<Row(home, today)>>
Born(s) ==
    /\ ~ Present(s) /\ Present(s)' /\ student'[s].enrolled = today
    /\ student'[s].batch \in batches \cup {None}
    /\ student'[s].campus \in Campuses \cup {None}
    /\ batchRows'[s] = FirstRows(student'[s].batch) /\ campusRows'[s] = FirstRows(student'[s].campus)

Gone(r, s) ==
    /\ At(r, "delete") /\ s = req[r].student
    /\ student'[s] = NoStudent /\ batchRows'[s] = <<>> /\ campusRows'[s] = <<>>

CampusWritten(q) == IF q.pc = "writeRow" THEN <<q.roster.campus>> ELSE q.write.campus
Wrote(r, s) ==
    /\ At(r, "write") \/ At(r, "writeRow")
    /\ s = req[r].student /\ Present(s) /\ Present(s)' /\ Exists(req[r].write.batch)
    /\ student'[s].enrolled = student[s].enrolled
    /\ student'[s].batch = Given(req[r].write.batch, student[s].batch)
    /\ student'[s].campus = Given(CampusWritten(req[r]), student[s].campus)
    /\ batchRows'[s] = batchRows[s] \o req[r].write.batchRow
    /\ campusRows'[s] = campusRows[s] \o req[r].write.campusRow

BulkWrote(r, s) ==
    /\ At(r, "bulkWrite") /\ At(r, "bulkDate")' /\ s \in DOMAIN req[r].seen
    /\ Present(s) /\ Present(s)' /\ Exists(<<req[r].batch>>)
    /\ student'[s].batch = req[r].batch
    /\ student'[s].campus = student[s].campus /\ student'[s].enrolled = student[s].enrolled
    /\ SameHistory(s)

Recorded(r, s) ==
    /\ At(r, "bulkRows") /\ s \in DOMAIN req[r].days
    /\ Present(s) /\ Exists(<<req[r].batch>>)
    /\ SameColumns(s)
    /\ campusRows'[s] = campusRows[s]
    /\ batchRows'[s] = batchRows[s] \o <<Row(req[r].batch, req[r].days[s])>>

Affects(r, s) == Quiet(s) \/ Born(s) \/ Gone(r, s) \/ Wrote(r, s) \/ BulkWrote(r, s) \/ Recorded(r, s)

LEMMA UntouchedQuiet ==
  ASSUME NEW s, student'[s] = student[s], SameHistory(s)
  PROVE  Quiet(s)
  BY DEF Quiet, SameColumns, Present

LEMMA UnplacedQuiet ==
  ASSUME UNCHANGED placement, NEW s
  PROVE  Quiet(s)
  BY UntouchedQuiet DEF placement, SameHistory

(* A status or a batch set in a record leaves its other columns.           *)
LEMMA SetStatus ==
  ASSUME NEW st \in StudentRows \cup {NoStudent}, NEW x
  PROVE  /\ [st EXCEPT !.status = x].campus = st.campus /\ [st EXCEPT !.status = x].batch = st.batch
         /\ [st EXCEPT !.status = x].enrolled = st.enrolled /\ [st EXCEPT !.status = x].status = x
  BY DEF StudentRows, NoStudent

LEMMA SetBatch ==
  ASSUME NEW st \in StudentRows \cup {NoStudent}, NEW x
  PROVE  /\ [st EXCEPT !.batch = x].campus = st.campus /\ [st EXCEPT !.batch = x].batch = x
         /\ [st EXCEPT !.batch = x].enrolled = st.enrolled /\ [st EXCEPT !.batch = x].status = st.status
  BY DEF StudentRows, NoStudent

LEMMA CreateAffects ==
  ASSUME TypeOK, NEW r \in Requests, NEW s \in Students, NEW t \in Students, NEW c \in Campuses \cup {None},
         NEW b \in Batches \cup {None}, Create(r, t, c, b)
  PROVE  Affects(r, s)
<1>1. CASE s = t
  <2> DEFINE st == [status |-> "ACTIVE", campus |-> c, batch |-> b, enrolled |-> today]
  <2>1. student'[s] = st /\ campusRows'[s] = FirstRows(c) /\ batchRows'[s] = FirstRows(b) /\ ~ Present(s)
    BY <1>1 DEF Create, TypeOK, FirstRows
  <2>2. b \in batches \cup {None}
    BY DEF Create, Exists
  <2> QED BY <2>1, <2>2 DEF Affects, Born, Present
<1>2. CASE s # t
  BY <1>2, UntouchedQuiet DEF Create, TypeOK, Affects, SameHistory
<1> QED BY <1>1, <1>2

LEMMA CreateRowAffects ==
  ASSUME TypeOK, NEW r \in Requests, CreateRow(r), NEW s \in Students
  PROVE  Affects(r, s)
<1> DEFINE q == req[r]
           t == Head(q.left).owner
           b == Head(q.left).batch
           c == q.roster.campus
<1>1. Importing(q) /\ q.left # <<>>
  BY Held DEF CreateRow, Importing, At
<1>2. t \in Students /\ b \in Batches \cup {None} /\ c \in Campuses
  BY <1>1, EntryTyped DEF Entries
<1>3. \/ /\ ~ Present(t) /\ Exists(<<b>>)
         /\ student' = [student EXCEPT ![t] =
                   [status |-> "ACTIVE", campus |-> c, batch |-> b, enrolled |-> today]]
         /\ campusRows' = [campusRows EXCEPT ![t] = <<Row(c, today)>>]
         /\ batchRows' = [batchRows EXCEPT ![t] = IF b = None THEN <<>> ELSE <<Row(b, today)>>]
      \/ UNCHANGED placement
  BY DEF CreateRow
<1> HIDE DEF q, t, b, c
<1>4. CASE UNCHANGED placement
  BY <1>4, UnplacedQuiet DEF Affects
<1>5. CASE ~ UNCHANGED placement /\ s = t
  <2> DEFINE st == [status |-> "ACTIVE", campus |-> c, batch |-> b, enrolled |-> today]
  <2>1. student'[s] = st /\ campusRows'[s] = <<Row(c, today)>> /\ batchRows'[s] = FirstRows(b) /\ ~ Present(s)
    BY <1>2, <1>3, <1>5 DEF TypeOK, FirstRows
  <2>2. b \in batches \cup {None}
    BY <1>3, <1>5 DEF Exists
  <2>3. campusRows'[s] = FirstRows(c)
    BY <2>1, <1>2, PlacementAssumption DEF FirstRows
  <2> QED BY <1>2, <2>1, <2>2, <2>3 DEF Affects, Born, Present
<1>6. CASE ~ UNCHANGED placement /\ s # t
  <2>1. student'[s] = student[s] /\ campusRows'[s] = campusRows[s] /\ batchRows'[s] = batchRows[s]
    BY <1>3, <1>6 DEF TypeOK
  <2> QED BY <2>1, UntouchedQuiet DEF Affects, SameHistory
<1> QED BY <1>4, <1>5, <1>6

LEMMA WritePlacementAffects ==
  ASSUME TypeOK, NEW r \in Requests, WritePlacement(r), NEW s \in Students
  PROVE  Affects(r, s)
<1>1. req[r] \in [pc : {"write"}, student : Students, write : Writes]
  BY Held DEF WritePlacement
<1> DEFINE t == req[r].student
           w == req[r].write
<1>2. CASE UNCHANGED placement
  BY <1>2, UnplacedQuiet DEF Affects
<1>3. CASE ~ UNCHANGED placement
  <2>1. Present(t) /\ Exists(w.batch) /\ Write(t, w)
    BY <1>3 DEF WritePlacement
  <2>2. t \in Students /\ req[r].pc = "write"
    BY <1>1
  <2>3. CASE s = t
    <3>1. /\ student'[s].campus = Given(w.campus, student[s].campus)
          /\ student'[s].batch = Given(w.batch, student[s].batch)
          /\ student'[s].enrolled = student[s].enrolled /\ student'[s].status = student[s].status
      <4>1. student[s] \in StudentRows
        BY <2>1, <2>3, PresentTyped
      <4>2. student' = [student EXCEPT ![t].campus = Given(w.campus, @), ![t].batch = Given(w.batch, @)]
        BY <2>1 DEF Write
      <4> HIDE DEF t, w
      <4> QED BY <2>3, <4>1, <4>2 DEF TypeOK, StudentRows
    <3>2. campusRows'[s] = campusRows[s] \o w.campusRow /\ batchRows'[s] = batchRows[s] \o w.batchRow
      BY <2>1, <2>2, <2>3 DEF Write, TypeOK
    <3> QED BY <2>1, <2>2, <2>3, <3>1, <3>2 DEF Affects, Wrote, At, Present, CampusWritten
  <2>4. CASE s # t
    <3>1. student'[s] = student[s] /\ campusRows'[s] = campusRows[s] /\ batchRows'[s] = batchRows[s]
      BY <2>1, <2>2, <2>4 DEF Write, TypeOK
    <3> QED BY <3>1, UntouchedQuiet DEF Affects, SameHistory
  <2> QED BY <2>3, <2>4
<1> QED BY <1>2, <1>3

LEMMA WriteRowAffects ==
  ASSUME TypeOK, NEW r \in Requests, WriteRow(r), NEW s \in Students
  PROVE  Affects(r, s)
<1> DEFINE q == req[r]
           t == q.student
           w == q.write
<1>1. t \in Students /\ q.pc = "writeRow"
  BY Held DEF WriteRow, At
<1>2. CASE UNCHANGED placement
  BY <1>2, UnplacedQuiet DEF Affects
<1>3. CASE ~ UNCHANGED placement
  <2>1. /\ Present(t) /\ Exists(w.batch)
        /\ student' = [student EXCEPT
                      ![t].campus = q.roster.campus,
                      ![t].batch = Given(w.batch, @),
                      ![t].status = IF q.seen.status = "ARCHIVED" THEN "ACTIVE" ELSE @]
        /\ campusRows' = [campusRows EXCEPT ![t] = @ \o w.campusRow]
        /\ batchRows' = [batchRows EXCEPT ![t] = @ \o w.batchRow]
    BY <1>3 DEF WriteRow
  <2>2. CASE s = t
    <3>1. /\ student'[s].campus = q.roster.campus
          /\ student'[s].batch = Given(w.batch, student[s].batch)
          /\ student'[s].enrolled = student[s].enrolled
          /\ student'[s].status = "ACTIVE" \/ student'[s].status = student[s].status
      <4>1. student[s] \in StudentRows
        BY <2>1, <2>2, PresentTyped
      <4> HIDE DEF t, w, q
      <4> QED BY <2>1, <2>2, <4>1 DEF TypeOK, StudentRows
    <3>2. campusRows'[s] = campusRows[s] \o w.campusRow /\ batchRows'[s] = batchRows[s] \o w.batchRow
      BY <2>1, <1>1, <2>2 DEF TypeOK
    <3>3. Given(<<q.roster.campus>>, student[s].campus) = q.roster.campus
      BY DEF Given
    <3> QED BY <1>1, <2>1, <2>2, <3>1, <3>2, <3>3 DEF Affects, Wrote, At, Present, CampusWritten
  <2>3. CASE s # t
    <3> HIDE DEF t, w, q
    <3>1. student'[s] = student[s] /\ campusRows'[s] = campusRows[s] /\ batchRows'[s] = batchRows[s]
      BY <2>1, <1>1, <2>3 DEF TypeOK
    <3> QED BY <3>1, UntouchedQuiet DEF Affects, SameHistory
  <2> QED BY <2>2, <2>3
<1> QED BY <1>2, <1>3

LEMMA BulkWriteAffects ==
  ASSUME TypeOK, NEW r \in Requests, BulkWrite(r), NEW s \in Students
  PROVE  Affects(r, s)
<1> DEFINE q == req[r]
           st == [student[s] EXCEPT !.batch = q.batch]
<1>1. student[s] \in StudentRows \cup {NoStudent}
  BY DEF TypeOK
<1>2. /\ st.campus = student[s].campus /\ st.batch = q.batch
      /\ st.enrolled = student[s].enrolled /\ st.status = student[s].status
  BY <1>1, SetBatch
<1>3. SameHistory(s) /\ At(r, "bulkWrite")
  BY DEF BulkWrite, SameHistory
<1>4. \/ student'[s] = student[s]
      \/ /\ s \in DOMAIN q.seen /\ Present(s) /\ Exists(<<q.batch>>) /\ student'[s] = st
         /\ Goto(r, [q EXCEPT !.pc = "bulkDate"])
  BY DEF BulkWrite
<1>5. CASE student'[s] = student[s]
  BY <1>3, <1>5, UntouchedQuiet DEF Affects
<1>6. CASE student'[s] # student[s]
  <2>1. At(r, "bulkDate")'
    <3> DEFINE y == [q EXCEPT !.pc = "bulkDate"]
    <3>1. y.pc = "bulkDate"
      BY Held DEF BulkWrite, At
    <3>2. Goto(r, y)
      BY <1>4, <1>6
    <3> HIDE DEF y
    <3> QED BY <3>1, <3>2, GotoStep DEF At, TypeOK
  <2>2. s \in DOMAIN q.seen /\ Present(s) /\ Exists(<<q.batch>>) /\ student'[s] = st
    BY <1>4, <1>6
  <2> HIDE DEF st
  <2> QED BY <1>2, <1>3, <2>1, <2>2 DEF Affects, BulkWrote, Present
<1> QED BY <1>5, <1>6

LEMMA BulkRowsAffects ==
  ASSUME TypeOK, NEW r \in Requests, BulkRows(r), NEW s \in Students
  PROVE  /\ Affects(r, s)
         /\ s \in DOMAIN req[r].days /\ Exists(<<req[r].batch>>) /\ (\A t \in DOMAIN req[r].days : Present(t))
               => Recorded(r, s)
<1> DEFINE q == req[r]
           row == Row(q.batch, q.days[s])
           done == s \in DOMAIN q.days /\ Exists(<<q.batch>>) /\ \A t \in DOMAIN q.days : Present(t)
<1>1. PICK S \in SUBSET Students : q \in [pc : {"bulkRows"}, batch : Batches \cup {None}, days : [S -> Days]]
  BY Held DEF BulkRows
<1>2. student'[s] = student[s] /\ campusRows'[s] = campusRows[s] /\ At(r, "bulkRows")
  BY DEF BulkRows
<1>3. batchRows'[s] = IF done THEN Append(batchRows[s], row) ELSE batchRows[s]
  BY DEF BulkRows
<1>4. CASE done
  <2>1. row \in [to : Batches \cup {None}, day : Days]
    BY <1>1, <1>4, OneRowTyped
  <2>2. batchRows[s] \in Rows(Batches)
    BY DEF TypeOK
  <2>3. batchRows'[s] = batchRows[s] \o <<row>>
    BY SMTT(20), <1>3, <1>4, <2>1, <2>2, AddedRow
  <2> QED BY <1>2, <1>4, <2>3 DEF Affects, Recorded, SameColumns, Present
<1>5. CASE ~ done
  <2>1. SameHistory(s)
    BY <1>2, <1>3, <1>5 DEF SameHistory
  <2> QED BY <1>2, <1>5, <2>1, UntouchedQuiet DEF Affects
<1> QED BY <1>4, <1>5

LEMMA DeleteAffects ==
  ASSUME TypeOK, NEW r \in Requests, Delete(r), NEW s \in Students
  PROVE  Affects(r, s)
<1>1. req[r].student \in Students
  BY Held DEF Delete
<1>2. CASE s = req[r].student
  BY <1>1, <1>2 DEF Delete, TypeOK, Affects, Gone
<1>3. CASE s # req[r].student
  BY <1>1, <1>3, UntouchedQuiet DEF Delete, TypeOK, Affects, SameHistory
<1> QED BY <1>2, <1>3

LEMMA ArchiveAffects ==
  ASSUME TypeOK, NEW r \in Requests, Archive(r) \/ ArchiveAbsent(r), NEW s \in Students
  PROVE  Affects(r, s)
<1>1. student[s] \in StudentRows \cup {NoStudent} /\ SameHistory(s)
  BY DEF TypeOK, Archive, ArchiveAbsent, SameHistory
<1>2. student'[s] = student[s] \/ (Present(s) /\ student'[s] = [student[s] EXCEPT !.status = "ARCHIVED"])
  <2>1. ASSUME Archive(r) PROVE req[r].student \in Students
    BY <2>1, Held DEF Archive
  <2> QED BY <2>1 DEF Archive, ArchiveAbsent, TypeOK
<1>3. CASE student'[s] = student[s]
  BY <1>1, <1>3, UntouchedQuiet DEF Affects
<1>4. CASE Present(s) /\ student'[s] = [student[s] EXCEPT !.status = "ARCHIVED"]
  BY <1>1, <1>4, SetStatus DEF Affects, Quiet, SameColumns, Present
<1> QED BY <1>2, <1>3, <1>4

LEMMA StepAffects ==
  ASSUME TypeOK, NEW r \in Requests, Steps(r), NEW s \in Students
  PROVE  Affects(r, s)
<1>1. ASSUME UNCHANGED placement PROVE Affects(r, s)
  BY <1>1, UnplacedQuiet DEF Affects
<1>2. CASE Request(r)
  <2>1. \/ \E t \in Students : \E c \in Campuses \cup {None}, b \in env.targets : Create(r, t, c, b)
        \/ UNCHANGED placement
    BY <1>2 DEF Request, ReadForMove, ReadForTransfer, ReadForUpdate, BulkRead, ReadForRemove, ReadRoster
  <2> QED BY <1>1, <2>1, CreateAffects, TargetsTyped
<1>3. CASE Continue(r)
  <2>1. \/ WritePlacement(r) \/ BulkWrite(r) \/ BulkRows(r) \/ Archive(r) \/ Delete(r) \/ WriteRow(r)
        \/ CreateRow(r) \/ ArchiveAbsent(r)
        \/ UNCHANGED placement
    BY <1>3 DEF Continue, DatePlacement, BulkDate, RowFails, MatchRow, DateRow, ReadAbsent, Crash
  <2> QED BY <1>1, <2>1, WritePlacementAffects, BulkWriteAffects, BulkRowsAffects, ArchiveAffects,
        DeleteAffects, WriteRowAffects, CreateRowAffects
<1> QED BY <1>2, <1>3 DEF Steps

(* What is written is what was dated, so it is of a day so far too.        *)
LEMMA WrittenHeld ==
  ASSUME TypeOK, NEW r \in Requests
  PROVE  /\ At(r, "write") \/ At(r, "writeRow") => req[r].student \in Students /\ req[r].write \in Writes
         /\ At(r, "bulkRows") => /\ \A s \in DOMAIN req[r].days : req[r].days[s] \in Days
                                 /\ req[r].batch \in Batches \cup {None}
  BY Held

LEMMA RecordedRow ==
  ASSUME TypeOK, NEW r \in Requests, NEW s \in Students, Recorded(r, s)
  PROVE  /\ Row(req[r].batch, req[r].days[s]) \in [to : Batches \cup {None}, day : Days]
         /\ <<Row(req[r].batch, req[r].days[s])>> \in Rows(Batches)
         /\ batchRows[s] \in Rows(Batches)
<1>1. req[r].days[s] \in Days /\ req[r].batch \in Batches \cup {None}
  BY WrittenHeld DEF Recorded
<1> QED BY <1>1, OneRowTyped DEF TypeOK

LEMMA ExistsGiven ==
  ASSUME NEW column, Exists(column), NEW old \in batches \cup {None}, column \in Column(Batches)
  PROVE  Given(column, old) \in batches \cup {None}
<1>1. CASE column = <<>>
  BY <1>1 DEF Given
<1>2. CASE column # <<>>
  <2>1. PICK b : column = <<b>>
    BY <1>2 DEF Column
  <2> QED BY <2>1 DEF Exists, Given
<1> QED BY <1>1, <1>2

LEMMA WellPlacedStep ==
  ASSUME TypeOK, DatesSound, NEW r \in Requests, Steps(r), NEW s \in Students
  PROVE  WellPlaced(s)'
<1>1. Affects(r, s)
  BY StepAffects
<1>2. today' = today /\ batches' = batches /\ WellPlaced(s) /\ ReadSoFar(req[r], today) /\ today <= today
  BY BusyStep DEF DatesSound, TypeOK, Days
<1>3. batchRows[s] \in Rows(Batches) /\ campusRows[s] \in Rows(Campuses)
  BY DEF TypeOK
<1>4. CASE Quiet(s)
  BY <1>2, <1>4 DEF Quiet, SameColumns, SameHistory, WellPlaced
<1>5. CASE Born(s)
  BY <1>2, <1>5, EmptySoFar, OneSoFar DEF Born, FirstRows, WellPlaced
<1>6. CASE Gone(r, s)
  BY <1>2, <1>6, EmptySoFar DEF Gone, WellPlaced, NoStudent, Present
<1>7. CASE Wrote(r, s)
  <2>1. req[r].write \in Writes
    BY <1>7, WrittenHeld DEF Wrote
  <2>2. SoFar(req[r].write.batchRow, today) /\ SoFar(req[r].write.campusRow, today)
    BY <1>2, <1>7 DEF Wrote, ReadSoFar, At
  <2>3. SoFar(batchRows'[s], today) /\ SoFar(campusRows'[s], today)
    <3>1. req[r].write.batchRow \in Rows(Batches) /\ req[r].write.campusRow \in Rows(Campuses)
      BY <2>1 DEF Writes
    <3>2. SoFar(batchRows[s], today) /\ SoFar(campusRows[s], today)
      BY <1>2 DEF WellPlaced
    <3>3. SoFar(batchRows[s] \o req[r].write.batchRow, today)
      BY <1>3, <2>2, <3>1, <3>2, JoinedSoFar
    <3>4. SoFar(campusRows[s] \o req[r].write.campusRow, today)
      BY <1>3, <2>2, <3>1, <3>2, JoinedSoFar
    <3> QED BY <1>7, <3>3, <3>4 DEF Wrote
  <2>4. student'[s].batch \in batches \cup {None}
    <3>1. req[r].write.batch \in Column(Batches) /\ student[s].batch \in batches \cup {None}
      BY <1>2, <2>1 DEF Writes, WellPlaced
    <3> QED BY <1>7, <3>1, ExistsGiven DEF Wrote
  <2> QED BY <1>2, <1>7, <2>3, <2>4 DEF Wrote, WellPlaced
<1>8. CASE BulkWrote(r, s)
  <2>1. student'[s].batch \in batches \cup {None}
    BY <1>8 DEF BulkWrote, Exists
  <2> QED BY <1>2, <1>8, <2>1 DEF BulkWrote, SameHistory, WellPlaced
<1>9. CASE Recorded(r, s)
  <2>1. req[r].days[s] <= today
    BY <1>2, <1>9 DEF Recorded, ReadSoFar, At
  <2>2. SoFar(batchRows'[s], today)
    <3>1. <<Row(req[r].batch, req[r].days[s])>> \in Rows(Batches)
      BY <1>9, RecordedRow
    <3>2. SoFar(<<Row(req[r].batch, req[r].days[s])>>, today)
      BY <2>1, OneSoFar
    <3>3. SoFar(batchRows[s], today)
      BY <1>2 DEF WellPlaced
    <3>4. SoFar(batchRows[s] \o <<Row(req[r].batch, req[r].days[s])>>, today)
      BY <1>3, <3>1, <3>2, <3>3, JoinedSoFar
    <3> QED BY <1>9, <3>4 DEF Recorded
  <2> QED BY <1>2, <1>9, <2>2 DEF Recorded, SameColumns, WellPlaced
<1> QED BY <1>1, <1>4, <1>5, <1>6, <1>7, <1>8, <1>9 DEF Affects

LEMMA LaterSoFar ==
  ASSUME NEW H, NEW rows \in Rows(H), NEW day \in Nat, NEW later \in Nat, day <= later, SoFar(rows, day)
  PROVE  SoFar(rows, later)
  BY RowTypes DEF SoFar

LEMMA DeletedSoFar ==
  ASSUME TypeOK, DatesSound, NEW b \in Batches, DeleteBatch(b)
  PROVE  DatesSound'
<1>1. b # None
  BY PlacementAssumption
<1>2. ASSUME NEW s \in Students PROVE WellPlaced(s)'
  <2>1. WellPlaced(s) /\ batchRows[s] \in Rows(Batches) /\ student[s] \in StudentRows \cup {NoStudent}
    BY DEF DatesSound, TypeOK
  <2>2. SoFar(Forgotten(batchRows[s], b), today)
    <3> DEFINE rows == batchRows[s]
    <3>1. \A i \in DOMAIN rows : Forgotten(rows, b)[i].day = rows[i].day
      <4>1. rows \in Rows(Batches) /\ 1 \in Nat
        BY <2>1
      <4> HIDE DEF rows
      <4> QED BY <1>1, <4>1, ForgottenAnswers
    <3>2. DOMAIN Forgotten(batchRows[s], b) = DOMAIN batchRows[s]
      BY DEF Forgotten
    <3>3. SoFar(batchRows[s], today)
      BY <2>1 DEF WellPlaced
    <3> QED BY <3>1, <3>2, <3>3 DEF SoFar
  <2>3. batchRows'[s] = Forgotten(batchRows[s], b) /\ campusRows' = campusRows /\ today' = today
        /\ batches' = batches \ {b}
    BY DeleteBatchTyped DEF DeleteBatch
  <2>4. /\ student'[s].enrolled = student[s].enrolled /\ (Present(s)' <=> Present(s))
        /\ student'[s].batch = IF student[s].batch = b THEN None ELSE student[s].batch
    <3>1. student'[s] = IF student[s].batch = b THEN [student[s] EXCEPT !.batch = None] ELSE student[s]
      BY DEF DeleteBatch
    <3> QED BY <2>1, <3>1, SetBatch DEF Present
  <2>5. batchRows[s] = <<>> => Forgotten(batchRows[s], b) = <<>>
    BY <1>1, <2>1, ForgottenEmpty
  <2> QED BY <1>1, <2>1, <2>2, <2>3, <2>4, <2>5 DEF WellPlaced
<1>3. ASSUME NEW r \in Requests PROVE ReadSoFar(req[r], today)'
  BY DEF DeleteBatch, DatesSound, ReadSoFar
<1> QED BY <1>2, <1>3 DEF DatesSound

LEMMA NextDaySoFar ==
  ASSUME TypeOK, DatesSound, NextDay
  PROVE  DatesSound'
<1>1. today \in Nat /\ today' \in Nat /\ today <= today'
  BY PlacementAssumption DEF NextDay, TypeOK, Days
<1>2. ASSUME NEW s \in Students PROVE WellPlaced(s)'
  <2>1. batchRows[s] \in Rows(Batches) /\ campusRows[s] \in Rows(Campuses) /\ WellPlaced(s)
    BY DEF TypeOK, DatesSound
  <2>2. SoFar(batchRows[s], today') /\ SoFar(campusRows[s], today')
    BY <1>1, <2>1, LaterSoFar DEF WellPlaced
  <2>3. Present(s) => student[s].enrolled <= today'
    <3>1. Present(s) => student[s].enrolled \in Nat
      BY PresentTyped, PlacementAssumption DEF StudentRows, Days
    <3> QED BY <1>1, <2>1, <3>1 DEF WellPlaced
  <2> QED BY <2>1, <2>2, <2>3 DEF NextDay, placement, WellPlaced, Present
<1>3. ASSUME NEW r \in Requests PROVE ReadSoFar(req[r], today)'
  BY DEF NextDay, Alone, At, ReadSoFar
<1> QED BY <1>2, <1>3 DEF DatesSound

LEMMA DatesSoundNext ==
  ASSUME TypeOK, DatesSound, [Next]_vars
  PROVE  DatesSound'
<1>1. ASSUME NEW r \in Requests, Steps(r) PROVE DatesSound'
  <2>1. ASSUME NEW q \in Requests PROVE ReadSoFar(req'[q], today')
    <3>1. today' = today /\ (q # r => req'[q] = req[q])
      BY <1>1, BusyStep
    <3>2. q # r => ReadSoFar(req'[q], today')
      BY <3>1 DEF DatesSound
    <3>3. ReadSoFar(req'[r], today')
      BY <1>1, <3>1, RequestSoFar, ContinueSoFar DEF Steps
    <3> QED BY <3>2, <3>3
  <2>2. \A s \in Students : WellPlaced(s)'
    BY <1>1, WellPlacedStep
  <2> QED BY <2>1, <2>2 DEF DatesSound
<1>2. CASE UNCHANGED vars
  BY <1>2 DEF vars, DatesSound, WellPlaced, Present
<1> QED BY <1>1, <1>2, DeletedSoFar, NextDaySoFar DEF Next, Steps

LEMMA DatesSoundInit == Init => DatesSound
<1> SUFFICES ASSUME Init PROVE DatesSound
  OBVIOUS
<1>1. \A r \in Requests : ReadSoFar(req[r], today)
  BY DEF Init, Idle, ReadSoFar
<1>2. ASSUME NEW s \in Students PROVE WellPlaced(s)
  <2>1. env \in Environments /\ today = 2 /\ batches = Batches
    BY DEF Init
  <2>2. /\ env.start[s].batch \in Batches \cup {None}
        /\ env.start[s].campus = None => env.start[s].batch = None
    BY <2>1, PlacementAssumption
  <2>3. SoFar(batchRows[s], today) /\ SoFar(campusRows[s], today)
    BY <2>1, EmptySoFar, OneSoFar DEF Init
  <2>4. CASE env.start[s].campus = None
    BY <2>1, <2>2, <2>3, <2>4 DEF Init, WellPlaced, Present, NoStudent
  <2>5. CASE env.start[s].campus # None
    BY <2>1, <2>2, <2>3, <2>5 DEF Init, WellPlaced, Present
  <2> QED BY <2>4, <2>5
<1> QED BY <1>1, <1>2 DEF DatesSound

(* Nothing is ever dated later than today, and who is not there has no     *)
(* history.                                                                *)
THEOREM DatedSoFar == Spec => []DatesSound
<1> QED BY DatesSoundInit, DatesSoundNext, Typing, PTL DEF Spec

-----------------------------------------------------------------------------
(* The histories say of today what the columns say.                        *)
LEMMA OneRowAnswers ==
  ASSUME TypeOK, NEW H, NEW h \in H \cup {None}, NEW d \in Days, NEW day \in Nat, d <= day
  PROVE  ResolveOnDay(<<Row(h, d)>>, day) = h
<1> DEFINE row == Row(h, d)
           empty == <<>>
<1>1. row \in [to : H \cup {None}, day : Days] /\ row.to = h /\ row.day = d
  BY DEF Row
<1>2. empty \in Rows(H) /\ empty \o <<row>> = <<row>> /\ \A i \in DOMAIN empty : empty[i].day <= row.day
  <2>1. <<row>> \in Seq([to : H \cup {None}, day : Days])
    BY <1>1
  <2> QED BY <2>1, ConcatEmptySeq DEF Rows
<1> HIDE DEF row, empty
<1>3. ResolveOnDay(empty \o <<row>>, day) = row.to
  BY <1>1, <1>2, AddedAnswers
<1> QED BY <1>1, <1>2, <1>3 DEF row

LEMMA FirstRowsAnswer ==
  ASSUME TypeOK, NEW H, NEW h \in H \cup {None}
  PROVE  ResolveOnDay(FirstRows(h), today) = h
<1>1. today \in Days /\ today \in Nat /\ today <= today
  BY PlacementAssumption DEF TypeOK, Days
<1> QED BY <1>1, EmptyAnswers, OneRowAnswers DEF FirstRows

(* A write is traced when it leaves a row for what it sets, or sets what   *)
(* was there.                                                              *)
Traced(column, more, old, rows) ==
    \/ column = <<>> /\ more = <<>>
    \/ \E h, d : column = <<h>> /\ more = <<Row(h, d)>> /\ d <= today /\ SoFar(rows, d)
    \/ column = <<old>> /\ more = <<>>

LEMMA TracedAnswers ==
  ASSUME TypeOK, NEW H, NEW rows \in Rows(H), NEW more \in Rows(H), NEW column, NEW old,
         Traced(column, more, old, rows), ResolveOnDay(rows, today) = old
  PROVE  ResolveOnDay(rows \o more, today) = Given(column, old)
<1>1. CASE more = <<>> /\ (column = <<>> \/ column = <<old>>)
  <2>1. rows \o more = rows
    BY <1>1, ConcatEmptySeq DEF Rows
  <2>2. Given(column, old) = old
    BY <1>1 DEF Given
  <2> QED BY <2>1, <2>2
<1>2. ASSUME NEW h, NEW d, column = <<h>>, more = <<Row(h, d)>>, d <= today, SoFar(rows, d)
      PROVE  ResolveOnDay(rows \o more, today) = Given(column, old)
  <2> DEFINE row == Row(h, d)
  <2>1. row \in [to : H \cup {None}, day : Days] /\ row.to = h /\ row.day = d
    <3>1. more[1] \in [to : H \cup {None}, day : Days]
      <4>1. Len(more) = 1 /\ more \in Seq([to : H \cup {None}, day : Days])
        BY <1>2 DEF Rows
      <4>2. 1 \in 1..Len(more)
        BY <4>1
      <4> QED BY <4>1, <4>2, ElementOfSeq
    <3> QED BY <3>1, <1>2 DEF Row
  <2>2. today \in Nat /\ row.day <= today /\ \A i \in DOMAIN rows : rows[i].day <= row.day
    BY <1>2, <2>1, PlacementAssumption DEF SoFar, TypeOK, Days
  <2>3. more = <<row>> /\ Given(column, old) = h
    BY <1>2 DEF Given
  <2> HIDE DEF row
  <2>4. ResolveOnDay(rows \o <<row>>, today) = row.to
    BY <2>1, <2>2, AddedAnswers
  <2> QED BY <2>1, <2>3, <2>4
<1> QED BY <1>1, <1>2 DEF Traced

(* What a request has read is still so.                                    *)
Still(b) == IF b \in batches THEN b ELSE None
Current(s, seen) ==
    Present(s) /\ student[s].campus = seen.campus /\ student[s].batch = Still(seen.batch)
WriteTraced(q) ==
    /\ Present(q.student)
    /\ Exists(q.write.batch) =>
          Traced(q.write.batch, q.write.batchRow, student[q.student].batch, batchRows[q.student])
    /\ Traced(CampusWritten(q), q.write.campusRow, student[q.student].campus, campusRows[q.student])
BulkCurrent(q) ==
    /\ "bulk" \in env.may
    /\ q.pc = "bulkWrite" => \A s \in DOMAIN q.seen : Present(s) /\ student[s].batch = q.seen[s].batch
    /\ q.pc = "bulkDate" => \A s \in DOMAIN q.seen : Present(s) /\ student[s].batch = q.batch
    /\ q.pc = "bulkRows" => \A s \in DOMAIN q.days :
          Present(s) /\ student[s].batch = q.batch /\ SoFar(batchRows[s], q.days[s])
ReadsCurrent(q) ==
    /\ q.pc \in {"date", "dateRow"} => Current(q.student, q.seen)
    /\ q.pc \in {"write", "writeRow"} => WriteTraced(q)
    /\ q.pc \in {"bulkWrite", "bulkDate", "bulkRows"} => BulkCurrent(q)

Match(s) ==
    Present(s) =>
      /\ ~ InBulk(s) => ResolveOnDay(batchRows[s], today) = student[s].batch
      /\ ResolveOnDay(campusRows[s], today) = student[s].campus

Agreeing ==
    OneByOne => /\ \A s \in Students : Match(s)
                /\ \A r \in Requests : ReadsCurrent(req[r])

(* Nothing is required of a request that has read no placement.            *)
LEMMA NothingRead ==
  ASSUME NEW q, q.pc \in {"idle", "find", "createRow", "archive", "delete", "archiveAbsent"}
  PROVE  ReadsCurrent(q)
  BY DEF ReadsCurrent

LEMMA JustRead ==
  ASSUME TypeOK, DatesSound, NEW s \in Students, Present(s)
  PROVE  Current(s, student[s])
  BY PlacementAssumption DEF DatesSound, WellPlaced, Current, Still

LEMMA EffectiveTraced ==
  ASSUME TypeOK, NEW rows, SoFar(rows, today), NEW e, e <= today, NEW h, NEW old
  PROVE  Traced(<<h>>, <<Row(h, EffectiveDay(rows, e))>>, old, rows)
<1> DEFINE d == EffectiveDay(rows, e)
<1>1. d <= today /\ SoFar(rows, d)
  <2>1. CASE rows = <<>>
    BY <2>1, EmptySoFar, EffectiveSoFar
  <2>2. CASE rows # <<>>
    BY <2>2, EffectiveSoFar DEF EffectiveDay
  <2> QED BY <2>1, <2>2
<1> HIDE DEF d
<1>2. Traced(<<h>>, <<Row(h, d)>>, old, rows)
  BY <1>1 DEF Traced
<1> QED BY <1>2 DEF d

LEMMA TodayTraced ==
  ASSUME TypeOK, NEW rows, SoFar(rows, today), NEW h, NEW old
  PROVE  Traced(<<h>>, IF old # h THEN <<Row(h, today)>> ELSE <<>>, old, rows)
<1>1. today <= today
  BY DEF TypeOK, Days
<1>2. CASE old = h
  BY <1>2 DEF Traced
<1>3. CASE old # h
  <2>1. Traced(<<h>>, <<Row(h, today)>>, old, rows)
    BY <1>1 DEF Traced
  <2> QED BY <1>3, <2>1
<1> QED BY <1>2, <1>3

LEMMA ColumnCases ==
  ASSUME NEW H, NEW column \in Column(H)
  PROVE  column = <<>> \/ \E h \in H \cup {None} : column = <<h>>
  BY DEF Column

(* A step that writes nothing leaves what is read as it is.                *)
LEMMA SameReads ==
  ASSUME UNCHANGED <<world, placement>>, NEW r, ReadsCurrent(req'[r])
  PROVE  ReadsCurrent(req[r])'
<1> DEFINE q == req'[r]
<1>1. /\ student' = student /\ batchRows' = batchRows /\ campusRows' = campusRows
      /\ today' = today /\ batches' = batches /\ env' = env
  BY DEF world, placement
<1>2. q.pc \in {"date", "dateRow"} => Current(req[r].student, req[r].seen)'
  BY <1>1 DEF ReadsCurrent, Current, Present, Still
<1>3. WriteTraced(q) => WriteTraced(req[r])'
  BY <1>1 DEF WriteTraced, Traced, Exists, Present, CampusWritten
<1>4. BulkCurrent(q) => BulkCurrent(req[r])'
  BY <1>1 DEF BulkCurrent, Present
<1> QED BY <1>2, <1>3, <1>4 DEF ReadsCurrent

(* What a step leaves its request with is still so, when requests come one *)
(* by one.                                                                 *)
LEMMA DatedTraced ==
  ASSUME TypeOK, DatesSound, Agreeing, OneByOne, NEW r \in Requests, DatePlacement(r)
  PROVE  ReadsCurrent(req[r])'
<1> DEFINE q == req[r]
           s == q.student
           campusRow == IF Changed(q.campus, q.seen.campus) THEN <<Row(q.campus[1], today)>> ELSE <<>>
           batchRow == IF Changed(q.batch, q.seen.batch)
                       THEN <<Row(q.batch[1], EffectiveDay(batchRows[s], q.seen.enrolled))>> ELSE <<>>
           w == [campus |-> q.campus, batch |-> q.batch, campusRow |-> campusRow, batchRow |-> batchRow]
<1>1. /\ req'[r] = [pc |-> "write", student |-> s, write |-> w]
      /\ UNCHANGED <<world, placement>>
  BY GotoStep DEF DatePlacement, TypeOK
<1>2. /\ q.pc = "date" /\ s \in Students /\ q.campus \in Column(Campuses) /\ q.batch \in Column(Batches)
  BY Held DEF DatePlacement, At
<1>3. Current(s, q.seen) /\ q.seen.enrolled <= today /\ WellPlaced(s)
  BY <1>2 DEF Agreeing, ReadsCurrent, DatesSound, ReadSoFar
<1>4. SoFar(campusRows[s], today) /\ SoFar(batchRows[s], today)
  BY <1>3 DEF WellPlaced
<1>5. Traced(q.campus, campusRow, student[s].campus, campusRows[s])
  <2>1. CASE q.campus = <<>>
    BY <2>1 DEF Traced, Changed
  <2>2. ASSUME NEW c, q.campus = <<c>>
        PROVE  Traced(q.campus, campusRow, student[s].campus, campusRows[s])
    <3>1. campusRow = IF student[s].campus # c THEN <<Row(c, today)>> ELSE <<>>
      BY <1>3, <2>2 DEF Changed, Current
    <3>2. Traced(<<c>>, IF student[s].campus # c THEN <<Row(c, today)>> ELSE <<>>,
                 student[s].campus, campusRows[s])
      BY <1>4, TodayTraced
    <3> QED BY <2>2, <3>1, <3>2
  <2> QED BY <1>2, <2>1, <2>2, ColumnCases
<1>6. ASSUME Exists(q.batch) PROVE Traced(q.batch, batchRow, student[s].batch, batchRows[s])
  <2>1. CASE q.batch = <<>>
    BY <2>1 DEF Traced, Changed
  <2>2. ASSUME NEW b, q.batch = <<b>>
        PROVE  Traced(q.batch, batchRow, student[s].batch, batchRows[s])
    <3>1. CASE q.seen.batch # b
      <4>1. Traced(<<b>>, <<Row(b, EffectiveDay(batchRows[s], q.seen.enrolled))>>,
                   student[s].batch, batchRows[s])
        BY <1>3, <1>4, EffectiveTraced
      <4>2. batchRow = <<Row(b, EffectiveDay(batchRows[s], q.seen.enrolled))>>
        BY <2>2, <3>1 DEF Changed
      <4> QED BY <2>2, <4>1, <4>2
    <3>2. CASE q.seen.batch = b
      <4>1. b \in batches \cup {None}
        BY <1>6, <2>2 DEF Exists
      <4>2. student[s].batch = b
        BY <1>3, <3>2, <4>1 DEF Current, Still
      <4>3. batchRow = <<>>
        BY <2>2, <3>2 DEF Changed
      <4> QED BY <2>2, <4>2, <4>3 DEF Traced
    <3> QED BY <3>1, <3>2
  <2> QED BY <1>2, <2>1, <2>2, ColumnCases
<1> HIDE DEF campusRow, batchRow
<1>7. WriteTraced(req'[r])
  BY <1>1, <1>3, <1>5, <1>6 DEF WriteTraced, CampusWritten, Current
<1> QED BY <1>1, <1>7, SameReads DEF ReadsCurrent

LEMMA TransferTraced ==
  ASSUME TypeOK, DatesSound, NEW r \in Requests, NEW s \in Students, NEW c, NEW b, ReadForTransfer(r, s, c, b)
  PROVE  ReadsCurrent(req[r])'
<1> DEFINE campusRow == IF student[s].campus # c THEN <<Row(c, today)>> ELSE <<>>
           batchRow == IF student[s].batch # b THEN <<Row(b, today)>> ELSE <<>>
<1>1. /\ req'[r] = [pc |-> "write", student |-> s,
                    write |-> [campus |-> <<c>>, batch |-> <<b>>, campusRow |-> campusRow, batchRow |-> batchRow]]
      /\ UNCHANGED <<world, placement>> /\ Present(s)
  BY GotoStep DEF ReadForTransfer, Start, TypeOK
<1>2. SoFar(campusRows[s], today) /\ SoFar(batchRows[s], today)
  BY DEF DatesSound, WellPlaced
<1>3. /\ Traced(<<c>>, campusRow, student[s].campus, campusRows[s])
      /\ Traced(<<b>>, batchRow, student[s].batch, batchRows[s])
  BY <1>2, TodayTraced
<1> HIDE DEF campusRow, batchRow
<1>4. WriteTraced(req'[r])
  BY <1>1, <1>3 DEF WriteTraced, CampusWritten
<1> QED BY <1>1, <1>4, SameReads DEF ReadsCurrent

LEMMA DateRowTraced ==
  ASSUME TypeOK, DatesSound, Agreeing, OneByOne, NEW r \in Requests, DateRow(r)
  PROVE  ReadsCurrent(req[r])'
<1> DEFINE q == req[r]
           s == q.student
           c == q.roster.campus
           b == Head(q.left).batch
           campusRow == IF q.seen.campus # c
                        THEN <<Row(c, EffectiveDay(campusRows[s], q.seen.enrolled))>> ELSE <<>>
           batchRow == IF b # None /\ q.seen.batch # b
                       THEN <<Row(b, EffectiveDay(batchRows[s], q.seen.enrolled))>> ELSE <<>>
           column == IF b = None THEN <<>> ELSE <<b>>
<1>1. /\ req'[r] = [pc |-> "writeRow", roster |-> q.roster, left |-> q.left, onRoster |-> q.onRoster,
                    ok |-> q.ok, student |-> s, seen |-> q.seen,
                    write |-> [campus |-> <<c>>, batch |-> column, campusRow |-> campusRow, batchRow |-> batchRow]]
      /\ UNCHANGED <<world, placement>> /\ q.pc = "dateRow"
  BY GotoStep DEF DateRow, TypeOK, At
<1>2. s \in Students
  BY Held DEF DateRow, At
<1>3. Current(s, q.seen) /\ q.seen.enrolled <= today /\ WellPlaced(s)
  BY <1>1, <1>2 DEF Agreeing, ReadsCurrent, DatesSound, ReadSoFar
<1>4. SoFar(campusRows[s], today) /\ SoFar(batchRows[s], today)
  BY <1>3 DEF WellPlaced
<1> HIDE DEF c, b
<1>5. Traced(<<c>>, campusRow, student[s].campus, campusRows[s])
  <2>1. CASE q.seen.campus = c
    BY <1>3, <2>1 DEF Traced, Current
  <2>2. CASE q.seen.campus # c
    BY <1>3, <1>4, <2>2, EffectiveTraced
  <2> QED BY <2>1, <2>2
<1>6. ASSUME Exists(column) PROVE Traced(column, batchRow, student[s].batch, batchRows[s])
  <2>1. CASE b = None
    BY <2>1 DEF Traced
  <2>2. CASE b # None /\ q.seen.batch # b
    BY <1>3, <1>4, <2>2, EffectiveTraced
  <2>3. CASE b # None /\ q.seen.batch = b
    <3>1. column = <<b>>
      BY <2>3
    <3>2. b \in batches
      BY <1>6, <2>3, <3>1 DEF Exists
    <3>3. student[s].batch = b
      BY <1>3, <2>3, <3>2 DEF Current, Still
    <3>4. batchRow = <<>>
      BY <2>3
    <3> QED BY <3>1, <3>3, <3>4 DEF Traced
  <2> QED BY <2>1, <2>2, <2>3
<1> HIDE DEF campusRow, batchRow, column
<1>7. CampusWritten(req'[r]) = <<c>>
  BY <1>1 DEF CampusWritten, c
<1>8. WriteTraced(req'[r])
  BY <1>1, <1>3, <1>5, <1>6, <1>7 DEF WriteTraced, Current
<1> QED BY <1>1, <1>8, SameReads DEF ReadsCurrent

LEMMA BulkDateCurrent ==
  ASSUME TypeOK, DatesSound, Agreeing, OneByOne, NEW r \in Requests, BulkDate(r)
  PROVE  ReadsCurrent(req[r])'
<1> DEFINE q == req[r]
<1>1. /\ req'[r] = [pc |-> "bulkRows", batch |-> q.batch,
                    days |-> [s \in Moved(q) |-> EffectiveDay(batchRows[s], q.seen[s].enrolled)]]
      /\ UNCHANGED <<world, placement>> /\ q.pc = "bulkDate"
  BY GotoStep DEF BulkDate, TypeOK, At
<1>2. BulkCurrent(q) /\ Moved(q) \subseteq DOMAIN q.seen /\ DOMAIN q.seen \subseteq Students
  <2>1. DOMAIN q.seen \subseteq Students
    BY Held DEF BulkDate, At
  <2> QED BY <1>1, <2>1 DEF Agreeing, ReadsCurrent, Moved
<1>3. \A s \in Students : SoFar(batchRows[s], EffectiveDay(batchRows[s], q.seen[s].enrolled))
  BY EmptySoFar DEF DatesSound, WellPlaced, EffectiveDay
<1>4. BulkCurrent(req'[r])
  BY <1>1, <1>2, <1>3 DEF BulkCurrent
<1> QED BY <1>1, <1>4, SameReads DEF ReadsCurrent

LEMMA BulkWriteCurrent ==
  ASSUME TypeOK, Agreeing, OneByOne, NEW r \in Requests, BulkWrite(r)
  PROVE  ReadsCurrent(req[r])'
<1> DEFINE q == req[r]
           y == [q EXCEPT !.pc = "bulkDate"]
<1>1. q.pc = "bulkWrite" /\ BulkCurrent(q) /\ DOMAIN q.seen \subseteq Students /\ env' = env
  <2>1. DOMAIN q.seen \subseteq Students
    BY Held DEF BulkWrite, At
  <2> QED BY <2>1 DEF BulkWrite, At, Agreeing, ReadsCurrent, world
<1>2. y.pc = "bulkDate" /\ y.batch = q.batch /\ y.seen = q.seen
  BY Held DEF BulkWrite, At
<1>3. CASE Goto(r, Idle)
  <2>1. req'[r].pc = "idle"
    BY <1>3, GotoStep DEF TypeOK, Idle
  <2> QED BY <2>1 DEF ReadsCurrent
<1>4. CASE ~ Goto(r, Idle)
  <2>1. /\ student' = [s \in Students |->
                          IF s \in DOMAIN q.seen /\ Present(s) THEN [student[s] EXCEPT !.batch = q.batch]
                          ELSE student[s]]
        /\ Goto(r, y)
    BY <1>4 DEF BulkWrite
  <2>2. \A s \in DOMAIN q.seen : Present(s)' /\ student'[s].batch = q.batch
    <3>1. ASSUME NEW s \in DOMAIN q.seen PROVE Present(s)' /\ student'[s].batch = q.batch
      <4>1. Present(s) /\ s \in Students /\ student[s] \in StudentRows \cup {NoStudent}
        BY <1>1 DEF BulkCurrent, TypeOK
      <4>2. student'[s] = [student[s] EXCEPT !.batch = q.batch]
        BY <2>1, <4>1
      <4> QED BY <4>1, <4>2, SetBatch DEF Present
    <3> QED BY <3>1
  <2> HIDE DEF y
  <2>3. req'[r] = y
    BY <2>1, GotoStep DEF TypeOK
  <2> QED BY <1>1, <1>2, <2>2, <2>3 DEF ReadsCurrent, BulkCurrent
<1> QED BY <1>3, <1>4

LEMMA MatchRowCurrent ==
  ASSUME TypeOK, DatesSound, NEW r \in Requests, MatchRow(r)
  PROVE  ReadsCurrent(req[r])'
<1>1. CASE At(r, "dateRow")'
  <2> DEFINE x(s) == [pc |-> "dateRow", roster |-> req[r].roster, left |-> req[r].left,
                      onRoster |-> req[r].onRoster \cup {s}, ok |-> req[r].ok,
                      student |-> s, seen |-> student[s]]
  <2>1. [req[r] EXCEPT !.pc = "createRow"].pc = "createRow"
    BY Held DEF MatchRow, At, ImportFields
  <2>2. req'[r] # [req[r] EXCEPT !.pc = "createRow"]
    BY <2>1, <1>1 DEF At
  <2>3. \A s : req'[r] # NextRow(req[r], {s}, FALSE)
    BY <1>1 DEF At, NextRow
  <2>4. PICK s \in Matches(req[r]) :
           req'[r] = IF req[r].roster.overwrite THEN x(s) ELSE NextRow(req[r], {s}, FALSE)
    BY ZenonT(40), <2>2, GotoStep DEF MatchRow, TypeOK
  <2>5. req'[r] = x(s)
    BY <2>3, <2>4
  <2>6. s \in Students /\ Present(s)
    BY DEF Matches
  <2>7. Current(s, student[s])
    BY <2>6, JustRead
  <2>8. ReadsCurrent(req'[r])
    BY <2>5, <2>7 DEF ReadsCurrent
  <2> QED BY <2>8, SameReads DEF MatchRow
<1>2. CASE At(r, "find")' \/ At(r, "createRow")'
  BY <1>2 DEF ReadsCurrent, At
<1> QED BY <1>1, <1>2, Transitions

LEMMA RequestCurrent ==
  ASSUME TypeOK, DatesSound, Agreeing, OneByOne, NEW r \in Requests, Request(r)
  PROVE  ReadsCurrent(req[r])'
<1>1. ASSUME At(r, "idle")' \/ At(r, "archive")' \/ At(r, "delete")' \/ At(r, "find")'
      PROVE  ReadsCurrent(req[r])'
  BY <1>1 DEF ReadsCurrent, At
<1>2. ASSUME NEW s \in Students, NEW c, NEW b, Create(r, s, c, b) PROVE At(r, "idle")'
  BY <1>2, Transitions DEF At
<1>3. ASSUME NEW s \in Students, NEW c, NEW b, ReadForMove(r, s, b) \/ ReadForUpdate(r, s, c, b)
      PROVE  ReadsCurrent(req[r])'
  <2>1. /\ req'[r].pc = "date" /\ req'[r].student = s /\ req'[r].seen = student[s] /\ Present(s)
        /\ UNCHANGED <<world, placement>>
    BY <1>3, GotoStep DEF ReadForMove, ReadForUpdate, Start, TypeOK
  <2>2. ReadsCurrent(req'[r])
    BY <2>1, JustRead DEF ReadsCurrent
  <2> QED BY <2>1, <2>2, SameReads
<1>4. ASSUME NEW S \in SUBSET Students, NEW b, BulkRead(r, S, b) PROVE ReadsCurrent(req[r])'
  <2>1. /\ req'[r] = [pc |-> "bulkWrite", batch |-> b, seen |-> [s \in S |-> student[s]]]
        /\ \A s \in S : Present(s)
        /\ "bulk" \in env.may /\ UNCHANGED <<world, placement>>
    BY <1>4, GotoStep DEF BulkRead, Start, MayStart, TypeOK
  <2>2. ReadsCurrent(req'[r])
    BY <2>1 DEF ReadsCurrent, BulkCurrent
  <2> QED BY <2>1, <2>2, SameReads
<1> QED BY <1>1, <1>2, <1>3, <1>4, TransferTraced, Transitions DEF Request

LEMMA ContinueCurrent ==
  ASSUME TypeOK, DatesSound, Agreeing, OneByOne, NEW r \in Requests, Continue(r)
  PROVE  ReadsCurrent(req[r])'
<1>1. ASSUME At(r, "idle")' \/ At(r, "find")' \/ At(r, "archiveAbsent")'
      PROVE  ReadsCurrent(req[r])'
  BY <1>1 DEF ReadsCurrent, At
<1> QED BY <1>1, Transitions, DatedTraced, DateRowTraced, BulkDateCurrent, BulkWriteCurrent, MatchRowCurrent
        DEF Continue

(* Every step leaves each student, but for a bulk update under way, with   *)
(* histories that match.                                                   *)
LEMMA BulkAlone ==
  ASSUME TypeOK, OneBusy, OneByOne, NEW r \in Requests, Steps(r), NEW s, InBulk(s)
  PROVE  \/ At(r, "bulkDate") /\ s \in Moved(req[r])
         \/ At(r, "bulkRows") /\ s \in DOMAIN req[r].days
<1>1. PICK q \in Requests : \/ At(q, "bulkDate") /\ s \in Moved(req[q])
                            \/ At(q, "bulkRows") /\ s \in DOMAIN req[q].days
  BY DEF InBulk
<1>2. q = r
  BY <1>1, OthersIdle DEF OneByOne, At
<1> QED BY <1>1, <1>2

(* A request in a bulk update goes on to its next query.                   *)
LEMMA BulkGoesOn ==
  ASSUME TypeOK, Agreeing, OneByOne, NEW r \in Requests, Steps(r)
  PROVE  /\ At(r, "bulkDate") => BulkDate(r)
         /\ At(r, "bulkRows") => BulkRows(r)
<1> SUFFICES ASSUME At(r, "bulkDate") \/ At(r, "bulkRows")
             PROVE  BulkDate(r) \/ BulkRows(r)
  BY DEF BulkDate, BulkRows, At
<1>1. "crash" \notin env.may
  BY DEF Agreeing, ReadsCurrent, BulkCurrent, At, OneByOne
<1>2. ~ Request(r)
  BY DEF Request, Create, ReadForMove, ReadForTransfer, ReadForUpdate, BulkRead, ReadForRemove, ReadRoster,
     MayStart, At
<1> QED BY <1>1, <1>2 DEF Steps, Continue, DatePlacement, WritePlacement, BulkWrite, Archive, Delete, RowFails,
     MatchRow, DateRow, WriteRow, CreateRow, ReadAbsent, ArchiveAbsent, Crash, At

LEMMA RecordedMatches ==
  ASSUME TypeOK, DatesSound, Agreeing, OneByOne, NEW r \in Requests, BulkRows(r),
         NEW s \in Students, s \in DOMAIN req[r].days
  PROVE  Recorded(r, s) /\ ResolveOnDay(batchRows'[s], today) = student'[s].batch
<1> DEFINE q == req[r]
           row == Row(q.batch, q.days[s])
<1>1. /\ q.pc = "bulkRows"
      /\ \A t \in DOMAIN q.days : Present(t) /\ student[t].batch = q.batch /\ SoFar(batchRows[t], q.days[t])
  BY DEF BulkRows, At, Agreeing, ReadsCurrent, BulkCurrent
<1>2. q.batch \in batches \cup {None}
  BY <1>1 DEF DatesSound, WellPlaced
<1>3. Recorded(r, s)
  <2>1. Exists(<<q.batch>>)
    BY <1>2 DEF Exists
  <2> QED BY <1>1, <2>1, BulkRowsAffects
<1>4. row \in [to : Batches \cup {None}, day : Days] /\ batchRows[s] \in Rows(Batches)
  BY <1>3, RecordedRow
<1>5. row.day = q.days[s] /\ row.to = q.batch
  BY DEF Row
<1>6. row.day <= today /\ today \in Nat /\ \A i \in DOMAIN batchRows[s] : batchRows[s][i].day <= row.day
  <2>1. q.days[s] <= today
    BY <1>1 DEF DatesSound, ReadSoFar
  <2> QED BY <1>1, <1>5, <2>1, PlacementAssumption DEF TypeOK, Days, SoFar
<1> HIDE DEF row
<1>7. ResolveOnDay(batchRows[s] \o <<row>>, today) = q.batch
  BY <1>4, <1>5, <1>6, AddedAnswers
<1> QED BY <1>1, <1>3, <1>7 DEF Recorded, SameColumns, row

LEMMA BulkDateKeepsBulk ==
  ASSUME TypeOK, NEW r \in Requests, BulkDate(r), NEW s, s \in Moved(req[r])
  PROVE  InBulk(s)'
<1>1. At(r, "bulkRows")' /\ req'[r].days = [t \in Moved(req[r]) |-> EffectiveDay(batchRows[t], req[r].seen[t].enrolled)]
  BY GotoStep DEF BulkDate, TypeOK, At
<1>2. s \in DOMAIN req'[r].days
  BY <1>1
<1> QED BY <1>1, <1>2 DEF InBulk

LEMMA BulkWriteMarks ==
  ASSUME TypeOK, Agreeing, OneByOne, NEW r \in Requests, NEW s \in Students, BulkWrote(r, s), Steps(r), ~ InBulk(s)'
  PROVE  student'[s].batch = student[s].batch
<1> DEFINE y == [req[r] EXCEPT !.pc = "bulkDate"]
<1>1. BulkWrite(r)
  <2>1. ~ Request(r)
    BY DEF BulkWrote, Request, Create, ReadForMove, ReadForTransfer, ReadForUpdate, BulkRead, ReadForRemove,
       ReadRoster, MayStart, At
  <2>2. ~ Crash(r)
    BY Transitions DEF BulkWrote, At
  <2> QED BY <2>1, <2>2 DEF BulkWrote, Steps, Continue, DatePlacement, WritePlacement, BulkDate, BulkRows, Archive,
       Delete, RowFails, MatchRow, DateRow, WriteRow, CreateRow, ReadAbsent, ArchiveAbsent, At
<1>2. y.batch = req[r].batch /\ y.seen = req[r].seen
  BY <1>1, Held DEF BulkWrite, At
<1>3. req'[r] = y
  <2>1. Goto(r, y) \/ Goto(r, Idle)
    BY <1>1 DEF BulkWrite
  <2>2. req'[r] # Idle
    BY DEF BulkWrote, At, Idle
  <2> HIDE DEF y
  <2> QED BY <2>1, <2>2, GotoStep DEF TypeOK
<1>4. s \notin Moved(req'[r])
  BY DEF BulkWrote, InBulk
<1> HIDE DEF y
<1>5. req[r].seen[s].batch = req[r].batch
  BY <1>2, <1>3, <1>4 DEF Moved, BulkWrote
<1>6. student[s].batch = req[r].seen[s].batch
  BY DEF BulkWrote, At, Agreeing, ReadsCurrent, BulkCurrent
<1> QED BY <1>5, <1>6 DEF BulkWrote

LEMMA WroteMatches ==
  ASSUME TypeOK, Agreeing, OneByOne, NEW r \in Requests, NEW s \in Students, Wrote(r, s)
  PROVE  /\ ResolveOnDay(batchRows[s], today) = student[s].batch
               => ResolveOnDay(batchRows'[s], today) = student'[s].batch
         /\ ResolveOnDay(campusRows[s], today) = student[s].campus
               => ResolveOnDay(campusRows'[s], today) = student'[s].campus
<1> DEFINE w == req[r].write
<1>1. s = req[r].student /\ WriteTraced(req[r]) /\ Exists(w.batch) /\ w \in Writes
  BY WrittenHeld DEF Wrote, Agreeing, ReadsCurrent, At
<1>2. /\ Traced(w.batch, w.batchRow, student[s].batch, batchRows[s])
      /\ Traced(CampusWritten(req[r]), w.campusRow, student[s].campus, campusRows[s])
  BY <1>1 DEF WriteTraced
<1>3. /\ batchRows[s] \in Rows(Batches) /\ campusRows[s] \in Rows(Campuses)
      /\ w.batchRow \in Rows(Batches) /\ w.campusRow \in Rows(Campuses)
  BY <1>1 DEF TypeOK, Writes
<1>4. ASSUME ResolveOnDay(batchRows[s], today) = student[s].batch
      PROVE  ResolveOnDay(batchRows[s] \o w.batchRow, today) = Given(w.batch, student[s].batch)
  BY <1>2, <1>3, <1>4, TracedAnswers
<1>5. ASSUME ResolveOnDay(campusRows[s], today) = student[s].campus
      PROVE  ResolveOnDay(campusRows[s] \o w.campusRow, today) = Given(CampusWritten(req[r]), student[s].campus)
  BY <1>2, <1>3, <1>5, TracedAnswers
<1> QED BY <1>4, <1>5 DEF Wrote

LEMMA MatchStep ==
  ASSUME TypeOK, DatesSound, OneBusy, Agreeing, OneByOne, NEW r \in Requests, Steps(r), NEW s \in Students
  PROVE  Match(s)'
<1> SUFFICES ASSUME Present(s)'
             PROVE  /\ ~ InBulk(s)' => ResolveOnDay(batchRows'[s], today) = student'[s].batch
                    /\ ResolveOnDay(campusRows'[s], today) = student'[s].campus
  BY BusyStep DEF Match
<1>1. Affects(r, s) /\ Match(s)
  BY StepAffects DEF Agreeing
<1>2. ResolveOnDay(campusRows'[s], today) = student'[s].campus
  <2>1. CASE Quiet(s) \/ BulkWrote(r, s) \/ Recorded(r, s)
    BY <1>1, <2>1 DEF Quiet, BulkWrote, Recorded, SameColumns, SameHistory, Match
  <2>2. CASE Born(s)
    BY <2>2, FirstRowsAnswer DEF Born
  <2>3. CASE Gone(r, s)
    BY <2>3 DEF Gone, Present, NoStudent
  <2>4. CASE Wrote(r, s)
    BY <1>1, <2>4, WroteMatches DEF Match, Wrote
  <2> QED BY <1>1, <2>1, <2>2, <2>3, <2>4 DEF Affects
<1>3. ASSUME ~ InBulk(s)' PROVE ResolveOnDay(batchRows'[s], today) = student'[s].batch
  <2>1. CASE InBulk(s)
    <3>1. CASE At(r, "bulkDate") /\ s \in Moved(req[r])
      BY <1>3, <3>1, BulkGoesOn, BulkDateKeepsBulk
    <3>2. CASE At(r, "bulkRows") /\ s \in DOMAIN req[r].days
      BY <3>2, BulkGoesOn, RecordedMatches
    <3> QED BY <2>1, <3>1, <3>2, BulkAlone
  <2>2. CASE ~ InBulk(s)
    <3>1. CASE Quiet(s)
      BY <1>1, <2>2, <3>1 DEF Quiet, SameColumns, SameHistory, Match
    <3>2. CASE Born(s)
      BY <3>2, FirstRowsAnswer DEF Born, TypeOK
    <3>3. CASE Gone(r, s)
      BY <3>3 DEF Gone, Present, NoStudent
    <3>4. CASE Wrote(r, s)
      BY <1>1, <2>2, <3>4, WroteMatches DEF Match, Wrote
    <3>5. CASE BulkWrote(r, s)
      BY <1>1, <1>3, <2>2, <3>5, BulkWriteMarks DEF BulkWrote, SameHistory, Match
    <3>6. CASE Recorded(r, s)
      BY <2>2, <3>6 DEF Recorded, InBulk
    <3> QED BY <1>1, <3>1, <3>2, <3>3, <3>4, <3>5, <3>6 DEF Affects
  <2> QED BY <2>1, <2>2
<1> QED BY <1>2, <1>3

(* A batch is deleted between two queries: what was read of it reads now as *)
(* no batch.                                                               *)
LEMMA DeletedAnswers ==
  ASSUME TypeOK, DatesSound, NEW b \in Batches, DeleteBatch(b), NEW s \in Students
  PROVE  /\ student'[s].campus = student[s].campus /\ (Present(s)' <=> Present(s))
         /\ student'[s].batch = IF student[s].batch = b THEN None ELSE student[s].batch
         /\ ResolveOnDay(batchRows'[s], today) =
               IF ResolveOnDay(batchRows[s], today) = b THEN None ELSE ResolveOnDay(batchRows[s], today)
         /\ \A d : SoFar(batchRows[s], d) => SoFar(batchRows'[s], d)
<1>1. b # None /\ student[s] \in StudentRows \cup {NoStudent}
  BY PlacementAssumption DEF TypeOK
<1>2. student'[s] = IF student[s].batch = b THEN [student[s] EXCEPT !.batch = None] ELSE student[s]
  BY DEF DeleteBatch
<1>3. /\ student'[s].campus = student[s].campus /\ student'[s].status = student[s].status
      /\ student'[s].batch = IF student[s].batch = b THEN None ELSE student[s].batch
  BY <1>1, <1>2, SetBatch
<1> DEFINE rows == batchRows[s]
<1>4. rows \in Rows(Batches) /\ today \in Nat /\ batchRows'[s] = Forgotten(rows, b)
  BY DeleteBatchTyped, PlacementAssumption DEF TypeOK, Days
<1> HIDE DEF rows
<1>5. /\ ResolveOnDay(Forgotten(rows, b), today) =
            IF ResolveOnDay(rows, today) = b THEN None ELSE ResolveOnDay(rows, today)
      /\ DOMAIN Forgotten(rows, b) = DOMAIN rows
      /\ \A i \in DOMAIN rows : Forgotten(rows, b)[i].day = rows[i].day
  BY <1>1, <1>4, ForgottenAnswers
<1>6. \A d : SoFar(rows, d) => SoFar(Forgotten(rows, b), d)
  BY <1>5 DEF SoFar
<1> QED BY <1>3, <1>4, <1>5, <1>6 DEF rows, Present

LEMMA AgreeingDelete ==
  ASSUME TypeOK, DatesSound, Agreeing, OneByOne, NEW b \in Batches, DeleteBatch(b)
  PROVE  /\ \A s \in Students : Match(s)'
         /\ \A r \in Requests : ReadsCurrent(req[r])'
<1>1. /\ "bulk" \notin env.may /\ batches' = batches \ {b} /\ today' = today /\ req' = req /\ env' = env
      /\ campusRows' = campusRows
  BY DEF DeleteBatch, OneByOne
<1>2. b # None
  BY PlacementAssumption
<1>3. \A s : ~ InBulk(s)
  BY <1>1 DEF InBulk, Agreeing, ReadsCurrent, BulkCurrent, At
<1>4. ASSUME NEW s \in Students PROVE Match(s)'
  <2>1. Match(s)
    BY DEF Agreeing
  <2> QED BY <1>1, <1>3, <2>1, DeletedAnswers DEF Match
<1>5. ASSUME NEW r \in Requests PROVE ReadsCurrent(req[r])'
  <2> DEFINE q == req[r]
  <2>1. ReadsCurrent(q) /\ q = req'[r]
    BY <1>1 DEF Agreeing
  <2>2. CASE q.pc \in {"date", "dateRow"}
    <3>1. q.student \in Students /\ Current(q.student, q.seen)
      BY <2>1, <2>2, Held DEF ReadsCurrent, At
    <3>2. Current(q.student, q.seen)'
      BY <1>1, <1>2, <2>1, <3>1, DeletedAnswers DEF Current, Still
    <3> QED BY <2>1, <2>2, <3>2 DEF ReadsCurrent
  <2>3. CASE q.pc \in {"write", "writeRow"}
    <3> DEFINE s == q.student
               w == q.write
    <3>1. s \in Students /\ WriteTraced(q) /\ w \in Writes
      BY <2>1, <2>3, WrittenHeld DEF ReadsCurrent, At
    <3>2. student'[s].status # "NONE"
      BY <3>1, DeletedAnswers DEF WriteTraced, Present
    <3>3. Traced(CampusWritten(q), w.campusRow, student'[s].campus, campusRows'[s])
      BY <1>1, <3>1, DeletedAnswers DEF WriteTraced
    <3>4. ASSUME Exists(w.batch)'
          PROVE  Traced(w.batch, w.batchRow, student'[s].batch, batchRows'[s])
      <4>1. Exists(w.batch)
        BY <1>1, <2>1, <3>4 DEF Exists
      <4>2. Traced(w.batch, w.batchRow, student[s].batch, batchRows[s])
        BY <3>1, <4>1 DEF WriteTraced
      <4>3. CASE w.batch = <<>> /\ w.batchRow = <<>>
        BY <4>3 DEF Traced
      <4>4. ASSUME NEW h, NEW d, w.batch = <<h>>, w.batchRow = <<Row(h, d)>>, d <= today, SoFar(batchRows[s], d)
            PROVE  Traced(w.batch, w.batchRow, student'[s].batch, batchRows'[s])
        BY <3>1, <4>4, DeletedAnswers DEF Traced
      <4>5. CASE w.batch = <<student[s].batch>> /\ w.batchRow = <<>>
        <5>1. student[s].batch # b
          <6>1. \A i \in DOMAIN w.batch : w.batch[i] \in (batches \ {b}) \cup {None}
            BY <1>1, <2>1, <3>4 DEF Exists
          <6>2. w.batch[1] = student[s].batch /\ 1 \in DOMAIN w.batch
            BY <4>5
          <6> QED BY <1>2, <6>1, <6>2
        <5>2. student'[s].batch = student[s].batch
          BY <3>1, <5>1, DeletedAnswers
        <5> QED BY <4>5, <5>2 DEF Traced
      <4> QED BY <4>2, <4>3, <4>4, <4>5 DEF Traced
    <3>5. WriteTraced(req[r])'
      BY <1>1, <2>1, <3>2, <3>3, <3>4 DEF WriteTraced, Traced, Exists, Present, CampusWritten
    <3> QED BY <2>1, <2>3, <3>5 DEF ReadsCurrent
  <2>4. q.pc \notin {"bulkWrite", "bulkDate", "bulkRows"}
    BY <1>1, <2>1 DEF ReadsCurrent, BulkCurrent
  <2> QED BY <2>1, <2>2, <2>3, <2>4 DEF ReadsCurrent
<1> QED BY <1>4, <1>5

LEMMA AgreeingNextDay ==
  ASSUME TypeOK, DatesSound, Agreeing, OneByOne, NextDay
  PROVE  /\ \A s \in Students : Match(s)'
         /\ \A r \in Requests : ReadsCurrent(req[r])'
<1>1. today \in Nat /\ today' \in Nat /\ today <= today'
  BY PlacementAssumption DEF NextDay, TypeOK, Days
<1>2. \A r \in Requests : ReadsCurrent(req[r])'
  BY DEF NextDay, Alone, At, ReadsCurrent
<1>3. ASSUME NEW s \in Students PROVE Match(s)'
  <2>1. /\ batchRows[s] \in Rows(Batches) /\ campusRows[s] \in Rows(Campuses)
        /\ \A i \in DOMAIN batchRows[s] : batchRows[s][i].day <= today
        /\ \A i \in DOMAIN campusRows[s] : campusRows[s][i].day <= today
    BY DEF TypeOK, DatesSound, WellPlaced, SoFar
  <2>2. ResolveOnDay(batchRows[s], today') = ResolveOnDay(batchRows[s], today)
    BY <1>1, <2>1, LaterAnswers
  <2>3. ResolveOnDay(campusRows[s], today') = ResolveOnDay(campusRows[s], today)
    BY <1>1, <2>1, LaterAnswers
  <2>4. Match(s) /\ ~ InBulk(s)
    BY DEF Agreeing, NextDay, Alone, InBulk, At
  <2> QED BY <2>2, <2>3, <2>4 DEF Match, NextDay, placement, Present
<1> QED BY <1>2, <1>3

LEMMA AgreeingNext ==
  ASSUME TypeOK, DatesSound, OneBusy, Agreeing, [Next]_vars
  PROVE  Agreeing'
<1>1. CASE OneByOne
  <2>1. ASSUME NEW r \in Requests, Steps(r) PROVE Agreeing'
    <3>1. ASSUME NEW q \in Requests PROVE ReadsCurrent(req[q])'
      <4>1. CASE q = r
        BY <1>1, <2>1, <4>1, RequestCurrent, ContinueCurrent DEF Steps
      <4>2. CASE q # r
        <5>1. req'[q] = req[q] /\ At(q, "idle")
          BY <1>1, <2>1, <4>2, BusyStep, OthersIdle DEF OneByOne
        <5> QED BY <5>1 DEF At, ReadsCurrent
      <4> QED BY <4>1, <4>2
    <3>2. \A s \in Students : Match(s)'
      BY <1>1, <2>1, MatchStep
    <3> QED BY <3>1, <3>2 DEF Agreeing
  <2>2. ASSUME NEW b \in Batches, DeleteBatch(b) PROVE Agreeing'
    BY <1>1, <2>2, AgreeingDelete DEF Agreeing
  <2>3. CASE NextDay
    BY <1>1, <2>3, AgreeingNextDay DEF Agreeing
  <2>4. CASE UNCHANGED vars
    <3>1. \A s \in Students : Match(s) => Match(s)'
      BY <2>4 DEF vars, Match, Present, InBulk, At, Moved
    <3>2. \A r \in Requests : ReadsCurrent(req[r]) => ReadsCurrent(req'[r])
      BY <2>4 DEF vars
    <3>3. \A r \in Requests : ReadsCurrent(req'[r]) => ReadsCurrent(req[r])'
      BY <2>4, SameReads DEF vars, world, placement
    <3>4. (\A s \in Students : Match(s)) /\ (\A r \in Requests : ReadsCurrent(req[r]))
      BY <1>1 DEF Agreeing
    <3>5. (\A s \in Students : Match(s)') /\ (\A r \in Requests : ReadsCurrent(req[r])')
      BY <3>1, <3>2, <3>3, <3>4
    <3> QED BY <3>5 DEF Agreeing
  <2> QED BY <2>1, <2>2, <2>3, <2>4 DEF Next, Steps
<1>2. CASE ~ OneByOne
  <2>1. env' = env
    BY BusyStep DEF Next, NextDay, DeleteBatch, Steps, vars
  <2> QED BY <1>2, <2>1 DEF OneByOne, Agreeing
<1> QED BY <1>1, <1>2

LEMMA FirstDays ==
  ASSUME Init
  PROVE  /\ TypeOK /\ env \in Environments /\ today = 2 /\ 1 \in Days /\ 2 \in Nat /\ 1 <= 2
         /\ \A s \in Students : /\ env.start[s].batch \in Batches \cup {None}
                                /\ env.start[s].campus \in Campuses \cup {None}
                                /\ env.start[s].batch # None => env.start[s].campus # None
  BY PlacementAssumption, InitTyped DEF Init, Days

LEMMA StartMatches ==
  ASSUME Init, NEW s \in Students, Present(s)
  PROVE  /\ ResolveOnDay(batchRows[s], today) = student[s].batch
         /\ ResolveOnDay(campusRows[s], today) = student[s].campus
<1>1. env.start[s].campus # None
  BY DEF Init, Present, NoStudent
<1>2. /\ student[s].batch = env.start[s].batch /\ student[s].campus = env.start[s].campus
      /\ batchRows[s] = IF env.start[s].batch = None THEN <<>> ELSE <<Row(env.start[s].batch, 1)>>
      /\ campusRows[s] = <<Row(env.start[s].campus, 1)>>
  BY <1>1 DEF Init
<1>3. ResolveOnDay(campusRows[s], today) = student[s].campus
  BY <1>2, FirstDays, OneRowAnswers
<1>4. ResolveOnDay(batchRows[s], today) = student[s].batch
  <2>1. CASE env.start[s].batch = None
    BY <1>2, <2>1, EmptyAnswers
  <2>2. CASE env.start[s].batch # None
    BY <1>2, <2>2, FirstDays, OneRowAnswers
  <2> QED BY <2>1, <2>2
<1> QED BY <1>3, <1>4

LEMMA AgreeingInit == Init => Agreeing
<1> SUFFICES ASSUME Init PROVE Agreeing
  OBVIOUS
<1>1. \A r \in Requests : req[r].pc = "idle"
  BY DEF Init, Idle
<1>2. \A r \in Requests : ReadsCurrent(req[r])
  BY <1>1 DEF ReadsCurrent
<1> QED BY <1>2, StartMatches DEF Agreeing, Match

-----------------------------------------------------------------------------
(* Moves that overlap keep the batch of a student placed before.           *)
Started(s) == env.start[s].batch # None
Kept(s) == Present(s) /\ batchRows[s] # <<>> /\ ResolveOnDay(batchRows[s], today) = student[s].batch
Moving(q) ==
    /\ q.pc \in {"idle", "date", "write", "archive", "delete"}
    /\ q.pc = "date" => \E b : q.batch = <<b>> /\ q.seen.batch # b
    /\ q.pc = "write" /\ Started(q.student) =>
          \E b : q.write.batch = <<b>> /\ q.write.batchRow = <<Row(b, today)>>
    /\ q.pc = "delete" => ~ Started(q.student)
MovesMatch ==
    OnlyMoves => /\ \A s \in Students : Started(s) => Kept(s)
                 /\ \A r \in Requests : Moving(req[r])

LEMMA MovingStep ==
  ASSUME TypeOK, MovesMatch, OnlyMoves, NEW r \in Requests, Steps(r)
  PROVE  Moving(req[r])'
<1>1. env' = env /\ today' = today /\ Moving(req[r])
  BY BusyStep DEF MovesMatch
<1>2. ASSUME At(r, "idle")' \/ At(r, "archive")' PROVE Moving(req[r])'
  BY <1>2 DEF Moving, At
<1>3. CASE Request(r)
  <2>1. ASSUME NEW s, NEW c, NEW b, Create(r, s, c, b) PROVE At(r, "idle")'
    BY <2>1, Transitions DEF At
  <2>2. ASSUME NEW s \in Students, NEW b, ReadForMove(r, s, b) PROVE Moving(req[r])'
    <3>1. req'[r].pc = "date" /\ req'[r].batch = <<b>> /\ req'[r].seen.batch # b
      BY <2>2, GotoStep DEF ReadForMove, Start, TypeOK
    <3> QED BY <3>1 DEF Moving
  <2>3. ASSUME NEW s \in Students, NEW done, ReadForRemove(r, s, done) PROVE Moving(req[r])'
    <3>1. CASE done \/ batchRows[s] # <<>>
      <4>1. req'[r].pc = "archive"
        BY <2>3, <3>1, GotoStep DEF ReadForRemove, Start, TypeOK
      <4> QED BY <4>1 DEF Moving
    <3>2. CASE ~ (done \/ batchRows[s] # <<>>)
      <4>1. req'[r].pc = "delete" /\ req'[r].student = s
        BY <2>3, <3>2, GotoStep DEF ReadForRemove, Start, TypeOK
      <4>2. ~ Started(s)
        BY <3>2 DEF MovesMatch, Kept
      <4> QED BY <1>1, <4>1, <4>2 DEF Moving, Started
    <3> QED BY <3>1, <3>2
  <2>4. "transfer" \notin env.may /\ "update" \notin env.may /\ "bulk" \notin env.may /\ "import" \notin env.may
    BY DEF OnlyMoves
  <2> QED BY <1>2, <1>3, <2>1, <2>2, <2>3, <2>4 DEF Request, ReadForTransfer, ReadForUpdate, BulkRead, ReadRoster,
        MayStart
<1>4. CASE Continue(r)
  <2>1. CASE DatePlacement(r)
    <3> DEFINE q == req[r]
    <3>1. PICK b : q.batch = <<b>> /\ q.seen.batch # b
      BY <1>1, <2>1 DEF Moving, DatePlacement, At
    <3>2. Changed(q.batch, q.seen.batch) /\ q.batch[1] = b
      BY <3>1 DEF Changed
    <3>3. /\ req'[r].pc = "write" /\ req'[r].student = q.student /\ req'[r].write.batch = <<b>>
          /\ req'[r].write.batchRow = <<Row(b, EffectiveDay(batchRows[q.student], q.seen.enrolled))>>
      BY <2>1, <3>1, <3>2, GotoStep DEF DatePlacement, TypeOK
    <3>4. Started(q.student) => EffectiveDay(batchRows[q.student], q.seen.enrolled) = today
      <4>1. q.student \in Students
        BY <2>1, Held DEF DatePlacement
      <4> QED BY <4>1 DEF MovesMatch, Kept, EffectiveDay
    <3> QED BY <1>1, <3>3, <3>4 DEF Moving, Started
  <2>2. CASE WritePlacement(r) \/ Archive(r) \/ Delete(r) \/ Crash(r)
    BY <1>2, <2>2, Transitions
  <2> QED BY <1>1, <1>4, <2>1, <2>2 DEF Continue, Moving, BulkWrite, BulkDate, BulkRows, RowFails, MatchRow, DateRow,
        WriteRow, CreateRow, ReadAbsent, ArchiveAbsent, At
<1> QED BY <1>3, <1>4 DEF Steps

LEMMA KeptStep ==
  ASSUME TypeOK, DatesSound, MovesMatch, OnlyMoves, NEW r \in Requests, Steps(r), NEW s \in Students, Started(s)
  PROVE  Kept(s)'
<1>1. Affects(r, s) /\ Kept(s) /\ Moving(req[r]) /\ today' = today /\ WellPlaced(s)
  BY StepAffects, BusyStep DEF MovesMatch, DatesSound
<1>2. CASE Quiet(s)
  BY <1>1, <1>2 DEF Quiet, SameColumns, SameHistory, Kept
<1>3. CASE Wrote(r, s)
  <2> DEFINE w == req[r].write
  <2>1. PICK b : w.batch = <<b>> /\ w.batchRow = <<Row(b, today)>>
    BY <1>1, <1>3 DEF Wrote, Moving, At
  <2> DEFINE row == Row(b, today)
  <2>2. w \in Writes /\ batchRows[s] \in Rows(Batches)
    BY <1>3, WrittenHeld DEF Wrote, TypeOK
  <2>3. b \in Batches \cup {None}
    <3>1. w.batch \in Column(Batches)
      BY <2>2 DEF Writes
    <3>2. w.batch # <<>> /\ b = w.batch[1]
      BY <2>1
    <3> QED BY <2>1, <3>1, <3>2 DEF Column
  <2>4. row \in [to : Batches \cup {None}, day : Days] /\ row.to = b /\ row.day = today
    BY <2>3 DEF Row, TypeOK
  <2>5. today \in Nat /\ row.day <= today /\ \A i \in DOMAIN batchRows[s] : batchRows[s][i].day <= row.day
    BY <1>1, <2>4, PlacementAssumption DEF TypeOK, Days, WellPlaced, SoFar
  <2>6. w.batchRow = <<row>> /\ Given(w.batch, student[s].batch) = b
    BY <2>1 DEF Given
  <2> HIDE DEF row
  <2>7. ResolveOnDay(batchRows[s] \o <<row>>, today) = b
    BY <2>2, <2>4, <2>5, AddedAnswers
  <2>8. batchRows[s] \o <<row>> # <<>>
    <3>1. Len(batchRows[s] \o <<row>>) = Len(batchRows[s]) + 1 /\ Len(batchRows[s]) \in Nat
      BY <2>2, <2>4, AddedRow, RowTypes
    <3> QED BY <3>1
  <2> QED BY <1>1, <1>3, <2>6, <2>7, <2>8 DEF Wrote, Kept
<1>4. CASE Gone(r, s)
  BY <1>1, <1>4 DEF Gone, Moving, At
<1>5. CASE Born(s) \/ BulkWrote(r, s) \/ Recorded(r, s)
  BY <1>1, <1>5 DEF Born, BulkWrote, Recorded, Kept, Moving, At
<1> QED BY <1>1, <1>2, <1>3, <1>4, <1>5 DEF Affects

LEMMA MovesMatchNext ==
  ASSUME TypeOK, DatesSound, MovesMatch, [Next]_vars
  PROVE  MovesMatch'
<1>0. env' = env
  BY BusyStep DEF Next, NextDay, DeleteBatch, Steps, vars
<1>1. CASE ~ OnlyMoves
  BY <1>0, <1>1 DEF OnlyMoves, MovesMatch
<1>2. CASE OnlyMoves
  <2>1. ASSUME NEW r \in Requests, Steps(r) PROVE MovesMatch'
    <3>1. ASSUME NEW q \in Requests PROVE Moving(req[q])'
      <4>1. CASE q = r
        BY <1>2, <2>1, <4>1, MovingStep
      <4>2. CASE q # r
        <5>1. req'[q] = req[q] /\ today' = today
          BY <2>1, <4>2, BusyStep
        <5> QED BY <1>0, <1>2, <5>1 DEF MovesMatch, Moving, Started
      <4> QED BY <4>1, <4>2
    <3>2. ASSUME NEW s \in Students, Started(s)' PROVE Kept(s)'
      BY <1>0, <1>2, <2>1, <3>2, KeptStep DEF Started
    <3> QED BY <3>1, <3>2 DEF MovesMatch
  <2>2. ASSUME NEW b \in Batches, DeleteBatch(b) PROVE MovesMatch'
    <3>1. ASSUME NEW s \in Students, Started(s) PROVE Kept(s)'
      <4>1. Kept(s)
        BY <1>2, <3>1 DEF MovesMatch
      <4>2. batchRows'[s] # <<>>
        <5>1. batchRows'[s] = Forgotten(batchRows[s], b) /\ batchRows[s] \in Rows(Batches) /\ b # None
          BY <2>2, DeleteBatchTyped, PlacementAssumption DEF TypeOK
        <5>2. batchRows[s] # <<>>
          BY <4>1 DEF Kept
        <5> QED BY <5>1, <5>2, ForgottenEmpty
      <4> QED BY ZenonT(40), <2>2, <4>1, <4>2, DeletedAnswers DEF Kept, DeleteBatch
    <3>2. ASSUME NEW q \in Requests PROVE Moving(req[q])'
      BY <1>2, <2>2 DEF MovesMatch, Moving, Started, DeleteBatch
    <3> QED BY <1>0, <3>1, <3>2 DEF MovesMatch, Started
  <2>3. CASE NextDay
    <3>1. today \in Nat /\ today' \in Nat /\ today <= today'
      BY <2>3, PlacementAssumption DEF NextDay, TypeOK, Days
    <3>2. ASSUME NEW s \in Students, Started(s) PROVE Kept(s)'
      <4>1. /\ batchRows[s] \in Rows(Batches) /\ Kept(s)
            /\ \A i \in DOMAIN batchRows[s] : batchRows[s][i].day <= today
        BY <1>2, <3>2 DEF TypeOK, DatesSound, WellPlaced, SoFar, MovesMatch
      <4>2. ResolveOnDay(batchRows[s], today') = ResolveOnDay(batchRows[s], today)
        BY <3>1, <4>1, LaterAnswers
      <4> QED BY <2>3, <4>1, <4>2 DEF NextDay, placement, Kept, Present
    <3>3. ASSUME NEW q \in Requests PROVE Moving(req[q])'
      BY <2>3 DEF NextDay, Alone, At, Moving
    <3> QED BY <1>0, <3>2, <3>3 DEF MovesMatch, Started
  <2>4. CASE UNCHANGED vars
    BY <2>4 DEF vars, MovesMatch, OnlyMoves, Started, Kept, Present, Moving
  <2> QED BY <2>1, <2>2, <2>3, <2>4 DEF Next, Steps
<1> QED BY <1>1, <1>2

LEMMA MovesMatchInit == Init => MovesMatch
<1> SUFFICES ASSUME Init PROVE MovesMatch
  OBVIOUS
<1>1. \A r \in Requests : Moving(req[r])
  BY DEF Init, Idle, Moving
<1>2. ASSUME NEW s \in Students, Started(s) PROVE Kept(s)
  <2>1. Present(s) /\ batchRows[s] = <<Row(env.start[s].batch, 1)>>
    BY <1>2, FirstDays DEF Init, Started, Present
  <2> QED BY <2>1, StartMatches DEF Kept
<1> QED BY <1>1, <1>2 DEF MovesMatch

(* The columns say what the histories say of today: of requests one by     *)
(* one, but for a bulk update under way, with crashes and deleted batches  *)
(* between their queries; and of moves that overlap, of students placed    *)
(* before.                                                                 *)
THEOREM HistoryAgrees == Spec => []HistoryMatchesColumn
<1> DEFINE IInv == TypeOK /\ DatesSound /\ OneBusy /\ Agreeing /\ MovesMatch
<1>1. Init => IInv
  BY InitTyped, DatesSoundInit, OneBusyInit, AgreeingInit, MovesMatchInit
<1>2. IInv /\ [Next]_vars => IInv'
  BY NextTyped, DatesSoundNext, OneBusyNext, AgreeingNext, MovesMatchNext
<1>3. IInv => HistoryMatchesColumn
  BY DEF HistoryMatchesColumn, Agreeing, Match, MovesMatch, Started, Kept
<1> HIDE DEF IInv
<1> QED BY <1>1, <1>2, <1>3, PTL DEF Spec

-----------------------------------------------------------------------------
(* The histories implement the calendar.                                   *)

(* When requests overlap, nobody is there without a first placement: those *)
(* who begin have one, and those who come are given one.                   *)
Overlaps == "overlap" \in env.may
PlacedOnArrival ==
    Overlaps => /\ \A s \in Students : env.start[s].campus # None => env.start[s].batch # None
                /\ "create" \in env.may => None \notin env.targets
                /\ \A roster \in env.rosters : \A i \in DOMAIN roster.rows : roster.rows[i].batch # None
PlacedHere == Overlaps => \A s \in Students : Present(s) => batchRows[s] # <<>>

(* A row to be written is of today, or is the first, and no other request  *)
(* can write before it.                                                    *)
Fits(s, d) == d = today \/ (~ Overlaps /\ batchRows[s] = <<>>)
RowFits(s, more) == more = <<>> \/ \E h, d : more = <<Row(h, d)>> /\ Fits(s, d)
LeftPlaced(q) == \A i \in DOMAIN q.left : q.left[i].batch # None
ReadsFit(q) ==
    /\ q.pc \in {"date", "dateRow"} => (Overlaps => Present(q.student))
    /\ q.pc \in {"write", "writeRow"} => RowFits(q.student, q.write.batchRow)
    /\ q.pc \in {"bulkWrite", "bulkDate"} => (Overlaps => \A s \in DOMAIN q.seen : Present(s))
    /\ q.pc = "bulkRows" => \A s \in DOMAIN q.days : Fits(s, q.days[s])
    /\ q.pc = "delete" => ~ Overlaps /\ batchRows[q.student] = <<>>
    /\ q.pc \in InImport => (Overlaps => LeftPlaced(q))
AllFit == PlacedOnArrival /\ PlacedHere /\ \A r \in Requests : ReadsFit(req[r])

LEMMA SameFits ==
  ASSUME UNCHANGED <<world, placement>>, NEW r, ReadsFit(req'[r])
  PROVE  ReadsFit(req[r])'
  BY DEF ReadsFit, RowFits, Fits, Overlaps, LeftPlaced, Present, world, placement

LEMMA EffectiveFits ==
  ASSUME TypeOK, PlacedHere, NEW s \in Students, Overlaps => Present(s), NEW e
  PROVE  Fits(s, EffectiveDay(batchRows[s], e))
  BY DEF PlacedHere, EffectiveDay, Fits

LEMMA DatedFits ==
  ASSUME TypeOK, AllFit, NEW r \in Requests, DatePlacement(r) \/ DateRow(r) \/ BulkDate(r)
  PROVE  ReadsFit(req[r])'
<1> DEFINE q == req[r]
<1>1. CASE DatePlacement(r)
  <2> DEFINE d == EffectiveDay(batchRows[q.student], q.seen.enrolled)
  <2>1. /\ req'[r].pc = "write" /\ req'[r].student = q.student
        /\ req'[r].write.batchRow = IF Changed(q.batch, q.seen.batch) THEN <<Row(q.batch[1], d)>> ELSE <<>>
    BY <1>1, GotoStep DEF DatePlacement, TypeOK
  <2>2. q.student \in Students /\ (Overlaps => Present(q.student))
    BY <1>1, Held DEF AllFit, ReadsFit, DatePlacement, At
  <2>3. Fits(q.student, d)
    BY <2>2, EffectiveFits DEF AllFit
  <2> HIDE DEF d
  <2>4. RowFits(req'[r].student, req'[r].write.batchRow)
    BY <2>1, <2>3 DEF RowFits
  <2>5. ReadsFit(req'[r])
    BY <2>1, <2>4 DEF ReadsFit, InImport
  <2> QED BY <1>1, <2>5, SameFits DEF DatePlacement
<1>2. CASE DateRow(r)
  <2> DEFINE b == Head(q.left).batch
             d == EffectiveDay(batchRows[q.student], q.seen.enrolled)
  <2>1. /\ req'[r].pc = "writeRow" /\ req'[r].student = q.student /\ req'[r].left = q.left
        /\ req'[r].write.batchRow = IF b # None /\ q.seen.batch # b THEN <<Row(b, d)>> ELSE <<>>
    BY <1>2, GotoStep DEF DateRow, TypeOK
  <2>2. q.student \in Students /\ (Overlaps => Present(q.student)) /\ (Overlaps => LeftPlaced(q))
    BY <1>2, Held DEF AllFit, ReadsFit, DateRow, At, InImport
  <2>3. Fits(q.student, d)
    BY <2>2, EffectiveFits DEF AllFit
  <2> HIDE DEF b, d
  <2>4. RowFits(req'[r].student, req'[r].write.batchRow)
    BY <2>1, <2>3 DEF RowFits
  <2>5. ReadsFit(req'[r])
    BY <2>1, <2>2, <2>4 DEF ReadsFit, LeftPlaced
  <2> QED BY <1>2, <2>5, SameFits DEF DateRow
<1>3. CASE BulkDate(r)
  <2>1. /\ req'[r].pc = "bulkRows"
        /\ req'[r].days = [s \in Moved(q) |-> EffectiveDay(batchRows[s], q.seen[s].enrolled)]
    BY <1>3, GotoStep DEF BulkDate, TypeOK
  <2>2. Moved(q) \subseteq Students /\ \A s \in Moved(q) : Overlaps => Present(s)
    <3>1. DOMAIN q.seen \subseteq Students
      BY <1>3, Held DEF BulkDate
    <3> QED BY <1>3, <3>1 DEF AllFit, ReadsFit, BulkDate, At, Moved
  <2>3. \A s \in Moved(q) : Fits(s, EffectiveDay(batchRows[s], q.seen[s].enrolled))
    BY <2>2, EffectiveFits DEF AllFit
  <2>4. ReadsFit(req'[r])
    BY <2>1, <2>3 DEF ReadsFit, InImport
  <2> QED BY <1>3, <2>4, SameFits DEF BulkDate
<1> QED BY <1>1, <1>2, <1>3

LEMMA RequestFits ==
  ASSUME TypeOK, AllFit, NEW r \in Requests, Request(r)
  PROVE  ReadsFit(req[r])'
<1>1. ASSUME NEW s \in Students, NEW c, NEW b, Create(r, s, c, b) PROVE ReadsFit(req[r])'
  <2>1. req'[r].pc = "idle"
    BY <1>1, Transitions DEF At
  <2> QED BY <2>1 DEF ReadsFit, InImport
<1>2. ASSUME NEW s \in Students, NEW c, NEW b, ReadForMove(r, s, b) \/ ReadForUpdate(r, s, c, b)
      PROVE  ReadsFit(req[r])'
  <2>1. /\ req'[r].pc = "date" /\ req'[r].student = s /\ Present(s) /\ UNCHANGED <<world, placement>>
    BY <1>2, GotoStep DEF ReadForMove, ReadForUpdate, Start, TypeOK
  <2>2. ReadsFit(req'[r])
    BY <2>1 DEF ReadsFit, InImport
  <2> QED BY <2>1, <2>2, SameFits
<1>3. ASSUME NEW s \in Students, NEW c, NEW b, ReadForTransfer(r, s, c, b) PROVE ReadsFit(req[r])'
  <2>1. /\ req'[r].pc = "write" /\ UNCHANGED <<world, placement>>
        /\ req'[r].write.batchRow = IF student[s].batch # b THEN <<Row(b, today)>> ELSE <<>>
    BY <1>3, GotoStep DEF ReadForTransfer, Start, TypeOK
  <2>2. RowFits(req'[r].student, req'[r].write.batchRow)
    BY <2>1 DEF RowFits, Fits
  <2>3. ReadsFit(req'[r])
    BY <2>1, <2>2 DEF ReadsFit, InImport
  <2> QED BY <2>1, <2>3, SameFits
<1>4. ASSUME NEW S \in SUBSET Students, NEW b, BulkRead(r, S, b) PROVE ReadsFit(req[r])'
  <2>1. /\ req'[r].pc = "bulkWrite" /\ req'[r].seen = [s \in S |-> student[s]]
        /\ \A s \in S : Present(s)
        /\ UNCHANGED <<world, placement>>
    BY <1>4, GotoStep DEF BulkRead, Start, TypeOK
  <2>2. ReadsFit(req'[r])
    BY <2>1 DEF ReadsFit, InImport
  <2> QED BY <2>1, <2>2, SameFits
<1>5. ASSUME NEW s \in Students, NEW done, ReadForRemove(r, s, done) PROVE ReadsFit(req[r])'
  <2>1. UNCHANGED <<world, placement>> /\ Present(s)
    BY <1>5 DEF ReadForRemove
  <2>2. CASE done \/ batchRows[s] # <<>>
    <3>1. req'[r].pc = "archive"
      BY <1>5, <2>2, GotoStep DEF ReadForRemove, Start, TypeOK
    <3> QED BY <3>1 DEF ReadsFit, InImport
  <2>3. CASE ~ (done \/ batchRows[s] # <<>>)
    <3>1. req'[r].pc = "delete" /\ req'[r].student = s
      BY <1>5, <2>3, GotoStep DEF ReadForRemove, Start, TypeOK
    <3>2. ReadsFit(req'[r])
      BY <2>1, <2>3, <3>1 DEF ReadsFit, InImport, AllFit, PlacedHere
    <3> QED BY <2>1, <3>2, SameFits
  <2> QED BY <2>2, <2>3
<1>6. ASSUME NEW roster \in env.rosters, ReadRoster(r, roster) PROVE ReadsFit(req[r])'
  <2>1. req'[r].pc = "find" /\ req'[r].left = roster.rows /\ UNCHANGED <<world, placement>>
    BY <1>6, GotoStep DEF ReadRoster, Start, TypeOK
  <2>2. ReadsFit(req'[r])
    BY <2>1 DEF ReadsFit, InImport, AllFit, PlacedOnArrival, LeftPlaced
  <2> QED BY <2>1, <2>2, SameFits
<1> QED BY <1>1, <1>2, <1>3, <1>4, <1>5, <1>6 DEF Request

(* The rows left of an import stay of those its roster has.                *)
LEMMA NextRowFits ==
  ASSUME TypeOK, AllFit, NEW r \in Requests, RowFails(r) \/ MatchRow(r) \/ WriteRow(r) \/ CreateRow(r),
         NEW named, NEW saved, req'[r] = NextRow(req[r], named, saved), env' = env
  PROVE  ReadsFit(req[r])'
<1> DEFINE q == req[r]
<1>1. q.pc \in InImport /\ Importing(q) /\ q.left # <<>>
  BY Held DEF RowFails, MatchRow, WriteRow, CreateRow, At, InImport, Importing
<1>2. Overlaps => LeftPlaced(q)
  BY <1>1 DEF AllFit, ReadsFit
<1>3. \A i \in DOMAIN Tail(q.left) : i + 1 \in DOMAIN q.left /\ Tail(q.left)[i] = q.left[i + 1]
  <2>1. q.left \in Seq(Entries) /\ q.left # <<>>
    BY <1>1 DEF Importing
  <2> HIDE DEF q
  <2> QED BY <2>1, HeadTailProperties
<1>4. req'[r].pc = "find" /\ req'[r].left = Tail(q.left)
  BY DEF NextRow
<1>5. Overlaps => \A i \in DOMAIN req'[r].left : req'[r].left[i].batch # None
  BY <1>2, <1>3, <1>4 DEF LeftPlaced
<1> QED BY <1>4, <1>5 DEF ReadsFit, LeftPlaced, Overlaps

LEMMA MatchRowFits ==
  ASSUME TypeOK, AllFit, NEW r \in Requests, MatchRow(r)
  PROVE  ReadsFit(req[r])'
<1> DEFINE q == req[r]
           y == [q EXCEPT !.pc = "createRow"]
<1>1. /\ DOMAIN q = ImportFields /\ q.pc = "find" /\ env' = env
      /\ UNCHANGED <<world, placement>> /\ (Overlaps => LeftPlaced(q))
  BY Held DEF MatchRow, At, world, AllFit, ReadsFit, InImport
<1>2. y.pc = "createRow" /\ y.left = q.left
  BY <1>1 DEF ImportFields
<1>3. CASE Goto(r, y)
  <2> HIDE DEF y
  <2>1. req'[r] = y
    BY <1>3, GotoStep DEF TypeOK
  <2>2. ReadsFit(req'[r])
    BY <1>1, <1>2, <2>1 DEF ReadsFit, LeftPlaced
  <2> QED BY <1>1, <2>2, SameFits
<1>4. CASE ~ Goto(r, y)
  <2> DEFINE x(s) == [pc |-> "dateRow", roster |-> q.roster, left |-> q.left,
                      onRoster |-> q.onRoster \cup {s}, ok |-> q.ok,
                      student |-> s, seen |-> student[s]]
  <2>1. PICK s \in Matches(q) : Goto(r, IF q.roster.overwrite THEN x(s) ELSE NextRow(q, {s}, FALSE))
    BY <1>4 DEF MatchRow
  <2>2. CASE q.roster.overwrite
    <3>1. req'[r].pc = "dateRow" /\ req'[r].left = q.left /\ req'[r].student = s /\ Present(s)
      BY <2>1, <2>2, GotoStep DEF TypeOK, Matches
    <3>2. ReadsFit(req'[r])
      BY <1>1, <3>1 DEF ReadsFit, LeftPlaced
    <3> QED BY <1>1, <3>2, SameFits
  <2>3. CASE ~ q.roster.overwrite
    <3>1. req'[r] = NextRow(q, {s}, FALSE)
      BY <2>1, <2>3, GotoStep DEF TypeOK
    <3> QED BY <1>1, <3>1, NextRowFits
  <2> QED BY <2>2, <2>3
<1> QED BY <1>3, <1>4

LEMMA ContinueFits ==
  ASSUME TypeOK, AllFit, NEW r \in Requests, Continue(r)
  PROVE  ReadsFit(req[r])'
<1>1. ASSUME At(r, "idle")' \/ At(r, "archiveAbsent")' PROVE ReadsFit(req[r])'
  BY <1>1 DEF ReadsFit, At, InImport
<1>2. CASE BulkWrite(r) /\ At(r, "bulkDate")'
  <2> DEFINE y == [req[r] EXCEPT !.pc = "bulkDate"]
  <2>1. y.seen = req[r].seen
    BY <1>2, Held DEF BulkWrite
  <2>2. req'[r] = y
    <3>1. Goto(r, y) \/ Goto(r, Idle)
      BY <1>2 DEF BulkWrite
    <3> HIDE DEF y
    <3> QED BY <1>2, <3>1, GotoStep DEF TypeOK, Idle, At
  <2>3. Overlaps => \A s \in DOMAIN req[r].seen : s \in Students /\ Present(s)
    <3>1. DOMAIN req[r].seen \subseteq Students
      BY <1>2, Held DEF BulkWrite
    <3> QED BY <1>2, <3>1 DEF BulkWrite, At, AllFit, ReadsFit
  <2>4. \A s \in Students : Present(s) => Present(s)'
    BY <1>2, HereKept DEF Here
  <2> HIDE DEF y
  <2>5. env' = env
    BY <1>2 DEF BulkWrite, world
  <2> QED BY <1>2, <2>1, <2>2, <2>3, <2>4, <2>5 DEF ReadsFit, At, InImport, Overlaps
<1>3. CASE RowFails(r) \/ WriteRow(r) \/ CreateRow(r)
  <2>1. (\E named, saved : Goto(r, NextRow(req[r], named, saved))) /\ env' = env
    BY <1>3 DEF RowFails, WriteRow, CreateRow, world
  <2>2. PICK named, saved : req'[r] = NextRow(req[r], named, saved)
    BY <2>1, GotoStep DEF TypeOK
  <2> QED BY <1>3, <2>1, <2>2, NextRowFits
<1>4. CASE ReadAbsent(r)
  BY <1>1, <1>4, Transitions
<1> QED BY <1>1, <1>2, <1>3, <1>4, DatedFits, MatchRowFits, Transitions DEF Continue

(* Who comes while requests overlap is placed.                             *)
LEMMA BornPlaced ==
  ASSUME TypeOK, AllFit, Overlaps, NEW r \in Requests, Steps(r), NEW s \in Students, Born(s)
  PROVE  student'[s].batch # None
<1>1. ~ Present(s) /\ Present(s)' /\ student'[s] # student[s]
  BY DEF Born, Present
<1>2. s \in Here' /\ s \notin Here
  BY <1>1 DEF Here
<1>3. CASE Request(r)
  <2>1. PICK t \in Students, c \in Campuses \cup {None}, b \in env.targets : Create(r, t, c, b)
    BY <1>1, <1>3 DEF Request, ReadForMove, ReadForTransfer, ReadForUpdate, BulkRead, ReadForRemove, ReadRoster,
       placement
  <2>2. s = t /\ student'[s].batch = b
    BY <1>1, <2>1 DEF Create, TypeOK
  <2> QED BY <2>1, <2>2 DEF AllFit, PlacedOnArrival, Create, MayStart
<1>4. CASE CreateRow(r)
  <2> DEFINE q == req[r]
             t == Head(q.left).owner
             b == Head(q.left).batch
  <2>1. Importing(q) /\ q.left # <<>> /\ q.pc = "createRow" /\ LeftPlaced(q)
    BY <1>4, Held DEF CreateRow, Importing, At, AllFit, ReadsFit, InImport
  <2>2. b # None
    BY <2>1, TailElements DEF LeftPlaced, Importing
  <2>3. t \in Students
    BY <2>1, EntryTyped DEF Entries
  <2>4. student' = [student EXCEPT ![t] =
                      [status |-> "ACTIVE", campus |-> q.roster.campus, batch |-> b, enrolled |-> today]]
    BY <1>1, <1>4 DEF CreateRow, placement
  <2> HIDE DEF t, b, q
  <2>5. s = t
    BY <1>1, <2>3, <2>4 DEF TypeOK
  <2> QED BY <2>2, <2>3, <2>4, <2>5 DEF TypeOK
<1>5. CASE Delete(r)
  <2>1. student' = [student EXCEPT ![req[r].student] = NoStudent]
    BY <1>5 DEF Delete
  <2> QED BY <1>1, <2>1 DEF TypeOK, Present, NoStudent
<1>6. CASE Continue(r) /\ ~ CreateRow(r) /\ ~ Delete(r)
  <2>1. \/ WritePlacement(r) \/ BulkWrite(r) \/ Archive(r) \/ WriteRow(r) \/ ArchiveAbsent(r)
        \/ UNCHANGED student
    BY <1>6 DEF Continue, DatePlacement, BulkDate, BulkRows, RowFails, MatchRow, DateRow, ReadAbsent, Crash, placement
  <2> QED BY <1>2, <2>1, HereKept
<1> QED BY <1>3, <1>4, <1>5, <1>6 DEF Steps

LEMMA GrownRows ==
  ASSUME NEW H, NEW rows \in Rows(H), NEW more \in Rows(H), rows # <<>>
  PROVE  rows \o more # <<>>
<1>1. Len(rows \o more) = Len(rows) + Len(more) /\ Len(rows) \in Nat /\ Len(more) \in Nat
  BY ConcatProperties, LenProperties DEF Rows
<1>2. Len(rows) # 0
  BY EmptySeq DEF Rows
<1> QED BY <1>1, <1>2

LEMMA PlacedHereStep ==
  ASSUME TypeOK, AllFit, NEW r \in Requests, Steps(r)
  PROVE  PlacedHere' /\ (Overlaps => \A s \in Students : Present(s) => Present(s)')
<1>1. env' = env
  BY BusyStep
<1> SUFFICES ASSUME Overlaps, NEW s \in Students
             PROVE  (Present(s)' => batchRows'[s] # <<>>) /\ (Present(s) => Present(s)')
  BY <1>1 DEF PlacedHere, Overlaps
<1>2. Affects(r, s) /\ (Present(s) => batchRows[s] # <<>>) /\ batchRows[s] \in Rows(Batches)
  BY StepAffects DEF AllFit, PlacedHere, TypeOK
<1>3. CASE Quiet(s)
  BY <1>2, <1>3 DEF Quiet, SameColumns, SameHistory
<1>4. CASE Born(s)
  BY <1>4, BornPlaced DEF Born, FirstRows
<1>5. CASE Gone(r, s)
  BY <1>5 DEF Gone, AllFit, ReadsFit, At
<1>6. CASE Wrote(r, s)
  <2>1. req[r].write.batchRow \in Rows(Batches)
    BY <1>6, WrittenHeld DEF Wrote, Writes
  <2> QED BY <1>2, <1>6, <2>1, GrownRows DEF Wrote
<1>7. CASE BulkWrote(r, s)
  BY <1>2, <1>7 DEF BulkWrote, SameHistory
<1>8. CASE Recorded(r, s)
  <2>1. batchRows'[s] = batchRows[s] \o <<Row(req[r].batch, req[r].days[s])>> /\ Present(s) /\ (Present(s)' <=> Present(s))
    BY <1>8 DEF Recorded, SameColumns
  <2>2. <<Row(req[r].batch, req[r].days[s])>> \in Rows(Batches)
    BY <1>8, RecordedRow
  <2> QED BY <1>2, <2>1, <2>2, GrownRows
<1> QED BY <1>2, <1>3, <1>4, <1>5, <1>6, <1>7, <1>8 DEF Affects

LEMMA OtherFits ==
  ASSUME TypeOK, AllFit, OneBusy, NEW r \in Requests, Steps(r), NEW q \in Requests, q # r
  PROVE  ReadsFit(req[q])'
<1>1. req'[q] = req[q] /\ env' = env /\ today' = today
  BY BusyStep
<1>2. CASE ~ Overlaps
  <2>1. req[q].pc = "idle"
    BY <1>2, OthersIdle DEF Overlaps, At
  <2> QED BY <1>1, <2>1 DEF ReadsFit, InImport
<1>3. CASE Overlaps
  <2>1. \A s \in Students : Present(s) => Present(s)'
    BY <1>3, PlacedHereStep
  <2>2. Overlaps'
    BY <1>1, <1>3 DEF Overlaps
  <2>3. ReadsFit(req[q]) /\ \A s, d : Fits(s, d) <=> d = today
    BY <1>3 DEF AllFit, Fits
  <2>4. /\ req[q].pc \in {"date", "dateRow"} => req[q].student \in Students
        /\ req[q].pc \in {"bulkWrite", "bulkDate"} => DOMAIN req[q].seen \subseteq Students
    BY Held DEF At
  <2>5. ASSUME req[q].pc \in {"write", "writeRow"} PROVE RowFits(req[q].student, req[q].write.batchRow)'
    <3>1. RowFits(req[q].student, req[q].write.batchRow)
      BY <2>3, <2>5 DEF ReadsFit
    <3>2. req[q].write.batchRow = <<>> \/ \E h : req[q].write.batchRow = <<Row(h, today)>>
      BY <2>3, <3>1 DEF RowFits
    <3> QED BY <1>1, <3>2 DEF RowFits, Fits
  <2>6. ASSUME req[q].pc = "bulkRows" PROVE \A s \in DOMAIN req[q].days : Fits(s, req[q].days[s])'
    <3>1. \A s \in DOMAIN req[q].days : Fits(s, req[q].days[s])
      BY <2>3, <2>6 DEF ReadsFit
    <3>2. \A s \in DOMAIN req[q].days : req[q].days[s] = today
      BY <2>3, <3>1
    <3> QED BY <1>1, <3>2 DEF Fits
  <2>7. req[q].pc \in {"date", "dateRow"} => Present(req[q].student)'
    <3>1. req[q].pc \in {"date", "dateRow"} => Present(req[q].student)
      BY <1>3, <2>3 DEF ReadsFit
    <3>2. req[q].pc \in {"date", "dateRow"} =>
             req[q].student \in Students /\ student'[req[q].student].status # "NONE"
      BY <2>1, <2>4, <3>1 DEF Present
    <3> QED BY <1>1, <3>2 DEF Present
  <2>8. req[q].pc \in {"bulkWrite", "bulkDate"} => \A s \in DOMAIN req[q].seen : Present(s)'
    BY <1>3, <2>1, <2>3, <2>4 DEF ReadsFit
  <2>9. req[q].pc # "delete" /\ (req[q].pc \in InImport => LeftPlaced(req[q]))
    BY <1>3, <2>3 DEF ReadsFit
  <2>10. req[q].pc \in InImport => LeftPlaced(req[q])'
    BY <1>1, <2>9 DEF LeftPlaced
  <2> HIDE DEF InImport
  <2> QED BY <1>1, <2>5, <2>6, <2>7, <2>8, <2>9, <2>10 DEF ReadsFit
<1> QED BY <1>2, <1>3

LEMMA AllFitNext ==
  ASSUME TypeOK, OneBusy, AllFit, [Next]_vars
  PROVE  AllFit'
<1>0. env' = env /\ (PlacedOnArrival => PlacedOnArrival')
  <2>1. env' = env
    BY BusyStep DEF Next, NextDay, DeleteBatch, Steps, vars
  <2> QED BY <2>1 DEF PlacedOnArrival, Overlaps
<1>1. ASSUME NEW r \in Requests, Steps(r) PROVE AllFit'
  <2>1. ReadsFit(req[r])'
    BY <1>1, RequestFits, ContinueFits DEF Steps
  <2>2. \A q \in Requests : q # r => ReadsFit(req[q])'
    BY <1>1, OtherFits
  <2>3. PlacedHere'
    BY <1>1, PlacedHereStep
  <2> QED BY <1>0, <2>1, <2>2, <2>3 DEF AllFit
<1>2. ASSUME NEW b \in Batches, DeleteBatch(b) PROVE AllFit'
  <2>1. /\ \A s \in Students : batchRows'[s] = <<>> <=> batchRows[s] = <<>>
        /\ \A s \in Students : Present(s)' <=> Present(s)
        /\ req' = req /\ today' = today
    <3>1. ASSUME NEW s \in Students PROVE batchRows'[s] = <<>> <=> batchRows[s] = <<>>
      <4>1. batchRows'[s] = Forgotten(batchRows[s], b) /\ batchRows[s] \in Rows(Batches) /\ b # None
        BY <1>2, DeleteBatchTyped, PlacementAssumption DEF TypeOK
      <4> QED BY <4>1, ForgottenEmpty
    <3>2. ASSUME NEW s \in Students PROVE Present(s)' <=> Present(s)
      <4>1. student'[s] = IF student[s].batch = b THEN [student[s] EXCEPT !.batch = None] ELSE student[s]
        BY <1>2 DEF DeleteBatch
      <4>2. student[s] \in StudentRows \cup {NoStudent}
        BY DEF TypeOK
      <4> QED BY <4>1, <4>2, SetBatch DEF Present
    <3> QED BY <1>2, <3>1, <3>2 DEF DeleteBatch
  <2>2. PlacedHere'
    BY <1>0, <2>1 DEF AllFit, PlacedHere, Overlaps
  <2>3. ASSUME NEW q \in Requests PROVE ReadsFit(req[q])'
    <3>1. ReadsFit(req[q]) /\ req'[q] = req[q]
      BY <2>1 DEF AllFit
    <3>2. /\ req[q].pc \in {"date", "dateRow", "write", "writeRow", "delete"} => req[q].student \in Students
          /\ req[q].pc \in {"bulkWrite", "bulkDate"} => DOMAIN req[q].seen \subseteq Students
          /\ req[q].pc = "bulkRows" => DOMAIN req[q].days \subseteq Students
      BY Held DEF At
    <3>3. \A s \in Students : \A d : Fits(s, d) => Fits(s, d)'
      BY <1>0, <2>1 DEF Fits, Overlaps
    <3>4. req[q].pc \in {"write", "writeRow"} => RowFits(req[q].student, req[q].write.batchRow)'
      <4> SUFFICES ASSUME req[q].pc \in {"write", "writeRow"}
                   PROVE  RowFits(req[q].student, req[q].write.batchRow)'
        OBVIOUS
      <4>1. RowFits(req[q].student, req[q].write.batchRow) /\ req[q].student \in Students
        BY <3>1, <3>2 DEF ReadsFit
      <4> QED BY <1>0, <2>1, <3>1, <4>1 DEF RowFits, Fits, Overlaps
    <3>5. req[q].pc = "bulkRows" => \A s \in DOMAIN req[q].days : Fits(s, req[q].days[s])'
      BY <1>0, <2>1, <3>1, <3>2 DEF ReadsFit, Fits, Overlaps
    <3> QED BY <1>0, <2>1, <3>1, <3>2, <3>4, <3>5 DEF ReadsFit, LeftPlaced, Overlaps
  <2> QED BY <1>0, <2>2, <2>3 DEF AllFit
<1>3. CASE NextDay
  <2>1. \A q \in Requests : ReadsFit(req[q])'
    BY <1>3 DEF NextDay, Alone, At, ReadsFit, InImport
  <2>2. PlacedHere'
    BY <1>0, <1>3 DEF AllFit, PlacedHere, Overlaps, NextDay, placement, Present
  <2> QED BY <1>0, <2>1, <2>2 DEF AllFit
<1>4. CASE UNCHANGED vars
  <2>1. \A q \in Requests : ReadsFit(req'[q])
    BY <1>4 DEF vars, AllFit
  <2>2. \A q \in Requests : ReadsFit(req[q])'
    BY <1>4, <2>1, SameFits DEF vars, world, placement
  <2>3. PlacedHere'
    BY <1>4 DEF vars, AllFit, PlacedHere, Overlaps, Present
  <2> QED BY <1>0, <2>2, <2>3 DEF AllFit
<1> QED BY <1>1, <1>2, <1>3, <1>4 DEF Next, Steps

LEMMA AllFitInit == Init /\ PlacedOnArrival => AllFit
<1> SUFFICES ASSUME Init, PlacedOnArrival PROVE AllFit
  OBVIOUS
<1>1. \A r \in Requests : ReadsFit(req[r])
  BY DEF Init, Idle, ReadsFit, InImport
<1>2. PlacedHere
  BY DEF Init, PlacedOnArrival, PlacedHere, Present, NoStudent
<1> QED BY <1>1, <1>2 DEF AllFit

(* What the histories say of each day.                                     *)
Answers(rows) == [d \in Days |-> ResolveOnDay(rows, d)]
Calendar == [s \in Students |-> Answers(batchRows[s])]

LEMMA DaysNat == Days \subseteq Nat /\ BatchCalendar!Days = Days
  BY PlacementAssumption DEF Days, BatchCalendar!Days

LEMMA AnswersTyped ==
  ASSUME TypeOK
  PROVE  Calendar \in [Students -> [Days -> Batches \cup {None}]]
<1>1. ASSUME NEW s \in Students PROVE Answers(batchRows[s]) \in [Days -> Batches \cup {None}]
  <2>1. \A d \in Days : d \in Nat /\ batchRows[s] \in Rows(Batches)
    BY DaysNat DEF TypeOK
  <2>2. \A d \in Days : ResolveOnDay(batchRows[s], d) \in Batches \cup {None}
    BY <2>1, AnswerTyped
  <2> QED BY <2>2 DEF Answers
<1> QED BY <1>1 DEF Calendar

(* A row recorded last answers from its day on, and leaves the days before. *)
LEMMA RowAnswers ==
  ASSUME TypeOK, NEW rows \in Rows(Batches), NEW h \in Batches \cup {None}, NEW d \in Days, SoFar(rows, d)
  PROVE  Answers(rows \o <<Row(h, d)>>) = [x \in Days |-> IF x >= d THEN h ELSE ResolveOnDay(rows, x)]
<1> DEFINE row == Row(h, d)
<1>1. row \in [to : Batches \cup {None}, day : Days] /\ row.to = h /\ row.day = d
  BY DEF Row
<1>2. d \in Nat /\ \A i \in DOMAIN rows : rows[i].day <= row.day
  BY <1>1, DaysNat DEF SoFar
<1> HIDE DEF row
<1>3. ASSUME NEW x \in Days
      PROVE  ResolveOnDay(rows \o <<row>>, x) = IF x >= d THEN h ELSE ResolveOnDay(rows, x)
  <2>1. x \in Nat
    BY DaysNat
  <2>2. CASE x >= d
    <3>1. row.day <= x
      BY <1>1, <1>2, <2>1, <2>2
    <3> QED BY <1>1, <1>2, <2>1, <2>2, <3>1, AddedAnswers
  <2>3. CASE ~ (x >= d)
    <3>1. x < row.day
      BY <1>1, <1>2, <2>1, <2>3
    <3> QED BY <1>1, <2>1, <2>3, <3>1, AddedLater
  <2> QED BY <2>2, <2>3
<1>4. Answers(rows \o <<row>>) = [x \in Days |-> IF x >= d THEN h ELSE ResolveOnDay(rows, x)]
  BY <1>3 DEF Answers
<1> QED BY <1>4 DEF row

(* The calendars a student may have after a placement.                     *)
Placements(c) == {c} \cup BatchCalendar!Moved(c) \cup BatchCalendar!FirstPlaced(c)

LEMMA RowPlaces ==
  ASSUME TypeOK, NEW rows \in Rows(Batches), SoFar(rows, today), NEW h \in Batches \cup {None}, NEW d \in Days,
         d <= today, d = today \/ rows = <<>>
  PROVE  Answers(rows \o <<Row(h, d)>>) \in Placements(Answers(rows))
<1> DEFINE c == Answers(rows)
           new == Answers(rows \o <<Row(h, d)>>)
<1>1. CASE d = today
  <2>1. new = [x \in Days |-> IF x >= today THEN h ELSE ResolveOnDay(rows, x)]
    BY <1>1, RowAnswers
  <2>2. \A x \in Days : c[x] = ResolveOnDay(rows, x)
    BY DEF Answers
  <2> HIDE DEF c, new
  <2>3. new = [x \in Days |-> IF x >= today THEN h ELSE c[x]]
    BY <2>1, <2>2
  <2>4. new \in BatchCalendar!Moved(c)
    BY <2>3, DaysNat DEF BatchCalendar!Moved
  <2> QED BY <2>4 DEF Placements, c, new
<1>2. CASE rows = <<>>
  <2>1. new = [x \in Days |-> IF x >= d THEN h ELSE ResolveOnDay(rows, x)]
    BY <1>2, EmptySoFar, RowAnswers
  <2>2. \A x \in Days : ResolveOnDay(rows, x) = None
    BY <1>2, EmptyAnswers
  <2>3. c = [x \in Days |-> None]
    BY <2>2 DEF Answers
  <2> HIDE DEF c, new
  <2>4. new = [x \in Days |-> IF x >= d THEN h ELSE None]
    BY <2>1, <2>2
  <2>5. CASE h = None
    <3>1. new = c
      BY <2>3, <2>4, <2>5
    <3> QED BY <3>1 DEF Placements, c, new
  <2>6. CASE h # None
    <3>1. c = BatchCalendar!Blank
      BY <2>3, DaysNat DEF BatchCalendar!Blank
    <3>2. d \in 1..today /\ h \in Batches
      BY <2>6 DEF Days, TypeOK
    <3>3. new \in BatchCalendar!FirstPlaced(c)
      BY <2>4, <3>1, <3>2, DaysNat DEF BatchCalendar!FirstPlaced
    <3> QED BY <3>3 DEF Placements, c, new
  <2> QED BY <2>5, <2>6
<1> QED BY <1>1, <1>2

LEMMA RowFields ==
  ASSUME NEW H, NEW h, NEW d, <<Row(h, d)>> \in Rows(H)
  PROVE  h \in H \cup {None} /\ d \in Days
<1> DEFINE one == <<Row(h, d)>>
<1>1. one[1] = Row(h, d) /\ 1 \in 1..Len(one)
  OBVIOUS
<1>2. one \in Seq([to : H \cup {None}, day : Days])
  BY DEF Rows
<1> HIDE DEF one
<1>3. one[1] \in [to : H \cup {None}, day : Days]
  BY <1>1, <1>2, ElementOfSeq
<1> QED BY <1>1, <1>3 DEF Row

LEMMA PlaceStep ==
  ASSUME TypeOK, DatesSound, AllFit, NEW r \in Requests, Steps(r), NEW s \in Students
  PROVE  Answers(batchRows'[s]) \in Placements(Answers(batchRows[s]))
<1>1. Affects(r, s) /\ batchRows[s] \in Rows(Batches) /\ WellPlaced(s)
  BY StepAffects DEF TypeOK, DatesSound
<1>2. SoFar(batchRows[s], today) /\ today \in Days /\ today <= today
  BY <1>1, PlacementAssumption DEF WellPlaced, TypeOK, Days
<1>3. ASSUME batchRows'[s] = batchRows[s] PROVE Answers(batchRows'[s]) \in Placements(Answers(batchRows[s]))
  BY <1>3 DEF Placements
<1>4. CASE Quiet(s) \/ BulkWrote(r, s)
  BY <1>3, <1>4 DEF Quiet, BulkWrote, SameHistory
<1>5. CASE Born(s)
  <2>1. batchRows[s] = <<>> /\ student'[s].batch \in Batches \cup {None}
    BY <1>1, <1>5 DEF Born, WellPlaced, TypeOK
  <2>2. CASE student'[s].batch = None
    BY <1>3, <1>5, <2>1, <2>2 DEF Born, FirstRows
  <2>3. CASE student'[s].batch # None
    <3> DEFINE h == student'[s].batch
               row == Row(h, today)
    <3>1. batchRows'[s] = <<row>>
      BY <1>5, <2>3 DEF Born, FirstRows
    <3>2. batchRows[s] \o <<row>> = <<row>>
      <4>1. <<row>> \in Seq({row})
        OBVIOUS
      <4> HIDE DEF row
      <4> QED BY <2>1, <4>1, ConcatEmptySeq
    <3> HIDE DEF h
    <3>3. Answers(batchRows[s] \o <<row>>) \in Placements(Answers(batchRows[s]))
      BY <1>1, <1>2, <2>1, RowPlaces DEF h
    <3> HIDE DEF row
    <3> QED BY <3>1, <3>2, <3>3
  <2> QED BY <2>2, <2>3
<1>6. CASE Gone(r, s)
  <2>1. batchRows[s] = <<>>
    BY <1>6 DEF Gone, AllFit, ReadsFit, At
  <2> QED BY <1>3, <1>6, <2>1 DEF Gone
<1>7. CASE Wrote(r, s)
  <2> DEFINE more == req[r].write.batchRow
  <2>1. batchRows'[s] = batchRows[s] \o more /\ more \in Rows(Batches) /\ SoFar(more, today)
    BY <1>7, WrittenHeld DEF Wrote, Writes, DatesSound, ReadSoFar, At
  <2>2. RowFits(s, more)
    BY <1>7 DEF Wrote, AllFit, ReadsFit, At
  <2> HIDE DEF more
  <2>3. CASE more = <<>>
    <3>1. batchRows[s] \o more = batchRows[s]
      BY <1>1, <2>3, ConcatEmptySeq DEF Rows
    <3> QED BY <1>3, <2>1, <3>1
  <2>4. ASSUME NEW h, NEW d, more = <<Row(h, d)>>, Fits(s, d)
        PROVE  Answers(batchRows'[s]) \in Placements(Answers(batchRows[s]))
    <3>1. h \in Batches \cup {None} /\ d \in Days
      BY <2>1, <2>4, RowFields
    <3>2. d <= today
      BY <2>1, <2>4 DEF SoFar, Row
    <3>3. d = today \/ batchRows[s] = <<>>
      BY <2>4 DEF Fits
    <3>4. Answers(batchRows[s] \o <<Row(h, d)>>) \in Placements(Answers(batchRows[s]))
      BY <1>1, <1>2, <3>1, <3>2, <3>3, RowPlaces
    <3> QED BY <2>1, <2>4, <3>4
  <2> QED BY <2>2, <2>3, <2>4 DEF RowFits
<1>8. CASE Recorded(r, s)
  <2> DEFINE h == req[r].batch
             d == req[r].days[s]
  <2>1. h \in Batches \cup {None} /\ d \in Days
    BY <1>8, WrittenHeld DEF Recorded
  <2>2. d <= today /\ Fits(s, d)
    BY <1>8 DEF Recorded, At, DatesSound, ReadSoFar, AllFit, ReadsFit
  <2>3. batchRows'[s] = batchRows[s] \o <<Row(h, d)>>
    BY <1>8 DEF Recorded
  <2> HIDE DEF h, d
  <2>4. Answers(batchRows[s] \o <<Row(h, d)>>) \in Placements(Answers(batchRows[s]))
    BY <1>1, <1>2, <2>1, <2>2, RowPlaces DEF Fits
  <2> QED BY <2>3, <2>4
<1> QED BY <1>1, <1>4, <1>5, <1>6, <1>7, <1>8 DEF Affects

LEMMA ForgetStep ==
  ASSUME TypeOK, NEW b \in Batches, DeleteBatch(b)
  PROVE  BatchCalendar!Forget(b)
<1>1. ASSUME NEW s \in Students
      PROVE  Answers(batchRows'[s]) = [d \in Days |-> IF ResolveOnDay(batchRows[s], d) = b THEN None
                                                      ELSE ResolveOnDay(batchRows[s], d)]
  <2> DEFINE rows == batchRows[s]
  <2>1. rows \in Rows(Batches) /\ batchRows'[s] = Forgotten(rows, b) /\ b # None
    BY DeleteBatchTyped, PlacementAssumption DEF TypeOK
  <2> HIDE DEF rows
  <2>2. \A d \in Days : ResolveOnDay(Forgotten(rows, b), d) =
           IF ResolveOnDay(rows, d) = b THEN None ELSE ResolveOnDay(rows, d)
    BY <2>1, ForgottenAnswers, DaysNat
  <2>3. Answers(Forgotten(rows, b)) = [d \in Days |-> IF ResolveOnDay(rows, d) = b THEN None ELSE ResolveOnDay(rows, d)]
    BY <2>2 DEF Answers
  <2> QED BY <2>1, <2>3 DEF rows
<1>2. today' = today
  BY DEF DeleteBatch
<1> QED BY <1>1, <1>2, DaysNat DEF BatchCalendar!Forget, Answers

LEMMA NextDayStep ==
  ASSUME TypeOK, NextDay
  PROVE  BatchCalendar!NextDay
  BY DEF NextDay, placement, BatchCalendar!NextDay

LEMMA CalendarStarts ==
  ASSUME Init, TypeOK, DatesSound
  PROVE  BatchCalendar!CalendarInit
<1>1. Calendar \in [Students -> [Days -> Batches \cup {None}]]
  BY AnswersTyped
<1>2. ASSUME NEW s \in Students, NEW d \in Days, d > today
      PROVE  ResolveOnDay(batchRows[s], d) = ResolveOnDay(batchRows[s], today)
  <2>1. d \in Nat /\ today \in Nat /\ today <= d
    BY <1>2, DaysNat DEF TypeOK
  <2>2. batchRows[s] \in Rows(Batches) /\ \A i \in DOMAIN batchRows[s] : batchRows[s][i].day <= today
    BY DEF TypeOK, DatesSound, WellPlaced, SoFar
  <2> QED BY <2>1, <2>2, LaterAnswers
<1>3. today \in Days
  BY DEF TypeOK
<1> QED BY <1>1, <1>2, <1>3, DaysNat DEF BatchCalendar!CalendarInit, Calendar, Answers

LEMMA CalendarMoves ==
  ASSUME TypeOK, TypeOK', DatesSound, AllFit, NEW r \in Requests, Steps(r)
  PROVE  BatchCalendar!Place
<1>1. today' = today
  BY BusyStep
<1>2. ASSUME NEW s \in Students PROVE Answers(batchRows'[s]) \in Placements(Answers(batchRows[s]))
  BY PlaceStep
<1>3. Calendar' \in [Students -> [Days -> Batches \cup {None}]]
  <2>1. ASSUME NEW s \in Students, NEW d \in Days PROVE ResolveOnDay(batchRows'[s], d) \in Batches \cup {None}
    <3>1. batchRows'[s] \in Rows(Batches) /\ d \in Nat
      BY DaysNat DEF TypeOK
    <3> QED BY <3>1, AnswerTyped
  <2> QED BY <2>1 DEF Calendar, Answers
<1> QED BY <1>1, <1>2, <1>3, DaysNat DEF BatchCalendar!Place, Calendar, Answers, Placements

LEMMA CalendarNext ==
  ASSUME TypeOK, TypeOK', DatesSound, AllFit, [Next]_vars
  PROVE  \/ BatchCalendar!Place \/ (\E b \in Batches : BatchCalendar!Forget(b)) \/ BatchCalendar!NextDay
         \/ UNCHANGED <<Calendar, today>>
<1>1. CASE UNCHANGED vars
  BY <1>1 DEF vars, Calendar, Answers
<1> QED BY <1>1, CalendarMoves, ForgetStep, NextDayStep DEF Next, Steps

(* The batch histories keep a calendar: a day that has passed keeps its     *)
(* answer, whatever the routes, the crashes and the deletions, as long as   *)
(* nobody is placed for the first time by requests that overlap.            *)
THEOREM CalendarImplemented == Spec /\ PlacedOnArrival => ImplementsCalendar
<1> DEFINE IInv == TypeOK /\ DatesSound /\ OneBusy /\ AllFit
<1>1. Init /\ PlacedOnArrival => IInv /\ BatchCalendar!CalendarInit
  BY InitTyped, DatesSoundInit, OneBusyInit, AllFitInit, CalendarStarts
<1>2. IInv /\ [Next]_vars => IInv'
  BY NextTyped, DatesSoundNext, OneBusyNext, AllFitNext
<1>3. IInv /\ IInv' /\ [Next]_vars =>
         [BatchCalendar!Place \/ (\E h \in Batches : BatchCalendar!Forget(h)) \/ BatchCalendar!NextDay]_
            <<[s \in Students |-> [d \in Days |-> ResolveOnDay(batchRows[s], d)]], today>>
  BY CalendarNext DEF Calendar, Answers
<1> HIDE DEF IInv
<1> QED BY <1>1, <1>2, <1>3, PTL DEF Spec, ImplementsCalendar, BatchCalendar!CalendarSpec
=============================================================================
