------------------------------ MODULE Placement ------------------------------
(***************************************************************************)
(* Where a student is, and was: the campus and batch columns of a student  *)
(* and the two placement histories, written by every route that places a   *)
(* student (StudentsService, BatchesService, CampusesService and           *)
(* StudentImportService), each as the queries it makes.  A history is the  *)
(* sequence of its rows in the order they were recorded.                   *)
(***************************************************************************)
EXTENDS Naturals, FiniteSets, SequencesExt

CONSTANTS
    Students,
    Campuses,
    Batches,
    CampusOf,       \* the campus each batch belongs to
    Requests,
    MaxRequests,    \* bound of the requests made
    LastDay,        \* bound of the days
    Environments    \* [may |-> the routes and faults, start |-> where students begin,
                    \*  targets |-> the batches requests name, rosters |-> the imports]

None == "none"
Column(homes) == {<<>>} \cup {<<x>> : x \in homes \cup {None}}    \* <<>>: left alone
Entries == [owner : Students, namesakes : SUBSET Students, batch : Batches \cup {None}]
Routes == {"create", "move", "transfer", "update", "bulk", "import", "remove", "deleteBatch"}
Faults == {"overlap", "crash", "flaky"}

ASSUME PlacementAssumption ==
    /\ CampusOf \in [Batches -> Campuses]
    /\ None \notin Campuses \cup Batches
    /\ MaxRequests \in Nat /\ LastDay \in Nat /\ LastDay >= 2
    /\ \A e \in Environments :
          /\ e.may \subseteq Routes \cup Faults
          /\ e.start \in [Students -> [campus : Campuses \cup {None}, batch : Batches \cup {None}]]
          /\ \A s \in Students : e.start[s].batch # None => e.start[s].campus # None
          /\ e.targets \subseteq Batches \cup {None}
          /\ e.rosters \subseteq [campus : Campuses, overwrite : BOOLEAN, archive : BOOLEAN, rows : Seq(Entries)]

VARIABLES
    today,
    student,        \* Student rows: status, campusId, batchId, the day of createdAt
    batchRows,      \* StudentBatchHistory
    campusRows,     \* StudentCampusHistory
    batches,        \* Batch rows
    req,            \* the requests under way, each with what it has read
    made,           \* requests made so far
    droppedBy,      \* the students named by the roster that archived each student
    env

vars == <<today, student, batchRows, campusRows, batches, req, made, droppedBy, env>>
placement == <<student, batchRows, campusRows>>
world == <<today, batches, env>>

Idle == [pc |-> "idle"]
NoStudent == [status |-> "NONE", campus |-> None, batch |-> None, enrolled |-> 0]
Row(to, day) == [to |-> to, day |-> day]

Present(s) == student[s].status # "NONE"
At(r, pc) == req[r].pc = pc
Goto(r, x) == req' = [req EXCEPT ![r] = x]
Alone == \A q \in Requests : At(q, "idle")

(* A student begins absent, at a campus with no batch yet, or placed.      *)
Init ==
    /\ env \in Environments
    /\ today = 2
    /\ student = [s \in Students |->
          IF env.start[s].campus = None THEN NoStudent
          ELSE [status |-> "ACTIVE", campus |-> env.start[s].campus, batch |-> env.start[s].batch, enrolled |-> 1]]
    /\ batchRows = [s \in Students |->
          IF env.start[s].batch = None THEN <<>> ELSE <<Row(env.start[s].batch, 1)>>]
    /\ campusRows = [s \in Students |->
          IF env.start[s].campus = None THEN <<>> ELSE <<Row(env.start[s].campus, 1)>>]
    /\ batches = Batches
    /\ req = [r \in Requests |-> Idle]
    /\ made = 0
    /\ droppedBy = [s \in Students |-> {}]

-----------------------------------------------------------------------------
(* resolveBatchOnDay and resolveCampusOnDay: the newest row effective by a *)
(* day, the one recorded last of those that share a day.                   *)
ResolveOnDay(rows, day) ==
    LET due == {i \in DOMAIN rows : rows[i].day <= day}
        newest == {i \in due : \A j \in due : rows[j].day <= rows[i].day}
    IN IF due = {} THEN None ELSE rows[Max(newest)].to

(* Broken variant: every placement is dated from enrolment. *)
EnrolmentDay(rows, enrolled) == enrolled

(* resolvePlacementEffectiveDate: a first placement since enrolment, a     *)
(* later one from today.                                                   *)
EffectiveDay(rows, enrolled) == IF rows = <<>> THEN enrolled ELSE today

-----------------------------------------------------------------------------
(* A write sets the columns that are given (<<>>: left alone) and appends  *)
(* the history rows, in one transaction.                                   *)
Given(column, old) == IF column = <<>> THEN old ELSE column[1]

(* Broken variant: the columns alone. *)
WriteColumns(s, w) ==
    /\ student' = [student EXCEPT ![s].campus = Given(w.campus, @), ![s].batch = Given(w.batch, @)]
    /\ UNCHANGED <<batchRows, campusRows>>

Write(s, w) ==
    /\ student' = [student EXCEPT ![s].campus = Given(w.campus, @), ![s].batch = Given(w.batch, @)]
    /\ campusRows' = [campusRows EXCEPT ![s] = @ \o w.campusRow]
    /\ batchRows' = [batchRows EXCEPT ![s] = @ \o w.batchRow]

Exists(column) == \A i \in DOMAIN column : column[i] \in batches \cup {None}

MayStart(r, route) ==
    /\ route \in env.may
    /\ At(r, "idle")
    /\ made < MaxRequests
    /\ "overlap" \in env.may \/ Alone

Start(r, x) == Goto(r, x) /\ made' = made + 1

(* The last step of a request: nothing is written for a student deleted    *)
(* meanwhile, or into a batch deleted meanwhile.                           *)
WritePlacement(r) ==
    /\ At(r, "write")
    /\ IF Present(req[r].student) /\ Exists(req[r].write.batch)
       THEN Write(req[r].student, req[r].write)
       ELSE UNCHANGED placement
    /\ Goto(r, Idle)
    /\ UNCHANGED <<world, made, droppedBy>>

-----------------------------------------------------------------------------
(* create: the student, their sync state and their first rows, as of today. *)
Create(r, s, c, b) ==
    /\ MayStart(r, "create")
    /\ ~ Present(s)
    /\ Exists(<<b>>)
    /\ student' = [student EXCEPT ![s] =
                      [status |-> "ACTIVE", campus |-> c, batch |-> b, enrolled |-> today]]
    /\ campusRows' = [campusRows EXCEPT ![s] = IF c = None THEN <<>> ELSE <<Row(c, today)>>]
    /\ batchRows' = [batchRows EXCEPT ![s] = IF b = None THEN <<>> ELSE <<Row(b, today)>>]
    /\ made' = made + 1
    /\ UNCHANGED <<world, req, droppedBy>>

(* moveStudent: the student and the target are read and checked, then the  *)
(* prior placements counted, then the column and its row written.          *)
ReadForMove(r, s, b) ==
    /\ MayStart(r, "move")
    /\ Present(s)
    /\ b \in batches
    /\ student[s].campus # None => CampusOf[b] = student[s].campus
    /\ b # student[s].batch
    /\ Start(r, [pc |-> "date", student |-> s, campus |-> <<>>, batch |-> <<b>>, seen |-> student[s]])
    /\ UNCHANGED <<world, placement, droppedBy>>

(* update: the row is read, then as a move, whatever campus and batch the  *)
(* request names; the batch is not checked against the campus.             *)
ReadForUpdate(r, s, campus, batch) ==
    /\ MayStart(r, "update")
    /\ Present(s)
    /\ Start(r, [pc |-> "date", student |-> s, campus |-> campus, batch |-> batch, seen |-> student[s]])
    /\ UNCHANGED <<world, placement, droppedBy>>

Changed(column, old) == column # <<>> /\ column[1] # old

DatePlacement(r) ==
    LET q == req[r] IN
    /\ At(r, "date")
    /\ Goto(r, [pc |-> "write", student |-> q.student,
                write |-> [campus |-> q.campus, batch |-> q.batch,
                           campusRow |-> IF Changed(q.campus, q.seen.campus)
                                         THEN <<Row(q.campus[1], today)>> ELSE <<>>,
                           batchRow |-> IF Changed(q.batch, q.seen.batch)
                                        THEN <<Row(q.batch[1], EffectiveDay(batchRows[q.student], q.seen.enrolled))>>
                                        ELSE <<>>]])
    /\ UNCHANGED <<world, placement, made, droppedBy>>

(* transferStudent: campus and batch together, each with a row when it     *)
(* differs from what was read; effective today.  Naming no batch leaves    *)
(* the student without one.                                                *)
ReadForTransfer(r, s, c, b) ==
    /\ MayStart(r, "transfer")
    /\ Present(s)
    /\ b # None => b \in batches /\ CampusOf[b] = c
    /\ ~ (student[s].campus = c /\ student[s].batch = b)
    /\ Start(r, [pc |-> "write", student |-> s,
                 write |-> [campus |-> <<c>>, batch |-> <<b>>,
                            campusRow |-> IF student[s].campus # c THEN <<Row(c, today)>> ELSE <<>>,
                            batchRow |-> IF student[s].batch # b THEN <<Row(b, today)>> ELSE <<>>]])
    /\ UNCHANGED <<world, placement, droppedBy>>

-----------------------------------------------------------------------------
(* bulkUpdate: the students are read, their columns written, the prior     *)
(* placements of those who moved looked up and the rows created, not in    *)
(* one transaction; each write fails when what it refers to was deleted.   *)
BulkRead(r, S, b) ==
    /\ MayStart(r, "bulk")
    /\ \A s \in S : Present(s)
    /\ b \in batches \cup {None}
    /\ Start(r, [pc |-> "bulkWrite", batch |-> b, seen |-> [s \in S |-> student[s]]])
    /\ UNCHANGED <<world, placement, droppedBy>>

BulkWrite(r) ==
    LET S == DOMAIN req[r].seen IN
    /\ At(r, "bulkWrite")
    /\ IF Exists(<<req[r].batch>>)
       THEN /\ student' = [s \in Students |->
                              IF s \in S /\ Present(s) THEN [student[s] EXCEPT !.batch = req[r].batch]
                              ELSE student[s]]
            /\ Goto(r, [req[r] EXCEPT !.pc = "bulkDate"])
       ELSE UNCHANGED student /\ Goto(r, Idle)
    /\ UNCHANGED <<world, batchRows, campusRows, made, droppedBy>>

Moved(q) == {s \in DOMAIN q.seen : q.seen[s].batch # q.batch}

BulkDate(r) ==
    LET q == req[r] IN
    /\ At(r, "bulkDate")
    /\ Goto(r, [pc |-> "bulkRows", batch |-> q.batch,
                days |-> [s \in Moved(q) |-> EffectiveDay(batchRows[s], q.seen[s].enrolled)]])
    /\ UNCHANGED <<world, placement, made, droppedBy>>

BulkRows(r) ==
    LET q == req[r] IN
    /\ At(r, "bulkRows")
    /\ batchRows' = [s \in Students |->
                        IF s \in DOMAIN q.days /\ Exists(<<q.batch>>) /\ \A t \in DOMAIN q.days : Present(t)
                        THEN Append(batchRows[s], Row(q.batch, q.days[s]))
                        ELSE batchRows[s]]
    /\ Goto(r, Idle)
    /\ UNCHANGED <<world, student, campusRows, made, droppedBy>>

-----------------------------------------------------------------------------
(* remove: hasHistory looks for what the student has done (done) and for   *)
(* batch placements; then the student is archived or deleted.              *)
ReadForRemove(r, s, done) ==
    /\ MayStart(r, "remove")
    /\ Present(s)
    /\ Start(r, [pc |-> IF done \/ batchRows[s] # <<>> THEN "archive" ELSE "delete", student |-> s])
    /\ UNCHANGED <<world, placement, droppedBy>>

Archive(r) ==
    /\ At(r, "archive")
    /\ student' = IF Present(req[r].student)
                  THEN [student EXCEPT ![req[r].student].status = "ARCHIVED"] ELSE student
    /\ Goto(r, Idle)
    /\ UNCHANGED <<world, batchRows, campusRows, made, droppedBy>>

Delete(r) ==
    LET s == req[r].student IN
    /\ At(r, "delete")
    /\ student' = [student EXCEPT ![s] = NoStudent]
    /\ batchRows' = [batchRows EXCEPT ![s] = <<>>]
    /\ campusRows' = [campusRows EXCEPT ![s] = <<>>]
    /\ Goto(r, Idle)
    /\ UNCHANGED <<world, made, droppedBy>>

(* deleteBatch: students and history rows that name the batch lose it.     *)
DeleteBatch(b) ==
    /\ "deleteBatch" \in env.may
    /\ b \in batches
    /\ batches' = batches \ {b}
    /\ student' = [s \in Students |->
                      IF student[s].batch = b THEN [student[s] EXCEPT !.batch = None] ELSE student[s]]
    /\ batchRows' = [s \in Students |->
                        [i \in DOMAIN batchRows[s] |->
                            IF batchRows[s][i].to = b THEN Row(None, batchRows[s][i].day) ELSE batchRows[s][i]]]
    /\ UNCHANGED <<today, campusRows, req, made, droppedBy, env>>

-----------------------------------------------------------------------------
(* importRows: the rows of a roster one by one, each with its own error,   *)
(* then, if asked and no row failed, the active students of the campus the *)
(* roster did not name are archived.  A row belongs to the holder of its   *)
(* address or handle; namesakes are others with its name at the campus     *)
(* (a student the row would take over, were its owner absent, is left out).*)
ReadRoster(r, roster) ==
    /\ MayStart(r, "import")
    /\ Start(r, [pc |-> "find", roster |-> roster, left |-> roster.rows, onRoster |-> {}, ok |-> TRUE])
    /\ UNCHANGED <<world, placement, droppedBy>>

NextRow(q, named, saved) ==
    [pc |-> "find", roster |-> q.roster, left |-> Tail(q.left),
     onRoster |-> q.onRoster \cup named, ok |-> q.ok /\ saved]

(* findExisting: one OR of the identities, so any student it matches.      *)
Matches(q) ==
    LET row == Head(q.left)
    IN {s \in Students :
          /\ Present(s)
          /\ s = row.owner \/ (s \in row.namesakes /\ student[s].campus = q.roster.campus)}

(* Broken variant: a row that could not be looked up is no error. *)
RowLost(r) ==
    /\ "flaky" \in env.may
    /\ At(r, "find") /\ req[r].left # <<>>
    /\ Goto(r, NextRow(req[r], {}, TRUE))
    /\ UNCHANGED <<world, placement, made, droppedBy>>

RowFails(r) ==
    /\ "flaky" \in env.may
    /\ At(r, "find") /\ req[r].left # <<>>
    /\ Goto(r, NextRow(req[r], {}, FALSE))
    /\ UNCHANGED <<world, placement, made, droppedBy>>

MatchRow(r) ==
    LET q == req[r] IN
    /\ At(r, "find") /\ q.left # <<>>
    /\ \/ /\ Matches(q) = {}
          /\ Goto(r, [q EXCEPT !.pc = "createRow"])
       \/ \E s \in Matches(q) :
             Goto(r, IF q.roster.overwrite
                     THEN [pc |-> "dateRow", roster |-> q.roster, left |-> q.left,
                           onRoster |-> q.onRoster \cup {s}, ok |-> q.ok,
                           student |-> s, seen |-> student[s]]
                     ELSE NextRow(q, {s}, FALSE))
    /\ UNCHANGED <<world, placement, made, droppedBy>>

(* placementWrites: a changed campus or batch leaves a row; a blank batch  *)
(* says nothing.                                                           *)
DateRow(r) ==
    LET q == req[r]
        s == q.student
        c == q.roster.campus
        b == Head(q.left).batch
    IN /\ At(r, "dateRow")
       /\ Goto(r, [pc |-> "writeRow", roster |-> q.roster, left |-> q.left, onRoster |-> q.onRoster, ok |-> q.ok,
                   student |-> s, seen |-> q.seen, write |->
              [campus |-> <<c>>, batch |-> IF b = None THEN <<>> ELSE <<b>>,
               campusRow |-> IF q.seen.campus # c
                             THEN <<Row(c, EffectiveDay(campusRows[s], q.seen.enrolled))>> ELSE <<>>,
               batchRow |-> IF b # None /\ q.seen.batch # b
                            THEN <<Row(b, EffectiveDay(batchRows[s], q.seen.enrolled))>> ELSE <<>>]])
       /\ UNCHANGED <<world, placement, made, droppedBy>>

(* The update writes the address or handle of the row too: it fails when   *)
(* somebody else holds it.                                                 *)
WriteRow(r) ==
    LET q == req[r]
        s == q.student
        owner == Head(q.left).owner
        taken == s # owner /\ Present(owner)
    IN /\ At(r, "writeRow")
       /\ IF Present(s) /\ ~ taken /\ Exists(q.write.batch)
          THEN /\ student' = [student EXCEPT
                      ![s].campus = q.roster.campus,
                      ![s].batch = Given(q.write.batch, @),
                      ![s].status = IF q.seen.status = "ARCHIVED" THEN "ACTIVE" ELSE @]
               /\ campusRows' = [campusRows EXCEPT ![s] = @ \o q.write.campusRow]
               /\ batchRows' = [batchRows EXCEPT ![s] = @ \o q.write.batchRow]
               /\ Goto(r, NextRow(q, {}, TRUE))
          ELSE UNCHANGED placement /\ Goto(r, NextRow(q, {}, FALSE))
       /\ UNCHANGED <<world, made, droppedBy>>

CreateRow(r) ==
    LET q == req[r]
        s == Head(q.left).owner
        b == Head(q.left).batch
    IN /\ At(r, "createRow")
       /\ IF ~ Present(s) /\ Exists(<<b>>)
          THEN /\ student' = [student EXCEPT ![s] =
                      [status |-> "ACTIVE", campus |-> q.roster.campus, batch |-> b, enrolled |-> today]]
               /\ campusRows' = [campusRows EXCEPT ![s] = <<Row(q.roster.campus, today)>>]
               /\ batchRows' = [batchRows EXCEPT ![s] = IF b = None THEN <<>> ELSE <<Row(b, today)>>]
               /\ Goto(r, NextRow(q, {s}, TRUE))
          ELSE UNCHANGED placement /\ Goto(r, NextRow(q, {}, FALSE))
       /\ UNCHANGED <<world, made, droppedBy>>

AbsentFromRoster(q) ==
    {s \in Students : student[s].status = "ACTIVE" /\ student[s].campus = q.roster.campus /\ s \notin q.onRoster}

ReadAbsent(r) ==
    /\ At(r, "find") /\ req[r].left = <<>>
    /\ Goto(r, IF req[r].roster.archive /\ req[r].ok
               THEN [pc |-> "archiveAbsent", absent |-> AbsentFromRoster(req[r]),
                     named |-> {req[r].roster.rows[i].owner : i \in DOMAIN req[r].roster.rows}]
               ELSE Idle)
    /\ UNCHANGED <<world, placement, made, droppedBy>>

ArchiveAbsent(r) ==
    LET absent == {s \in req[r].absent : Present(s)} IN
    /\ At(r, "archiveAbsent")
    /\ student' = [s \in Students |-> IF s \in absent THEN [student[s] EXCEPT !.status = "ARCHIVED"] ELSE student[s]]
    /\ droppedBy' = [s \in Students |-> IF s \in absent THEN req[r].named ELSE droppedBy[s]]
    /\ Goto(r, Idle)
    /\ UNCHANGED <<world, batchRows, campusRows, made>>

-----------------------------------------------------------------------------
(* The process stops between two queries of a request. *)
Crash(r) ==
    /\ "crash" \in env.may
    /\ ~ At(r, "idle")
    /\ Goto(r, Idle)
    /\ UNCHANGED <<world, placement, made, droppedBy>>

(* Midnight falls between requests, never inside one. *)
NextDay ==
    /\ Alone
    /\ today < LastDay
    /\ today' = today + 1
    /\ UNCHANGED <<placement, batches, req, made, droppedBy, env>>

Request(r) ==
    \/ \E s \in Students : \E c \in Campuses \cup {None}, b \in env.targets : Create(r, s, c, b)
    \/ \E s \in Students, b \in Batches : ReadForMove(r, s, b)
    \/ \E s \in Students, c \in Campuses, b \in env.targets : ReadForTransfer(r, s, c, b)
    \/ \E s \in Students :
          \E c \in {<<>>} \cup {<<x>> : x \in Campuses}, b \in {<<>>} \cup {<<x>> : x \in env.targets} :
             ReadForUpdate(r, s, c, b)
    \/ \E S \in SUBSET Students, b \in env.targets : S # {} /\ BulkRead(r, S, b)
    \/ \E s \in Students, done \in BOOLEAN : ReadForRemove(r, s, done)
    \/ \E roster \in env.rosters : ReadRoster(r, roster)

Continue(r) ==
    \/ DatePlacement(r) \/ WritePlacement(r) \/ BulkWrite(r) \/ BulkDate(r) \/ BulkRows(r) \/ Archive(r) \/ Delete(r)
    \/ RowFails(r) \/ MatchRow(r) \/ DateRow(r) \/ WriteRow(r) \/ CreateRow(r)
    \/ ReadAbsent(r) \/ ArchiveAbsent(r) \/ Crash(r)

Next == NextDay \/ (\E b \in Batches : DeleteBatch(b)) \/ \E r \in Requests : Request(r) \/ Continue(r)

Spec == Init /\ [][Next]_vars

-----------------------------------------------------------------------------
Days == 1..LastDay
Rows(homes) == Seq([to : homes \cup {None}, day : Days])
StudentRows == [status : {"ACTIVE", "ARCHIVED"}, campus : Campuses \cup {None},
                batch : Batches \cup {None}, enrolled : Days]
Writes == [campus : Column(Campuses), batch : Column(Batches),
           campusRow : Rows(Campuses), batchRow : Rows(Batches)]
Importing(q) ==
    /\ q.roster \in env.rosters /\ q.left \in Seq(Entries)
    /\ q.onRoster \subseteq Students /\ q.ok \in BOOLEAN
    /\ q.pc # "find" => q.left # <<>>
ImportFields == {"pc", "roster", "left", "onRoster", "ok"}

(* What a request has read, by where it stands.                            *)
RequestOK(q) ==
    \/ q = Idle
    \/ q \in [pc : {"date"}, student : Students, campus : Column(Campuses), batch : Column(Batches),
              seen : StudentRows]
    \/ q \in [pc : {"write"}, student : Students, write : Writes]
    \/ \E S \in SUBSET Students :
          \/ q \in [pc : {"bulkWrite", "bulkDate"}, batch : Batches \cup {None}, seen : [S -> StudentRows]]
          \/ q \in [pc : {"bulkRows"}, batch : Batches \cup {None}, days : [S -> Days]]
    \/ q \in [pc : {"archive", "delete"}, student : Students]
    \/ q.pc \in {"find", "createRow"} /\ DOMAIN q = ImportFields /\ Importing(q)
    \/ q.pc = "dateRow" /\ DOMAIN q = ImportFields \cup {"student", "seen"} /\ Importing(q)
       /\ q.student \in Students /\ q.seen \in StudentRows
    \/ q.pc = "writeRow" /\ DOMAIN q = ImportFields \cup {"student", "seen", "write"} /\ Importing(q)
       /\ q.student \in Students /\ q.seen \in StudentRows /\ q.write \in Writes
    \/ q \in [pc : {"archiveAbsent"}, absent : SUBSET Students, named : SUBSET Students]

TypeOK ==
    /\ env \in Environments /\ today \in Days /\ batches \subseteq Batches /\ made \in 0..MaxRequests
    /\ student \in [Students -> StudentRows \cup {NoStudent}]
    /\ batchRows \in [Students -> Rows(Batches)] /\ campusRows \in [Students -> Rows(Campuses)]
    /\ DOMAIN req = Requests /\ \A r \in Requests : RequestOK(req[r])
    /\ droppedBy \in [Students -> SUBSET Students]

(* Which batch a student was in on a day that has passed never becomes     *)
(* another one, whatever routes place the student: only a first placement  *)
(* answers for the days since they enrolled, and only a deleted batch is   *)
(* forgotten.  The batch histories implement PlacementCalendar.  (First    *)
(* placements that overlap do not: each is dated from enrolment, and the   *)
(* later one rewrites the days since.)                                     *)
BatchCalendar == INSTANCE PlacementCalendar WITH
    Homes <- Batches,
    calendar <- [s \in Students |-> [d \in Days |-> ResolveOnDay(batchRows[s], d)]]
ImplementsCalendar == BatchCalendar!CalendarSpec

(* The columns say what the histories say of today, so current and         *)
(* historical reads of today agree, when requests come one by one: but for *)
(* a bulk update, which is not atomic, even if the process stops or        *)
(* batches are deleted between their queries.  Of requests that overlap    *)
(* only moves keep it, of students placed before: another route leaves no  *)
(* row when it finds the batch it wants, even if a move changes that next. *)
InBulk(s) == \E r \in Requests :
    \/ At(r, "bulkDate") /\ s \in Moved(req[r])
    \/ At(r, "bulkRows") /\ s \in DOMAIN req[r].days
OneByOne == "overlap" \notin env.may /\ ("bulk" \in env.may => env.may \cap {"crash", "deleteBatch"} = {})
OnlyMoves == env.may \subseteq {"overlap", "create", "move", "remove", "deleteBatch", "crash"}
HistoryMatchesColumn ==
    \A s \in Students :
      Present(s) /\ ~ InBulk(s) =>
        /\ OneByOne \/ (OnlyMoves /\ env.start[s].batch # None) =>
              ResolveOnDay(batchRows[s], today) = student[s].batch
        /\ OneByOne => ResolveOnDay(campusRows[s], today) = student[s].campus

(* A student whom a roster names is never archived by that import, whether *)
(* or not their row could be looked up, matched or saved.                  *)
NamedNotArchived == \A s \in Students : s \notin droppedBy[s]

(* The schema: "Rows are append-only"; while a student exists their batch  *)
(* history only grows.                                                     *)
HistoryAppendOnly ==
    [][\A s \in Students : Present(s)' => IsPrefix(batchRows[s], batchRows'[s])]_vars

(* CampusesService: a student at one campus in a batch of another "is not  *)
(* a state that can exist".                                                *)
BatchAtCampus ==
    \A s \in Students : student[s].campus # None /\ student[s].batch # None =>
        CampusOf[student[s].batch] = student[s].campus
=============================================================================
