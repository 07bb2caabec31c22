---------------------------- MODULE AcademyProofs ----------------------------
(***************************************************************************)
(* What the proofs about the whole API rest on: which steps a request of   *)
(* each component goes through, that the components' steps are apart, and  *)
(* hence what a step of the whole does to one component's tables: a step   *)
(* of that component, something outside, or nothing at all, with no        *)
(* request entering that component's steps.                                *)
(*                                                                         *)
(* One lemma per component (SubmitsMove ... CalendarMove) has one step per *)
(* action of it; one lemma per group of tables (GradesElse ...             *)
(* DecisionsElse) puts them together.                                      *)
(*                                                                         *)
(* Two further parts serve the promises KeepsX. What a request has read is *)
(* still so unless another one has committed, and then it is crossed:      *)
(* NextUndisturbed. And a request of one part of the API takes no step of  *)
(* another: PartsDiffer, OthersUnentered, LossUnentered.                   *)
(*                                                                         *)
(* Another serves TypeOK: every slot is at a step of one part (Staged),    *)
(* and holds a request of that part's kind if every action of the part     *)
(* puts such a one there (Typed, Becomes, TypedElse).                      *)
(*                                                                         *)
(* The sections after these prove the seven properties that requests keep  *)
(* whatever overlaps with them, the promises about decisions and about the *)
(* institution, and what the tables and slots of these registers hold.     *)
(***************************************************************************)
EXTENDS Academy, Sums

\* Every slot holds a record with a step.
Steppable ==
    /\ handler = [h \in Handler |-> handler[h]]
    /\ \A h \in Handler : "step" \in DOMAIN handler[h]

\* Only slot h has moved, to one of the steps S or out of the API.
Moves(h, S) ==
    /\ \A g \in Handler \ {h} : handler'[g] = handler[g]
    /\ handler' = [g \in Handler |-> handler'[g]]
    /\ "step" \in DOMAIN handler'[h]
    /\ handler'[h] = Idle \/ handler'[h].step \in S

\* A read by slot h moves h, and h only, to the step of what it holds next.
LEMMA ReadsMoves ==
    ASSUME Steppable, NEW h \in Handler, NEW S, NEW m, "step" \in DOMAIN m, m.step \in S,
           Reads(h, m)
    PROVE  Moves(h, S)
BY DEF Steppable, Reads, Moves

\* So does a commit.
LEMMA CommitsMoves ==
    ASSUME Steppable, NEW h \in Handler, NEW S, NEW m, "step" \in DOMAIN m, m.step \in S,
           Commits(h, m)
    PROVE  Moves(h, S)
BY DEF Steppable, Commits, Moves

\* A request that is done moves its slot out of the API.
LEMMA IdleMoves ==
    ASSUME Steppable, NEW h \in Handler, NEW S,
           Finish(h) \/ Commit(h) \/ Reads(h, Idle) \/ Commits(h, Idle)
    PROVE  Moves(h, S)
BY DEF Steppable, Reads, Commits, Finish, Commit, Idle, Moves

\* A request that goes on keeps what it holds.
LEMMA GotoMoves ==
    ASSUME Steppable, NEW h \in Handler, NEW S, NEW s \in S, Goto(h, s)
    PROVE  Moves(h, S)
BY DEF Steppable, Reads, Goto, Moves

\* A request whose next step is set in what it holds moves there.
LEMMA StepMoves ==
    ASSUME Steppable, NEW h \in Handler, NEW S, NEW s \in S, NEW q, "step" \in DOMAIN q,
           Reads(h, [q EXCEPT !.step = s]) \/ Commits(h, [q EXCEPT !.step = s])
    PROVE  Moves(h, S)
BY DEF Steppable, Reads, Commits, Moves

SubmitsSteps == {"latest", "limit", "draft", "files", "number", "create", "update"}

\* An action of HandleSubmit (Submissions.tla) moves its request to one of these steps or ends it.
LEMMA SubmitsMove ==
    ASSUME Steppable, NEW h \in Handler, HandleSubmit(h)
    PROVE  Moves(h, SubmitsSteps)
<1>1. CASE BeginSubmit(h)
  BY <1>1, ReadsMoves DEF BeginSubmit, SubmitsSteps, Receive
<1>2. CASE FindLatest(h)
  BY <1>2, GotoMoves DEF FindLatest, SubmitsSteps
<1>3. CASE CheckLimit(h)
  BY <1>3, GotoMoves, IdleMoves DEF CheckLimit, SubmitsSteps
<1>4. CASE BeginDraft(h)
  BY <1>4, ReadsMoves DEF BeginDraft, SubmitsSteps, Receive
<1>5. CASE FindDraft(h)
  <2> DEFINE no    == Latest(Drafts(handler[h].p))
             found == [handler[h] EXCEPT !.no = no,
                                !.text = Carried(handler[h], <<handler[h].p, no>>)]
  <2>1. "step" \in DOMAIN found
    BY DEF Steppable
  <2>2. CASE handler[h].status = "SUBMITTED" /\ handler[h].text = NoText
    <3>1. CASE no = 0
      BY <1>5, <2>2, <3>1, GotoMoves, IdleMoves DEF FindDraft, SubmitsSteps
    <3>2. CASE no # 0
      BY <1>5, <2>1, <3>2, StepMoves, GotoMoves DEF FindDraft, SubmitsSteps
    <3> QED
      BY <3>1, <3>2
  <2>3. CASE ~(handler[h].status = "SUBMITTED" /\ handler[h].text = NoText)
    BY <1>5, <2>1, <2>3, StepMoves, GotoMoves DEF FindDraft, SubmitsSteps
  <2> QED
    BY <2>2, <2>3
<1>6. CASE CountFiles(h)
  BY <1>6, GotoMoves, IdleMoves DEF CountFiles, SubmitsSteps
<1>7. CASE ReadNumber(h)
  <2> DEFINE m == [handler[h] EXCEPT !.no = Latest(Numbers(handler[h].p)) + 1, !.step = "create"]
  <2>1. "step" \in DOMAIN m /\ m.step = "create"
    BY DEF Steppable
  <2>2. Reads(h, m)
    BY <1>7 DEF ReadNumber
  <2> QED
    BY <2>1, <2>2, ReadsMoves DEF SubmitsSteps
<1>8. CASE CreateSubmission(h)
  BY <1>8, IdleMoves DEF CreateSubmission, SubmitsSteps
<1>9. CASE UpdateSubmission(h)
  BY <1>9, IdleMoves DEF UpdateSubmission, SubmitsSteps
<1>10. CASE BeginEdit(h)
  BY <1>10, ReadsMoves DEF BeginEdit, SubmitsSteps, Receive
<1> QED
  BY <1>1, <1>2, <1>3, <1>4, <1>5, <1>6, <1>7, <1>8, <1>9, <1>10 DEF HandleSubmit

LinksSteps == {"file", "linked", "free", "attach", "detach"}

\* An action of HandleLink (Submissions.tla) moves its request to one of these steps or ends it.
LEMMA LinksMove ==
    ASSUME Steppable, NEW h \in Handler, HandleLink(h)
    PROVE  Moves(h, LinksSteps)
<1>1. CASE BeginFiles(h)
  BY <1>1, ReadsMoves DEF BeginFiles, LinksSteps, Receive
<1>2. CASE ReadFile(h)
  BY <1>2, GotoMoves, IdleMoves DEF ReadFile, LinksSteps
<1>3. CASE FindLink(h)
  BY <1>3, GotoMoves, IdleMoves DEF FindLink, LinksSteps
<1>4. CASE Attach(h)
  BY <1>4, IdleMoves DEF Attach, LinksSteps
<1>5. CASE Detach(h)
  BY <1>5, IdleMoves DEF Detach, LinksSteps
<1> QED
  BY <1>1, <1>2, <1>3, <1>4, <1>5 DEF HandleLink

AssessSteps == {"ceiling", "grade", "mark"}

\* An action of HandleAssess (Submissions.tla) moves its request to one of these steps or ends it.
LEMMA AssessMove ==
    ASSUME Steppable, NEW h \in Handler, HandleAssess(h)
    PROVE  Moves(h, AssessSteps)
<1>1. CASE BeginGrade(h)
  BY <1>1, ReadsMoves DEF BeginGrade, AssessSteps, Receive
<1>2. CASE ReadCeiling(h)
  BY <1>2, GotoMoves, IdleMoves DEF ReadCeiling, AssessSteps
<1>3. CASE UpsertGrade(h)
  BY <1>3, StepMoves, IdleMoves, CommitsMoves DEF UpsertGrade, AssessSteps, Steppable
<1>4. CASE Mark(h)
  <2> DEFINE m == [handler[h] EXCEPT !.status = NextStatus(handler[h].status, handler[h].back)]
  <2>1. "step" \in DOMAIN m /\ m.step = handler[h].step
    BY DEF Steppable
  <2>2. At(h, "mark") /\ (Commit(h) \/ Commits(h, m))
    BY <1>4 DEF Mark
  <2> QED
    BY <2>1, <2>2, IdleMoves, CommitsMoves DEF At, AssessSteps
<1>5. CASE BeginReturn(h)
  BY <1>5, ReadsMoves DEF BeginReturn, AssessSteps, Receive
<1> QED
  BY <1>1, <1>2, <1>3, <1>4, <1>5 DEF HandleAssess

AssignmentsSteps == {"status", "list", "grades", "count", "write"}

\* The grades that are left decide where an update of the assignment goes on.
LEMMA LookAtMoves ==
    ASSUME Steppable, NEW h \in Handler, NEW S, LookAt(h, S)
    PROVE  Moves(h, AssignmentsSteps)
<1> DEFINE q == [handler[h] EXCEPT !.left = S]
<1>1. "step" \in DOMAIN q
  BY DEF Steppable
<1>2. PICK s \in {"grades", "count", "write"} : Reads(h, [q EXCEPT !.step = s])
  BY DEF LookAt
<1> QED
  BY <1>1, <1>2, StepMoves DEF AssignmentsSteps

\* An action of HandleAssignment (Submissions.tla) moves its request to one of these steps or ends it.
LEMMA AssignmentsMove ==
    ASSUME Steppable, NEW h \in Handler, HandleAssignment(h)
    PROVE  Moves(h, AssignmentsSteps)
<1>1. CASE BeginStatus(h)
  BY <1>1, ReadsMoves DEF BeginStatus, AssignmentsSteps, Receive
<1>2. CASE WriteStatus(h)
  BY <1>2, IdleMoves DEF WriteStatus, AssignmentsSteps
<1>3. CASE BeginUpdate(h)
  BY <1>3, ReadsMoves DEF BeginUpdate, AssignmentsSteps, Receive
<1>4. CASE ListForCeiling(h)
  BY <1>4, LookAtMoves DEF ListForCeiling
<1>5. CASE CheckGrade(h)
  BY <1>5, LookAtMoves, IdleMoves DEF CheckGrade
<1>6. CASE CountRecorded(h)
  BY <1>6, GotoMoves, IdleMoves DEF CountRecorded, AssignmentsSteps
<1>7. CASE WriteUpdate(h)
  BY <1>7, IdleMoves DEF WriteUpdate, AssignmentsSteps
<1> QED
  BY <1>1, <1>2, <1>3, <1>4, <1>5, <1>6, <1>7 DEF HandleAssignment

FilesSteps == {"head", "confirm", "file status"}

\* An action of HandleFile (StoredFiles.tla) moves its request to one of these steps or ends it.
LEMMA FilesMove ==
    ASSUME Steppable, NEW h \in Handler, HandleFile(h)
    PROVE  Moves(h, FilesSteps)
<1>1. CASE BeginComplete(h)
  BY <1>1, ReadsMoves DEF BeginComplete, FilesSteps, Receive
<1>2. CASE HeadObject(h)
  BY <1>2, GotoMoves, IdleMoves DEF HeadObject, FilesSteps
<1>3. CASE Confirm(h)
  BY <1>3, IdleMoves DEF Confirm, FilesSteps
<1>4. CASE BeginMove(h)
  BY <1>4, ReadsMoves DEF BeginMove, FilesSteps, Receive
<1>5. CASE MoveFile(h)
  BY <1>5, IdleMoves DEF MoveFile, FilesSteps
<1> QED
  BY <1>1, <1>2, <1>3, <1>4, <1>5 DEF HandleFile

MarksSteps == {"mark answers", "rescore"}

\* An action of HandleMark (Grading.tla) moves its request to one of these steps or ends it.
LEMMA MarksMove ==
    ASSUME Steppable, NEW h \in Handler, HandleMark(h)
    PROVE  Moves(h, MarksSteps)
<1>1. CASE BeginAutoGrade(h)
  BY <1>1, ReadsMoves DEF BeginAutoGrade, MarksSteps, Receive, Marking
<1>2. CASE BeginManualGrade(h)
  BY <1>2, ReadsMoves DEF BeginManualGrade, MarksSteps, Receive, Marking
<1>3. CASE UpsertMark(h)
  <2>1. PICK q \in handler[h].todo :
          Reads(h, [handler[h] EXCEPT !.todo = @ \ {q},
                        !.own[q] = Upserted(handler[h], q, mark[handler[h].p][q])])
    BY <1>3 DEF UpsertMark
  <2> DEFINE m == [handler[h] EXCEPT !.todo = @ \ {q},
                        !.own[q] = Upserted(handler[h], q, mark[handler[h].p][q])]
  <2>2. "step" \in DOMAIN m /\ m.step = handler[h].step
    BY DEF Steppable
  <2>3. handler[h].step = "mark answers"
    BY <1>3 DEF UpsertMark, At
  <2> QED
    BY <2>1, <2>2, <2>3, ReadsMoves DEF MarksSteps
<1>4. CASE SumMarks(h)
  BY <1>4, ReadsMoves, StepMoves DEF SumMarks, MarksSteps, Steppable
<1>5. CASE CommitMarks(h)
  BY <1>5, IdleMoves DEF CommitMarks, MarksSteps
<1> QED
  BY <1>1, <1>2, <1>3, <1>4, <1>5 DEF HandleMark

GradesSteps == {"duplicate", "component", "scheme", "submissions", "attempts", "grade row",
    "store grade", "grade status"}

\* An action of HandleGrade (FinalGrades.tla) moves its request to one of these steps or ends it.
LEMMA GradesMove ==
    ASSUME Steppable, NEW h \in Handler, HandleGrade(h)
    PROVE  Moves(h, GradesSteps)
<1>1. CASE BeginComponent(h)
  BY <1>1, ReadsMoves DEF BeginComponent, GradesSteps, Receive
<1>2. CASE CheckComponent(h)
  BY <1>2, GotoMoves, IdleMoves DEF CheckComponent, GradesSteps
<1>3. CASE CreateComponent(h)
  BY <1>3, IdleMoves DEF CreateComponent, GradesSteps
<1>4. CASE BeginCalculate(h)
  BY <1>4, ReadsMoves DEF BeginCalculate, GradesSteps, Receive, Calculating
<1>5. CASE BeginRecalculate(h)
  BY <1>5, ReadsMoves DEF BeginRecalculate, GradesSteps, Receive, Calculating
<1>6. CASE ReadScheme(h)
  BY <1>6, ReadsMoves, StepMoves DEF ReadScheme, GradesSteps, Steppable
<1>7. CASE ReadSubmissions(h)
  <2> DEFINE best == Best(WorkScores(handler[h].p), "work")
             m    == [handler[h] EXCEPT !.step = "attempts", !.best["work"] = best]
  <2>1. "step" \in DOMAIN m /\ m.step = "attempts"
    BY DEF Steppable
  <2>2. Reads(h, m)
    BY <1>7 DEF ReadSubmissions
  <2> HIDE DEF m
  <2> QED
    BY <2>1, <2>2, ReadsMoves DEF GradesSteps
<1>8. CASE ReadAttempts(h)
  <2> DEFINE q    == handler[h]
             best == [q.best EXCEPT !["exam"] = Best(ExamScores(q.p), "exam")]
             m    == [q EXCEPT !.best = best, !.step = "grade row",
                               !.score = Weighted(q.scheme, best)]
  <2>1. "step" \in DOMAIN m /\ m.step = "grade row"
    BY DEF Steppable
  <2>2. Finish(h) \/ Reads(h, m)
    BY <1>8 DEF ReadAttempts
  <2> QED
    BY <2>1, <2>2, IdleMoves, ReadsMoves DEF GradesSteps
<1>9. CASE FindGrade(h)
  BY <1>9, ReadsMoves, StepMoves DEF FindGrade, GradesSteps, Steppable
<1>10. CASE StoreGrade(h)
  BY <1>10, IdleMoves DEF StoreGrade, GradesSteps
<1>11. CASE BeginApproveGrade(h)
  BY <1>11, ReadsMoves DEF BeginApproveGrade, GradesSteps, Receive
<1>12. CASE BeginReopenGrade(h)
  BY <1>12, ReadsMoves DEF BeginReopenGrade, GradesSteps, Receive
<1>13. CASE UpdateGradeStatus(h)
  BY <1>13, IdleMoves DEF UpdateGradeStatus, GradesSteps
<1> QED
  BY <1>1, <1>2, <1>3, <1>4, <1>5, <1>6, <1>7, <1>8, <1>9, <1>10, <1>11, <1>12, <1>13 DEF HandleGrade

AttendanceSteps == {"lesson status", "roll call", "record", "correction", "class rows", "refresh",
    "lessons", "members", "records", "summary"}

\* Those of them at which AttendanceSummaryService counts a scope.
RefreshSteps == {"refresh", "lessons", "members", "records", "summary"}

\* A scope that is counted is stored next.
LEMMA CountedMoves ==
    ASSUME Steppable, NEW h \in Handler, NEW row, Reads(h, Counted(handler[h], row))
    PROVE  Moves(h, RefreshSteps)
<1> DEFINE m == Counted(handler[h], row)
<1>1. "step" \in DOMAIN m /\ m.step = "summary"
  BY DEF Steppable, Counted
<1> QED
  BY <1>1, ReadsMoves DEF RefreshSteps

\* A refresh goes on with its next scope or is done.
LEMMA NextScopeMoves ==
    ASSUME Steppable, NEW h \in Handler, NEW whole \in BOOLEAN,
           \/ Reads(h, NextScope(handler[h], whole))
           \/ Commits(h, NextScope(handler[h], whole))
    PROVE  Moves(h, RefreshSteps)
<1> DEFINE q == handler[h]
           m == [q EXCEPT !.step = "refresh", !.todo = Tail(@), !.row = EmptyCounts,
                          !.whole = @ /\ whole]
<1>1. "step" \in DOMAIN m /\ m.step = "refresh"
  BY DEF Steppable
<1>2. \/ Reads(h, Idle) \/ Commits(h, Idle)
      \/ Reads(h, m)    \/ Commits(h, m)
  BY DEF NextScope
<1> HIDE DEF m
<1> QED
  BY <1>1, <1>2, IdleMoves, ReadsMoves, CommitsMoves DEF RefreshSteps

\* An action of AttendanceSummaryService moves its request to one of these steps or ends it.
LEMMA RefreshMove ==
    ASSUME Steppable, NEW h \in Handler,
           \/ BeginRefresh(h) \/ ReadClassRows(h) \/ ReadPlace(h) \/ ReadLessons(h)
           \/ ReadMembers(h) \/ ReadRecords(h) \/ StoreSummary(h) \/ SkipSummary(h)
    PROVE  Moves(h, RefreshSteps)
<1>1. CASE BeginRefresh(h)
  BY <1>1, ReadsMoves DEF BeginRefresh, RefreshSteps, Receive, Refreshing
<1>2. CASE ReadClassRows(h)
  BY <1>2, ReadsMoves, StepMoves DEF ReadClassRows, RefreshSteps, Steppable
<1>3. CASE ReadPlace(h)
  <2> DEFINE q == handler[h]
  <2>1. PICK place : \/ Reads(h, Counted(q, EmptyCounts))
                     \/ Reads(h, [q EXCEPT !.step = "lessons", !.members = place])
    BY <1>3 DEF ReadPlace
  <2> DEFINE m == [q EXCEPT !.step = "lessons", !.members = place]
  <2>2. "step" \in DOMAIN m /\ m.step = "lessons"
    BY DEF Steppable
  <2> QED
    BY <2>1, <2>2, CountedMoves, ReadsMoves DEF RefreshSteps
<1>4. CASE ReadLessons(h)
  <2> DEFINE q == handler[h]
             s == Head(q.todo)
             L == Eligible(IF s \in Enrollee THEN {q.members[s]} ELSE ClassesIn(s))
             m == [q EXCEPT !.step = IF s \in Enrollee THEN "records" ELSE "members",
                            !.lessons = L]
  <2>1. "step" \in DOMAIN m /\ m.step \in {"records", "members"}
    BY DEF Steppable
  <2>2. Reads(h, Counted(q, EmptyCounts)) \/ Reads(h, m)
    BY <1>4 DEF ReadLessons
  <2> QED
    BY <2>1, <2>2, CountedMoves, ReadsMoves DEF RefreshSteps
<1>5. CASE ReadMembers(h)
  <2> DEFINE q == handler[h]
             m == [q EXCEPT !.step = "records", !.members = PlacedIn(ClassesOf(q.lessons))]
  <2>1. "step" \in DOMAIN m /\ m.step = "records"
    BY DEF Steppable
  <2>2. Reads(h, Counted(q, EmptyCounts)) \/ Reads(h, m)
    BY <1>5 DEF ReadMembers
  <2> QED
    BY <2>1, <2>2, CountedMoves, ReadsMoves DEF RefreshSteps
<1>6. CASE ReadRecords(h)
  <2>1. \E row : Reads(h, Counted(handler[h], row))
    BY <1>6 DEF ReadRecords
  <2> QED
    BY <2>1, CountedMoves
<1>7. CASE StoreSummary(h)
  BY <1>7, NextScopeMoves DEF StoreSummary
<1>8. CASE SkipSummary(h)
  BY <1>8, NextScopeMoves DEF SkipSummary
<1> QED
  BY <1>1, <1>2, <1>3, <1>4, <1>5, <1>6, <1>7, <1>8

\* An action of HandleAttendance (Attendance.tla) moves its request to one of these steps or ends it.
LEMMA AttendanceMove ==
    ASSUME Steppable, NEW h \in Handler, HandleAttendance(h)
    PROVE  Moves(h, AttendanceSteps)
<1>1. CASE BeginLessonStatus(h)
  BY <1>1, ReadsMoves DEF BeginLessonStatus, AttendanceSteps, Receive
<1>2. CASE SetLessonStatus(h)
  <2>1. Commits(h, Idle) \/ \E c : Commits(h, Refreshing(c))
    BY <1>2 DEF SetLessonStatus
  <2> QED
    BY <2>1, IdleMoves, CommitsMoves DEF Refreshing, AttendanceSteps
<1>3. CASE BeginRoll(h)
  BY <1>3, ReadsMoves DEF BeginRoll, AttendanceSteps, Receive
<1>4. CASE CheckEnrollments(h)
  BY <1>4, GotoMoves, IdleMoves DEF CheckEnrollments, AttendanceSteps
<1>5. CASE RecordRoll(h)
  BY <1>5, StepMoves, CommitsMoves DEF RecordRoll, AttendanceSteps, Refreshing, Steppable
<1>6. CASE BeginCorrection(h)
  BY <1>6, ReadsMoves DEF BeginCorrection, AttendanceSteps, Receive
<1>7. CASE ApplyCorrection(h)
  BY <1>7, StepMoves, CommitsMoves DEF ApplyCorrection, AttendanceSteps, Refreshing, Steppable
<1>8. CASE \/ BeginRefresh(h) \/ ReadClassRows(h) \/ ReadPlace(h) \/ ReadLessons(h)
            \/ ReadMembers(h) \/ ReadRecords(h) \/ StoreSummary(h) \/ SkipSummary(h)
  BY <1>8, RefreshMove DEF RefreshSteps, AttendanceSteps, Moves
<1> QED
  BY <1>1, <1>2, <1>3, <1>4, <1>5, <1>6, <1>7, <1>8 DEF HandleAttendance

EnrollmentsSteps == {"enroll", "enrollment status", "transfer"}

\* An action of HandleEnrollment (Enrollments.tla) moves its request to one of these steps or ends it.
LEMMA EnrollmentsMove ==
    ASSUME Steppable, NEW h \in Handler, HandleEnrollment(h)
    PROVE  Moves(h, EnrollmentsSteps)
<1>1. CASE BeginEnroll(h)
  BY <1>1, ReadsMoves DEF BeginEnroll, EnrollmentsSteps, Receive
<1>2. CASE CreateEnrollment(h)
  BY <1>2, IdleMoves DEF CreateEnrollment, EnrollmentsSteps
<1>3. CASE BeginEnrollmentStatus(h)
  BY <1>3, ReadsMoves DEF BeginEnrollmentStatus, EnrollmentsSteps, Receive
<1>4. CASE SetEnrollmentStatus(h)
  BY <1>4, IdleMoves DEF SetEnrollmentStatus, EnrollmentsSteps
<1>5. CASE BeginTransfer(h)
  BY <1>5, ReadsMoves DEF BeginTransfer, EnrollmentsSteps, Receive
<1>6. CASE Transfer(h)
  BY <1>6, IdleMoves DEF Transfer, EnrollmentsSteps
<1> QED
  BY <1>1, <1>2, <1>3, <1>4, <1>5, <1>6 DEF HandleEnrollment

QuestionsSteps == {"question", "question status", "kind", "version", "rewrite", "publishable",
    "predecessor", "publish"}

\* An action of HandleQuestion (QuestionVersions.tla) moves its request to one of these steps or ends it.
LEMMA QuestionsMove ==
    ASSUME Steppable, NEW h \in Handler, HandleQuestion(h)
    PROVE  Moves(h, QuestionsSteps)
<1>1. CASE BeginQuestion(h)
  BY <1>1, ReadsMoves DEF BeginQuestion, QuestionsSteps, Receive
<1>2. CASE CreateQuestion(h)
  BY <1>2, StepMoves, IdleMoves, CommitsMoves DEF CreateQuestion, QuestionsSteps, Steppable
<1>3. CASE BeginItemStatus(h)
  BY <1>3, ReadsMoves DEF BeginItemStatus, QuestionsSteps, Receive
<1>4. CASE SetItemStatus(h)
  BY <1>4, IdleMoves DEF SetItemStatus, QuestionsSteps
<1>5. CASE BeginKind(h)
  BY <1>5, ReadsMoves DEF BeginKind, QuestionsSteps, Receive
<1>6. CASE SetKind(h)
  BY <1>6, IdleMoves DEF SetKind, QuestionsSteps
<1>7. CASE BeginVersion(h)
  BY <1>7, ReadsMoves DEF BeginVersion, QuestionsSteps, Receive
<1>8. CASE CreateVersion(h)
  BY <1>8, IdleMoves DEF CreateVersion, QuestionsSteps
<1>9. CASE BeginRewrite(h)
  BY <1>9, ReadsMoves DEF BeginRewrite, QuestionsSteps, Receive
<1>10. CASE UpdateDraft(h)
  BY <1>10, IdleMoves DEF UpdateDraft, QuestionsSteps
<1>11. CASE BeginPublish(h)
  BY <1>11, ReadsMoves DEF BeginPublish, QuestionsSteps, Receive
<1>12. CASE CheckPublishable(h)
  BY <1>12, GotoMoves, IdleMoves DEF CheckPublishable, QuestionsSteps
<1>13. CASE FindPublished(h)
  BY <1>13, ReadsMoves DEF FindPublished, QuestionsSteps
<1>14. CASE SupersedeAndPublish(h)
  BY <1>14, IdleMoves DEF SupersedeAndPublish, QuestionsSteps
<1> QED
  BY <1>1, <1>2, <1>3, <1>4, <1>5, <1>6, <1>7, <1>8, <1>9, <1>10, <1>11, <1>12, <1>13, <1>14 DEF HandleQuestion

ExamsSteps == {"setting", "blueprint", "pool", "exam status", "session status", "seat"}

\* An action of HandleExam (ExamSetup.tla) moves its request to one of these steps or ends it.
LEMMA ExamsMove ==
    ASSUME Steppable, NEW h \in Handler, HandleExam(h)
    PROVE  Moves(h, ExamsSteps)
<1>1. CASE BeginSetting(h)
  BY <1>1, ReadsMoves DEF BeginSetting, ExamsSteps, Receive
<1>2. CASE SetSetting(h)
  BY <1>2, IdleMoves DEF SetSetting, ExamsSteps
<1>3. CASE BeginBlueprint(h)
  BY <1>3, ReadsMoves DEF BeginBlueprint, ExamsSteps, Receive
<1>4. CASE SaveBlueprint(h)
  BY <1>4, IdleMoves DEF SaveBlueprint, ExamsSteps
<1>5. CASE BeginExamStatus(h)
  BY <1>5, ReadsMoves DEF BeginExamStatus, ExamsSteps, Receive
<1>6. CASE CountPool(h)
  <2>1. PICK r \in Rule :
          \/ Finish(h)
          \/ Reads(h, [handler[h] EXCEPT !.rules = @ \ {r},
                           !.step = IF handler[h].rules = {r} THEN "exam status" ELSE @])
    BY <1>6 DEF CountPool
  <2> DEFINE m == [handler[h] EXCEPT !.rules = @ \ {r},
                           !.step = IF handler[h].rules = {r} THEN "exam status" ELSE @]
  <2>2. "step" \in DOMAIN m /\ m.step \in {"exam status", handler[h].step}
    BY DEF Steppable
  <2>3. handler[h].step = "pool"
    BY <1>6 DEF CountPool, At
  <2> QED
    BY <2>1, <2>2, <2>3, IdleMoves, ReadsMoves DEF ExamsSteps
<1>7. CASE SetExamStatus(h)
  BY <1>7, IdleMoves DEF SetExamStatus, ExamsSteps
<1>8. CASE BeginSessionStatus(h)
  BY <1>8, ReadsMoves DEF BeginSessionStatus, ExamsSteps, Receive
<1>9. CASE SetSessionStatus(h)
  BY <1>9, IdleMoves DEF SetSessionStatus, ExamsSteps
<1>10. CASE BeginSeat(h)
  BY <1>10, ReadsMoves DEF BeginSeat, ExamsSteps, Receive
<1>11. CASE AddParticipant(h)
  BY <1>11, IdleMoves DEF AddParticipant, ExamsSteps
<1> QED
  BY <1>1, <1>2, <1>3, <1>4, <1>5, <1>6, <1>7, <1>8, <1>9, <1>10, <1>11 DEF HandleExam

DecisionsSteps == {"existing", "insert", "approve", "correct", "revoke", "audit"}

\* An action of HandleDecision (GraduationDecisions.tla) moves its request to one of these steps or ends it.
LEMMA DecisionsMove ==
    ASSUME Steppable, NEW h \in Handler, HandleDecision(h)
    PROVE  Moves(h, DecisionsSteps)
<1>1. CASE FindEvaluation(h)
  BY <1>1, ReadsMoves DEF FindEvaluation, DecisionsSteps, Decide, Receive
<1>2. CASE FindExisting(h)
  BY <1>2, GotoMoves, IdleMoves DEF FindExisting, DecisionsSteps
<1>3. CASE InsertDecision(h)
  BY <1>3, IdleMoves, StepMoves DEF InsertDecision, DecisionsSteps, CommitToAudit, Steppable
<1>4. CASE BeginApprove(h)
  BY <1>4, ReadsMoves DEF BeginApprove, DecisionsSteps, Decide, Receive
<1>5. CASE BeginCorrect(h)
  BY <1>5, ReadsMoves DEF BeginCorrect, DecisionsSteps, Decide, Receive
<1>6. CASE BeginRevoke(h)
  BY <1>6, ReadsMoves DEF BeginRevoke, DecisionsSteps, Decide, Receive
<1>7. CASE Approve(h)
  BY <1>7, StepMoves DEF Approve, DecisionsSteps, CommitToAudit, Steppable
<1>8. CASE Correct(h)
  BY <1>8, StepMoves DEF Correct, DecisionsSteps, CommitToAudit, Steppable
<1>9. CASE Revoke(h)
  BY <1>9, StepMoves DEF Revoke, DecisionsSteps, CommitToAudit, Steppable
<1>10. CASE Audit(h)
  BY <1>10, IdleMoves DEF Audit, DecisionsSteps
<1> QED
  BY <1>1, <1>2, <1>3, <1>4, <1>5, <1>6, <1>7, <1>8, <1>9, <1>10 DEF HandleDecision

LearningSteps == {"meeting", "live activities", "activity type", "place", "activity", "gate",
    "change", "reorder", "material",
    "version state", "material status", "last version", "published version",
    "material version", "progress row", "progress", "counts", "aggregate"}

\* An update or a change of status begins as an amendment (Learning.tla).
LEMMA EditAmends ==
    ASSUME NEW h, BeginActivityStatus(h) \/ BeginActivityEdit(h)
    PROVE  \E a, row, sets, order, todo : Amend(h, a, row, sets, order, todo)
<1>1. CASE BeginActivityStatus(h)
  <2>1. PICK a, to :
          Amend(h, a, [activity[a] EXCEPT !.status = to], {"status"}, AskedByStatus,
                IF to = "PUBLISHED" THEN {"type", "meeting", "contents"} ELSE {})
    BY <1>1, Zenon DEF BeginActivityStatus
  <2> QED
    BY <2>1, Zenon
<1>2. CASE BeginActivityEdit(h)
  <2>1. PICK a \in Existing : EditActivity(h, a)
    BY <1>2, Zenon DEF BeginActivityEdit
  <2> QED
    BY <2>1 DEF EditActivity
<1> QED
  BY <1>1, <1>2

\* An action of HandleLearning (Learning.tla) moves its request to one of these steps or ends it.
LEMMA LearningMove ==
    ASSUME Steppable, NEW h \in Handler, HandleLearning(h)
    PROVE  Moves(h, LearningSteps)
<1>1. CASE BeginMeeting(h)
  BY <1>1, ReadsMoves DEF BeginMeeting, LearningSteps, Receive
<1>2. CASE SetMeeting(h)
  BY <1>2, IdleMoves DEF SetMeeting, LearningSteps
<1>3. CASE BeginActivityType(h)
  <2>1. PICK k \in ActivityType, active \in BOOLEAN, requires \in BOOLEAN :
          Reads(h, [step |-> IF activityType[k].active /\ ~active THEN "live activities"
                             ELSE "activity type",
                    k |-> k, row |-> [active |-> active, requires |-> requires]])
    BY <1>3 DEF BeginActivityType, Receive
  <2> DEFINE m == [step |-> IF activityType[k].active /\ ~active THEN "live activities"
                            ELSE "activity type",
                   k |-> k, row |-> [active |-> active, requires |-> requires]]
  <2>2. "step" \in DOMAIN m /\ m.step \in {"live activities", "activity type"}
    OBVIOUS
  <2> QED
    BY <2>1, <2>2, ReadsMoves DEF LearningSteps
<1>4. CASE CountLive(h)
  BY <1>4, GotoMoves, IdleMoves DEF CountLive, LearningSteps
<1>5. CASE SetActivityType(h)
  BY <1>5, IdleMoves DEF SetActivityType, LearningSteps
<1>6. CASE BeginActivity(h)
  BY <1>6, ReadsMoves DEF BeginActivity, LearningSteps, Receive
<1>7. CASE ChoosePlace(h)
  <2>1. PICK n : Reads(h, [handler[h] EXCEPT !.step = "activity", !.row.place = n])
    BY <1>7 DEF ChoosePlace
  <2> DEFINE m == [handler[h] EXCEPT !.step = "activity", !.row.place = n]
  <2>2. "step" \in DOMAIN m /\ m.step = "activity"
    BY DEF Steppable
  <2> QED
    BY <2>1, <2>2, ReadsMoves DEF LearningSteps
<1>8. CASE CreateActivity(h)
  <2>1. Finish(h) \/ Commit(h) \/ Commits(h, [step |-> "gate", a |-> handler[h].a])
    BY <1>8 DEF CreateActivity
  <2> QED
    BY <2>1, IdleMoves, CommitsMoves DEF LearningSteps
<1>9. CASE CheckGate(h)
  BY <1>9, IdleMoves DEF CheckGate, LearningSteps
<1>a. ASSUME NEW X, Learned(h, X), At(h, "change") PROVE Moves(h, LearningSteps)
  <2> DEFINE m == [handler[h] EXCEPT !.todo = @ \ X]
  <2>1. "step" \in DOMAIN m /\ m.step = "change"
    BY <1>a DEF Steppable, At
  <2> QED
    BY <1>a, <2>1, ReadsMoves DEF Learned, LearningSteps
<1>10. CASE BeginActivityStatus(h) \/ BeginActivityEdit(h)
  <2>1. PICK a, row, sets, order, todo : Amend(h, a, row, sets, order, todo)
    BY <1>10, EditAmends
  <2> QED
    BY <2>1, ReadsMoves DEF Amend, Receive, LearningSteps
<1>11. CASE AskType(h) \/ AskMeeting(h)
  BY <1>a, <1>11, IdleMoves DEF AskType, AskMeeting, Turn
<1>12. CASE AskContents(h) \/ AskPlace(h)
  BY <1>a, <1>12, IdleMoves DEF AskContents, AskPlace, Turn
<1>13. CASE ChangeActivity(h)
  BY <1>13, IdleMoves DEF ChangeActivity, LearningSteps
<1>14. CASE BeginReorder(h)
  BY <1>14, ReadsMoves DEF BeginReorder, LearningSteps, Receive
<1>15. CASE Reorder(h)
  BY <1>15, IdleMoves DEF Reorder, LearningSteps
<1>16. CASE BeginMaterial(h)
  BY <1>16, ReadsMoves DEF BeginMaterial, LearningSteps, Receive
<1>17. CASE CreateMaterial(h)
  BY <1>17, IdleMoves DEF CreateMaterial, LearningSteps
<1>18. CASE BeginMaterialStatus(h)
  BY <1>18, ReadsMoves DEF BeginMaterialStatus, LearningSteps, Receive
<1>19. CASE CheckVersionState(h)
  BY <1>19, GotoMoves, IdleMoves DEF CheckVersionState, LearningSteps
<1>20. CASE SetMaterialStatus(h)
  BY <1>20, IdleMoves DEF SetMaterialStatus, LearningSteps
<1>21. CASE BeginMaterialVersion(h)
  BY <1>21, ReadsMoves DEF BeginMaterialVersion, LearningSteps, Receive
<1>22. CASE ReadLastVersion(h)
  <2> DEFINE m == [handler[h] EXCEPT !.step = "published version",
                                !.number = Len(material[handler[h].a]) + 1]
  <2>1. "step" \in DOMAIN m /\ m.step = "published version"
    BY DEF Steppable
  <2>2. Reads(h, m)
    BY <1>22 DEF ReadLastVersion
  <2> QED
    BY <2>1, <2>2, ReadsMoves DEF LearningSteps
<1>23. CASE ReadPublishedVersion(h)
  <2> DEFINE m == [handler[h] EXCEPT !.step = "material version",
                                !.old = Max(PublishedMaterial(handler[h].a) \cup {0})]
  <2>1. "step" \in DOMAIN m /\ m.step = "material version"
    BY DEF Steppable
  <2>2. Reads(h, m)
    BY <1>23 DEF ReadPublishedVersion
  <2> QED
    BY <2>1, <2>2, ReadsMoves DEF LearningSteps
<1>24. CASE CreateMaterialVersion(h)
  BY <1>24, IdleMoves DEF CreateMaterialVersion, LearningSteps
<1>25. CASE BeginProgress(h)
  BY <1>25, ReadsMoves DEF BeginProgress, LearningSteps, Receive
<1>26. CASE ReadProgress(h)
  <2> DEFINE q == handler[h]
             m == [q EXCEPT !.step = "progress",
                      !.started = progress[q.e][q.a].started \/ q.status # "NOT_STARTED"]
  <2>1. "step" \in DOMAIN m /\ m.step = "progress"
    BY DEF Steppable
  <2>2. Finish(h) \/ Reads(h, m)
    BY <1>26 DEF ReadProgress
  <2> QED
    BY <2>1, <2>2, IdleMoves, ReadsMoves DEF LearningSteps
<1>27. CASE SaveProgress(h)
  <2>1. Commits(h, [step |-> "counts", e |-> handler[h].e, of |-> {}, row |-> NoAggregate])
    BY <1>27 DEF SaveProgress
  <2> QED
    BY <2>1, CommitsMoves DEF LearningSteps
<1>28. CASE ReadCounts(h)
  <2>1. PICK which, row :
          Reads(h, [handler[h] EXCEPT !.step = IF handler[h].of = {} THEN @ ELSE "aggregate",
                                      !.of = @ \cup {which}, !.row = row])
    BY <1>28 DEF ReadCounts
  <2> DEFINE m == [handler[h] EXCEPT !.step = IF handler[h].of = {} THEN @ ELSE "aggregate",
                                     !.of = @ \cup {which}, !.row = row]
  <2>2. "step" \in DOMAIN m /\ m.step \in {"aggregate", handler[h].step}
    BY DEF Steppable
  <2>3. handler[h].step = "counts"
    BY <1>28 DEF ReadCounts, At
  <2> QED
    BY <2>1, <2>2, <2>3, ReadsMoves DEF LearningSteps
<1>29. CASE StoreAggregate(h)
  BY <1>29, IdleMoves DEF StoreAggregate, LearningSteps
<1> QED
  BY <1>1, <1>2, <1>3, <1>4, <1>5, <1>6, <1>7, <1>8, <1>9, <1>10, <1>11, <1>12, <1>13, <1>14, <1>15, <1>16, <1>17, <1>18, <1>19, <1>20, <1>21, <1>22, <1>23, <1>24, <1>25, <1>26, <1>27, <1>28, <1>29 DEF HandleLearning

OrganizationsSteps == {"organization", "ancestor", "move"}

\* An action of HandleOrganization (Organizations.tla) moves its request to one of these steps or ends it.
LEMMA OrganizationsMove ==
    ASSUME Steppable, NEW h \in Handler, HandleOrganization(h)
    PROVE  Moves(h, OrganizationsSteps)
<1>1. CASE BeginOrganization(h)
  BY <1>1, ReadsMoves DEF BeginOrganization, OrganizationsSteps, Receive
<1>2. CASE CreateOrganization(h)
  BY <1>2, IdleMoves DEF CreateOrganization, OrganizationsSteps
<1>3. CASE BeginReparent(h)
  BY <1>3, ReadsMoves DEF BeginReparent, OrganizationsSteps, Receive
<1>4. CASE ReadAncestor(h)
  <2> DEFINE m == [handler[h] EXCEPT !.up = parent[handler[h].up]]
  <2>1. "step" \in DOMAIN m /\ m.step = handler[h].step
    BY DEF Steppable
  <2>2. At(h, "ancestor") /\ (Finish(h) \/ Goto(h, "move") \/ Reads(h, m))
    BY <1>4 DEF ReadAncestor
  <2> QED
    BY <2>1, <2>2, IdleMoves, GotoMoves, ReadsMoves DEF At, OrganizationsSteps
<1>5. CASE Reparent(h)
  BY <1>5, IdleMoves DEF Reparent, OrganizationsSteps
<1> QED
  BY <1>1, <1>2, <1>3, <1>4, <1>5 DEF HandleOrganization

CalendarSteps == {"same person", "conflicts", "booking"}

\* An action of HandleCalendar (Calendar.tla) moves its request to one of these steps or ends it.
LEMMA CalendarMove ==
    ASSUME Steppable, NEW h \in Handler, HandleCalendar(h)
    PROVE  Moves(h, CalendarSteps)
<1>1. CASE BeginBooking(h)
  BY <1>1, ReadsMoves DEF BeginBooking, CalendarSteps, Receive
<1>2. CASE CheckDuplicate(h)
  BY <1>2, GotoMoves, IdleMoves DEF CheckDuplicate, CalendarSteps
<1>3. CASE BeginRebooking(h)
  <2>1. PICK s \in {"conflicts", "booking"} : \E b, row, columns :
          Reads(h, [step |-> s, b |-> b, row |-> row, columns |-> columns])
    BY <1>3 DEF BeginRebooking, Receive
  <2> QED
    BY <2>1, ReadsMoves DEF CalendarSteps
<1>4. CASE BeginEnd(h)
  BY <1>4, ReadsMoves DEF BeginEnd, CalendarSteps, Receive
<1>5. CASE CheckOverlap(h)
  BY <1>5, GotoMoves, IdleMoves DEF CheckOverlap, CalendarSteps
<1>6. CASE Book(h)
  BY <1>6, IdleMoves DEF Book, CalendarSteps
<1> QED
  BY <1>1, <1>2, <1>3, <1>4, <1>5, <1>6 DEF HandleCalendar

-----------------------------------------------------------------------------
(* Steps of the whole *)

\* No slot has entered a step of S.
Unentered(S) == \A h \in Handler : handler'[h] = handler[h] \/ handler'[h].step \notin S

\* A slot that moves among the steps T enters none of S, if the two are apart.
LEMMA MovesUnentered ==
    ASSUME NEW h \in Handler, NEW S, NEW T, Moves(h, T), S \cap (T \cup {"idle"}) = {}
    PROVE  Unentered(S)
BY DEF Moves, Unentered, Idle

\* No slot has left a step of S.
Unleft(S) == \A h \in Handler : handler[h].step \in S => handler'[h] = handler[h]

\* A slot that moves among the steps T leaves none of S, if the two are apart.
LEMMA MovesUnleft ==
    ASSUME NEW h \in Handler, NEW S, NEW T, Moves(h, T), handler[h].step \in T \cup {"idle"},
           S \cap (T \cup {"idle"}) = {}
    PROVE  Unleft(S)
BY DEF Moves, Unleft, Idle

\* Whatever moves one slot keeps the slots steppable.
LEMMA MovesSteppable ==
    ASSUME Steppable, NEW h \in Handler, NEW S, Moves(h, S)
    PROVE  Steppable'
BY DEF Steppable, Moves

\* A lost request leaves the API.
LEMMA LossMoves ==
    ASSUME Steppable, NEW h \in Handler, LoseRequest(h)
    PROVE  Moves(h, {})
BY IdleMoves DEF LoseRequest, LoseDecision, Abandon

\* What is outside moves no request.
LEMMA OutsideMoves ==
    ASSUME Outside
    PROVE  handler' = handler
BY DEF Outside, CourseworkOutside, InitiateUpload, PutObject, Sit, SaveAnswer, CloseAttempt,
       CreateLesson, DecisionsOutside, Evaluate, Supersede, WriteOutside, requests

\* At the start every slot is idle.
LEMMA InitSteppable == Init => Steppable
BY DEF Init, RequestsInit, Idle, Steppable

\* Every step of the whole is one of the moves above.
LEMMA StepSteppable ==
    ASSUME Steppable, [Next]_vars
    PROVE  Steppable'
<1>1. ASSUME NEW h \in Handler, Operate(h) PROVE Steppable'
  <2>1. \/ HandleSubmit(h)
        \/ HandleLink(h)
        \/ HandleAssess(h)
        \/ HandleAssignment(h)
        \/ HandleFile(h)
        \/ HandleMark(h)
        \/ HandleGrade(h)
        \/ HandleAttendance(h)
        \/ HandleEnrollment(h)
        \/ HandleQuestion(h)
        \/ HandleExam(h)
        \/ HandleDecision(h)
        \/ HandleLearning(h)
        \/ HandleOrganization(h)
        \/ HandleCalendar(h)
    BY <1>1 DEF Operate, CourseworkHandler, HandleSubmission, HandleSetup
  <2> QED
    BY <2>1, MovesSteppable, SubmitsMove, LinksMove, AssessMove, AssignmentsMove, FilesMove, MarksMove,
       GradesMove, AttendanceMove, EnrollmentsMove, QuestionsMove, ExamsMove,
       DecisionsMove, LearningMove, OrganizationsMove, CalendarMove
<1>2. ASSUME NEW h \in Handler, LoseRequest(h) PROVE Steppable'
  BY <1>2, LossMoves, MovesSteppable
<1>3. CASE Outside
  BY <1>3, OutsideMoves DEF Steppable
<1>4. CASE UNCHANGED vars
  BY <1>4 DEF Steppable, vars, requests
<1> QED
  BY <1>1, <1>2, <1>3, <1>4 DEF Next

\* Whatever requests, losses and outside events come together, a slot always holds a
\* request with a step.
THEOREM AlwaysSteppable == Spec => []Steppable
BY InitSteppable, StepSteppable, PTL DEF Spec

\* What HandleAssignment leaves alone.
LEMMA AssignmentsKeepWork ==
    ASSUME NEW h, HandleAssignment(h)
    PROVE  UNCHANGED work
BY DEF HandleAssignment, BeginStatus, WriteStatus, BeginUpdate, ListForCeiling,
       CheckGrade, CountRecorded, WriteUpdate, tables, work

\* What HandleSubmit leaves alone.
LEMMA SubmitsKeepLinks ==
    ASSUME NEW h, HandleSubmit(h)
    PROVE  UNCHANGED attached
BY DEF HandleSubmit, BeginSubmit, FindLatest, CheckLimit, BeginDraft, FindDraft,
       CountFiles, ReadNumber, CreateSubmission, UpdateSubmission, BeginEdit,
       tables, work

\* What HandleAssess leaves alone.
LEMMA AssessKeepsLinks ==
    ASSUME NEW h, HandleAssess(h)
    PROVE  UNCHANGED attached
BY DEF HandleAssess, BeginGrade, ReadCeiling, UpsertGrade, Mark, BeginReturn,
       tables, work

\* What HandleLink leaves alone.
LEMMA LinksKeepWorks ==
    ASSUME NEW h, HandleLink(h)
    PROVE  UNCHANGED <<submission, grade>>
BY DEF HandleLink, BeginFiles, ReadFile, FindLink, Attach, Detach, tables, work

\* What HandleExam leaves alone.
LEMMA ExamsKeepQuestions ==
    ASSUME NEW h, HandleExam(h)
    PROVE  UNCHANGED bankTables
BY DEF HandleExam, BeginSetting, SetSetting, BeginBlueprint, SaveBlueprint,
       BeginExamStatus, CountPool, SetExamStatus, BeginSessionStatus,
       SetSessionStatus, BeginSeat, AddParticipant, setupTables, bankTables

\* What HandleAttendance leaves alone.
LEMMA AttendanceKeepsEnrollments ==
    ASSUME NEW h, HandleAttendance(h)
    PROVE  UNCHANGED enrolled
BY DEF HandleAttendance, BeginLessonStatus, SetLessonStatus, BeginRoll,
       CheckEnrollments, RecordRoll, BeginCorrection, ApplyCorrection,
       BeginRefresh, ReadClassRows, ReadPlace, ReadLessons, ReadMembers,
       ReadRecords, StoreSummary, SkipSummary, rollTables

\* What any step of the whole does to gradeTables.
LEMMA GradesElse ==
    ASSUME Steppable, [Next]_vars
    PROVE  \/ \E h \in Handler : HandleGrade(h)
           \/ UNCHANGED gradeTables /\ Unentered(GradesSteps)
<1> DEFINE S    == GradesSteps
           Same == UNCHANGED gradeTables
           Others == {SubmitsSteps, LinksSteps, AssessSteps, AssignmentsSteps,
                      FilesSteps, MarksSteps, AttendanceSteps, EnrollmentsSteps,
                      QuestionsSteps, ExamsSteps, DecisionsSteps, LearningSteps,
                      OrganizationsSteps, CalendarSteps}
<1>0. \A T \in Others : S \cap (T \cup {"idle"}) = {}
  <2>1. S \cap (SubmitsSteps \cup {"idle"}) = {}
    BY DEF GradesSteps, SubmitsSteps
  <2>2. S \cap (LinksSteps \cup {"idle"}) = {}
    BY DEF GradesSteps, LinksSteps
  <2>3. S \cap (AssessSteps \cup {"idle"}) = {}
    BY DEF GradesSteps, AssessSteps
  <2>4. S \cap (AssignmentsSteps \cup {"idle"}) = {}
    BY DEF GradesSteps, AssignmentsSteps
  <2>5. S \cap (FilesSteps \cup {"idle"}) = {}
    BY DEF GradesSteps, FilesSteps
  <2>6. S \cap (MarksSteps \cup {"idle"}) = {}
    BY DEF GradesSteps, MarksSteps
  <2>7. S \cap (AttendanceSteps \cup {"idle"}) = {}
    BY DEF GradesSteps, AttendanceSteps
  <2>8. S \cap (EnrollmentsSteps \cup {"idle"}) = {}
    BY DEF GradesSteps, EnrollmentsSteps
  <2>9. S \cap (QuestionsSteps \cup {"idle"}) = {}
    BY DEF GradesSteps, QuestionsSteps
  <2>10. S \cap (ExamsSteps \cup {"idle"}) = {}
    BY DEF GradesSteps, ExamsSteps
  <2>11. S \cap (DecisionsSteps \cup {"idle"}) = {}
    BY DEF GradesSteps, DecisionsSteps
  <2>12. S \cap (LearningSteps \cup {"idle"}) = {}
    BY DEF GradesSteps, LearningSteps
  <2>13. S \cap (OrganizationsSteps \cup {"idle"}) = {}
    BY DEF GradesSteps, OrganizationsSteps
  <2>14. S \cap (CalendarSteps \cup {"idle"}) = {}
    BY DEF GradesSteps, CalendarSteps
  <2> HIDE DEF S
  <2> QED
    BY <2>1, <2>2, <2>3, <2>4, <2>5, <2>6, <2>7, <2>8, <2>9, <2>10, <2>11, <2>12,
       <2>13, <2>14
<1>k. /\ SubmitsSteps \in Others
      /\ LinksSteps \in Others
      /\ AssessSteps \in Others
      /\ AssignmentsSteps \in Others
      /\ FilesSteps \in Others
      /\ MarksSteps \in Others
      /\ AttendanceSteps \in Others
      /\ EnrollmentsSteps \in Others
      /\ QuestionsSteps \in Others
      /\ ExamsSteps \in Others
      /\ DecisionsSteps \in Others
      /\ LearningSteps \in Others
      /\ OrganizationsSteps \in Others
      /\ CalendarSteps \in Others
  OBVIOUS
<1> HIDE DEF Same, S, Others
<1>1. ASSUME NEW h \in Handler, Operate(h)
      PROVE  HandleGrade(h) \/ (Same /\ Unentered(S))
  <2>1. \/ HandleGrade(h)
        \/ Same /\ HandleSubmit(h)
        \/ Same /\ HandleLink(h)
        \/ Same /\ HandleAssess(h)
        \/ Same /\ HandleAssignment(h)
        \/ Same /\ HandleFile(h)
        \/ Same /\ HandleMark(h)
        \/ Same /\ HandleAttendance(h)
        \/ Same /\ HandleEnrollment(h)
        \/ Same /\ HandleQuestion(h)
        \/ Same /\ HandleExam(h)
        \/ Same /\ HandleDecision(h)
        \/ Same /\ HandleLearning(h)
        \/ Same /\ HandleOrganization(h)
        \/ Same /\ HandleCalendar(h)
    BY <1>1 DEF Same, Operate, CourseworkHandler, HandleSubmission, HandleSetup,
       vars, requests, courseTables, tables, work, markTables, gradeTables,
       attendanceTables, rollTables, setupTables, bankTables, decisionTables,
       catalogTables, learningTables, institutionTables
  <2>2. ASSUME ~(HandleGrade(h)) PROVE Same /\ Unentered(S)
    <3>1. \E T \in Others : Moves(h, T)
      BY <1>k, <2>1, <2>2, SubmitsMove, LinksMove, AssessMove, AssignmentsMove,
         FilesMove, MarksMove, AttendanceMove, EnrollmentsMove, QuestionsMove,
         ExamsMove, DecisionsMove, LearningMove, OrganizationsMove, CalendarMove
    <3> QED
      BY <3>1, <2>1, <2>2, <1>0, MovesUnentered
  <2> QED
    BY <2>2
<1>2. ASSUME NEW h \in Handler, LoseRequest(h)
      PROVE  Same /\ Unentered(S)
  <2>1. Same
    BY <1>2 DEF Same, LoseRequest, LoseDecision,
       vars, requests, courseTables, tables, work, markTables, gradeTables,
       attendanceTables, rollTables, setupTables, bankTables, decisionTables,
       catalogTables, learningTables, institutionTables
  <2>2. S \cap ({} \cup {"idle"}) = {}
    BY DEF S, GradesSteps
  <2> QED
    BY <1>2, <2>1, <2>2, LossMoves, MovesUnentered
<1>3. CASE Outside
  <2>1. Same
    BY <1>3 DEF Same, Outside, CourseworkOutside, CreateLesson, InitiateUpload, PutObject, Sit,
       SaveAnswer, CloseAttempt, DecisionsOutside, Evaluate, Supersede,
       vars, requests, courseTables, tables, work, markTables, gradeTables,
       attendanceTables, rollTables, setupTables, bankTables, decisionTables,
       catalogTables, learningTables, institutionTables
  <2> QED
    BY <1>3, <2>1, OutsideMoves DEF Unentered, Same, S
<1>4. CASE UNCHANGED vars
  BY <1>4 DEF Same, Unentered, Unleft, vars, requests, courseTables, tables, work, markTables, gradeTables,
       attendanceTables, rollTables, setupTables, bankTables, decisionTables,
       catalogTables, learningTables, institutionTables
<1> USE DEF Same, S
<1> QED
  BY <1>1, <1>2, <1>3, <1>4 DEF Next

\* What any step of the whole does to attached, file, object.
LEMMA LinksElse ==
    ASSUME Steppable, [Next]_vars
    PROVE  \/ \E h \in Handler : (HandleLink(h) /\ UNCHANGED <<file, object>>) \/ (HandleFile(h) /\ UNCHANGED attached)
           \/ CourseworkOutside /\ UNCHANGED handler
           \/ UNCHANGED <<attached, file, object>> /\ Unentered(LinksSteps \cup FilesSteps)
<1> DEFINE S    == LinksSteps \cup FilesSteps
           Same == UNCHANGED <<attached, file, object>>
           Others == {SubmitsSteps, AssessSteps, AssignmentsSteps, MarksSteps,
                      GradesSteps, AttendanceSteps, EnrollmentsSteps,
                      QuestionsSteps, ExamsSteps, DecisionsSteps, LearningSteps,
                      OrganizationsSteps, CalendarSteps}
<1>0. \A T \in Others : S \cap (T \cup {"idle"}) = {}
  <2>1. S \cap (SubmitsSteps \cup {"idle"}) = {}
    BY DEF LinksSteps, FilesSteps, SubmitsSteps
  <2>2. S \cap (AssessSteps \cup {"idle"}) = {}
    BY DEF LinksSteps, FilesSteps, AssessSteps
  <2>3. S \cap (AssignmentsSteps \cup {"idle"}) = {}
    BY DEF LinksSteps, FilesSteps, AssignmentsSteps
  <2>4. S \cap (MarksSteps \cup {"idle"}) = {}
    BY DEF LinksSteps, FilesSteps, MarksSteps
  <2>5. S \cap (GradesSteps \cup {"idle"}) = {}
    BY DEF LinksSteps, FilesSteps, GradesSteps
  <2>6. S \cap (AttendanceSteps \cup {"idle"}) = {}
    BY DEF LinksSteps, FilesSteps, AttendanceSteps
  <2>7. S \cap (EnrollmentsSteps \cup {"idle"}) = {}
    BY DEF LinksSteps, FilesSteps, EnrollmentsSteps
  <2>8. S \cap (QuestionsSteps \cup {"idle"}) = {}
    BY DEF LinksSteps, FilesSteps, QuestionsSteps
  <2>9. S \cap (ExamsSteps \cup {"idle"}) = {}
    BY DEF LinksSteps, FilesSteps, ExamsSteps
  <2>10. S \cap (DecisionsSteps \cup {"idle"}) = {}
    BY DEF LinksSteps, FilesSteps, DecisionsSteps
  <2>11. S \cap (LearningSteps \cup {"idle"}) = {}
    BY DEF LinksSteps, FilesSteps, LearningSteps
  <2>12. S \cap (OrganizationsSteps \cup {"idle"}) = {}
    BY DEF LinksSteps, FilesSteps, OrganizationsSteps
  <2>13. S \cap (CalendarSteps \cup {"idle"}) = {}
    BY DEF LinksSteps, FilesSteps, CalendarSteps
  <2> HIDE DEF S
  <2> QED
    BY <2>1, <2>2, <2>3, <2>4, <2>5, <2>6, <2>7, <2>8, <2>9, <2>10, <2>11, <2>12,
       <2>13
<1>k. /\ SubmitsSteps \in Others
      /\ AssessSteps \in Others
      /\ AssignmentsSteps \in Others
      /\ MarksSteps \in Others
      /\ GradesSteps \in Others
      /\ AttendanceSteps \in Others
      /\ EnrollmentsSteps \in Others
      /\ QuestionsSteps \in Others
      /\ ExamsSteps \in Others
      /\ DecisionsSteps \in Others
      /\ LearningSteps \in Others
      /\ OrganizationsSteps \in Others
      /\ CalendarSteps \in Others
  OBVIOUS
<1> HIDE DEF Same, S, Others
<1>1. ASSUME NEW h \in Handler, Operate(h)
      PROVE  (HandleLink(h) /\ UNCHANGED <<file, object>>) \/ (HandleFile(h) /\ UNCHANGED attached) \/ (Same /\ Unentered(S))
  <2>1. \/ (HandleLink(h) /\ UNCHANGED <<file, object>>) \/ (HandleFile(h) /\ UNCHANGED attached)
        \/ Same /\ HandleSubmit(h)
        \/ Same /\ HandleAssess(h)
        \/ Same /\ HandleAssignment(h)
        \/ Same /\ HandleMark(h)
        \/ Same /\ HandleGrade(h)
        \/ Same /\ HandleAttendance(h)
        \/ Same /\ HandleEnrollment(h)
        \/ Same /\ HandleQuestion(h)
        \/ Same /\ HandleExam(h)
        \/ Same /\ HandleDecision(h)
        \/ Same /\ HandleLearning(h)
        \/ Same /\ HandleOrganization(h)
        \/ Same /\ HandleCalendar(h)
    BY <1>1, AssignmentsKeepWork, SubmitsKeepLinks, AssessKeepsLinks DEF Same, Operate, CourseworkHandler, HandleSubmission, HandleSetup,
       vars, requests, courseTables, tables, work, markTables, gradeTables,
       attendanceTables, rollTables, setupTables, bankTables, decisionTables,
       catalogTables, learningTables, institutionTables
  <2>2. ASSUME ~((HandleLink(h) /\ UNCHANGED <<file, object>>) \/ (HandleFile(h) /\ UNCHANGED attached)) PROVE Same /\ Unentered(S)
    <3>1. \E T \in Others : Moves(h, T)
      BY <1>k, <2>1, <2>2, SubmitsMove, AssessMove, AssignmentsMove, MarksMove,
         GradesMove, AttendanceMove, EnrollmentsMove, QuestionsMove, ExamsMove,
         DecisionsMove, LearningMove, OrganizationsMove, CalendarMove
    <3> QED
      BY <3>1, <2>1, <2>2, <1>0, MovesUnentered
  <2> QED
    BY <2>2
<1>2. ASSUME NEW h \in Handler, LoseRequest(h)
      PROVE  Same /\ Unentered(S)
  <2>1. Same
    BY <1>2 DEF Same, LoseRequest, LoseDecision,
       vars, requests, courseTables, tables, work, markTables, gradeTables,
       attendanceTables, rollTables, setupTables, bankTables, decisionTables,
       catalogTables, learningTables, institutionTables
  <2>2. S \cap ({} \cup {"idle"}) = {}
    BY DEF S, LinksSteps, FilesSteps
  <2> QED
    BY <1>2, <2>1, <2>2, LossMoves, MovesUnentered
<1>3. CASE Outside
  <2>1. CourseworkOutside \/ Same
    BY <1>3 DEF Same, Outside, CreateLesson, DecisionsOutside, Evaluate, Supersede,
       vars, requests, courseTables, tables, work, markTables, gradeTables,
       attendanceTables, rollTables, setupTables, bankTables, decisionTables,
       catalogTables, learningTables, institutionTables
  <2> QED
    BY <1>3, <2>1, OutsideMoves DEF Unentered, Same, S
<1>4. CASE UNCHANGED vars
  BY <1>4 DEF Same, Unentered, Unleft, vars, requests, courseTables, tables, work, markTables, gradeTables,
       attendanceTables, rollTables, setupTables, bankTables, decisionTables,
       catalogTables, learningTables, institutionTables
<1> USE DEF Same, S
<1> QED
  BY <1>1, <1>2, <1>3, <1>4 DEF Next

\* What any step of the whole does to submission, grade.
LEMMA WorksElse ==
    ASSUME Steppable, [Next]_vars
    PROVE  \/ \E h \in Handler : HandleSubmit(h) \/ HandleAssess(h)
           \/ UNCHANGED <<submission, grade>> /\ Unentered(SubmitsSteps \cup AssessSteps)
<1> DEFINE S    == SubmitsSteps \cup AssessSteps
           Same == UNCHANGED <<submission, grade>>
           Others == {LinksSteps, AssignmentsSteps, FilesSteps, MarksSteps,
                      GradesSteps, AttendanceSteps, EnrollmentsSteps,
                      QuestionsSteps, ExamsSteps, DecisionsSteps, LearningSteps,
                      OrganizationsSteps, CalendarSteps}
<1>0. \A T \in Others : S \cap (T \cup {"idle"}) = {}
  <2>1. S \cap (LinksSteps \cup {"idle"}) = {}
    BY DEF SubmitsSteps, AssessSteps, LinksSteps
  <2>2. S \cap (AssignmentsSteps \cup {"idle"}) = {}
    BY DEF SubmitsSteps, AssessSteps, AssignmentsSteps
  <2>3. S \cap (FilesSteps \cup {"idle"}) = {}
    BY DEF SubmitsSteps, AssessSteps, FilesSteps
  <2>4. S \cap (MarksSteps \cup {"idle"}) = {}
    BY DEF SubmitsSteps, AssessSteps, MarksSteps
  <2>5. S \cap (GradesSteps \cup {"idle"}) = {}
    BY DEF SubmitsSteps, AssessSteps, GradesSteps
  <2>6. S \cap (AttendanceSteps \cup {"idle"}) = {}
    BY DEF SubmitsSteps, AssessSteps, AttendanceSteps
  <2>7. S \cap (EnrollmentsSteps \cup {"idle"}) = {}
    BY DEF SubmitsSteps, AssessSteps, EnrollmentsSteps
  <2>8. S \cap (QuestionsSteps \cup {"idle"}) = {}
    BY DEF SubmitsSteps, AssessSteps, QuestionsSteps
  <2>9. S \cap (ExamsSteps \cup {"idle"}) = {}
    BY DEF SubmitsSteps, AssessSteps, ExamsSteps
  <2>10. S \cap (DecisionsSteps \cup {"idle"}) = {}
    BY DEF SubmitsSteps, AssessSteps, DecisionsSteps
  <2>11. S \cap (LearningSteps \cup {"idle"}) = {}
    BY DEF SubmitsSteps, AssessSteps, LearningSteps
  <2>12. S \cap (OrganizationsSteps \cup {"idle"}) = {}
    BY DEF SubmitsSteps, AssessSteps, OrganizationsSteps
  <2>13. S \cap (CalendarSteps \cup {"idle"}) = {}
    BY DEF SubmitsSteps, AssessSteps, CalendarSteps
  <2> HIDE DEF S
  <2> QED
    BY <2>1, <2>2, <2>3, <2>4, <2>5, <2>6, <2>7, <2>8, <2>9, <2>10, <2>11, <2>12,
       <2>13
<1>k. /\ LinksSteps \in Others
      /\ AssignmentsSteps \in Others
      /\ FilesSteps \in Others
      /\ MarksSteps \in Others
      /\ GradesSteps \in Others
      /\ AttendanceSteps \in Others
      /\ EnrollmentsSteps \in Others
      /\ QuestionsSteps \in Others
      /\ ExamsSteps \in Others
      /\ DecisionsSteps \in Others
      /\ LearningSteps \in Others
      /\ OrganizationsSteps \in Others
      /\ CalendarSteps \in Others
  OBVIOUS
<1> HIDE DEF Same, S, Others
<1>1. ASSUME NEW h \in Handler, Operate(h)
      PROVE  HandleSubmit(h) \/ HandleAssess(h) \/ (Same /\ Unentered(S))
  <2>1. \/ HandleSubmit(h) \/ HandleAssess(h)
        \/ Same /\ HandleLink(h)
        \/ Same /\ HandleAssignment(h)
        \/ Same /\ HandleFile(h)
        \/ Same /\ HandleMark(h)
        \/ Same /\ HandleGrade(h)
        \/ Same /\ HandleAttendance(h)
        \/ Same /\ HandleEnrollment(h)
        \/ Same /\ HandleQuestion(h)
        \/ Same /\ HandleExam(h)
        \/ Same /\ HandleDecision(h)
        \/ Same /\ HandleLearning(h)
        \/ Same /\ HandleOrganization(h)
        \/ Same /\ HandleCalendar(h)
    BY <1>1, AssignmentsKeepWork, LinksKeepWorks DEF Same, Operate, CourseworkHandler, HandleSubmission, HandleSetup,
       vars, requests, courseTables, tables, work, markTables, gradeTables,
       attendanceTables, rollTables, setupTables, bankTables, decisionTables,
       catalogTables, learningTables, institutionTables
  <2>2. ASSUME ~(HandleSubmit(h) \/ HandleAssess(h)) PROVE Same /\ Unentered(S)
    <3>1. \E T \in Others : Moves(h, T)
      BY <1>k, <2>1, <2>2, LinksMove, AssignmentsMove, FilesMove, MarksMove,
         GradesMove, AttendanceMove, EnrollmentsMove, QuestionsMove, ExamsMove,
         DecisionsMove, LearningMove, OrganizationsMove, CalendarMove
    <3> QED
      BY <3>1, <2>1, <2>2, <1>0, MovesUnentered
  <2> QED
    BY <2>2
<1>2. ASSUME NEW h \in Handler, LoseRequest(h)
      PROVE  Same /\ Unentered(S)
  <2>1. Same
    BY <1>2 DEF Same, LoseRequest, LoseDecision,
       vars, requests, courseTables, tables, work, markTables, gradeTables,
       attendanceTables, rollTables, setupTables, bankTables, decisionTables,
       catalogTables, learningTables, institutionTables
  <2>2. S \cap ({} \cup {"idle"}) = {}
    BY DEF S, SubmitsSteps, AssessSteps
  <2> QED
    BY <1>2, <2>1, <2>2, LossMoves, MovesUnentered
<1>3. CASE Outside
  <2>1. Same
    BY <1>3 DEF Same, Outside, CourseworkOutside, CreateLesson, InitiateUpload, PutObject, Sit,
       SaveAnswer, CloseAttempt, DecisionsOutside, Evaluate, Supersede,
       vars, requests, courseTables, tables, work, markTables, gradeTables,
       attendanceTables, rollTables, setupTables, bankTables, decisionTables,
       catalogTables, learningTables, institutionTables
  <2> QED
    BY <1>3, <2>1, OutsideMoves DEF Unentered, Same, S
<1>4. CASE UNCHANGED vars
  BY <1>4 DEF Same, Unentered, Unleft, vars, requests, courseTables, tables, work, markTables, gradeTables,
       attendanceTables, rollTables, setupTables, bankTables, decisionTables,
       catalogTables, learningTables, institutionTables
<1> USE DEF Same, S
<1> QED
  BY <1>1, <1>2, <1>3, <1>4 DEF Next

\* What any step of the whole does to enrolled.
LEMMA EnrollmentsElse ==
    ASSUME Steppable, [Next]_vars
    PROVE  \/ \E h \in Handler : HandleEnrollment(h)
           \/ UNCHANGED enrolled /\ Unentered(EnrollmentsSteps)
<1> DEFINE S    == EnrollmentsSteps
           Same == UNCHANGED enrolled
           Others == {SubmitsSteps, LinksSteps, AssessSteps, AssignmentsSteps,
                      FilesSteps, MarksSteps, GradesSteps, AttendanceSteps,
                      QuestionsSteps, ExamsSteps, DecisionsSteps, LearningSteps,
                      OrganizationsSteps, CalendarSteps}
<1>0. \A T \in Others : S \cap (T \cup {"idle"}) = {}
  <2>1. S \cap (SubmitsSteps \cup {"idle"}) = {}
    BY DEF EnrollmentsSteps, SubmitsSteps
  <2>2. S \cap (LinksSteps \cup {"idle"}) = {}
    BY DEF EnrollmentsSteps, LinksSteps
  <2>3. S \cap (AssessSteps \cup {"idle"}) = {}
    BY DEF EnrollmentsSteps, AssessSteps
  <2>4. S \cap (AssignmentsSteps \cup {"idle"}) = {}
    BY DEF EnrollmentsSteps, AssignmentsSteps
  <2>5. S \cap (FilesSteps \cup {"idle"}) = {}
    BY DEF EnrollmentsSteps, FilesSteps
  <2>6. S \cap (MarksSteps \cup {"idle"}) = {}
    BY DEF EnrollmentsSteps, MarksSteps
  <2>7. S \cap (GradesSteps \cup {"idle"}) = {}
    BY DEF EnrollmentsSteps, GradesSteps
  <2>8. S \cap (AttendanceSteps \cup {"idle"}) = {}
    BY DEF EnrollmentsSteps, AttendanceSteps
  <2>9. S \cap (QuestionsSteps \cup {"idle"}) = {}
    BY DEF EnrollmentsSteps, QuestionsSteps
  <2>10. S \cap (ExamsSteps \cup {"idle"}) = {}
    BY DEF EnrollmentsSteps, ExamsSteps
  <2>11. S \cap (DecisionsSteps \cup {"idle"}) = {}
    BY DEF EnrollmentsSteps, DecisionsSteps
  <2>12. S \cap (LearningSteps \cup {"idle"}) = {}
    BY DEF EnrollmentsSteps, LearningSteps
  <2>13. S \cap (OrganizationsSteps \cup {"idle"}) = {}
    BY DEF EnrollmentsSteps, OrganizationsSteps
  <2>14. S \cap (CalendarSteps \cup {"idle"}) = {}
    BY DEF EnrollmentsSteps, CalendarSteps
  <2> HIDE DEF S
  <2> QED
    BY <2>1, <2>2, <2>3, <2>4, <2>5, <2>6, <2>7, <2>8, <2>9, <2>10, <2>11, <2>12,
       <2>13, <2>14
<1>k. /\ SubmitsSteps \in Others
      /\ LinksSteps \in Others
      /\ AssessSteps \in Others
      /\ AssignmentsSteps \in Others
      /\ FilesSteps \in Others
      /\ MarksSteps \in Others
      /\ GradesSteps \in Others
      /\ AttendanceSteps \in Others
      /\ QuestionsSteps \in Others
      /\ ExamsSteps \in Others
      /\ DecisionsSteps \in Others
      /\ LearningSteps \in Others
      /\ OrganizationsSteps \in Others
      /\ CalendarSteps \in Others
  OBVIOUS
<1> HIDE DEF Same, S, Others
<1>1. ASSUME NEW h \in Handler, Operate(h)
      PROVE  HandleEnrollment(h) \/ (Same /\ Unentered(S))
  <2>1. \/ HandleEnrollment(h)
        \/ Same /\ HandleSubmit(h)
        \/ Same /\ HandleLink(h)
        \/ Same /\ HandleAssess(h)
        \/ Same /\ HandleAssignment(h)
        \/ Same /\ HandleFile(h)
        \/ Same /\ HandleMark(h)
        \/ Same /\ HandleGrade(h)
        \/ Same /\ HandleAttendance(h)
        \/ Same /\ HandleQuestion(h)
        \/ Same /\ HandleExam(h)
        \/ Same /\ HandleDecision(h)
        \/ Same /\ HandleLearning(h)
        \/ Same /\ HandleOrganization(h)
        \/ Same /\ HandleCalendar(h)
    BY <1>1, AttendanceKeepsEnrollments DEF Same, Operate, CourseworkHandler, HandleSubmission, HandleSetup,
       vars, requests, courseTables, tables, work, markTables, gradeTables,
       attendanceTables, rollTables, setupTables, bankTables, decisionTables,
       catalogTables, learningTables, institutionTables
  <2>2. ASSUME ~(HandleEnrollment(h)) PROVE Same /\ Unentered(S)
    <3>1. \E T \in Others : Moves(h, T)
      BY <1>k, <2>1, <2>2, SubmitsMove, LinksMove, AssessMove, AssignmentsMove,
         FilesMove, MarksMove, GradesMove, AttendanceMove, QuestionsMove,
         ExamsMove, DecisionsMove, LearningMove, OrganizationsMove, CalendarMove
    <3> QED
      BY <3>1, <2>1, <2>2, <1>0, MovesUnentered
  <2> QED
    BY <2>2
<1>2. ASSUME NEW h \in Handler, LoseRequest(h)
      PROVE  Same /\ Unentered(S)
  <2>1. Same
    BY <1>2 DEF Same, LoseRequest, LoseDecision,
       vars, requests, courseTables, tables, work, markTables, gradeTables,
       attendanceTables, rollTables, setupTables, bankTables, decisionTables,
       catalogTables, learningTables, institutionTables
  <2>2. S \cap ({} \cup {"idle"}) = {}
    BY DEF S, EnrollmentsSteps
  <2> QED
    BY <1>2, <2>1, <2>2, LossMoves, MovesUnentered
<1>3. CASE Outside
  <2>1. Same
    BY <1>3 DEF Same, Outside, CourseworkOutside, CreateLesson, InitiateUpload, PutObject, Sit,
       SaveAnswer, CloseAttempt, DecisionsOutside, Evaluate, Supersede,
       vars, requests, courseTables, tables, work, markTables, gradeTables,
       attendanceTables, rollTables, setupTables, bankTables, decisionTables,
       catalogTables, learningTables, institutionTables
  <2> QED
    BY <1>3, <2>1, OutsideMoves DEF Unentered, Same, S
<1>4. CASE UNCHANGED vars
  BY <1>4 DEF Same, Unentered, Unleft, vars, requests, courseTables, tables, work, markTables, gradeTables,
       attendanceTables, rollTables, setupTables, bankTables, decisionTables,
       catalogTables, learningTables, institutionTables
<1> USE DEF Same, S
<1> QED
  BY <1>1, <1>2, <1>3, <1>4 DEF Next

\* What any step of the whole does to bankTables.
LEMMA QuestionsElse ==
    ASSUME Steppable, [Next]_vars
    PROVE  \/ \E h \in Handler : HandleQuestion(h)
           \/ UNCHANGED bankTables /\ Unentered(QuestionsSteps)
<1> DEFINE S    == QuestionsSteps
           Same == UNCHANGED bankTables
           Others == {SubmitsSteps, LinksSteps, AssessSteps, AssignmentsSteps,
                      FilesSteps, MarksSteps, GradesSteps, AttendanceSteps,
                      EnrollmentsSteps, ExamsSteps, DecisionsSteps, LearningSteps,
                      OrganizationsSteps, CalendarSteps}
<1>0. \A T \in Others : S \cap (T \cup {"idle"}) = {}
  <2>1. S \cap (SubmitsSteps \cup {"idle"}) = {}
    BY DEF QuestionsSteps, SubmitsSteps
  <2>2. S \cap (LinksSteps \cup {"idle"}) = {}
    BY DEF QuestionsSteps, LinksSteps
  <2>3. S \cap (AssessSteps \cup {"idle"}) = {}
    BY DEF QuestionsSteps, AssessSteps
  <2>4. S \cap (AssignmentsSteps \cup {"idle"}) = {}
    BY DEF QuestionsSteps, AssignmentsSteps
  <2>5. S \cap (FilesSteps \cup {"idle"}) = {}
    BY DEF QuestionsSteps, FilesSteps
  <2>6. S \cap (MarksSteps \cup {"idle"}) = {}
    BY DEF QuestionsSteps, MarksSteps
  <2>7. S \cap (GradesSteps \cup {"idle"}) = {}
    BY DEF QuestionsSteps, GradesSteps
  <2>8. S \cap (AttendanceSteps \cup {"idle"}) = {}
    BY DEF QuestionsSteps, AttendanceSteps
  <2>9. S \cap (EnrollmentsSteps \cup {"idle"}) = {}
    BY DEF QuestionsSteps, EnrollmentsSteps
  <2>10. S \cap (ExamsSteps \cup {"idle"}) = {}
    BY DEF QuestionsSteps, ExamsSteps
  <2>11. S \cap (DecisionsSteps \cup {"idle"}) = {}
    BY DEF QuestionsSteps, DecisionsSteps
  <2>12. S \cap (LearningSteps \cup {"idle"}) = {}
    BY DEF QuestionsSteps, LearningSteps
  <2>13. S \cap (OrganizationsSteps \cup {"idle"}) = {}
    BY DEF QuestionsSteps, OrganizationsSteps
  <2>14. S \cap (CalendarSteps \cup {"idle"}) = {}
    BY DEF QuestionsSteps, CalendarSteps
  <2> HIDE DEF S
  <2> QED
    BY <2>1, <2>2, <2>3, <2>4, <2>5, <2>6, <2>7, <2>8, <2>9, <2>10, <2>11, <2>12,
       <2>13, <2>14
<1>k. /\ SubmitsSteps \in Others
      /\ LinksSteps \in Others
      /\ AssessSteps \in Others
      /\ AssignmentsSteps \in Others
      /\ FilesSteps \in Others
      /\ MarksSteps \in Others
      /\ GradesSteps \in Others
      /\ AttendanceSteps \in Others
      /\ EnrollmentsSteps \in Others
      /\ ExamsSteps \in Others
      /\ DecisionsSteps \in Others
      /\ LearningSteps \in Others
      /\ OrganizationsSteps \in Others
      /\ CalendarSteps \in Others
  OBVIOUS
<1> HIDE DEF Same, S, Others
<1>1. ASSUME NEW h \in Handler, Operate(h)
      PROVE  HandleQuestion(h) \/ (Same /\ Unentered(S))
  <2>1. \/ HandleQuestion(h)
        \/ Same /\ HandleSubmit(h)
        \/ Same /\ HandleLink(h)
        \/ Same /\ HandleAssess(h)
        \/ Same /\ HandleAssignment(h)
        \/ Same /\ HandleFile(h)
        \/ Same /\ HandleMark(h)
        \/ Same /\ HandleGrade(h)
        \/ Same /\ HandleAttendance(h)
        \/ Same /\ HandleEnrollment(h)
        \/ Same /\ HandleExam(h)
        \/ Same /\ HandleDecision(h)
        \/ Same /\ HandleLearning(h)
        \/ Same /\ HandleOrganization(h)
        \/ Same /\ HandleCalendar(h)
    BY <1>1, ExamsKeepQuestions DEF Same, Operate, CourseworkHandler, HandleSubmission, HandleSetup,
       vars, requests, courseTables, tables, work, markTables, gradeTables,
       attendanceTables, rollTables, setupTables, bankTables, decisionTables,
       catalogTables, learningTables, institutionTables
  <2>2. ASSUME ~(HandleQuestion(h)) PROVE Same /\ Unentered(S)
    <3>1. \E T \in Others : Moves(h, T)
      BY <1>k, <2>1, <2>2, SubmitsMove, LinksMove, AssessMove, AssignmentsMove,
         FilesMove, MarksMove, GradesMove, AttendanceMove, EnrollmentsMove,
         ExamsMove, DecisionsMove, LearningMove, OrganizationsMove, CalendarMove
    <3> QED
      BY <3>1, <2>1, <2>2, <1>0, MovesUnentered
  <2> QED
    BY <2>2
<1>2. ASSUME NEW h \in Handler, LoseRequest(h)
      PROVE  Same /\ Unentered(S)
  <2>1. Same
    BY <1>2 DEF Same, LoseRequest, LoseDecision,
       vars, requests, courseTables, tables, work, markTables, gradeTables,
       attendanceTables, rollTables, setupTables, bankTables, decisionTables,
       catalogTables, learningTables, institutionTables
  <2>2. S \cap ({} \cup {"idle"}) = {}
    BY DEF S, QuestionsSteps
  <2> QED
    BY <1>2, <2>1, <2>2, LossMoves, MovesUnentered
<1>3. CASE Outside
  <2>1. Same
    BY <1>3 DEF Same, Outside, CourseworkOutside, CreateLesson, InitiateUpload, PutObject, Sit,
       SaveAnswer, CloseAttempt, DecisionsOutside, Evaluate, Supersede,
       vars, requests, courseTables, tables, work, markTables, gradeTables,
       attendanceTables, rollTables, setupTables, bankTables, decisionTables,
       catalogTables, learningTables, institutionTables
  <2> QED
    BY <1>3, <2>1, OutsideMoves DEF Unentered, Same, S
<1>4. CASE UNCHANGED vars
  BY <1>4 DEF Same, Unentered, Unleft, vars, requests, courseTables, tables, work, markTables, gradeTables,
       attendanceTables, rollTables, setupTables, bankTables, decisionTables,
       catalogTables, learningTables, institutionTables
<1> USE DEF Same, S
<1> QED
  BY <1>1, <1>2, <1>3, <1>4 DEF Next

\* HandleSubmit is only at these steps.
LEMMA SubmitsFrom ==
    ASSUME NEW h, HandleSubmit(h)
    PROVE  handler[h].step \in SubmitsSteps \cup {"idle"}
BY DEF HandleSubmit, BeginSubmit, FindLatest, CheckLimit, BeginDraft, FindDraft,
       CountFiles, ReadNumber, CreateSubmission, UpdateSubmission, BeginEdit, At,
       Receive, SubmitsSteps

\* HandleLink is only at these steps.
LEMMA LinksFrom ==
    ASSUME NEW h, HandleLink(h)
    PROVE  handler[h].step \in LinksSteps \cup {"idle"}
BY DEF HandleLink, BeginFiles, ReadFile, FindLink, Attach, Detach, At, Receive,
       LinksSteps

\* HandleAssess is only at these steps.
LEMMA AssessFrom ==
    ASSUME NEW h, HandleAssess(h)
    PROVE  handler[h].step \in AssessSteps \cup {"idle"}
BY DEF HandleAssess, BeginGrade, ReadCeiling, UpsertGrade, Mark, BeginReturn, At,
       Receive, AssessSteps

\* HandleAssignment is only at these steps.
LEMMA AssignmentsFrom ==
    ASSUME NEW h, HandleAssignment(h)
    PROVE  handler[h].step \in AssignmentsSteps \cup {"idle"}
BY DEF HandleAssignment, BeginStatus, WriteStatus, BeginUpdate, ListForCeiling,
       CheckGrade, CountRecorded, WriteUpdate, At, Receive, AssignmentsSteps

\* HandleFile is only at these steps.
LEMMA FilesFrom ==
    ASSUME NEW h, HandleFile(h)
    PROVE  handler[h].step \in FilesSteps \cup {"idle"}
BY DEF HandleFile, BeginComplete, HeadObject, Confirm, BeginMove, MoveFile, At,
       Receive, FilesSteps

\* HandleMark is only at these steps.
LEMMA MarksFrom ==
    ASSUME NEW h, HandleMark(h)
    PROVE  handler[h].step \in MarksSteps \cup {"idle"}
BY DEF HandleMark, BeginAutoGrade, BeginManualGrade, UpsertMark, SumMarks,
       CommitMarks, At, Receive, MarksSteps

\* HandleGrade is only at these steps.
LEMMA GradesFrom ==
    ASSUME NEW h, HandleGrade(h)
    PROVE  handler[h].step \in GradesSteps \cup {"idle"}
BY DEF HandleGrade, BeginComponent, CheckComponent, CreateComponent,
       BeginCalculate, BeginRecalculate, ReadScheme, ReadSubmissions, ReadAttempts,
       FindGrade, StoreGrade, BeginApproveGrade, BeginReopenGrade,
       UpdateGradeStatus, At, Receive, GradesSteps

\* HandleAttendance is only at these steps.
LEMMA AttendanceFrom ==
    ASSUME NEW h, HandleAttendance(h)
    PROVE  handler[h].step \in AttendanceSteps \cup {"idle"}
BY DEF HandleAttendance, BeginLessonStatus, SetLessonStatus, BeginRoll,
       CheckEnrollments, RecordRoll, BeginCorrection, ApplyCorrection,
       BeginRefresh, ReadClassRows, ReadPlace, ReadLessons, ReadMembers,
       ReadRecords, StoreSummary, SkipSummary, At, Receive, AttendanceSteps

\* HandleEnrollment is only at these steps.
LEMMA EnrollmentsFrom ==
    ASSUME NEW h, HandleEnrollment(h)
    PROVE  handler[h].step \in EnrollmentsSteps \cup {"idle"}
BY DEF HandleEnrollment, BeginEnroll, CreateEnrollment, BeginEnrollmentStatus,
       SetEnrollmentStatus, BeginTransfer, Transfer, At, Receive, EnrollmentsSteps

\* HandleQuestion is only at these steps.
LEMMA QuestionsFrom ==
    ASSUME NEW h, HandleQuestion(h)
    PROVE  handler[h].step \in QuestionsSteps \cup {"idle"}
BY DEF HandleQuestion, BeginQuestion, CreateQuestion, BeginItemStatus,
       SetItemStatus, BeginKind, SetKind, BeginVersion, CreateVersion,
       BeginRewrite, UpdateDraft, BeginPublish, CheckPublishable, FindPublished,
       SupersedeAndPublish, At, Receive, QuestionsSteps

\* HandleExam is only at these steps.
LEMMA ExamsFrom ==
    ASSUME NEW h, HandleExam(h)
    PROVE  handler[h].step \in ExamsSteps \cup {"idle"}
BY DEF HandleExam, BeginSetting, SetSetting, BeginBlueprint, SaveBlueprint,
       BeginExamStatus, CountPool, SetExamStatus, BeginSessionStatus,
       SetSessionStatus, BeginSeat, AddParticipant, At, Receive, ExamsSteps

\* HandleLearning is only at these steps.
LEMMA LearningFrom ==
    ASSUME NEW h, HandleLearning(h)
    PROVE  handler[h].step \in LearningSteps \cup {"idle"}
<1>1. ASSUME BeginActivityStatus(h) \/ BeginActivityEdit(h) PROVE At(h, "idle")
  BY <1>1, EditAmends DEF Amend, Receive
<1>3. ASSUME AskType(h) \/ AskMeeting(h) \/ AskContents(h) \/ AskPlace(h) \/ ChangeActivity(h)
      PROVE  At(h, "change")
  BY <1>3 DEF AskType, AskMeeting, AskContents, AskPlace, ChangeActivity, Turn
<1>2. "change" \in LearningSteps
  BY DEF LearningSteps
<1> QED
  BY <1>1, <1>2, <1>3
  DEF HandleLearning, BeginMeeting, SetMeeting, BeginActivityType, CountLive,
      SetActivityType, BeginActivity, ChoosePlace, CreateActivity, CheckGate,
      BeginReorder, Reorder, BeginMaterial, CreateMaterial, BeginMaterialStatus,
      CheckVersionState, SetMaterialStatus, BeginMaterialVersion, ReadLastVersion,
      ReadPublishedVersion, CreateMaterialVersion, BeginProgress, ReadProgress,
      SaveProgress, ReadCounts, StoreAggregate, At, Receive, LearningSteps

\* HandleOrganization is only at these steps.
LEMMA OrganizationsFrom ==
    ASSUME NEW h, HandleOrganization(h)
    PROVE  handler[h].step \in OrganizationsSteps \cup {"idle"}
BY DEF HandleOrganization, BeginOrganization, CreateOrganization, BeginReparent,
       ReadAncestor, Reparent, At, Receive, OrganizationsSteps

\* HandleCalendar is only at these steps.
LEMMA CalendarFrom ==
    ASSUME NEW h, HandleCalendar(h)
    PROVE  handler[h].step \in CalendarSteps \cup {"idle"}
BY DEF HandleCalendar, BeginBooking, CheckDuplicate, BeginRebooking, BeginEnd,
       CheckOverlap, Book, At, Receive, CalendarSteps

\* What any step of the whole does to decisionTables.
LEMMA DecisionsElse ==
    ASSUME Steppable, [Next]_vars
    PROVE  \/ \E h \in Handler : HandleDecision(h) \/ LoseDecision(h)
           \/ DecisionsOutside /\ UNCHANGED handler
           \/ UNCHANGED decisionTables /\ Unentered(DecisionsSteps) /\ Unleft(DecisionsSteps)
<1> DEFINE S    == DecisionsSteps
           Same == UNCHANGED decisionTables
           Others == {SubmitsSteps, LinksSteps, AssessSteps, AssignmentsSteps,
                      FilesSteps, MarksSteps, GradesSteps, AttendanceSteps,
                      EnrollmentsSteps, QuestionsSteps, ExamsSteps, LearningSteps,
                      OrganizationsSteps, CalendarSteps}
<1>0. \A T \in Others : S \cap (T \cup {"idle"}) = {}
  <2>1. S \cap (SubmitsSteps \cup {"idle"}) = {}
    BY DEF DecisionsSteps, SubmitsSteps
  <2>2. S \cap (LinksSteps \cup {"idle"}) = {}
    BY DEF DecisionsSteps, LinksSteps
  <2>3. S \cap (AssessSteps \cup {"idle"}) = {}
    BY DEF DecisionsSteps, AssessSteps
  <2>4. S \cap (AssignmentsSteps \cup {"idle"}) = {}
    BY DEF DecisionsSteps, AssignmentsSteps
  <2>5. S \cap (FilesSteps \cup {"idle"}) = {}
    BY DEF DecisionsSteps, FilesSteps
  <2>6. S \cap (MarksSteps \cup {"idle"}) = {}
    BY DEF DecisionsSteps, MarksSteps
  <2>7. S \cap (GradesSteps \cup {"idle"}) = {}
    BY DEF DecisionsSteps, GradesSteps
  <2>8. S \cap (AttendanceSteps \cup {"idle"}) = {}
    BY DEF DecisionsSteps, AttendanceSteps
  <2>9. S \cap (EnrollmentsSteps \cup {"idle"}) = {}
    BY DEF DecisionsSteps, EnrollmentsSteps
  <2>10. S \cap (QuestionsSteps \cup {"idle"}) = {}
    BY DEF DecisionsSteps, QuestionsSteps
  <2>11. S \cap (ExamsSteps \cup {"idle"}) = {}
    BY DEF DecisionsSteps, ExamsSteps
  <2>12. S \cap (LearningSteps \cup {"idle"}) = {}
    BY DEF DecisionsSteps, LearningSteps
  <2>13. S \cap (OrganizationsSteps \cup {"idle"}) = {}
    BY DEF DecisionsSteps, OrganizationsSteps
  <2>14. S \cap (CalendarSteps \cup {"idle"}) = {}
    BY DEF DecisionsSteps, CalendarSteps
  <2> HIDE DEF S
  <2> QED
    BY <2>1, <2>2, <2>3, <2>4, <2>5, <2>6, <2>7, <2>8, <2>9, <2>10, <2>11, <2>12,
       <2>13, <2>14
<1>k. /\ SubmitsSteps \in Others
      /\ LinksSteps \in Others
      /\ AssessSteps \in Others
      /\ AssignmentsSteps \in Others
      /\ FilesSteps \in Others
      /\ MarksSteps \in Others
      /\ GradesSteps \in Others
      /\ AttendanceSteps \in Others
      /\ EnrollmentsSteps \in Others
      /\ QuestionsSteps \in Others
      /\ ExamsSteps \in Others
      /\ LearningSteps \in Others
      /\ OrganizationsSteps \in Others
      /\ CalendarSteps \in Others
  OBVIOUS
<1> HIDE DEF Same, S, Others
<1>1. ASSUME NEW h \in Handler, Operate(h)
      PROVE  HandleDecision(h) \/ (Same /\ Unentered(S) /\ Unleft(S))
  <2>1. \/ HandleDecision(h)
        \/ Same /\ HandleSubmit(h)
        \/ Same /\ HandleLink(h)
        \/ Same /\ HandleAssess(h)
        \/ Same /\ HandleAssignment(h)
        \/ Same /\ HandleFile(h)
        \/ Same /\ HandleMark(h)
        \/ Same /\ HandleGrade(h)
        \/ Same /\ HandleAttendance(h)
        \/ Same /\ HandleEnrollment(h)
        \/ Same /\ HandleQuestion(h)
        \/ Same /\ HandleExam(h)
        \/ Same /\ HandleLearning(h)
        \/ Same /\ HandleOrganization(h)
        \/ Same /\ HandleCalendar(h)
    BY <1>1 DEF Same, Operate, CourseworkHandler, HandleSubmission, HandleSetup,
       vars, requests, courseTables, tables, work, markTables, gradeTables,
       attendanceTables, rollTables, setupTables, bankTables, decisionTables,
       catalogTables, learningTables, institutionTables
  <2>2. ASSUME ~(HandleDecision(h)) PROVE Same /\ Unentered(S) /\ Unleft(S)
    <3>1. \E T \in Others : Moves(h, T) /\ handler[h].step \in T \cup {"idle"}
      BY <1>k, <2>1, <2>2, SubmitsMove, LinksMove, AssessMove, AssignmentsMove,
         FilesMove, MarksMove, GradesMove, AttendanceMove, EnrollmentsMove,
         QuestionsMove, ExamsMove, LearningMove, OrganizationsMove, CalendarMove,
         SubmitsFrom, LinksFrom, AssessFrom, AssignmentsFrom, FilesFrom, MarksFrom,
         GradesFrom, AttendanceFrom, EnrollmentsFrom, QuestionsFrom, ExamsFrom,
         LearningFrom, OrganizationsFrom, CalendarFrom
    <3> QED
      BY <3>1, <2>1, <2>2, <1>0, MovesUnentered, MovesUnleft
  <2> QED
    BY <2>2
<1>2. ASSUME NEW h \in Handler, LoseRequest(h)
      PROVE  LoseDecision(h)
  BY <1>2 DEF LoseRequest
<1>3. CASE Outside
  <2>1. DecisionsOutside \/ Same
    BY <1>3 DEF Same, Outside, CourseworkOutside, CreateLesson,
       vars, requests, courseTables, tables, work, markTables, gradeTables,
       attendanceTables, rollTables, setupTables, bankTables, decisionTables,
       catalogTables, learningTables, institutionTables
  <2> QED
    BY <1>3, <2>1, OutsideMoves DEF Unentered, Same, S, Unleft
<1>4. CASE UNCHANGED vars
  BY <1>4 DEF Same, Unentered, Unleft, vars, requests, courseTables, tables, work, markTables, gradeTables,
       attendanceTables, rollTables, setupTables, bankTables, decisionTables,
       catalogTables, learningTables, institutionTables
<1> USE DEF Same, S
<1> QED
  BY <1>1, <1>2, <1>3, <1>4 DEF Next

-----------------------------------------------------------------------------
(* Crossed requests *)

\* The mix of calls stays, and a request that another one has crossed, and that stays as
\* it is, stays crossed; only requests that were in flight, and go on, are crossed then.
Undisturbed ==
    /\ calls' = calls
    /\ \A g \in crossed \cap InFlight : handler'[g] = handler[g] => g \in crossed'
    /\ crossed \subseteq InFlight =>
          \A g \in crossed' : g \in InFlight /\ handler'[g] # Idle

\* A read, whatever slot it moves, uncrosses no other.
LEMMA ReadsCross ==
    ASSUME Steppable, NEW h \in Handler, NEW m, Reads(h, m)
    PROVE  Undisturbed
BY DEF Steppable, Reads, Undisturbed, InFlight, At, Idle

\* A commit crosses every other request in flight.
LEMMA CommitsCross ==
    ASSUME Steppable, NEW h \in Handler, NEW m, Commits(h, m)
    PROVE  Undisturbed
BY DEF Steppable, Commits, Undisturbed, InFlight, At, Idle

\* HandleSubmit uncrosses nobody else.
LEMMA SubmitsCross ==
    ASSUME Steppable, NEW h \in Handler, HandleSubmit(h)
    PROVE  Undisturbed
BY ReadsCross, CommitsCross
   DEF HandleSubmit, BeginSubmit, FindLatest, CheckLimit, BeginDraft, FindDraft,
       CountFiles, ReadNumber, CreateSubmission, UpdateSubmission, BeginEdit,
       Receive, Goto, Finish, Commit

\* HandleLink uncrosses nobody else.
LEMMA LinksCross ==
    ASSUME Steppable, NEW h \in Handler, HandleLink(h)
    PROVE  Undisturbed
BY ReadsCross, CommitsCross
   DEF HandleLink, BeginFiles, ReadFile, FindLink, Attach, Detach, Receive,
       Goto, Finish, Commit

\* HandleAssess uncrosses nobody else.
LEMMA AssessCross ==
    ASSUME Steppable, NEW h \in Handler, HandleAssess(h)
    PROVE  Undisturbed
BY ReadsCross, CommitsCross
   DEF HandleAssess, BeginGrade, ReadCeiling, UpsertGrade, Mark, BeginReturn,
       Receive, Goto, Finish, Commit

\* HandleAssignment uncrosses nobody else.
LEMMA AssignmentsCross ==
    ASSUME Steppable, NEW h \in Handler, HandleAssignment(h)
    PROVE  Undisturbed
BY ReadsCross, CommitsCross
   DEF HandleAssignment, BeginStatus, WriteStatus, BeginUpdate, ListForCeiling,
       CheckGrade, CountRecorded, WriteUpdate, LookAt, Receive, Goto, Finish,
       Commit

\* HandleFile uncrosses nobody else.
LEMMA FilesCross ==
    ASSUME Steppable, NEW h \in Handler, HandleFile(h)
    PROVE  Undisturbed
BY ReadsCross, CommitsCross
   DEF HandleFile, BeginComplete, HeadObject, Confirm, BeginMove, MoveFile,
       Receive, Goto, Finish, Commit

\* HandleMark uncrosses nobody else.
LEMMA MarksCross ==
    ASSUME Steppable, NEW h \in Handler, HandleMark(h)
    PROVE  Undisturbed
BY ReadsCross, CommitsCross
   DEF HandleMark, BeginAutoGrade, BeginManualGrade, UpsertMark, SumMarks,
       CommitMarks, Receive, Goto, Finish, Commit

\* HandleGrade uncrosses nobody else.
LEMMA GradesCross ==
    ASSUME Steppable, NEW h \in Handler, HandleGrade(h)
    PROVE  Undisturbed
BY ReadsCross, CommitsCross
   DEF HandleGrade, BeginComponent, CheckComponent, CreateComponent,
       BeginCalculate, BeginRecalculate, ReadScheme, ReadSubmissions,
       ReadAttempts, FindGrade, StoreGrade, BeginApproveGrade, BeginReopenGrade,
       UpdateGradeStatus, Receive, Goto, Finish, Commit

\* HandleAttendance uncrosses nobody else.
LEMMA AttendanceCross ==
    ASSUME Steppable, NEW h \in Handler, HandleAttendance(h)
    PROVE  Undisturbed
BY ReadsCross, CommitsCross
   DEF HandleAttendance, BeginLessonStatus, SetLessonStatus, BeginRoll,
       CheckEnrollments, RecordRoll, BeginCorrection, ApplyCorrection,
       BeginRefresh, ReadClassRows, ReadPlace, ReadLessons, ReadMembers,
       ReadRecords, StoreSummary, SkipSummary, Receive, Goto, Finish, Commit

\* HandleEnrollment uncrosses nobody else.
LEMMA EnrollmentsCross ==
    ASSUME Steppable, NEW h \in Handler, HandleEnrollment(h)
    PROVE  Undisturbed
BY ReadsCross, CommitsCross
   DEF HandleEnrollment, BeginEnroll, CreateEnrollment, BeginEnrollmentStatus,
       SetEnrollmentStatus, BeginTransfer, Transfer, Receive, Goto, Finish,
       Commit

\* HandleQuestion uncrosses nobody else.
LEMMA QuestionsCross ==
    ASSUME Steppable, NEW h \in Handler, HandleQuestion(h)
    PROVE  Undisturbed
BY ReadsCross, CommitsCross
   DEF HandleQuestion, BeginQuestion, CreateQuestion, BeginItemStatus,
       SetItemStatus, BeginKind, SetKind, BeginVersion, CreateVersion,
       BeginRewrite, UpdateDraft, BeginPublish, CheckPublishable, FindPublished,
       SupersedeAndPublish, Receive, Goto, Finish, Commit

\* HandleExam uncrosses nobody else.
LEMMA ExamsCross ==
    ASSUME Steppable, NEW h \in Handler, HandleExam(h)
    PROVE  Undisturbed
BY ReadsCross, CommitsCross
   DEF HandleExam, BeginSetting, SetSetting, BeginBlueprint, SaveBlueprint,
       BeginExamStatus, CountPool, SetExamStatus, BeginSessionStatus,
       SetSessionStatus, BeginSeat, AddParticipant, Receive, Goto, Finish,
       Commit

\* HandleLearning uncrosses nobody else.
LEMMA LearningCross ==
    ASSUME Steppable, NEW h \in Handler, HandleLearning(h)
    PROVE  Undisturbed
<1>1. CASE BeginActivityStatus(h)
  BY <1>1, EditAmends, ReadsCross DEF Amend, Receive
<1>2. CASE BeginActivityEdit(h)
  BY <1>2, EditAmends, ReadsCross DEF Amend, Receive
<1>3. CASE AskType(h) \/ AskMeeting(h) \/ AskContents(h) \/ AskPlace(h) \/ ChangeActivity(h)
  BY <1>3, ReadsCross, CommitsCross
  DEF AskType, AskMeeting, AskContents, AskPlace, ChangeActivity, Learned, Finish, Commit
<1> QED
  BY <1>1, <1>2, <1>3, ReadsCross, CommitsCross
  DEF HandleLearning, BeginMeeting, SetMeeting, BeginActivityType, CountLive,
      SetActivityType, BeginActivity, ChoosePlace, CreateActivity, CheckGate,
      BeginReorder, Reorder, BeginMaterial, CreateMaterial,
      BeginMaterialStatus, CheckVersionState, SetMaterialStatus,
      BeginMaterialVersion, ReadLastVersion, ReadPublishedVersion,
      CreateMaterialVersion, BeginProgress, ReadProgress, SaveProgress,
      ReadCounts, StoreAggregate, Receive, Goto, Finish, Commit

\* HandleOrganization uncrosses nobody else.
LEMMA OrganizationsCross ==
    ASSUME Steppable, NEW h \in Handler, HandleOrganization(h)
    PROVE  Undisturbed
BY ReadsCross, CommitsCross
   DEF HandleOrganization, BeginOrganization, CreateOrganization, BeginReparent,
       ReadAncestor, Reparent, Receive, Goto, Finish, Commit

\* HandleCalendar uncrosses nobody else.
LEMMA CalendarCross ==
    ASSUME Steppable, NEW h \in Handler, HandleCalendar(h)
    PROVE  Undisturbed
BY ReadsCross, CommitsCross
   DEF HandleCalendar, BeginBooking, CheckDuplicate, BeginRebooking, BeginEnd,
       CheckOverlap, Book, Receive, Goto, Finish, Commit

\* HandleDecision uncrosses nobody else.
LEMMA DecisionsCross ==
    ASSUME Steppable, NEW h \in Handler, HandleDecision(h)
    PROVE  Undisturbed
BY ReadsCross, CommitsCross
   DEF HandleDecision, FindEvaluation, FindExisting, InsertDecision,
       BeginApprove, BeginCorrect, BeginRevoke, Approve, Correct, Revoke, Audit,
       Decide, CommitToAudit, Receive, Goto, Finish, Commit

\* No step of the whole uncrosses a request that it leaves as it is.
LEMMA NextUndisturbed ==
    ASSUME Steppable, [Next]_vars
    PROVE  Undisturbed
<1>1. ASSUME NEW h \in Handler, Operate(h) PROVE Undisturbed
  BY <1>1, SubmitsCross, LinksCross, AssessCross, AssignmentsCross, FilesCross, MarksCross,
     GradesCross, AttendanceCross, EnrollmentsCross, QuestionsCross, ExamsCross,
     LearningCross, OrganizationsCross, CalendarCross, DecisionsCross
  DEF Operate, CourseworkHandler, HandleSubmission, HandleSetup
<1>2. ASSUME NEW h \in Handler, LoseRequest(h) PROVE Undisturbed
  BY <1>2, ReadsCross DEF LoseRequest, LoseDecision, Abandon, Finish
<1>3. CASE Outside
  BY <1>3 DEF Outside, CourseworkOutside, InitiateUpload, PutObject, Sit, SaveAnswer, CloseAttempt,
     CreateLesson, DecisionsOutside, Evaluate, Supersede, WriteOutside, requests, Undisturbed,
     InFlight, At, Idle
<1>4. CASE UNCHANGED vars
  BY <1>4 DEF vars, requests, Undisturbed, InFlight, At, Idle
<1> QED
  BY <1>1, <1>2, <1>3, <1>4 DEF Next

-----------------------------------------------------------------------------
(* One part of the API and the others *)

Parts == {SubmitsSteps, LinksSteps, AssessSteps, AssignmentsSteps, FilesSteps,
          MarksSteps, GradesSteps, AttendanceSteps, EnrollmentsSteps,
          QuestionsSteps, ExamsSteps, DecisionsSteps, LearningSteps,
          OrganizationsSteps, CalendarSteps}

\* No two parts have a step in common.
LEMMA PartsApart ==
    ASSUME NEW S \in Parts, NEW T \in Parts, S # T
    PROVE  S \cap (T \cup {"idle"}) = {}
<1>1. ASSUME NEW s \in SubmitsSteps
      PROVE  s \notin LinksSteps \cup AssessSteps \cup AssignmentsSteps \cup FilesSteps \cup MarksSteps \cup
            GradesSteps \cup AttendanceSteps \cup EnrollmentsSteps \cup QuestionsSteps
            \cup ExamsSteps \cup DecisionsSteps \cup LearningSteps \cup OrganizationsSteps
            \cup CalendarSteps \cup {"idle"}
  BY DEF SubmitsSteps, LinksSteps, AssessSteps, AssignmentsSteps, FilesSteps, MarksSteps,
         GradesSteps, AttendanceSteps, EnrollmentsSteps, QuestionsSteps, ExamsSteps,
         DecisionsSteps, LearningSteps, OrganizationsSteps, CalendarSteps
<1>2. ASSUME NEW s \in LinksSteps
      PROVE  s \notin AssessSteps \cup AssignmentsSteps \cup FilesSteps \cup MarksSteps \cup GradesSteps \cup
            AttendanceSteps \cup EnrollmentsSteps \cup QuestionsSteps \cup ExamsSteps \cup
            DecisionsSteps \cup LearningSteps \cup OrganizationsSteps \cup CalendarSteps
            \cup {"idle"}
  BY DEF LinksSteps, AssessSteps, AssignmentsSteps, FilesSteps, MarksSteps, GradesSteps,
         AttendanceSteps, EnrollmentsSteps, QuestionsSteps, ExamsSteps, DecisionsSteps,
         LearningSteps, OrganizationsSteps, CalendarSteps
<1>3. ASSUME NEW s \in AssessSteps
      PROVE  s \notin AssignmentsSteps \cup FilesSteps \cup MarksSteps \cup GradesSteps \cup AttendanceSteps
            \cup EnrollmentsSteps \cup QuestionsSteps \cup ExamsSteps \cup DecisionsSteps
            \cup LearningSteps \cup OrganizationsSteps \cup CalendarSteps \cup {"idle"}
  BY DEF AssessSteps, AssignmentsSteps, FilesSteps, MarksSteps, GradesSteps,
         AttendanceSteps, EnrollmentsSteps, QuestionsSteps, ExamsSteps, DecisionsSteps,
         LearningSteps, OrganizationsSteps, CalendarSteps
<1>4. ASSUME NEW s \in AssignmentsSteps
      PROVE  s \notin FilesSteps \cup MarksSteps \cup GradesSteps \cup AttendanceSteps \cup EnrollmentsSteps
            \cup QuestionsSteps \cup ExamsSteps \cup DecisionsSteps \cup LearningSteps
            \cup OrganizationsSteps \cup CalendarSteps \cup {"idle"}
  BY DEF AssignmentsSteps, FilesSteps, MarksSteps, GradesSteps, AttendanceSteps,
         EnrollmentsSteps, QuestionsSteps, ExamsSteps, DecisionsSteps, LearningSteps,
         OrganizationsSteps, CalendarSteps
<1>5. ASSUME NEW s \in FilesSteps
      PROVE  s \notin MarksSteps \cup GradesSteps \cup AttendanceSteps \cup EnrollmentsSteps \cup QuestionsSteps
            \cup ExamsSteps \cup DecisionsSteps \cup LearningSteps \cup OrganizationsSteps
            \cup CalendarSteps \cup {"idle"}
  BY DEF FilesSteps, MarksSteps, GradesSteps, AttendanceSteps, EnrollmentsSteps,
         QuestionsSteps, ExamsSteps, DecisionsSteps, LearningSteps, OrganizationsSteps,
         CalendarSteps
<1>6. ASSUME NEW s \in MarksSteps
      PROVE  s \notin GradesSteps \cup AttendanceSteps \cup EnrollmentsSteps \cup QuestionsSteps \cup ExamsSteps
            \cup DecisionsSteps \cup LearningSteps \cup OrganizationsSteps \cup
            CalendarSteps \cup {"idle"}
  BY DEF MarksSteps, GradesSteps, AttendanceSteps, EnrollmentsSteps, QuestionsSteps,
         ExamsSteps, DecisionsSteps, LearningSteps, OrganizationsSteps, CalendarSteps
<1>7. ASSUME NEW s \in GradesSteps
      PROVE  s \notin AttendanceSteps \cup EnrollmentsSteps \cup QuestionsSteps \cup ExamsSteps \cup
            DecisionsSteps \cup LearningSteps \cup OrganizationsSteps \cup CalendarSteps
            \cup {"idle"}
  BY DEF GradesSteps, AttendanceSteps, EnrollmentsSteps, QuestionsSteps, ExamsSteps,
         DecisionsSteps, LearningSteps, OrganizationsSteps, CalendarSteps
<1>8. ASSUME NEW s \in AttendanceSteps
      PROVE  s \notin EnrollmentsSteps \cup QuestionsSteps \cup ExamsSteps \cup DecisionsSteps \cup
            LearningSteps \cup OrganizationsSteps \cup CalendarSteps \cup {"idle"}
  BY DEF AttendanceSteps, EnrollmentsSteps, QuestionsSteps, ExamsSteps, DecisionsSteps,
         LearningSteps, OrganizationsSteps, CalendarSteps
<1>9. ASSUME NEW s \in EnrollmentsSteps
      PROVE  s \notin QuestionsSteps \cup ExamsSteps \cup DecisionsSteps \cup LearningSteps \cup
            OrganizationsSteps \cup CalendarSteps \cup {"idle"}
  BY DEF EnrollmentsSteps, QuestionsSteps, ExamsSteps, DecisionsSteps, LearningSteps,
         OrganizationsSteps, CalendarSteps
<1>10. ASSUME NEW s \in QuestionsSteps
      PROVE  s \notin ExamsSteps \cup DecisionsSteps \cup LearningSteps \cup OrganizationsSteps \cup
            CalendarSteps \cup {"idle"}
  BY DEF QuestionsSteps, ExamsSteps, DecisionsSteps, LearningSteps, OrganizationsSteps,
         CalendarSteps
<1>11. ASSUME NEW s \in ExamsSteps
      PROVE  s \notin DecisionsSteps \cup LearningSteps \cup OrganizationsSteps \cup CalendarSteps \cup {"idle"}
  BY DEF ExamsSteps, DecisionsSteps, LearningSteps, OrganizationsSteps, CalendarSteps
<1>12. ASSUME NEW s \in DecisionsSteps
      PROVE  s \notin LearningSteps \cup OrganizationsSteps \cup CalendarSteps \cup {"idle"}
  BY DEF DecisionsSteps, LearningSteps, OrganizationsSteps, CalendarSteps
<1>13. ASSUME NEW s \in LearningSteps
      PROVE  s \notin OrganizationsSteps \cup CalendarSteps \cup {"idle"}
  BY DEF LearningSteps, OrganizationsSteps, CalendarSteps
<1>14. ASSUME NEW s \in OrganizationsSteps
      PROVE  s \notin CalendarSteps \cup {"idle"}
  BY DEF OrganizationsSteps, CalendarSteps
<1>15. ASSUME NEW s \in CalendarSteps
      PROVE  s \notin {"idle"}
  BY DEF CalendarSteps
<1> QED
  BY <1>1, <1>2, <1>3, <1>4, <1>5, <1>6, <1>7, <1>8, <1>9, <1>10, <1>11, <1>12,
     <1>13, <1>14, <1>15 DEF Parts

\* The parts are distinct.
LEMMA PartsDiffer ==
    /\ SubmitsSteps \notin {LinksSteps, AssessSteps, AssignmentsSteps, FilesSteps, MarksSteps,
              GradesSteps, AttendanceSteps, EnrollmentsSteps,
              QuestionsSteps, ExamsSteps, DecisionsSteps, LearningSteps,
              OrganizationsSteps, CalendarSteps}
    /\ LinksSteps \notin {AssessSteps, AssignmentsSteps, FilesSteps, MarksSteps, GradesSteps,
              AttendanceSteps, EnrollmentsSteps, QuestionsSteps, ExamsSteps,
              DecisionsSteps, LearningSteps, OrganizationsSteps,
              CalendarSteps}
    /\ AssessSteps \notin {AssignmentsSteps, FilesSteps, MarksSteps, GradesSteps, AttendanceSteps,
              EnrollmentsSteps, QuestionsSteps, ExamsSteps, DecisionsSteps,
              LearningSteps, OrganizationsSteps, CalendarSteps}
    /\ AssignmentsSteps \notin {FilesSteps, MarksSteps, GradesSteps, AttendanceSteps, EnrollmentsSteps,
              QuestionsSteps, ExamsSteps, DecisionsSteps, LearningSteps,
              OrganizationsSteps, CalendarSteps}
    /\ FilesSteps \notin {MarksSteps, GradesSteps, AttendanceSteps, EnrollmentsSteps, QuestionsSteps,
              ExamsSteps, DecisionsSteps, LearningSteps, OrganizationsSteps,
              CalendarSteps}
    /\ MarksSteps \notin {GradesSteps, AttendanceSteps, EnrollmentsSteps, QuestionsSteps, ExamsSteps,
              DecisionsSteps, LearningSteps, OrganizationsSteps,
              CalendarSteps}
    /\ GradesSteps \notin {AttendanceSteps, EnrollmentsSteps, QuestionsSteps, ExamsSteps,
              DecisionsSteps, LearningSteps, OrganizationsSteps,
              CalendarSteps}
    /\ AttendanceSteps \notin {EnrollmentsSteps, QuestionsSteps, ExamsSteps, DecisionsSteps, LearningSteps,
              OrganizationsSteps, CalendarSteps}
    /\ EnrollmentsSteps \notin {QuestionsSteps, ExamsSteps, DecisionsSteps, LearningSteps,
              OrganizationsSteps, CalendarSteps}
    /\ QuestionsSteps \notin {ExamsSteps, DecisionsSteps, LearningSteps, OrganizationsSteps, CalendarSteps}
    /\ ExamsSteps \notin {DecisionsSteps, LearningSteps, OrganizationsSteps, CalendarSteps}
    /\ DecisionsSteps \notin {LearningSteps, OrganizationsSteps, CalendarSteps}
    /\ LearningSteps \notin {OrganizationsSteps, CalendarSteps}
    /\ OrganizationsSteps \notin {CalendarSteps}
<1>1. SubmitsSteps \notin {LinksSteps, AssessSteps, AssignmentsSteps, FilesSteps, MarksSteps,
              GradesSteps, AttendanceSteps, EnrollmentsSteps,
              QuestionsSteps, ExamsSteps, DecisionsSteps, LearningSteps,
              OrganizationsSteps, CalendarSteps}
  BY DEF SubmitsSteps, LinksSteps, AssessSteps, AssignmentsSteps, FilesSteps, MarksSteps,
         GradesSteps, AttendanceSteps, EnrollmentsSteps, QuestionsSteps, ExamsSteps,
         DecisionsSteps, LearningSteps, OrganizationsSteps, CalendarSteps
<1>2. LinksSteps \notin {AssessSteps, AssignmentsSteps, FilesSteps, MarksSteps, GradesSteps,
              AttendanceSteps, EnrollmentsSteps, QuestionsSteps, ExamsSteps,
              DecisionsSteps, LearningSteps, OrganizationsSteps,
              CalendarSteps}
  BY DEF LinksSteps, AssessSteps, AssignmentsSteps, FilesSteps, MarksSteps, GradesSteps,
         AttendanceSteps, EnrollmentsSteps, QuestionsSteps, ExamsSteps, DecisionsSteps,
         LearningSteps, OrganizationsSteps, CalendarSteps
<1>3. AssessSteps \notin {AssignmentsSteps, FilesSteps, MarksSteps, GradesSteps, AttendanceSteps,
              EnrollmentsSteps, QuestionsSteps, ExamsSteps, DecisionsSteps,
              LearningSteps, OrganizationsSteps, CalendarSteps}
  BY DEF AssessSteps, AssignmentsSteps, FilesSteps, MarksSteps, GradesSteps,
         AttendanceSteps, EnrollmentsSteps, QuestionsSteps, ExamsSteps, DecisionsSteps,
         LearningSteps, OrganizationsSteps, CalendarSteps
<1>4. AssignmentsSteps \notin {FilesSteps, MarksSteps, GradesSteps, AttendanceSteps, EnrollmentsSteps,
              QuestionsSteps, ExamsSteps, DecisionsSteps, LearningSteps,
              OrganizationsSteps, CalendarSteps}
  BY DEF AssignmentsSteps, FilesSteps, MarksSteps, GradesSteps, AttendanceSteps,
         EnrollmentsSteps, QuestionsSteps, ExamsSteps, DecisionsSteps, LearningSteps,
         OrganizationsSteps, CalendarSteps
<1>5. FilesSteps \notin {MarksSteps, GradesSteps, AttendanceSteps, EnrollmentsSteps, QuestionsSteps,
              ExamsSteps, DecisionsSteps, LearningSteps, OrganizationsSteps,
              CalendarSteps}
  BY DEF FilesSteps, MarksSteps, GradesSteps, AttendanceSteps, EnrollmentsSteps,
         QuestionsSteps, ExamsSteps, DecisionsSteps, LearningSteps, OrganizationsSteps,
         CalendarSteps
<1>6. MarksSteps \notin {GradesSteps, AttendanceSteps, EnrollmentsSteps, QuestionsSteps, ExamsSteps,
              DecisionsSteps, LearningSteps, OrganizationsSteps,
              CalendarSteps}
  BY DEF MarksSteps, GradesSteps, AttendanceSteps, EnrollmentsSteps, QuestionsSteps,
         ExamsSteps, DecisionsSteps, LearningSteps, OrganizationsSteps, CalendarSteps
<1>7. GradesSteps \notin {AttendanceSteps, EnrollmentsSteps, QuestionsSteps, ExamsSteps,
              DecisionsSteps, LearningSteps, OrganizationsSteps,
              CalendarSteps}
  BY DEF GradesSteps, AttendanceSteps, EnrollmentsSteps, QuestionsSteps, ExamsSteps,
         DecisionsSteps, LearningSteps, OrganizationsSteps, CalendarSteps
<1>8. AttendanceSteps \notin {EnrollmentsSteps, QuestionsSteps, ExamsSteps, DecisionsSteps, LearningSteps,
              OrganizationsSteps, CalendarSteps}
  BY DEF AttendanceSteps, EnrollmentsSteps, QuestionsSteps, ExamsSteps, DecisionsSteps,
         LearningSteps, OrganizationsSteps, CalendarSteps
<1>9. EnrollmentsSteps \notin {QuestionsSteps, ExamsSteps, DecisionsSteps, LearningSteps,
              OrganizationsSteps, CalendarSteps}
  BY DEF EnrollmentsSteps, QuestionsSteps, ExamsSteps, DecisionsSteps, LearningSteps,
         OrganizationsSteps, CalendarSteps
<1>10. QuestionsSteps \notin {ExamsSteps, DecisionsSteps, LearningSteps, OrganizationsSteps, CalendarSteps}
  BY DEF QuestionsSteps, ExamsSteps, DecisionsSteps, LearningSteps, OrganizationsSteps,
         CalendarSteps
<1>11. ExamsSteps \notin {DecisionsSteps, LearningSteps, OrganizationsSteps, CalendarSteps}
  BY DEF ExamsSteps, DecisionsSteps, LearningSteps, OrganizationsSteps, CalendarSteps
<1>12. DecisionsSteps \notin {LearningSteps, OrganizationsSteps, CalendarSteps}
  BY DEF DecisionsSteps, LearningSteps, OrganizationsSteps, CalendarSteps
<1>13. LearningSteps \notin {OrganizationsSteps, CalendarSteps}
  BY DEF LearningSteps, OrganizationsSteps, CalendarSteps
<1>14. OrganizationsSteps \notin {CalendarSteps}
  BY DEF OrganizationsSteps, CalendarSteps
<1> QED
  BY <1>1, <1>2, <1>3, <1>4, <1>5, <1>6, <1>7, <1>8, <1>9, <1>10, <1>11, <1>12,
     <1>13, <1>14

\* A request of one part enters none of the steps of another part.
LEMMA OthersUnentered ==
    ASSUME Steppable, NEW h \in Handler, NEW S \in Parts
    PROVE  /\ HandleSubmit(h) /\ S # SubmitsSteps => Unentered(S)
           /\ HandleLink(h) /\ S # LinksSteps => Unentered(S)
           /\ HandleAssess(h) /\ S # AssessSteps => Unentered(S)
           /\ HandleAssignment(h) /\ S # AssignmentsSteps => Unentered(S)
           /\ HandleFile(h) /\ S # FilesSteps => Unentered(S)
           /\ HandleMark(h) /\ S # MarksSteps => Unentered(S)
           /\ HandleGrade(h) /\ S # GradesSteps => Unentered(S)
           /\ HandleAttendance(h) /\ S # AttendanceSteps => Unentered(S)
           /\ HandleEnrollment(h) /\ S # EnrollmentsSteps => Unentered(S)
           /\ HandleQuestion(h) /\ S # QuestionsSteps => Unentered(S)
           /\ HandleExam(h) /\ S # ExamsSteps => Unentered(S)
           /\ HandleDecision(h) /\ S # DecisionsSteps => Unentered(S)
           /\ HandleLearning(h) /\ S # LearningSteps => Unentered(S)
           /\ HandleOrganization(h) /\ S # OrganizationsSteps => Unentered(S)
           /\ HandleCalendar(h) /\ S # CalendarSteps => Unentered(S)
<1>0. ASSUME NEW T \in Parts, S # T, Moves(h, T) PROVE Unentered(S)
  BY <1>0, PartsApart, MovesUnentered
<1>1. HandleSubmit(h) /\ S # SubmitsSteps => Unentered(S)
  BY <1>0, SubmitsMove DEF Parts
<1>2. HandleLink(h) /\ S # LinksSteps => Unentered(S)
  BY <1>0, LinksMove DEF Parts
<1>3. HandleAssess(h) /\ S # AssessSteps => Unentered(S)
  BY <1>0, AssessMove DEF Parts
<1>4. HandleAssignment(h) /\ S # AssignmentsSteps => Unentered(S)
  BY <1>0, AssignmentsMove DEF Parts
<1>5. HandleFile(h) /\ S # FilesSteps => Unentered(S)
  BY <1>0, FilesMove DEF Parts
<1>6. HandleMark(h) /\ S # MarksSteps => Unentered(S)
  BY <1>0, MarksMove DEF Parts
<1>7. HandleGrade(h) /\ S # GradesSteps => Unentered(S)
  BY <1>0, GradesMove DEF Parts
<1>8. HandleAttendance(h) /\ S # AttendanceSteps => Unentered(S)
  BY <1>0, AttendanceMove DEF Parts
<1>9. HandleEnrollment(h) /\ S # EnrollmentsSteps => Unentered(S)
  BY <1>0, EnrollmentsMove DEF Parts
<1>10. HandleQuestion(h) /\ S # QuestionsSteps => Unentered(S)
  BY <1>0, QuestionsMove DEF Parts
<1>11. HandleExam(h) /\ S # ExamsSteps => Unentered(S)
  BY <1>0, ExamsMove DEF Parts
<1>12. HandleDecision(h) /\ S # DecisionsSteps => Unentered(S)
  BY <1>0, DecisionsMove DEF Parts
<1>13. HandleLearning(h) /\ S # LearningSteps => Unentered(S)
  BY <1>0, LearningMove DEF Parts
<1>14. HandleOrganization(h) /\ S # OrganizationsSteps => Unentered(S)
  BY <1>0, OrganizationsMove DEF Parts
<1>15. HandleCalendar(h) /\ S # CalendarSteps => Unentered(S)
  BY <1>0, CalendarMove DEF Parts
<1> QED
  BY <1>1, <1>2, <1>3, <1>4, <1>5, <1>6, <1>7, <1>8, <1>9, <1>10, <1>11, <1>12,
     <1>13, <1>14, <1>15

\* A request that is lost enters no step.
LEMMA LossUnentered ==
    ASSUME Steppable, NEW h \in Handler, LoseRequest(h), NEW S \in Parts
    PROVE  Unentered(S)
<1>1. S \cap ({} \cup {"idle"}) = {}
  BY DEF Parts, SubmitsSteps, LinksSteps, AssessSteps, AssignmentsSteps, FilesSteps,
         MarksSteps, GradesSteps, AttendanceSteps, EnrollmentsSteps,
         QuestionsSteps, ExamsSteps, DecisionsSteps, LearningSteps,
         OrganizationsSteps, CalendarSteps
<1> QED
  BY <1>1, LossMoves, MovesUnentered

-----------------------------------------------------------------------------
(* What the slots hold *)

\* Every slot is idle or at a step of one of the parts, and a request that another one has
\* crossed is in flight.
Staged ==
    /\ \A h \in Handler : handler[h] = Idle \/ \E S \in Parts : handler[h].step \in S
    /\ crossed \subseteq InFlight

\* Whoever is at a step of S holds a request of R.
Typed(S, R) == \A h \in Handler : handler[h].step \in S => handler[h] \in R

\* What slot h holds next is a request of R, if anything.
Becomes(h, R) == handler'[h] = Idle \/ handler'[h] \in R

\* A request that reads or commits goes on with what it is given.
LEMMA GoesOn ==
    ASSUME Steppable, NEW h \in Handler, NEW R, NEW m \in R, Reads(h, m) \/ Commits(h, m)
    PROVE  Becomes(h, R)
BY DEF Steppable, Reads, Commits, Becomes

\* A request that is done leaves its slot idle.
LEMMA IsDone ==
    ASSUME Steppable, NEW h \in Handler, NEW R,
           Finish(h) \/ Commit(h) \/ Reads(h, Idle) \/ Commits(h, Idle)
    PROVE  Becomes(h, R)
BY DEF Steppable, Reads, Commits, Finish, Commit, Becomes

\* Where a slot has moved to a request of R, whoever is at a step of S holds one of R as before.
LEMMA TypedMoved ==
    ASSUME NEW S, NEW R, NEW T, Typed(S, R), "idle" \notin S,
           NEW h \in Handler, Moves(h, T), Becomes(h, R)
    PROVE  Typed(S, R)'
BY DEF Typed, Moves, Becomes, Idle

\* So it is where no slot has entered a step of S.
LEMMA TypedStays ==
    ASSUME NEW S, NEW R, Typed(S, R), Unentered(S)
    PROVE  Typed(S, R)'
BY DEF Typed, Unentered

\* No part has a step of an idle slot.
LEMMA NoPartIdle == \A S \in Parts : "idle" \notin S
<1>1. SubmitsSteps \in Parts /\ LinksSteps \in Parts
  BY DEF Parts
<1>2. SubmitsSteps # LinksSteps
  BY PartsDiffer
<1> QED
  BY <1>1, <1>2, PartsApart

\* At the start nobody is at a step of any part.
LEMMA InitTyped ==
    ASSUME Init, NEW S \in Parts, NEW R
    PROVE  Typed(S, R)
BY NoPartIdle DEF Init, RequestsInit, Idle, Typed

\* The steps of a part are entered, if at all, by a request of its own.
LEMMA EnteredByOwn ==
    ASSUME Steppable, [Next]_vars, NEW S \in Parts
    PROVE  Unentered(S) \/ \E h \in Handler :
              \/ S = SubmitsSteps /\ HandleSubmit(h)
              \/ S = LinksSteps /\ HandleLink(h)
              \/ S = AssessSteps /\ HandleAssess(h)
              \/ S = AssignmentsSteps /\ HandleAssignment(h)
              \/ S = FilesSteps /\ HandleFile(h)
              \/ S = MarksSteps /\ HandleMark(h)
              \/ S = GradesSteps /\ HandleGrade(h)
              \/ S = AttendanceSteps /\ HandleAttendance(h)
              \/ S = EnrollmentsSteps /\ HandleEnrollment(h)
              \/ S = QuestionsSteps /\ HandleQuestion(h)
              \/ S = ExamsSteps /\ HandleExam(h)
              \/ S = DecisionsSteps /\ HandleDecision(h)
              \/ S = LearningSteps /\ HandleLearning(h)
              \/ S = OrganizationsSteps /\ HandleOrganization(h)
              \/ S = CalendarSteps /\ HandleCalendar(h)
<1>1. ASSUME NEW h \in Handler, Operate(h), ~Unentered(S)
      PROVE  \/ S = SubmitsSteps /\ HandleSubmit(h)
             \/ S = LinksSteps /\ HandleLink(h)
             \/ S = AssessSteps /\ HandleAssess(h)
             \/ S = AssignmentsSteps /\ HandleAssignment(h)
             \/ S = FilesSteps /\ HandleFile(h)
             \/ S = MarksSteps /\ HandleMark(h)
             \/ S = GradesSteps /\ HandleGrade(h)
             \/ S = AttendanceSteps /\ HandleAttendance(h)
             \/ S = EnrollmentsSteps /\ HandleEnrollment(h)
             \/ S = QuestionsSteps /\ HandleQuestion(h)
             \/ S = ExamsSteps /\ HandleExam(h)
             \/ S = DecisionsSteps /\ HandleDecision(h)
             \/ S = LearningSteps /\ HandleLearning(h)
             \/ S = OrganizationsSteps /\ HandleOrganization(h)
             \/ S = CalendarSteps /\ HandleCalendar(h)
  <2>1. \/ HandleSubmit(h) \/ HandleLink(h) \/ HandleAssess(h) \/ HandleAssignment(h)
        \/ HandleFile(h) \/ HandleMark(h) \/ HandleGrade(h) \/ HandleAttendance(h)
        \/ HandleEnrollment(h) \/ HandleQuestion(h) \/ HandleExam(h) \/ HandleDecision(h)
        \/ HandleLearning(h) \/ HandleOrganization(h) \/ HandleCalendar(h)
    BY <1>1 DEF Operate, CourseworkHandler, HandleSubmission, HandleSetup
  <2> QED
    BY <1>1, <2>1, OthersUnentered
<1>2. ASSUME NEW h \in Handler, LoseRequest(h) PROVE Unentered(S)
  BY <1>2, LossUnentered
<1>3. ASSUME handler' = handler PROVE Unentered(S)
  BY <1>3 DEF Unentered
<1> QED
  BY <1>1, <1>2, <1>3, OutsideMoves DEF Next, vars, requests

\* So a part's slots stay typed if its own requests become requests of its kind.
LEMMA TypedElse ==
    ASSUME NEW S \in Parts, NEW R, Typed(S, R),
           Unentered(S) \/ \E h \in Handler : Moves(h, S) /\ Becomes(h, R)
    PROVE  Typed(S, R)'
BY TypedStays, TypedMoved, NoPartIdle

\* A slot that moves within a part, or out of the API, keeps the slots staged.
LEMMA MovesStaged ==
    ASSUME Staged, Undisturbed, NEW h \in Handler, NEW S \in Parts \cup {{}}, Moves(h, S)
    PROVE  Staged'
<1>1. \A g \in Handler : handler'[g] = Idle \/ \E T \in Parts : handler'[g].step \in T
  BY DEF Staged, Moves
<1>2. \A g \in crossed' : g \in Handler /\ handler'[g] # Idle
  BY DEF Staged, Undisturbed, InFlight
<1>3. \A T \in Parts : "idle" \notin T
  BY NoPartIdle
<1> QED
  BY <1>1, <1>2, <1>3 DEF Staged, InFlight, At

\* Every step of the whole is within one part or moves no slot.
LEMMA StepStaged ==
    ASSUME Steppable, Staged, [Next]_vars
    PROVE  Staged'
<1>0. Undisturbed
  BY NextUndisturbed
<1>1. ASSUME NEW h \in Handler, Operate(h) PROVE Staged'
  <2>1. \/ HandleSubmit(h) \/ HandleLink(h) \/ HandleAssess(h) \/ HandleAssignment(h)
        \/ HandleFile(h) \/ HandleMark(h) \/ HandleGrade(h) \/ HandleAttendance(h)
        \/ HandleEnrollment(h) \/ HandleQuestion(h) \/ HandleExam(h) \/ HandleDecision(h)
        \/ HandleLearning(h) \/ HandleOrganization(h) \/ HandleCalendar(h)
    BY <1>1 DEF Operate, CourseworkHandler, HandleSubmission, HandleSetup
  <2>2. \E S \in Parts : Moves(h, S)
    BY <2>1, SubmitsMove, LinksMove, AssessMove, AssignmentsMove, FilesMove, MarksMove,
       GradesMove, AttendanceMove, EnrollmentsMove, QuestionsMove, ExamsMove, DecisionsMove,
       LearningMove, OrganizationsMove, CalendarMove
    DEF Parts
  <2> QED
    BY <1>0, <2>2, MovesStaged
<1>2. ASSUME NEW h \in Handler, LoseRequest(h) PROVE Staged'
  BY <1>0, <1>2, LossMoves, MovesStaged
<1>3. ASSUME handler' = handler PROVE Staged'
  BY <1>0, <1>3 DEF Staged, Undisturbed, InFlight, At
<1> QED
  BY <1>1, <1>2, <1>3, OutsideMoves DEF Next, vars, requests

\* At the start every slot is idle and none is crossed.
LEMMA InitStaged == Init => Staged
BY DEF Init, RequestsInit, Staged

\* Whatever requests, losses and outside events come together, a slot is idle or at a step of
\* one of the parts, and only requests in flight are crossed.
LEMMA AlwaysStaged == Spec => []Staged
BY InitStaged, StepStaged, AlwaysSteppable, PTL DEF Spec

-----------------------------------------------------------------------------
(* MarksHaveGrades *)

Handed == {id \in Id : HandedIn(Status(id))}
Graded == {id \in Id : grade[id] # Ungraded}

\* What a request about a submission holds: what it grades was handed in, and when
\* it comes to marking the grade is there.
WorkFine(q) ==
    /\ q.step \in {"latest", "limit", "draft", "files", "number", "create"} =>
        "status" \in DOMAIN q /\ q.status \in {"DRAFT", "SUBMITTED"}
    /\ q.step \in {"ceiling", "grade", "mark"} =>
        {"id", "score", "status", "back"} \subseteq DOMAIN q /\ q.id \in Handed
    /\ q.step \in {"ceiling", "grade"} => q.score # Ungraded
    /\ q.step = "mark" => q.id \in Graded /\ NextStatus(q.status, q.back) # "stop"

WorksGraded ==
    /\ submission = [id \in Id |-> submission[id]]
    /\ \A id \in Id : {"status", "text"} \subseteq DOMAIN submission[id]
    /\ grade = [id \in Id |-> grade[id]]
    /\ \A id \in Id : Marked(Status(id)) => id \in Graded
    /\ Graded \subseteq Handed
    /\ \A h \in Handler : WorkFine(handler[h])

\* A step that leaves submissions and grades as they are and puts a fine request into a
\* slot.
LEMMA WorkReads ==
    ASSUME Steppable, WorksGraded, NEW h \in Handler, NEW m, WorkFine(m), Reads(h, m),
           UNCHANGED <<submission, grade>>
    PROVE  WorksGraded'
<1>1. ASSUME NEW g \in Handler PROVE WorkFine(handler'[g])
  BY DEF Steppable, WorksGraded, Reads
<1>2. \A q : WorkFine(q) => WorkFine(q)'
  BY DEF WorkFine, Handed, Graded, Status
<1> QED
  BY <1>1, <1>2 DEF WorksGraded, Handed, Graded, Status

\* What a request holds stays fine when more is handed in and graded.
LEMMA WorkKept ==
    ASSUME Steppable, WorksGraded, NEW h \in Handler, NEW m, Commits(h, m), WorkFine(m)',
           Handed \subseteq Handed', Graded \subseteq Graded'
    PROVE  \A g \in Handler : WorkFine(handler[g])'
<1>1. ASSUME NEW q, WorkFine(q) PROVE WorkFine(q)'
  BY <1>1 DEF WorkFine
<1>2. ASSUME NEW g \in Handler, g # h PROVE WorkFine(handler'[g])
  BY <1>2 DEF Steppable, WorksGraded, Commits
<1>3. handler'[h] = m
  BY DEF Steppable, Commits
<1>4. ASSUME NEW g \in Handler, g # h PROVE WorkFine(handler[g])'
  BY <1>1, <1>2, <1>4 DEF WorkFine
<1>5. WorkFine(handler[h])'
  BY <1>3 DEF WorkFine
<1> QED
  BY <1>4, <1>5

\* A request that is done holds nothing.
LEMMA IdleWork == WorkFine(Idle) /\ WorkFine(Idle)'
BY DEF WorkFine, Idle

\* What is handed in stays handed in and nothing else gets a mark.
LEMMA SubmitsGraded ==
    ASSUME Steppable, WorksGraded, NEW h \in Handler, HandleSubmit(h)
    PROVE  WorksGraded'
<1> DEFINE q == handler[h]
           to(s) == [q EXCEPT !.step = s]
<1>0. "step" \in DOMAIN q /\ WorkFine(q)
  BY DEF Steppable, WorksGraded
<1>1. CASE BeginSubmit(h)
  BY <1>1, WorkReads DEF BeginSubmit, Receive, WorkFine, tables, work
<1>2. CASE FindLatest(h)
  <2>1. At(h, "latest") => WorkFine(to("limit")) /\ WorkFine(to("draft"))
    BY <1>0 DEF At, WorkFine
  <2> QED
    BY <1>2, <2>1, WorkReads DEF FindLatest, Goto, tables, work
<1>3. CASE CheckLimit(h)
  <2>1. At(h, "limit") => WorkFine(to("draft"))
    BY <1>0 DEF At, WorkFine
  <2> QED
    BY <1>3, <2>1, IdleWork, WorkReads DEF CheckLimit, Goto, Finish, tables, work
<1>4. CASE BeginDraft(h)
  BY <1>4, WorkReads DEF BeginDraft, Receive, WorkFine, tables, work
<1>5. CASE FindDraft(h)
  <2> DEFINE no    == Latest(Drafts(q.p))
             found == [q EXCEPT !.no = no, !.text = Carried(q, <<q.p, no>>)]
  <2>1. /\ WorkFine(to("number"))
        /\ WorkFine([found EXCEPT !.step = "files"])
        /\ WorkFine([found EXCEPT !.step = "update"])
    BY <1>0, <1>5 DEF FindDraft, At, WorkFine
  <2>2. \/ Finish(h) \/ Goto(h, "number")
        \/ Reads(h, [found EXCEPT !.step = "files"])
        \/ Reads(h, [found EXCEPT !.step = "update"])
    BY <1>5 DEF FindDraft
  <2> QED
    BY <1>5, <2>1, <2>2, IdleWork, WorkReads DEF FindDraft, Goto, Finish, tables, work
<1>6. CASE CountFiles(h)
  <2>1. WorkFine(to("update"))
    BY <1>0 DEF WorkFine
  <2> QED
    BY <1>6, <2>1, IdleWork, WorkReads DEF CountFiles, Goto, Finish, tables, work
<1>7. CASE ReadNumber(h)
  <2> DEFINE no == Latest(Numbers(q.p)) + 1
  <2>1. WorkFine([q EXCEPT !.no = no, !.step = "create"])
    BY <1>0, <1>7 DEF ReadNumber, At, WorkFine
  <2> QED
    BY <1>7, <2>1, WorkReads DEF ReadNumber, tables, work
<1>8. CASE CreateSubmission(h)
  <2> DEFINE id == <<q.p, q.no>>
  <2>1. CASE Exists(id)
    BY <1>8, <2>1, IdleWork, WorkReads DEF CreateSubmission, Finish
  <2>2. CASE ~Exists(id)
    <3>1. /\ submission' = [submission EXCEPT ![id] = [status |-> q.status, text |-> q.text]]
          /\ Commits(h, Idle) /\ UNCHANGED grade
      BY <1>8, <2>2 DEF CreateSubmission, Commit
    <3>2. q.status \in {"DRAFT", "SUBMITTED"}
      BY <1>0, <1>8 DEF CreateSubmission, At, WorkFine
    <3>3. ~HandedIn(Status(id))
      BY <2>2 DEF Exists, NoWork, Status, HandedIn
    <3>4. Handed \subseteq Handed' /\ Graded' = Graded
      BY <3>1, <3>3 DEF WorksGraded, Handed, Graded, Status
    <3>5. \A i \in Id : Marked(Status(i))' => Marked(Status(i))
      BY <3>1, <3>2 DEF WorksGraded, Status, Marked
    <3>6. \A g \in Handler : WorkFine(handler[g])'
      BY <3>1, <3>4, WorkKept, IdleWork
    <3> QED
      BY <3>1, <3>4, <3>5, <3>6 DEF WorksGraded
  <2> QED
    BY <2>1, <2>2
<1>9. CASE UpdateSubmission(h)
  <2> DEFINE id == <<q.p, q.no>>
  <2>1. PICK s \in {"SUBMITTED", Status(id)} :
            submission' = [submission EXCEPT ![id] = [status |-> s, text |-> q.text]]
    BY <1>9 DEF UpdateSubmission
  <2>2. Handed \subseteq Handed' /\ Graded' = Graded
    BY <1>9, <2>1 DEF UpdateSubmission, WorksGraded, Handed, Graded, Status, HandedIn
  <2>3. \A i \in Id : Marked(Status(i))' => Marked(Status(i))
    BY <2>1 DEF WorksGraded, Status, Marked
  <2>4. \A g \in Handler : WorkFine(handler[g])'
    BY <1>9, <2>2, WorkKept, IdleWork DEF UpdateSubmission, Commit
  <2> QED
    BY <1>9, <2>1, <2>2, <2>3, <2>4 DEF WorksGraded, UpdateSubmission
<1>10. CASE BeginEdit(h)
  BY <1>10, WorkReads DEF BeginEdit, Receive, WorkFine, tables, work
<1> QED
  BY <1>1, <1>2, <1>3, <1>4, <1>5, <1>6, <1>7, <1>8, <1>9, <1>10 DEF HandleSubmit

\* A grade is written before its mark.
LEMMA AssessGraded ==
    ASSUME Steppable, WorksGraded, NEW h \in Handler, HandleAssess(h)
    PROVE  WorksGraded'
<1> DEFINE q == handler[h]
<1>0. "step" \in DOMAIN q /\ WorkFine(q)
  BY DEF Steppable, WorksGraded
<1>1. CASE BeginGrade(h)
  <2>1. PICK id \in Id, x \in 0..MaxPoints, back \in BOOLEAN :
          /\ Gradable(Status(id))
          /\ Reads(h, [step |-> "ceiling", id |-> id, score |-> x,
                       status |-> Status(id), back |-> back])
    BY <1>1 DEF BeginGrade, Receive
  <2>2. x # Ungraded /\ id \in Handed
    BY <2>1, SubmissionsAssumption DEF Ungraded, Gradable, Handed
  <2> QED
    BY <1>1, <2>1, <2>2, WorkReads DEF BeginGrade, WorkFine, tables, work
<1>2. CASE ReadCeiling(h)
  <2>1. WorkFine([q EXCEPT !.step = "grade"])
    BY <1>0, <1>2 DEF ReadCeiling, At, WorkFine
  <2> QED
    BY <1>2, <2>1, IdleWork, WorkReads DEF ReadCeiling, Goto, Finish, tables, work
<1>3. CASE UpsertGrade(h)
  <2>1. q.id \in Handed /\ q.score # Ungraded
    BY <1>0, <1>3 DEF UpsertGrade, At, WorkFine
  <2>2. PICK m : /\ m = IF NextStatus(q.status, q.back) = "stop" THEN Idle
                        ELSE [q EXCEPT !.step = "mark"]
                 /\ Commits(h, m)
    BY <1>3 DEF UpsertGrade, Commit
  <2>3. Handed' = Handed /\ Graded' = Graded \cup {q.id}
    BY <1>3, <2>1 DEF UpsertGrade, WorksGraded, Handed, Graded, Status
  <2>4. WorkFine(m)'
    <3>1. {"id", "score", "status", "back"} \subseteq DOMAIN q
      BY <1>0, <1>3 DEF UpsertGrade, At, WorkFine
    <3>2. \/ m.step = "idle"
          \/ /\ {"id", "score", "status", "back"} \subseteq DOMAIN m
             /\ m.step = "mark" /\ m.id = q.id /\ NextStatus(m.status, m.back) # "stop"
      BY <1>0, <2>2, <3>1 DEF Idle
    <3> QED
      BY <2>1, <2>3, <3>2 DEF WorkFine
  <2>5. \A g \in Handler : WorkFine(handler[g])'
    BY <2>2, <2>3, <2>4, WorkKept
  <2> QED
    BY <1>3, <2>1, <2>3, <2>5 DEF UpsertGrade, WorksGraded, Status
<1>4. CASE Mark(h)
  <2> DEFINE to == NextStatus(q.status, q.back)
  <2>1. q.id \in Handed /\ q.id \in Graded /\ to \in {"GRADED", "RETURNED"}
    BY <1>0, <1>4 DEF Mark, At, WorkFine, NextStatus
  <2>2. PICK m : /\ m = IF NextStatus(to, q.back) = "stop" THEN Idle
                        ELSE [q EXCEPT !.status = to]
                 /\ Commits(h, m)
    BY <1>4 DEF Mark, Commit
  <2>3. Handed' = Handed /\ Graded' = Graded
    BY <1>4, <2>1 DEF Mark, WorksGraded, Handed, Graded, Status, HandedIn
  <2>4. WorkFine(m)'
    <3>1. q.step = "mark" /\ {"id", "score", "status", "back"} \subseteq DOMAIN q
      BY <1>0, <1>4 DEF Mark, At, WorkFine
    <3>2. \/ m.step = "idle"
          \/ /\ {"id", "score", "status", "back"} \subseteq DOMAIN m
             /\ m.step = "mark" /\ m.id = q.id /\ NextStatus(m.status, m.back) # "stop"
      BY <1>0, <2>2, <3>1 DEF Idle
    <3> QED
      BY <2>1, <2>3, <3>2 DEF WorkFine
  <2>5. \A g \in Handler : WorkFine(handler[g])'
    BY <2>2, <2>3, <2>4, WorkKept
  <2>6. \A id \in Id : Marked(Status(id))' => id \in Graded
    BY <1>4, <2>1 DEF Mark, WorksGraded, Status, Marked
  <2> QED
    BY <1>4, <2>1, <2>3, <2>5, <2>6 DEF Mark, WorksGraded
<1>5. CASE BeginReturn(h)
  BY <1>5, WorkReads DEF BeginReturn, Receive, WorkFine, NextStatus, WorksGraded, Marked,
     HandedIn, Handed, tables, work
<1> QED
  BY <1>1, <1>2, <1>3, <1>4, <1>5 DEF HandleAssess

\* Every step of the whole keeps marks on grades.
LEMMA WorksGradedNext ==
    ASSUME Steppable, WorksGraded, [Next]_vars
    PROVE  WorksGraded'
<1>1. CASE \E h \in Handler : HandleSubmit(h) \/ HandleAssess(h)
  BY <1>1, SubmitsGraded, AssessGraded
<1>2. CASE UNCHANGED <<submission, grade>> /\ Unentered(SubmitsSteps \cup AssessSteps)
  <2>1. ASSUME NEW h \in Handler PROVE WorkFine(handler'[h])
    BY <1>2 DEF Unentered, SubmitsSteps, AssessSteps, WorkFine, WorksGraded
  <2>2. \A q : WorkFine(q) => WorkFine(q)'
    BY <1>2 DEF WorkFine, Handed, Graded, Status
  <2> QED
    BY <1>2, <2>1, <2>2 DEF WorksGraded, Handed, Graded, Status
<1> QED
  BY <1>1, <1>2, WorksElse

\* Nothing is graded at first, and nothing marked.
LEMMA InitWorksGraded == Init => WorksGraded
<1>1. ASSUME SubmissionsInit PROVE \A id \in Id : Status(id) \in {"none", "SUBMITTED"}
  BY <1>1 DEF SubmissionsInit, NoWork, Status
<1> QED
  BY <1>1, IdleWork
  DEF Init, CourseworkInit, SubmissionsInit, NoWork, RequestsInit, WorksGraded, Marked,
      Graded, Handed

\* Marks stand on grades, for any numbers of participants, attempts and requests: only
\* what was handed in has a grade and what is marked as graded or returned has one.
THEOREM MarksStandOnGrades == Spec => []MarksHaveGrades
<1>1. Init => Steppable /\ WorksGraded
  BY InitSteppable, InitWorksGraded
<1>2. Steppable /\ WorksGraded /\ [Next]_vars => Steppable' /\ WorksGraded'
  BY StepSteppable, WorksGradedNext
<1>3. WorksGraded => MarksHaveGrades
  BY DEF WorksGraded, Graded, Handed, MarksHaveGrades
<1> QED
  BY <1>1, <1>2, <1>3, PTL DEF Spec

-----------------------------------------------------------------------------
(* AttachedWasConfirmed *)

Confirmed == {f \in File : file[f].confirmed}
Stored    == {f \in File : object[f] # "absent"}

\* What a request about a file holds.
FileFine(q) ==
    /\ q.step \in {"file", "free", "attach", "head", "confirm", "file status"} =>
        "f" \in DOMAIN q /\ q.f \in File
    /\ q.step \in {"free", "attach"} => q.f \in Confirmed
    /\ q.step = "confirm" => q.f \in Stored
    /\ q.step = "file status" =>
        q.to \in {"ACTIVE", "ARCHIVED"} /\ (q.to = "ACTIVE" => q.f \in Confirmed)

FilesConfirmed ==
    /\ FilesTypeOK
    /\ \A f \in File : file[f].status \in {"UPLOADED", "ACTIVE"} => f \in Confirmed
    /\ Confirmed \subseteq Stored
    /\ attached = [id \in Id |-> attached[id]]
    /\ \A id \in Id : attached[id] \subseteq Confirmed
    /\ \A h \in Handler : FileFine(handler[h])

\* A step that leaves the files and links as they are and puts a fine request into a
\* slot.
LEMMA FileReads ==
    ASSUME Steppable, FilesConfirmed, NEW h \in Handler, NEW m, FileFine(m), Reads(h, m),
           UNCHANGED <<file, object, attached>>
    PROVE  FilesConfirmed'
<1>1. ASSUME NEW g \in Handler PROVE FileFine(handler'[g])
  BY DEF Steppable, FilesConfirmed, Reads
<1>2. \A q : FileFine(q) => FileFine(q)'
  BY DEF FileFine, Confirmed, Stored
<1> QED
  BY <1>1, <1>2 DEF FilesConfirmed, FilesTypeOK, Confirmed, Stored

\* What a request holds stays fine when more is confirmed and stored.
LEMMA FileKept ==
    ASSUME Steppable, FilesConfirmed, Confirmed \subseteq Confirmed', Stored \subseteq Stored',
           \/ handler' = handler
           \/ \E h \in Handler : Commit(h)
    PROVE  \A g \in Handler : FileFine(handler[g])'
<1>1. ASSUME NEW g \in Handler PROVE FileFine(handler'[g])
  <2>1. FileFine(Idle)
    BY DEF FileFine, Idle
  <2> QED
    BY <2>1 DEF Steppable, FilesConfirmed, Commit, Commits
<1>2. ASSUME NEW q, FileFine(q) PROVE FileFine(q)'
  BY <1>2 DEF FileFine
<1> QED
  BY <1>1, <1>2 DEF FileFine

\* Attaching looks at the file once; what was confirmed then still is.
LEMMA LinksConfirmedStep ==
    ASSUME Steppable, FilesConfirmed, NEW h \in Handler, HandleLink(h), UNCHANGED <<file, object>>
    PROVE  FilesConfirmed'
<1> DEFINE q == handler[h]
<1>0. "step" \in DOMAIN q /\ FileFine(q) /\ FileFine(Idle)
  BY DEF Steppable, FilesConfirmed, FileFine, Idle
<1>1. CASE BeginFiles(h)
  BY <1>1, FileReads DEF BeginFiles, Receive, FileFine, tables, work
<1>2. CASE ReadFile(h)
  <2>1. file[q.f].status \in {"UPLOADED", "ACTIVE"} => FileFine([q EXCEPT !.step = "free"])
    BY <1>0, <1>2 DEF ReadFile, At, FileFine, FilesConfirmed
  <2> QED
    BY <1>0, <1>2, <2>1, FileReads DEF ReadFile, Goto, Finish, tables, work
<1>3. CASE FindLink(h)
  <2>1. At(h, "free") => FileFine([q EXCEPT !.step = "attach"])
    BY <1>0 DEF At, FileFine
  <2>2. At(h, "linked") => FileFine([q EXCEPT !.step = "detach"])
    BY <1>0 DEF At, FileFine
  <2> QED
    BY <1>0, <1>3, <2>1, <2>2, FileReads DEF FindLink, Goto, Finish, tables, work
<1>4. CASE Attach(h)
  <2>1. CASE Finish(h) /\ UNCHANGED attached
    BY <1>0, <2>1, FileReads DEF Finish
  <2>2. CASE Commit(h) /\ attached' = [attached EXCEPT ![q.id] = @ \cup {q.f}]
    <3>1. q.f \in Confirmed
      BY <1>0, <1>4 DEF Attach, At, FileFine
    <3>2. \A g \in Handler : FileFine(handler[g])'
      BY <2>2, FileKept DEF Confirmed, Stored
    <3> QED
      BY <2>2, <3>1, <3>2 DEF FilesConfirmed, FilesTypeOK, Confirmed, Stored
  <2> QED
    BY <1>4, <2>1, <2>2 DEF Attach
<1>5. CASE Detach(h)
  <2>1. CASE Finish(h) /\ UNCHANGED attached
    BY <1>0, <2>1, FileReads DEF Finish
  <2>2. CASE Commit(h) /\ attached' = [attached EXCEPT ![q.id] = @ \ {q.f}]
    <3>1. \A g \in Handler : FileFine(handler[g])'
      BY <2>2, FileKept DEF Confirmed, Stored
    <3> QED
      BY <2>2, <3>1 DEF FilesConfirmed, FilesTypeOK, Confirmed, Stored
  <2> QED
    BY <1>5, <2>1, <2>2 DEF Detach
<1> QED
  BY <1>1, <1>2, <1>3, <1>4, <1>5 DEF HandleLink

\* Neither a confirmation nor a change of status takes a confirmation back.
LEMMA FilesConfirmedStep ==
    ASSUME Steppable, FilesConfirmed, NEW h \in Handler, HandleFile(h), UNCHANGED attached
    PROVE  FilesConfirmed'
<1> DEFINE q == handler[h]
<1>0. "step" \in DOMAIN q /\ FileFine(q) /\ FileFine(Idle)
  BY DEF Steppable, FilesConfirmed, FileFine, Idle
<1>1. CASE BeginComplete(h)
  BY <1>1, FileReads DEF BeginComplete, Receive, FileFine
<1>2. CASE HeadObject(h)
  <2>1. object[q.f] = "declared" => FileFine([q EXCEPT !.step = "confirm"])
    BY <1>0, <1>2 DEF HeadObject, At, FileFine, Stored
  <2> QED
    BY <1>0, <1>2, <2>1, FileReads DEF HeadObject, Goto, Finish
<1>3. CASE Confirm(h)
  <2>1. q.f \in Stored
    BY <1>0, <1>3 DEF Confirm, At, FileFine
  <2>2. /\ FilesTypeOK'
        /\ Confirmed \subseteq Confirmed' /\ Confirmed' \subseteq Confirmed \cup {q.f}
        /\ Stored' = Stored
        /\ q.f \in Confirmed'
    BY <1>3, <2>1 DEF Confirm, FilesConfirmed, FilesTypeOK, Confirmed, Stored, Uploaded
  <2>3. \A f \in File : file'[f].status \in {"UPLOADED", "ACTIVE"} => f \in Confirmed'
    BY <1>3, <2>2 DEF Confirm, FilesConfirmed, FilesTypeOK
  <2>4. \A g \in Handler : FileFine(handler[g])'
    BY <1>3, <2>2, FileKept DEF Confirm
  <2> QED
    BY <2>1, <2>2, <2>3, <2>4 DEF FilesConfirmed
<1>4. CASE BeginMove(h)
  BY <1>4, FileReads
  DEF BeginMove, AllowedFileTransition, Receive, FileFine, FilesConfirmed
<1>5. CASE MoveFile(h)
  <2>1. /\ q.f \in File /\ q.to \in {"ACTIVE", "ARCHIVED"}
        /\ q.to = "ACTIVE" => q.f \in Confirmed
    BY <1>0, <1>5 DEF MoveFile, At, FileFine
  <2>2. FilesTypeOK' /\ Confirmed' = Confirmed /\ Stored' = Stored
    BY <1>5, <2>1 DEF MoveFile, FilesConfirmed, FilesTypeOK, Confirmed, Stored
  <2>3. \A f \in File : file'[f].status \in {"UPLOADED", "ACTIVE"} => f \in Confirmed'
    BY <1>5, <2>1, <2>2 DEF MoveFile, FilesConfirmed, FilesTypeOK
  <2>4. \A g \in Handler : FileFine(handler[g])'
    BY <1>5, <2>2, FileKept DEF MoveFile
  <2> QED
    BY <2>2, <2>3, <2>4 DEF FilesConfirmed
<1> QED
  BY <1>1, <1>2, <1>3, <1>4, <1>5 DEF HandleFile

\* A client may overwrite its object at any time, but not remove it.
LEMMA FilesConfirmedOutside ==
    ASSUME Steppable, FilesConfirmed, CourseworkOutside, UNCHANGED handler
    PROVE  FilesConfirmed'
<1>1. /\ FilesTypeOK'
      /\ Confirmed' = Confirmed
      /\ Stored \subseteq Stored'
      /\ attached' = attached
      /\ \A f \in File : file'[f].status \in {"UPLOADED", "ACTIVE"} =>
            file[f].status \in {"UPLOADED", "ACTIVE"}
  <2>1. CASE InitiateUpload /\ UNCHANGED tables
    <3>1. PICK x \in File : file' = [file EXCEPT ![x].status = "PENDING"]
      BY <2>1 DEF InitiateUpload
    <3>2. FilesTypeOK'
      BY <2>1, <3>1 DEF InitiateUpload, FilesConfirmed, FilesTypeOK
    <3>3. Confirmed' = Confirmed
      BY <3>1 DEF FilesConfirmed, FilesTypeOK, Confirmed
    <3>4. \A f \in File : file'[f].status \in {"UPLOADED", "ACTIVE"} =>
             file[f].status \in {"UPLOADED", "ACTIVE"}
      BY <3>1 DEF FilesConfirmed, FilesTypeOK
    <3> QED
      BY <2>1, <3>2, <3>3, <3>4 DEF InitiateUpload, Stored, tables, work
  <2>2. CASE PutObject /\ UNCHANGED tables
    BY <2>2 DEF PutObject, FilesConfirmed, FilesTypeOK, Confirmed, Stored, tables, work
  <2>3. CASE UNCHANGED <<tables, file, object>>
    BY <2>3 DEF FilesConfirmed, FilesTypeOK, Confirmed, Stored, tables, work
  <2> QED
    BY <2>1, <2>2, <2>3 DEF CourseworkOutside
<1>2. \A g \in Handler : FileFine(handler[g])'
  BY <1>1, FileKept
<1> QED
  BY <1>1, <1>2 DEF FilesConfirmed

\* Every step of the whole keeps the files confirmed.
LEMMA FilesConfirmedNext ==
    ASSUME Steppable, FilesConfirmed, [Next]_vars
    PROVE  FilesConfirmed'
<1>1. CASE \E h \in Handler : HandleLink(h) /\ UNCHANGED <<file, object>>
  BY <1>1, LinksConfirmedStep
<1>2. CASE \E h \in Handler : HandleFile(h) /\ UNCHANGED attached
  BY <1>2, FilesConfirmedStep
<1>3. CASE CourseworkOutside /\ UNCHANGED handler
  BY <1>3, FilesConfirmedOutside
<1>4. CASE UNCHANGED <<attached, file, object>> /\ Unentered(LinksSteps \cup FilesSteps)
  <2>1. ASSUME NEW h \in Handler PROVE FileFine(handler'[h])
    BY <1>4 DEF Unentered, LinksSteps, FilesSteps, FileFine, FilesConfirmed
  <2>2. \A q : FileFine(q) => FileFine(q)'
    BY <1>4 DEF FileFine, Confirmed, Stored
  <2> QED
    BY <1>4, <2>1, <2>2 DEF FilesConfirmed, FilesTypeOK, Confirmed, Stored
<1> QED
  BY <1>1, <1>2, <1>3, <1>4, LinksElse

\* At the start nothing is attached, and what is stored is confirmed.
LEMMA InitFilesConfirmed == Init => FilesConfirmed
<1>1. FileFine(Idle)
  BY DEF FileFine, Idle
<1> QED
  BY <1>1
  DEF Init, CourseworkInit, SubmissionsInit, FilesInit, NoFile, Uploaded, FilesConfirmed,
      FilesTypeOK, Confirmed, Stored, RequestsInit

LEMMA FilesAlwaysConfirmed == Spec => []FilesConfirmed
BY InitFilesConfirmed, FilesConfirmedNext, AlwaysSteppable, PTL DEF Spec

\* Whatever is attached to a submission was confirmed by the storage, for any numbers
\* of files, submissions and requests, and whatever is lost in between.
THEOREM OnlyConfirmedIsAttached == Spec => []AttachedWasConfirmed
<1>1. FilesConfirmed => AttachedWasConfirmed
  BY DEF FilesConfirmed, Confirmed, Stored, AttachedWasConfirmed
<1> QED
  BY <1>1, FilesAlwaysConfirmed, PTL

-----------------------------------------------------------------------------
(* ApprovedByName *)

\* A row of final_grades is approved if and only if it has an approver.
Signed(row) == /\ {"status", "score", "by"} \subseteq DOMAIN row
               /\ row.status = "APPROVED" <=> row.by # NoApprover

\* What a request of FinalGradesService holds: the row it has read, once it has
\* read it, and the columns it will write are signed.
GradeFine(q) ==
    /\ q.step \in {"scheme", "submissions", "attempts", "grade row", "store grade"} =>
        {"p", "row"} \subseteq DOMAIN q /\ q.p \in Participant
    /\ q.step = "store grade" => Signed(q.row)
    /\ q.step = "grade status" => (q.status = "APPROVED" <=> q.by # NoApprover)

GradesSigned ==
    /\ finalGrade = [p \in Participant |-> finalGrade[p]]
    /\ \A p \in Participant : Signed(finalGrade[p])
    /\ \A h \in Handler : GradeFine(handler[h])

\* A step that leaves the row as it is and puts a fine request into a slot.
LEMMA GradeReads ==
    ASSUME Steppable, GradesSigned, NEW h \in Handler, NEW m, GradeFine(m),
           Reads(h, m) \/ Commits(h, m), UNCHANGED finalGrade
    PROVE  GradesSigned'
BY DEF Steppable, GradesSigned, Reads, Commits

\* A step that writes a signed row and is done.
LEMMA GradeWritten ==
    ASSUME Steppable, GradesSigned, NEW h \in Handler, NEW p, NEW row, Signed(row), Commit(h),
           finalGrade' = [finalGrade EXCEPT ![p] = row]
    PROVE  GradesSigned'
<1>1. GradeFine(Idle)
  BY DEF GradeFine, Idle
<1> QED
  BY <1>1 DEF Steppable, GradesSigned, Commit, Commits

\* Every action of FinalGradesService keeps the rows and its requests signed.
LEMMA GradesSignedStep ==
    ASSUME Steppable, GradesSigned, NEW h \in Handler, HandleGrade(h)
    PROVE  GradesSigned'
<1> DEFINE q == handler[h]
<1>0. /\ "step" \in DOMAIN q
      /\ GradeFine(q)
      /\ GradeFine(Idle)
  BY DEF Steppable, GradesSigned, GradeFine, Idle
<1>1. CASE BeginComponent(h)
  BY <1>1, GradeReads DEF BeginComponent, Receive, GradeFine, gradeTables
<1>2. CASE CheckComponent(h)
  <2>1. GradeFine([q EXCEPT !.step = "component"])
    BY <1>0 DEF GradeFine
  <2> QED
    BY <1>0, <1>2, <2>1, GradeReads DEF CheckComponent, Goto, Finish, gradeTables
<1>3. CASE CreateComponent(h)
  BY <1>0, <1>3, GradeReads DEF CreateComponent, Finish, Commit
<1>4. CASE BeginCalculate(h)
  BY <1>4, GradeReads DEF BeginCalculate, Receive, Calculating, GradeFine, gradeTables
<1>5. CASE BeginRecalculate(h)
  BY <1>5, GradeReads DEF BeginRecalculate, Receive, Calculating, GradeFine, gradeTables
<1>6. CASE ReadScheme(h)
  <2>1. GradeFine([q EXCEPT !.scheme = component, !.step = "submissions"])
    BY <1>0, <1>6 DEF ReadScheme, At, GradeFine
  <2> QED
    BY <1>6, <2>1, GradeReads DEF ReadScheme, gradeTables
<1>7. CASE ReadSubmissions(h)
  <2>1. PICK x : Reads(h, [q EXCEPT !.step = "attempts", !.best["work"] = x])
    BY <1>7 DEF ReadSubmissions
  <2>2. GradeFine([q EXCEPT !.step = "attempts", !.best["work"] = x])
    BY <1>0, <1>7 DEF ReadSubmissions, At, GradeFine
  <2> QED
    BY <1>7, <2>1, <2>2, GradeReads DEF ReadSubmissions, gradeTables
<1>8. CASE ReadAttempts(h)
  <2>1. PICK b, s : \/ Finish(h)
                    \/ Reads(h, [q EXCEPT !.best = b, !.step = "grade row", !.score = s])
    BY <1>8 DEF ReadAttempts
  <2>2. GradeFine([q EXCEPT !.best = b, !.step = "grade row", !.score = s])
    BY <1>0, <1>8 DEF ReadAttempts, At, GradeFine
  <2> QED
    BY <1>0, <1>8, <2>1, <2>2, GradeReads DEF ReadAttempts, Finish, gradeTables
<1>9. CASE FindGrade(h)
  <2>1. Signed(finalGrade[q.p])
    BY <1>0, <1>9 DEF FindGrade, At, GradeFine, GradesSigned
  <2>2. GradeFine([q EXCEPT !.row = finalGrade[q.p], !.step = "store grade"])
    BY <1>0, <1>9, <2>1 DEF FindGrade, At, GradeFine
  <2> QED
    BY <1>9, <2>2, GradeReads DEF FindGrade, gradeTables
<1>10. CASE StoreGrade(h)
  <2>1. Signed(Renewed(q.row, q.score))
    BY <1>0, <1>10 DEF StoreGrade, At, GradeFine, Signed, Renewed
  <2> QED
    BY <1>0, <1>10, <2>1, GradeReads, GradeWritten DEF StoreGrade, Finish
<1>11. CASE BeginApproveGrade(h)
  BY <1>11, GradeReads, FinalGradesAssumption
  DEF BeginApproveGrade, Receive, GradeFine, gradeTables
<1>12. CASE BeginReopenGrade(h)
  BY <1>12, GradeReads DEF BeginReopenGrade, Receive, GradeFine, gradeTables
<1>13. CASE UpdateGradeStatus(h)
  <2> DEFINE row == [finalGrade[q.p] EXCEPT !.status = q.status, !.by = q.by]
  <2>1. CASE q.p \in Participant
    <3>1. Signed(row)
      BY <1>0, <1>13, <2>1 DEF UpdateGradeStatus, At, GradeFine, Signed, GradesSigned
    <3> QED
      BY <1>13, <3>1, GradeWritten DEF UpdateGradeStatus
  <2>2. CASE q.p \notin Participant
    BY <1>0, <1>13, <2>2, GradeReads DEF UpdateGradeStatus, GradesSigned, Commit
  <2> QED
    BY <2>1, <2>2
<1> QED
  BY <1>1, <1>2, <1>3, <1>4, <1>5, <1>6, <1>7, <1>8, <1>9, <1>10, <1>11, <1>12, <1>13
  DEF HandleGrade

\* So does every step of the whole.
LEMMA GradesSignedNext ==
    ASSUME Steppable, GradesSigned, [Next]_vars
    PROVE  GradesSigned'
<1>1. CASE \E h \in Handler : HandleGrade(h)
  BY <1>1, GradesSignedStep
<1>2. CASE UNCHANGED gradeTables /\ Unentered(GradesSteps)
  <2>1. ASSUME NEW h \in Handler PROVE GradeFine(handler'[h])
    BY <1>2 DEF Unentered, GradesSteps, GradeFine, GradesSigned
  <2> QED
    BY <1>2, <2>1 DEF GradesSigned, gradeTables
<1> QED
  BY <1>1, <1>2, GradesElse

LEMMA InitGradesSigned == Init => GradesSigned
<1>1. GradeFine(Idle) /\ Signed(NoGrade)
  BY DEF GradeFine, Idle, Signed, NoGrade
<1> QED
  BY <1>1 DEF Init, CourseworkInit, FinalGradesInit, GradesSigned, RequestsInit

\* A final grade is approved if and only if it names who approved it, for any
\* numbers of participants, requests and approvers.
THEOREM ApprovedGradesAreSigned == Spec => []ApprovedByName
<1>1. Init => Steppable /\ GradesSigned
  BY InitSteppable, InitGradesSigned
<1>2. Steppable /\ GradesSigned /\ [Next]_vars => Steppable' /\ GradesSigned'
  BY StepSteppable, GradesSignedNext
<1>3. GradesSigned => ApprovedByName
  BY DEF GradesSigned, Signed, ApprovedByName
<1> QED
  BY <1>1, <1>2, <1>3, PTL DEF Spec

-----------------------------------------------------------------------------
(* CompletedIsDated *)

Dated(row) == /\ {"status", "class", "completed"} \subseteq DOMAIN row
              /\ row.completed <=> row.status = "COMPLETED"

\* What a request of EnrollmentsService holds: the row to create, or the row that the
\* change of status was judged on.
EnrollmentFine(q) ==
    /\ q.step = "enroll" => Dated(q.row)
    /\ q.step = "enrollment status" => Dated(q.row) /\ CanMove(q.row.status, q.to)

EnrollmentsDated ==
    /\ enrolled = [e \in Enrollee |-> enrolled[e]]
    /\ \A e \in Enrollee : Dated(enrolled[e])
    /\ \A h \in Handler : EnrollmentFine(handler[h])

\* A step that leaves the rows as they are and puts a fine request into a slot.
LEMMA EnrollmentReads ==
    ASSUME Steppable, EnrollmentsDated, NEW h \in Handler, NEW m, EnrollmentFine(m),
           Reads(h, m), UNCHANGED enrolled
    PROVE  EnrollmentsDated'
BY DEF Steppable, EnrollmentsDated, Reads

\* A step that writes a dated row and is done.
LEMMA EnrollmentWritten ==
    ASSUME Steppable, EnrollmentsDated, NEW h \in Handler, NEW e, NEW row,
           e \in Enrollee => Dated(row), Commit(h),
           enrolled' = [enrolled EXCEPT ![e] = row]
    PROVE  EnrollmentsDated'
<1>1. EnrollmentFine(Idle)
  BY DEF EnrollmentFine, Idle
<1> QED
  BY <1>1 DEF Steppable, EnrollmentsDated, Commit, Commits

\* Every action of EnrollmentsService keeps the rows dated.
LEMMA EnrollmentsDatedStep ==
    ASSUME Steppable, EnrollmentsDated, NEW h \in Handler, HandleEnrollment(h)
    PROVE  EnrollmentsDated'
<1> DEFINE q == handler[h]
<1>0. EnrollmentFine(q) /\ EnrollmentFine(Idle)
  BY DEF EnrollmentsDated, EnrollmentFine, Idle
<1>1. CASE BeginEnroll(h)
  BY <1>1, EnrollmentReads DEF BeginEnroll, Receive, EnrollmentFine, Registered, Dated
<1>2. CASE CreateEnrollment(h)
  <2>1. Dated(q.row)
    BY <1>0, <1>2 DEF CreateEnrollment, At, EnrollmentFine
  <2> QED
    BY <1>0, <1>2, <2>1, EnrollmentReads, EnrollmentWritten DEF CreateEnrollment, Finish
<1>3. CASE BeginEnrollmentStatus(h)
  <2>1. ASSUME NEW e \in Enrollee, NEW to, CanMove(enrolled[e].status, to)
        PROVE  EnrollmentFine([step |-> "enrollment status", e |-> e, to |-> to,
                               row |-> enrolled[e]])
    BY <2>1 DEF EnrollmentFine, EnrollmentsDated
  <2> QED
    BY <1>3, <2>1, EnrollmentReads DEF BeginEnrollmentStatus, Receive
<1>4. CASE SetEnrollmentStatus(h)
  <2> DEFINE row == [enrolled[q.e] EXCEPT !.status = q.to, !.completed = Completed(q.row, q.to)]
  <2>1. Completed(q.row, q.to) <=> q.to = "COMPLETED"
    BY <1>0, <1>4 DEF SetEnrollmentStatus, At, EnrollmentFine, Dated, CanMove, Completed
  <2>2. q.e \in Enrollee => Dated(row)
    BY <2>1 DEF EnrollmentsDated, Dated
  <2>3. enrolled' = [enrolled EXCEPT ![q.e] = row]
    BY <1>4 DEF SetEnrollmentStatus, EnrollmentsDated
  <2> QED
    BY <1>4, <2>2, <2>3, EnrollmentWritten DEF SetEnrollmentStatus
<1>5. CASE BeginTransfer(h)
  BY <1>5, EnrollmentReads DEF BeginTransfer, Receive, EnrollmentFine
<1>6. CASE Transfer(h)
  <2> DEFINE row == [enrolled[q.e] EXCEPT !.class = q.class]
  <2>1. q.e \in Enrollee => Dated(row)
    BY DEF EnrollmentsDated, Dated
  <2> QED
    BY <1>6, <2>1, EnrollmentWritten DEF Transfer
<1> QED
  BY <1>1, <1>2, <1>3, <1>4, <1>5, <1>6 DEF HandleEnrollment

\* So does every step of the whole.
LEMMA EnrollmentsDatedNext ==
    ASSUME Steppable, EnrollmentsDated, [Next]_vars
    PROVE  EnrollmentsDated'
<1>1. CASE \E h \in Handler : HandleEnrollment(h)
  BY <1>1, EnrollmentsDatedStep
<1>2. CASE UNCHANGED enrolled /\ Unentered(EnrollmentsSteps)
  <2>1. ASSUME NEW h \in Handler PROVE EnrollmentFine(handler'[h])
    BY <1>2 DEF Unentered, EnrollmentsSteps, EnrollmentFine, EnrollmentsDated
  <2> QED
    BY <1>2, <2>1 DEF EnrollmentsDated
<1> QED
  BY <1>1, <1>2, EnrollmentsElse

\* Whoever is enrolled from the start is active and has no date.
LEMMA InitEnrollmentsDated == Init => EnrollmentsDated
<1>1. ASSUME EnrollmentsInit PROVE \A e \in Enrollee : Dated(enrolled[e])
  <2>1. \A e \in Enrollee : \/ enrolled[e] = NotEnrolled
                            \/ \E c \in Class : enrolled[e] = Registered("ACTIVE", c)
    BY <1>1 DEF EnrollmentsInit
  <2>2. Dated(NotEnrolled) /\ \A c \in Class : Dated(Registered("ACTIVE", c))
    BY DEF Dated, NotEnrolled, Registered
  <2> QED
    BY <2>1, <2>2
<1>2. EnrollmentFine(Idle)
  BY DEF EnrollmentFine, Idle
<1> QED
  BY <1>1, <1>2 DEF Init, AttendanceInit, EnrollmentsInit, RequestsInit, EnrollmentsDated

\* An enrollment has a completion date if and only if it is completed, for any numbers
\* of enrollments, classes and requests.
THEOREM CompletedEnrollmentsAreDated == Spec => []CompletedIsDated
<1>1. Init => Steppable /\ EnrollmentsDated
  BY InitSteppable, InitEnrollmentsDated
<1>2. Steppable /\ EnrollmentsDated /\ [Next]_vars => Steppable' /\ EnrollmentsDated'
  BY StepSteppable, EnrollmentsDatedNext
<1>3. EnrollmentsDated => CompletedIsDated
  BY DEF EnrollmentsDated, Dated, CompletedIsDated
<1> QED
  BY <1>1, <1>2, <1>3, PTL DEF Spec

-----------------------------------------------------------------------------
(* NeverUnpublished *)

\* What a request of QuestionBanksService holds.
QuestionFine(q) ==
    /\ q.step \in {"question", "version", "rewrite"} =>
        "content" \in DOMAIN q /\ q.content \in Content
    /\ q.step \in {"publishable", "predecessor", "publish"} =>
        {"i", "n"} \subseteq DOMAIN q /\ q.i \in Item /\ q.n \in DOMAIN version[q.i]

VersionsTyped ==
    /\ version \in [Item -> Seq(VersionRow)]
    /\ \A h \in Handler : QuestionFine(handler[h])

\* No version goes away and no question loses its last published one.
VersionsStay ==
    \A i \in Item : /\ DOMAIN version[i] \subseteq DOMAIN version'[i]
                    /\ Published(i) # {} => Published(i)' # {}

\* Rows that are changed one by one are as many as before.
LEMMA Rewritten ==
    ASSUME NEW s \in Seq(VersionRow), NEW t, t = [n \in DOMAIN s |-> t[n]],
           \A n \in DOMAIN s : t[n] \in VersionRow
    PROVE  t \in Seq(VersionRow) /\ DOMAIN t = DOMAIN s
<1>1. Len(s) \in Nat /\ DOMAIN s = 1..Len(s)
  OBVIOUS
<1>2. t \in [1..Len(s) -> VersionRow]
  BY <1>1
<1> QED
  BY <1>1, <1>2

\* One row gets another content.
LEMMA ContentChanged ==
    ASSUME NEW s, NEW k, NEW c, NEW n \in DOMAIN s
    PROVE  /\ n = k => [s EXCEPT ![k].content = c][n] = [s[n] EXCEPT !.content = c]
           /\ n # k => [s EXCEPT ![k].content = c][n] = s[n]
OBVIOUS

\* A step that leaves the versions as they are and puts a fine request into a slot.
LEMMA VersionReads ==
    ASSUME Steppable, VersionsTyped, NEW h \in Handler, NEW m, QuestionFine(m),
           Reads(h, m) \/ Commits(h, m), UNCHANGED version
    PROVE  VersionsTyped' /\ VersionsStay
<1>1. ASSUME NEW g \in Handler PROVE QuestionFine(handler'[g])
  BY DEF Steppable, VersionsTyped, Reads, Commits
<1>2. \A q : QuestionFine(q) => QuestionFine(q)'
  BY DEF QuestionFine
<1> QED
  BY <1>1, <1>2 DEF VersionsTyped, VersionsStay, Published, WithStatus

\* A step that writes the versions of one question, at least as many and with a
\* published one if there was one.
LEMMA VersionWritten ==
    ASSUME Steppable, VersionsTyped, NEW h \in Handler, Commit(h), NEW i \in Item,
           NEW rows \in Seq(VersionRow), version' = [version EXCEPT ![i] = rows],
           DOMAIN version[i] \subseteq DOMAIN rows,
           Published(i) # {} => \E n \in DOMAIN rows : rows[n].status = "PUBLISHED"
    PROVE  VersionsTyped' /\ VersionsStay
<1>1. version' \in [Item -> Seq(VersionRow)]
  BY DEF VersionsTyped
<1>2. \A j \in Item : DOMAIN version[j] \subseteq DOMAIN version'[j]
  BY DEF VersionsTyped
<1>3. \A j \in Item : Published(j) # {} => Published(j)' # {}
  BY DEF VersionsTyped, Published, WithStatus
<1>4. ASSUME NEW g \in Handler PROVE QuestionFine(handler'[g])
  <2>1. QuestionFine(Idle)
    BY DEF QuestionFine, Idle
  <2> QED
    BY <2>1 DEF Steppable, VersionsTyped, Commit, Commits
<1>5. ASSUME NEW q, QuestionFine(q) PROVE QuestionFine(q)'
  BY <1>2, <1>5 DEF QuestionFine
<1> QED
  BY <1>1, <1>2, <1>3, <1>4, <1>5 DEF VersionsTyped, VersionsStay

\* Every action of QuestionBanksService keeps the versions.
LEMMA QuestionsStep ==
    ASSUME Steppable, VersionsTyped, NEW h \in Handler, HandleQuestion(h)
    PROVE  VersionsTyped' /\ VersionsStay
<1> DEFINE q == handler[h]
<1>0. "step" \in DOMAIN q /\ QuestionFine(q) /\ QuestionFine(Idle)
  BY DEF Steppable, VersionsTyped, QuestionFine, Idle
<1>1. CASE BeginQuestion(h)
  BY <1>1, VersionReads DEF BeginQuestion, Receive, QuestionFine, bankTables
<1>2. CASE CreateQuestion(h)
  <2>1. QuestionFine([step |-> "version", i |-> q.i, number |-> 1, content |-> q.content])
    BY <1>0, <1>2 DEF CreateQuestion, At, QuestionFine
  <2> QED
    BY <1>0, <1>2, <2>1, VersionReads DEF CreateQuestion, Finish
<1>3. CASE BeginItemStatus(h)
  BY <1>3, VersionReads DEF BeginItemStatus, Receive, QuestionFine, bankTables
<1>4. CASE SetItemStatus(h)
  BY <1>0, <1>4, VersionReads DEF SetItemStatus, Commit
<1>5. CASE BeginKind(h)
  BY <1>5, VersionReads DEF BeginKind, Receive, QuestionFine, bankTables
<1>6. CASE SetKind(h)
  BY <1>0, <1>6, VersionReads DEF SetKind, Commit
<1>7. CASE BeginVersion(h)
  BY <1>7, VersionReads DEF BeginVersion, Receive, QuestionFine, bankTables
<1>8. CASE CreateVersion(h)
  <2>1. CASE Finish(h) /\ UNCHANGED version
    BY <1>0, <2>1, VersionReads DEF Finish
  <2>2. CASE Commit(h) /\ version' = [version EXCEPT ![q.i] = Append(@, Draft(q.content))]
    <3> DEFINE rows == Append(version[q.i], Draft(q.content))
    <3>1. CASE q.i \notin Item
      BY <1>0, <2>2, <3>1, VersionReads DEF VersionsTyped, Commit
    <3>2. CASE q.i \in Item
      <4>1. Draft(q.content) \in VersionRow
        BY <1>0, <1>8 DEF CreateVersion, At, QuestionFine, Draft, VersionRow
      <4>2. /\ rows \in Seq(VersionRow)
            /\ DOMAIN version[q.i] \subseteq DOMAIN rows
            /\ \A n \in DOMAIN version[q.i] : rows[n] = version[q.i][n]
        BY <3>2, <4>1 DEF VersionsTyped
      <4>3. Published(q.i) # {} => \E n \in DOMAIN rows : rows[n].status = "PUBLISHED"
        BY <4>2 DEF Published, WithStatus
      <4> QED
        BY <2>2, <3>2, <4>2, <4>3, VersionWritten
    <3> QED
      BY <3>1, <3>2
  <2> QED
    BY <1>8, <2>1, <2>2 DEF CreateVersion
<1>9. CASE BeginRewrite(h)
  BY <1>9, VersionReads DEF BeginRewrite, Receive, QuestionFine, bankTables
<1>10. CASE UpdateDraft(h)
  <2> DEFINE rows == [version[q.i] EXCEPT ![q.n].content = q.content]
  <2>1. CASE q.i \notin Item
    BY <1>0, <1>10, <2>1, VersionReads DEF UpdateDraft, VersionsTyped, Commit
  <2>2. CASE q.i \in Item
    <3>1. q.content \in Content
      BY <1>0, <1>10 DEF UpdateDraft, At, QuestionFine
    <3> DEFINE s == version[q.i]
    <3>4. s \in Seq(VersionRow) /\ rows = [n \in DOMAIN s |-> rows[n]]
      BY <2>2 DEF VersionsTyped
    <3>5. ASSUME NEW n \in DOMAIN s
          PROVE  rows[n] \in VersionRow /\ rows[n].status = s[n].status
      <4>1. /\ n = q.n => rows[n] = [s[n] EXCEPT !.content = q.content]
            /\ n # q.n => rows[n] = s[n]
        BY ContentChanged
      <4>2. s[n] \in VersionRow
        BY <3>4
      <4>3. CASE n = q.n
        BY <3>1, <4>1, <4>2, <4>3 DEF VersionRow
      <4>4. CASE n # q.n
        BY <4>1, <4>2, <4>4 DEF VersionRow
      <4> QED
        BY <4>3, <4>4
    <3>2. /\ rows \in Seq(VersionRow)
          /\ DOMAIN rows = DOMAIN version[q.i]
          /\ \A n \in DOMAIN rows : rows[n].status = version[q.i][n].status
      BY <3>4, <3>5, Rewritten
    <3>3. Published(q.i) # {} => \E n \in DOMAIN rows : rows[n].status = "PUBLISHED"
      BY <3>2 DEF Published, WithStatus
    <3> QED
      BY <1>10, <2>2, <3>2, <3>3, VersionWritten DEF UpdateDraft
  <2> QED
    BY <2>1, <2>2
<1>11. CASE BeginPublish(h)
  BY <1>11, VersionReads DEF BeginPublish, Receive, QuestionFine, bankTables
<1>12. CASE CheckPublishable(h)
  <2>1. QuestionFine([q EXCEPT !.step = "predecessor"])
    BY <1>0, <1>12 DEF CheckPublishable, At, QuestionFine
  <2> QED
    BY <1>0, <1>12, <2>1, VersionReads DEF CheckPublishable, Goto, Finish, bankTables
<1>13. CASE FindPublished(h)
  <2>1. PICK n : Reads(h, [step |-> "publish", i |-> q.i, n |-> q.n, previous |-> n])
    BY <1>13 DEF FindPublished
  <2>2. QuestionFine([step |-> "publish", i |-> q.i, n |-> q.n, previous |-> n])
    BY <1>0, <1>13 DEF FindPublished, At, QuestionFine
  <2> QED
    BY <1>13, <2>1, <2>2, VersionReads DEF FindPublished, bankTables
<1>14. CASE SupersedeAndPublish(h)
  <2> DEFINE rows == RetireThenPublish(version[q.i], q.previous, q.n)
  <2>1. q.i \in Item /\ q.n \in DOMAIN version[q.i]
    BY <1>0, <1>14 DEF SupersedeAndPublish, At, QuestionFine
  <2> DEFINE s == version[q.i]
  <2>2. s \in Seq(VersionRow) /\ rows = [n \in DOMAIN s |-> rows[n]]
    BY <2>1 DEF VersionsTyped, RetireThenPublish
  <2>3. ASSUME NEW n \in DOMAIN s
        PROVE  rows[n] \in VersionRow /\ (n = q.n => rows[n].status = "PUBLISHED")
    <3>1. /\ n = q.n => rows[n] = [s[n] EXCEPT !.status = "PUBLISHED"]
          /\ rows[n] \in {s[n], [s[n] EXCEPT !.status = "PUBLISHED"],
                          [s[n] EXCEPT !.status = "SUPERSEDED"]}
      BY DEF RetireThenPublish
    <3>2. s[n] \in VersionRow
      BY <2>2
    <3> QED
      BY <3>1, <3>2 DEF VersionRow
  <2>4. rows \in Seq(VersionRow) /\ DOMAIN rows = DOMAIN s
    BY <2>2, <2>3, Rewritten
  <2> QED
    BY <1>14, <2>1, <2>3, <2>4, VersionWritten DEF SupersedeAndPublish
<1> QED
  BY <1>1, <1>2, <1>3, <1>4, <1>5, <1>6, <1>7, <1>8, <1>9, <1>10, <1>11, <1>12, <1>13,
     <1>14 DEF HandleQuestion

\* So does every step of the whole.
LEMMA QuestionsNext ==
    ASSUME Steppable, VersionsTyped, [Next]_vars
    PROVE  VersionsTyped' /\ VersionsStay
<1>1. CASE \E h \in Handler : HandleQuestion(h)
  BY <1>1, QuestionsStep
<1>2. CASE UNCHANGED bankTables /\ Unentered(QuestionsSteps)
  <2>1. ASSUME NEW h \in Handler PROVE QuestionFine(handler'[h])
    BY <1>2 DEF Unentered, QuestionsSteps, QuestionFine, VersionsTyped
  <2>2. \A q : QuestionFine(q) => QuestionFine(q)'
    BY <1>2 DEF QuestionFine, bankTables
  <2> QED
    BY <1>2, <2>1, <2>2 DEF VersionsTyped, VersionsStay, bankTables, Published, WithStatus
<1> QED
  BY <1>1, <1>2, QuestionsElse

\* Every version there is from the start is a row of a first, second or third version.
LEMMA InitVersionsTyped == Init => VersionsTyped
<1>1. ASSUME QuestionsInit PROVE version \in [Item -> Seq(VersionRow)]
  <2> DEFINE row(x) == [Draft(CHOOSE c \in Content : TRUE) EXCEPT !.status = x]
  <2>1. row("PUBLISHED") \in VersionRow /\ row("DRAFT") \in VersionRow
    BY QuestionsAssumption DEF Draft, VersionRow
  <2> HIDE DEF row
  <2>2. /\ <<>> \in Seq(VersionRow)
        /\ <<row("PUBLISHED"), row("DRAFT")>> \in Seq(VersionRow)
        /\ <<row("PUBLISHED"), row("DRAFT"), row("DRAFT")>> \in Seq(VersionRow)
    BY <2>1
  <2>3. \A i \in Item : version[i] \in {<<>>, <<row("PUBLISHED"), row("DRAFT")>>,
                             <<row("PUBLISHED"), row("DRAFT"), row("DRAFT")>>}
    BY <1>1 DEF QuestionsInit, row
  <2>4. version = [i \in Item |-> version[i]]
    BY <1>1 DEF QuestionsInit
  <2> QED
    BY <2>2, <2>3, <2>4
<1>2. QuestionFine(Idle)
  BY DEF QuestionFine, Idle
<1> QED
  BY <1>1, <1>2
  DEF Init, ExamSetupInit, RequestsInit, VersionsTyped

\* A question that has a published version has one ever after, for any numbers of
\* questions, versions and publications in flight.
THEOREM PublishedStaysPublished == Spec => NeverUnpublished
<1>1. Init => Steppable /\ VersionsTyped
  BY InitSteppable, InitVersionsTyped
<1>2. Steppable /\ VersionsTyped /\ [Next]_vars => Steppable' /\ VersionsTyped' /\ VersionsStay
  BY StepSteppable, QuestionsNext
<1>3. VersionsStay => [\A i \in Item : Published(i) # {} => Published(i)' # {}]_version
  BY DEF VersionsStay
<1> QED
  BY <1>1, <1>2, <1>3, PTL DEF Spec, NeverUnpublished

-----------------------------------------------------------------------------
(* RowComplete *)

Evaluated  == {ev \in Evaluation : evaluation[ev].outcome # "none"}
InRegister == {ev \in Evaluation : decision[ev] # NoDecision}
Approved   == {ev \in InRegister : decision[ev].approved}

\* What a row of graduation_decisions says.
Complete(row) ==
    /\ {"status", "verdict", "approved", "approvedBy", "reason"} \subseteq DOMAIN row
    /\ row.status \in {"DRAFT", "APPROVED", "REVOKED"}
    /\ row.status = "DRAFT" => /\ ~row.approved /\ row.approvedBy = Nobody
                               /\ row.reason = NoReason
    /\ row.status # "DRAFT" => row.approved
    /\ row.status = "REVOKED" => row.reason # NoReason

\* What a request of GraduationDecisionService holds.
DecisionFine(q) ==
    /\ q.step \in {"existing", "insert", "approve", "correct", "revoke"} =>
        {"ev", "entry"} \subseteq DOMAIN q /\ q.ev \in Evaluated
    /\ q.step = "approve" => q.ev \in InRegister
    /\ q.step \in {"correct", "revoke"} => q.ev \in Approved
    /\ q.step = "revoke" => q.entry.after # NoReason

RowsComplete ==
    /\ decision = [ev \in Evaluation |-> decision[ev]]
    /\ evaluation = [ev \in Evaluation |-> evaluation[ev]]
    /\ \A ev \in Evaluation : "outcome" \in DOMAIN evaluation[ev]
    /\ \A ev \in InRegister : Complete(decision[ev])
    /\ InRegister \subseteq Evaluated
    /\ \A h \in Handler : DecisionFine(handler[h])

\* A step that leaves the rows as they are and puts a fine request into a slot.
LEMMA DecisionReads ==
    ASSUME Steppable, RowsComplete, NEW h \in Handler, NEW m, DecisionFine(m), Reads(h, m),
           UNCHANGED <<decision, evaluation>>
    PROVE  RowsComplete'
<1>1. ASSUME NEW g \in Handler PROVE DecisionFine(handler'[g])
  BY DEF Steppable, RowsComplete, Reads
<1>2. \A q : DecisionFine(q) => DecisionFine(q)'
  BY DEF DecisionFine, Evaluated, InRegister, Approved
<1> QED
  BY <1>1, <1>2 DEF RowsComplete, Evaluated, InRegister

\* A step that writes a complete row, of an evaluation that has a verdict, and has its
\* entry appended next.
LEMMA DecisionWritten ==
    ASSUME Steppable, RowsComplete, NEW h \in Handler, CommitToAudit(h),
           NEW ev \in Evaluated, NEW row, Complete(row), row # NoDecision,
           ev \in Approved => row.approved,
           decision' = [decision EXCEPT ![ev] = row], UNCHANGED evaluation
    PROVE  RowsComplete'
<1>1. /\ Evaluated' = Evaluated
      /\ InRegister' = InRegister \cup {ev}
      /\ Approved \subseteq Approved'
  BY DEF RowsComplete, Evaluated, InRegister, Approved
<1>2. ASSUME NEW g \in Handler PROVE DecisionFine(handler'[g])
  <2> DEFINE m == [handler[h] EXCEPT !.step = "audit"]
  <2>1. DecisionFine(m)
    BY DEF Steppable, DecisionFine
  <2>2. handler'[g] \in {handler[g], m}
    BY DEF Steppable, CommitToAudit, Commits
  <2> QED
    BY <2>1, <2>2 DEF RowsComplete
<1>3. ASSUME NEW q, DecisionFine(q) PROVE DecisionFine(q)'
  BY <1>1, <1>3 DEF DecisionFine
<1> QED
  BY <1>1, <1>2, <1>3 DEF RowsComplete, InRegister

\* Every action of GraduationDecisionService keeps the rows complete.
LEMMA DecisionsStep ==
    ASSUME Steppable, RowsComplete, NEW h \in Handler, HandleDecision(h)
    PROVE  RowsComplete'
<1> DEFINE q   == handler[h]
           row == decision[q.ev]
<1>0. "step" \in DOMAIN q /\ DecisionFine(q) /\ DecisionFine(Idle)
  BY DEF Steppable, RowsComplete, DecisionFine, Idle
<1>1. CASE FindEvaluation(h)
  <2>1. ASSUME NEW ev \in Evaluation, NEW x, Decidable(ev)
        PROVE  DecisionFine([step |-> "existing", ev |-> ev, entry |-> x])
    BY <2>1 DEF Decidable, DecisionFine, Evaluated
  <2> QED
    BY <1>1, <2>1, DecisionReads DEF FindEvaluation, Decide, Receive, decisionTables
<1>2. CASE FindExisting(h)
  <2>1. DecisionFine([q EXCEPT !.step = "insert"])
    BY <1>0, <1>2 DEF FindExisting, At, DecisionFine
  <2> QED
    BY <1>0, <1>2, <2>1, DecisionReads DEF FindExisting, Goto, Finish, decisionTables
<1>3. CASE InsertDecision(h)
  <2> DEFINE new == [status |-> "DRAFT", verdict |-> q.entry.after, approved |-> FALSE,
                     approvedBy |-> Nobody, reason |-> NoReason]
  <2>1. q.ev \in Evaluated
    BY <1>0, <1>3 DEF InsertDecision, At, DecisionFine
  <2>2. CASE Decided(q.ev)
    BY <1>0, <1>3, <2>2, DecisionReads DEF InsertDecision, Finish
  <2>3. CASE ~Decided(q.ev)
    <3>1. Complete(new) /\ new # NoDecision
      BY DEF Complete, NoDecision
    <3>2. q.ev \notin Approved
      BY <2>3 DEF Decided, Approved, InRegister
    <3> QED
      BY <1>3, <2>1, <2>3, <3>1, <3>2, DecisionWritten DEF InsertDecision
  <2> QED
    BY <2>2, <2>3
<1>4. CASE BeginApprove(h)
  <2>1. ASSUME NEW ev \in Evaluation, NEW u \in User \cup {Nobody}, Decided(ev)
        PROVE  DecisionFine([step |-> "approve", ev |-> ev,
                             entry |-> [act |-> "approve", by |-> u]])
    BY <2>1, DecisionAssumption DEF DecisionFine, RowsComplete, Decided, InRegister
  <2> QED
    BY <1>4, <2>1, DecisionReads DEF BeginApprove, Decide, Receive, decisionTables
<1>5. CASE BeginCorrect(h)
  <2>1. ASSUME NEW ev \in Evaluation, NEW x, Decided(ev), decision[ev].status = "APPROVED"
        PROVE  DecisionFine([step |-> "correct", ev |-> ev, entry |-> x])
    BY <2>1 DEF DecisionFine, RowsComplete, Decided, InRegister, Approved, Complete
  <2> QED
    BY <1>5, <2>1, DecisionReads DEF BeginCorrect, Decide, Receive, decisionTables
<1>6. CASE BeginRevoke(h)
  <2>1. ASSUME NEW ev \in Evaluation, NEW t \in Reason, Decided(ev),
               decision[ev].status = "APPROVED"
        PROVE  DecisionFine([step |-> "revoke", ev |-> ev,
                             entry |-> [act |-> "revoke", after |-> t]])
    BY <2>1, DecisionAssumption
    DEF DecisionFine, RowsComplete, Decided, InRegister, Approved, Complete
  <2> QED
    BY <1>6, <2>1, DecisionReads DEF BeginRevoke, CanTransition, Decide, Receive, decisionTables
<1>7. CASE Approve(h)
  <2> DEFINE new == [row EXCEPT !.status = "APPROVED", !.approved = TRUE, !.approvedBy = q.entry.by]
  <2>1. q.ev \in Evaluated /\ q.ev \in InRegister
    BY <1>0, <1>7 DEF Approve, At, DecisionFine
  <2>2. Complete(new) /\ new # NoDecision /\ new.approved
    BY <2>1 DEF Complete, RowsComplete, NoDecision
  <2> QED
    BY <1>7, <2>1, <2>2, DecisionWritten DEF Approve
<1>8. CASE Correct(h)
  <2> DEFINE new == [row EXCEPT !.verdict = q.entry.after]
  <2>1. q.ev \in Evaluated /\ q.ev \in InRegister /\ q.ev \in Approved
    BY <1>0, <1>8 DEF Correct, At, DecisionFine, Approved
  <2>2. Complete(new) /\ new # NoDecision /\ new.approved
    BY <2>1 DEF Complete, RowsComplete, NoDecision, Approved
  <2> QED
    BY <1>8, <2>1, <2>2, DecisionWritten DEF Correct
<1>9. CASE Revoke(h)
  <2> DEFINE new == [row EXCEPT !.status = "REVOKED", !.reason = q.entry.after]
  <2>1. /\ q.ev \in Evaluated /\ q.ev \in InRegister /\ q.ev \in Approved
        /\ q.entry.after # NoReason
    BY <1>0, <1>9 DEF Revoke, At, DecisionFine, Approved
  <2>2. Complete(new) /\ new # NoDecision /\ new.approved
    BY <2>1 DEF Complete, RowsComplete, NoDecision, Approved
  <2> QED
    BY <1>9, <2>1, <2>2, DecisionWritten DEF Revoke
<1>10. CASE Audit(h)
  BY <1>0, <1>10, DecisionReads DEF Audit, Finish
<1> QED
  BY <1>1, <1>2, <1>3, <1>4, <1>5, <1>6, <1>7, <1>8, <1>9, <1>10 DEF HandleDecision

\* An evaluation that is written or superseded has a verdict, then as before.
LEMMA EvaluationsStep ==
    ASSUME RowsComplete, DecisionsOutside, UNCHANGED handler
    PROVE  RowsComplete'
<1>1. PICK ev \in Evaluation, x \in {"ELIGIBLE", "NOT_ELIGIBLE", "SUPERSEDED"} :
        evaluation' = [evaluation EXCEPT ![ev].outcome = x] /\ UNCHANGED decision
  BY DEF DecisionsOutside, Evaluate, Supersede
<1>2. Evaluated \subseteq Evaluated' /\ InRegister' = InRegister /\ Approved' = Approved
  BY <1>1 DEF RowsComplete, Evaluated, InRegister, Approved
<1>3. ASSUME NEW q, DecisionFine(q) PROVE DecisionFine(q)'
  BY <1>2, <1>3 DEF DecisionFine
<1> QED
  BY <1>1, <1>2, <1>3 DEF RowsComplete

\* Every step of the whole keeps the rows complete.
LEMMA RowsCompleteNext ==
    ASSUME Steppable, RowsComplete, [Next]_vars
    PROVE  RowsComplete'
<1>1. CASE \E h \in Handler : HandleDecision(h)
  BY <1>1, DecisionsStep
<1>2. CASE DecisionsOutside /\ UNCHANGED handler
  BY <1>2, EvaluationsStep
<1>4. ASSUME NEW h \in Handler, LoseDecision(h) PROVE RowsComplete'
  <2>1. DecisionFine(Idle)
    BY DEF DecisionFine, Idle
  <2> QED
    BY <1>4, <2>1, DecisionReads DEF LoseDecision, Abandon, Finish
<1>3. CASE UNCHANGED <<decision, evaluation>> /\ Unentered(DecisionsSteps)
  <2>1. ASSUME NEW h \in Handler PROVE DecisionFine(handler'[h])
    BY <1>3 DEF Unentered, DecisionsSteps, DecisionFine, RowsComplete
  <2>2. \A q : DecisionFine(q) => DecisionFine(q)'
    BY <1>3 DEF DecisionFine, Evaluated, InRegister, Approved
  <2> QED
    BY <1>3, <2>1, <2>2 DEF RowsComplete, Evaluated, InRegister
<1> QED
  BY <1>1, <1>2, <1>3, <1>4, DecisionsElse DEF decisionTables

\* The rows that are there at the start are complete.
LEMMA InitComplete == Init => RowsComplete
<1>1. ASSUME DecisionsInit
      PROVE  /\ decision = [ev \in Evaluation |-> decision[ev]]
             /\ evaluation = [ev \in Evaluation |-> evaluation[ev]]
             /\ \A ev \in Evaluation : "outcome" \in DOMAIN evaluation[ev]
             /\ \A ev \in InRegister : Complete(decision[ev])
             /\ InRegister \subseteq Evaluated
  BY <1>1, DecisionAssumption DEF DecisionsInit, InRegister, Evaluated, Complete, NoDecision
<1>2. DecisionFine(Idle)
  BY DEF DecisionFine, Idle
<1> QED
  BY <1>1, <1>2 DEF Init, RequestsInit, RowsComplete

\* A decision in force has been approved, a revoked one was approved and has its reason,
\* a draft has neither, and each rests on an evaluation that had a verdict, for any
\* numbers of decisions, approvers, reasons and requests, named or not.
THEOREM DecisionsAreComplete == Spec => []RowComplete
<1>1. Init => Steppable /\ RowsComplete
  BY InitSteppable, InitComplete
<1>2. Steppable /\ RowsComplete /\ [Next]_vars => Steppable' /\ RowsComplete'
  BY StepSteppable, RowsCompleteNext
<1>3. RowsComplete => RowComplete
  BY DEF RowsComplete, RowComplete, Complete, InRegister, Evaluated, Decided
<1> QED
  BY <1>1, <1>2, <1>3, PTL DEF Spec

-----------------------------------------------------------------------------
(* TrailExplains *)

\* What the entry x of ev's trail tells of its row.
Happened(ev, x) ==
    /\ ev \in InRegister
    /\ x.act \in {"approve", "correct"} => decision[ev].approved
    /\ x.act = "revoke" => decision[ev].reason # NoReason

\* What the row says and where its verdict comes from is in the account A.
Accounted(row, A) ==
    /\ row.approved => [act |-> "approve", by |-> row.approvedBy] \in A
    /\ row.reason # NoReason => [act |-> "revoke", after |-> row.reason] \in A
    /\ \E x \in A : x.act \in {"create", "correct"} /\ x.after = row.verdict

\* The entry of a request is the one of its write; the write of an entry that waits to
\* be appended has happened.
EntryFine(q) ==
    /\ q.step \in {"existing", "insert"} => "entry" \in DOMAIN q /\ q.entry.act = "create"
    /\ q.step = "approve" => q.entry = [act |-> "approve", by |-> q.entry.by]
    /\ q.step = "correct" => q.entry.act = "correct"
    /\ q.step = "revoke" => q.entry = [act |-> "revoke", after |-> q.entry.after]
    /\ q.step = "audit" => q.ev \in Evaluation /\ Happened(q.ev, q.entry)

Explained ==
    /\ trail = [ev \in Evaluation |-> trail[ev]]
    /\ lost = [ev \in Evaluation |-> lost[ev]]
    /\ \A ev \in InRegister : Accounted(decision[ev], Account(ev))
    /\ \A ev \in Evaluation : \A x \in trail[ev] : Happened(ev, x)
    /\ \A h \in Handler : EntryFine(handler[h])

\* A step that leaves the tables as they are and touches no waiting entry.
LEMMA ExplainedReads ==
    ASSUME Steppable, Explained, NEW h \in Handler, ~At(h, "audit"), NEW m, EntryFine(m),
           "step" \in DOMAIN m, m.step # "audit", Reads(h, m), UNCHANGED decisionTables
    PROVE  Explained'
<1>1. \A ev \in Evaluation : Account(ev)' = Account(ev)
  <2>1. \A g \in Handler : At(g, "audit")' <=> At(g, "audit")
    BY DEF Steppable, Reads, At
  <2>2. \A g \in Handler : At(g, "audit") => handler'[g] = handler[g]
    BY DEF Steppable, Reads, At
  <2>3. \A ev \in Evaluation : Pending(ev)' = Pending(ev)
    BY <2>1, <2>2 DEF Pending
  <2> QED
    BY <2>3 DEF Account, decisionTables
<1>2. ASSUME NEW g \in Handler PROVE EntryFine(handler'[g])
  BY DEF Steppable, Explained, Reads
<1>3. \A q : EntryFine(q) => EntryFine(q)'
  BY DEF EntryFine, Happened, InRegister, decisionTables
<1>4. InRegister' = InRegister /\ \A ev : decision'[ev] = decision[ev]
  BY DEF InRegister, decisionTables
<1>5. \A ev \in InRegister' : Accounted(decision[ev], Account(ev))'
  BY <1>1, <1>4 DEF Explained, Accounted, InRegister
<1>6. \A g \in Handler : EntryFine(handler[g])'
  BY <1>2, <1>3 DEF EntryFine
<1> QED
  BY <1>4, <1>5, <1>6 DEF Explained, Happened, decisionTables

\* A write of the row of ev that says no less than before and nothing that is neither
\* in the row already nor in the entry to be appended.
LEMMA ExplainedWritten ==
    ASSUME Steppable, RowsComplete, Explained, NEW h \in Handler, ~At(h, "audit"),
           CommitToAudit(h), NEW ev \in Evaluation, NEW x, handler[h].ev = ev, handler[h].entry = x,
           {"ev", "entry"} \subseteq DOMAIN handler[h],
           NEW row, Complete(row), row # NoDecision,
           decision' = [decision EXCEPT ![ev] = row], UNCHANGED <<evaluation, trail, lost>>,
           ev \in InRegister =>
               /\ decision[ev].approved => row.approved
               /\ decision[ev].reason # NoReason => row.reason # NoReason,
           x.act \in {"approve", "correct"} => row.approved,
           x.act = "revoke" => row.reason # NoReason,
           Accounted(row, (IF ev \in InRegister THEN Account(ev) ELSE {}) \cup {x})
    PROVE  Explained'
<1> DEFINE m == [handler[h] EXCEPT !.step = "audit"]
<1>1. handler'[h] = m /\ \A g \in Handler \ {h} : handler'[g] = handler[g]
  BY DEF Steppable, CommitToAudit, Commits
<1>2. m.step = "audit" /\ m.ev = ev /\ m.entry = x
  BY DEF Steppable
<1>3. InRegister' = InRegister \cup {ev} /\ decision'[ev] = row
  BY DEF InRegister, RowsComplete
<1>4. \A e \in Evaluation : e # ev => decision'[e] = decision[e]
  BY DEF RowsComplete
<1>5. \A e \in Evaluation : \A y : Happened(e, y) => Happened(e, y)'
  BY <1>3, <1>4 DEF Happened
<1>6. Happened(ev, x)'
  BY <1>3 DEF Happened
<1>7. \A e \in Evaluation : Account(e) \subseteq Account(e)'
  <2>1. \A g \in Handler : At(g, "audit") => handler'[g] = handler[g]
    BY <1>1
  <2>2. \A e \in Evaluation : Pending(e) \subseteq Pending(e)'
    BY <2>1 DEF Pending, At
  <2> QED
    BY <2>2 DEF Account
<1>8. x \in Account(ev)'
  <2>1. At(h, "audit")' /\ (handler[h].ev)' = ev /\ (handler[h].entry)' = x
    BY <1>1, <1>2 DEF At
  <2> QED
    BY <2>1 DEF Account, Pending
<1>9. ASSUME NEW e \in InRegister' PROVE Accounted(decision[e], Account(e))'
  <2>1. CASE e = ev
    BY <1>3, <1>7, <1>8, <2>1 DEF Accounted
  <2>2. CASE e # ev
    <3>1. e \in InRegister /\ e \in Evaluation
      BY <1>3, <2>2 DEF InRegister
    <3> QED
      BY <1>4, <1>7, <2>2, <3>1 DEF Accounted, Explained
  <2> QED
    BY <2>1, <2>2
<1>10. ASSUME NEW g \in Handler PROVE EntryFine(handler[g])'
  <2>1. CASE g = h
    BY <1>1, <1>2, <1>6, <2>1 DEF EntryFine
  <2>2. CASE g # h
    BY <1>1, <1>5, <2>2 DEF EntryFine, Explained
  <2> QED
    BY <2>1, <2>2
<1> QED
  BY <1>5, <1>9, <1>10 DEF Explained

\* A waiting entry is appended, or its write fails: the accounts lose nothing.
LEMMA ExplainedAudit ==
    ASSUME Steppable, RowsComplete, Explained, NEW h \in Handler, At(h, "audit"), Finish(h),
           NEW ev \in Evaluation, NEW x, handler[h].ev = ev, handler[h].entry = x,
           UNCHANGED <<evaluation, decision>>,
           \/ trail' = [trail EXCEPT ![ev] = @ \cup {x}] /\ UNCHANGED lost
           \/ lost' = [lost EXCEPT ![ev] = @ \cup {x}] /\ UNCHANGED trail
    PROVE  Explained'
<1>1. handler'[h] = Idle /\ \A g \in Handler \ {h} : handler'[g] = handler[g]
  BY DEF Steppable, Finish, Reads
<1>2. \A e \in Evaluation : trail[e] \cup lost[e] \subseteq trail'[e] \cup lost'[e]
  BY DEF Explained
<1>3. x \in trail'[ev] \cup lost'[ev]
  BY DEF Explained
<1>4. ASSUME NEW e \in Evaluation PROVE Account(e) \subseteq Account(e)'
  <2>1. ASSUME NEW y \in Pending(e) PROVE y \in Account(e)'
    <3>1. PICK g \in Handler : At(g, "audit") /\ handler[g].ev = e /\ y = handler[g].entry
      BY <2>1 DEF Pending
    <3>2. CASE g = h
      BY <1>3, <3>1, <3>2 DEF Account
    <3>3. CASE g # h
      <4>1. y \in Pending(e)'
        BY <1>1, <3>1, <3>3 DEF Pending, At
      <4> QED
        BY <4>1 DEF Account
    <3> QED
      BY <3>2, <3>3
  <2> QED
    BY <1>2, <2>1 DEF Account
<1>5. \A e \in Evaluation : \A y : Happened(e, y)' <=> Happened(e, y)
  BY DEF Happened, InRegister
<1>6. Happened(ev, x)
  BY DEF Explained, EntryFine, At
<1>7. \A e \in Evaluation : \A y \in trail'[e] : Happened(e, y)'
  BY <1>5, <1>6 DEF Explained
<1>8. ASSUME NEW g \in Handler PROVE EntryFine(handler[g])'
  <2>1. handler'[g] = Idle \/ handler'[g] = handler[g]
    BY <1>1
  <2> QED
    BY <1>5, <2>1 DEF Explained, EntryFine, Idle
<1>9. ASSUME NEW e \in InRegister' PROVE Accounted(decision[e], Account(e))'
  BY <1>4 DEF Accounted, Explained, InRegister
<1> QED
  BY <1>7, <1>8, <1>9 DEF Explained

\* Every action of GraduationDecisionService keeps the rows explained.
LEMMA ExplainedStep ==
    ASSUME Steppable, RowsComplete, Explained, NEW h \in Handler, HandleDecision(h)
    PROVE  Explained'
<1> DEFINE q   == handler[h]
           row == decision[q.ev]
<1>0. /\ "step" \in DOMAIN q /\ EntryFine(q) /\ DecisionFine(q)
      /\ EntryFine(Idle) /\ "step" \in DOMAIN Idle /\ Idle.step = "idle"
  BY DEF Steppable, RowsComplete, Explained, EntryFine, Idle
<1>1. CASE FindEvaluation(h)
  BY <1>1, ExplainedReads DEF FindEvaluation, Decide, Receive, At, EntryFine
<1>2. CASE FindExisting(h)
  <2>1. EntryFine([q EXCEPT !.step = "insert"])
    BY <1>0, <1>2 DEF FindExisting, At, EntryFine
  <2> QED
    BY <1>0, <1>2, <2>1, ExplainedReads DEF FindExisting, Goto, Finish, At
<1>3. CASE InsertDecision(h)
  <2> DEFINE new == [status |-> "DRAFT", verdict |-> q.entry.after, approved |-> FALSE,
                     approvedBy |-> Nobody, reason |-> NoReason]
  <2>1. /\ At(h, "insert") /\ q.entry.act = "create"
        /\ {"ev", "entry"} \subseteq DOMAIN q /\ q.ev \in Evaluation
    BY <1>0, <1>3 DEF InsertDecision, At, EntryFine, DecisionFine, Evaluated
  <2>2. CASE Decided(q.ev)
    BY <1>0, <1>3, <2>1, <2>2, ExplainedReads DEF InsertDecision, Finish, At, decisionTables
  <2>3. CASE ~Decided(q.ev)
    <3>1. Complete(new) /\ new # NoDecision
      BY DEF Complete, NoDecision
    <3>2. q.ev \notin InRegister
      BY <2>3 DEF Decided, InRegister
    <3>3. Accounted(new, {q.entry})
      BY <2>1 DEF Accounted
    <3>4. /\ CommitToAudit(h) /\ UNCHANGED <<evaluation, trail, lost>>
          /\ decision' = [decision EXCEPT ![q.ev] = new]
      BY <1>3, <2>3 DEF InsertDecision
    <3>5. ~At(h, "audit")
      BY <2>1 DEF At
    <3> QED
      BY <2>1, <3>1, <3>2, <3>3, <3>4, <3>5, ExplainedWritten
  <2> QED
    BY <2>2, <2>3
<1>4. CASE BeginApprove(h)
  BY <1>4, ExplainedReads DEF BeginApprove, Decide, Receive, At, EntryFine
<1>5. CASE BeginCorrect(h)
  BY <1>5, ExplainedReads DEF BeginCorrect, Decide, Receive, At, EntryFine
<1>6. CASE BeginRevoke(h)
  BY <1>6, ExplainedReads DEF BeginRevoke, Decide, Receive, At, EntryFine
<1>7. CASE Approve(h)
  <2> DEFINE new == [row EXCEPT !.status = "APPROVED", !.approved = TRUE, !.approvedBy = q.entry.by]
  <2>1. /\ At(h, "approve") /\ ~At(h, "audit") /\ q.entry = [act |-> "approve", by |-> q.entry.by]
        /\ {"ev", "entry"} \subseteq DOMAIN q /\ q.ev \in Evaluation /\ q.ev \in InRegister
    BY <1>0, <1>7 DEF Approve, At, EntryFine, DecisionFine, Evaluated
  <2>2. Complete(row) /\ Accounted(row, Account(q.ev))
    BY <2>1 DEF RowsComplete, Explained
  <2>3. /\ Complete(new) /\ new # NoDecision /\ new.approved
        /\ new.approvedBy = q.entry.by /\ new.reason = row.reason /\ new.verdict = row.verdict
    BY <2>1, <2>2 DEF Complete, NoDecision
  <2>4. Accounted(new, Account(q.ev) \cup {q.entry})
    BY <2>1, <2>2, <2>3 DEF Accounted
  <2>5. /\ CommitToAudit(h) /\ UNCHANGED <<evaluation, trail, lost>>
        /\ decision' = [decision EXCEPT ![q.ev] = new]
    BY <1>7 DEF Approve
  <2>6. q.entry.act = "approve"
    BY <2>1
  <2> HIDE DEF new
  <2> QED
    BY <2>1, <2>3, <2>4, <2>5, <2>6, ExplainedWritten
<1>8. CASE Correct(h)
  <2> DEFINE new == [row EXCEPT !.verdict = q.entry.after]
  <2>1. /\ At(h, "correct") /\ ~At(h, "audit") /\ q.entry.act = "correct"
        /\ {"ev", "entry"} \subseteq DOMAIN q /\ q.ev \in Evaluation /\ q.ev \in Approved
        /\ q.ev \in InRegister
    BY <1>0, <1>8 DEF Correct, At, EntryFine, DecisionFine, Evaluated, Approved
  <2>2. Complete(row) /\ Accounted(row, Account(q.ev)) /\ row.approved
    BY <2>1 DEF RowsComplete, Explained, Approved
  <2>3. /\ Complete(new) /\ new # NoDecision /\ new.approved
        /\ new.approvedBy = row.approvedBy /\ new.reason = row.reason
        /\ new.verdict = q.entry.after
    BY <2>1, <2>2 DEF Complete, NoDecision
  <2>4. Accounted(new, Account(q.ev) \cup {q.entry})
    BY <2>1, <2>2, <2>3 DEF Accounted
  <2>5. /\ CommitToAudit(h) /\ UNCHANGED <<evaluation, trail, lost>>
        /\ decision' = [decision EXCEPT ![q.ev] = new]
    BY <1>8 DEF Correct
  <2> HIDE DEF new
  <2> QED
    BY <2>1, <2>2, <2>3, <2>4, <2>5, ExplainedWritten
<1>9. CASE Revoke(h)
  <2> DEFINE new == [row EXCEPT !.status = "REVOKED", !.reason = q.entry.after]
  <2>1. /\ At(h, "revoke") /\ ~At(h, "audit") /\ q.entry = [act |-> "revoke", after |-> q.entry.after]
        /\ {"ev", "entry"} \subseteq DOMAIN q /\ q.ev \in Evaluation /\ q.ev \in Approved
        /\ q.ev \in InRegister /\ q.entry.after # NoReason
    BY <1>0, <1>9 DEF Revoke, At, EntryFine, DecisionFine, Evaluated, Approved
  <2>2. Complete(row) /\ Accounted(row, Account(q.ev)) /\ row.approved
    BY <2>1 DEF RowsComplete, Explained, Approved
  <2>3. /\ Complete(new) /\ new # NoDecision /\ new.approved
        /\ new.approvedBy = row.approvedBy /\ new.reason = q.entry.after
        /\ new.verdict = row.verdict
    BY <2>1, <2>2 DEF Complete, NoDecision
  <2>4. Accounted(new, Account(q.ev) \cup {q.entry})
    BY <2>1, <2>2, <2>3 DEF Accounted
  <2>5. /\ CommitToAudit(h) /\ UNCHANGED <<evaluation, trail, lost>>
        /\ decision' = [decision EXCEPT ![q.ev] = new]
    BY <1>9 DEF Revoke
  <2>6. q.entry.act = "revoke"
    BY <2>1
  <2> HIDE DEF new
  <2> QED
    BY <2>1, <2>2, <2>3, <2>4, <2>5, <2>6, ExplainedWritten
<1>10. CASE Audit(h)
  <2>1. At(h, "audit") /\ q.ev \in Evaluation
    BY <1>0, <1>10 DEF Audit, At, EntryFine
  <2> QED
    BY <1>10, <2>1, ExplainedAudit DEF Audit
<1> QED
  BY <1>1, <1>2, <1>3, <1>4, <1>5, <1>6, <1>7, <1>8, <1>9, <1>10 DEF HandleDecision

\* A request that is lost may take its entry with it, which is then known to be lost.
LEMMA ExplainedLost ==
    ASSUME Steppable, RowsComplete, Explained, NEW h \in Handler, LoseDecision(h)
    PROVE  Explained'
<1>1. CASE At(h, "audit")
  <2>1. handler[h].ev \in Evaluation
    BY <1>1 DEF Explained, EntryFine, At
  <2> QED
    BY <1>1, <2>1, ExplainedAudit DEF LoseDecision, Abandon
<1>2. CASE ~At(h, "audit")
  <2>1. EntryFine(Idle) /\ "step" \in DOMAIN Idle /\ Idle.step # "audit"
    BY DEF EntryFine, Idle
  <2> QED
    BY <1>2, <2>1, ExplainedReads DEF LoseDecision, Abandon, Finish, decisionTables
<1> QED
  BY <1>1, <1>2

\* Every step of the whole keeps the rows explained.
LEMMA ExplainedNext ==
    ASSUME Steppable, RowsComplete, Explained, [Next]_vars
    PROVE  Explained'
<1>1. CASE \E h \in Handler : HandleDecision(h) \/ LoseDecision(h)
  BY <1>1, ExplainedStep, ExplainedLost
<1>2. CASE DecisionsOutside /\ UNCHANGED handler
  <2>1. UNCHANGED <<decision, trail, lost, handler>>
    BY <1>2 DEF DecisionsOutside, Evaluate, Supersede
  <2> QED
    BY <2>1 DEF Explained, Accounted, Account, Pending, At, Happened, InRegister, EntryFine
<1>3. CASE UNCHANGED decisionTables /\ Unentered(DecisionsSteps) /\ Unleft(DecisionsSteps)
  <2>1. \A h \in Handler : handler'[h] = handler[h] \/ (~At(h, "audit") /\ ~At(h, "audit")')
    BY <1>3 DEF Unentered, Unleft, DecisionsSteps, At
  <2>2. \A ev \in Evaluation : Account(ev)' = Account(ev)
    <3>1. \A ev \in Evaluation : Pending(ev)' = Pending(ev)
      BY <2>1 DEF Pending, At
    <3> QED
      BY <1>3, <3>1 DEF Account, decisionTables
  <2>3. ASSUME NEW h \in Handler PROVE EntryFine(handler'[h])
    BY <1>3 DEF Unentered, DecisionsSteps, EntryFine, Explained
  <2>4. \A q : EntryFine(q) => EntryFine(q)'
    BY <1>3 DEF EntryFine, Happened, InRegister, decisionTables
  <2>5. InRegister' = InRegister /\ \A ev : decision'[ev] = decision[ev]
    BY <1>3 DEF InRegister, decisionTables
  <2>6. \A ev \in InRegister' : Accounted(decision[ev], Account(ev))'
    BY <2>2, <2>5 DEF Explained, Accounted, InRegister
  <2>7. \A h \in Handler : EntryFine(handler[h])'
    BY <2>3, <2>4 DEF EntryFine
  <2> QED
    BY <1>3, <2>5, <2>6, <2>7 DEF Explained, Happened, decisionTables
<1> QED
  BY <1>1, <1>2, <1>3, DecisionsElse

\* The audit trail explains every decision and tells of nothing that did not happen, but
\* for entries whose own write has failed, for any numbers of decisions and requests.
THEOREM TrailExplainsDecisions == Spec => []TrailExplains
<1>1. Init => Steppable /\ RowsComplete /\ Explained
  <2>1. ASSUME DecisionsInit, RequestsInit PROVE Explained
    <3> DEFINE x == CHOOSE v \in Verdict : TRUE
               u == CHOOSE u \in User : TRUE
               draft   == [status |-> "DRAFT", verdict |-> x, approved |-> FALSE,
                           approvedBy |-> Nobody, reason |-> NoReason]
               inForce == [draft EXCEPT !.status = "APPROVED", !.approved = TRUE,
                                        !.approvedBy = u]
               created  == [act |-> "create", after |-> x]
               approved == [act |-> "approve", by |-> u]
    <3>1. ASSUME NEW ev \in Evaluation
          PROVE  \/ trail[ev] = {} /\ decision[ev] = NoDecision
                 \/ trail[ev] = {created} /\ decision[ev] = draft
                 \/ trail[ev] = {created, approved} /\ decision[ev] = inForce
      <4>1. CASE "create" \in calls
        BY <2>1, <4>1 DEF DecisionsInit
      <4>2. CASE "create" \notin calls /\ "approve" \in calls
        BY <2>1, <4>2 DEF DecisionsInit
      <4>3. CASE "create" \notin calls /\ "approve" \notin calls
        BY <2>1, <4>3 DEF DecisionsInit
      <4> QED
        BY <4>1, <4>2, <4>3
    <3>2. Accounted(draft, {created}) /\ Accounted(inForce, {created, approved})
      BY DEF Accounted
    <3>3. inForce.approved /\ draft # NoDecision /\ inForce # NoDecision
      BY DecisionAssumption DEF NoDecision
    <3>4. created.act = "create" /\ approved.act = "approve"
      OBVIOUS
    <3> HIDE DEF draft, inForce, created, approved
    <3>5. \A ev \in Evaluation : \A y \in trail[ev] : Happened(ev, y)
      BY <3>1, <3>3, <3>4 DEF Happened, InRegister
    <3>6. \A ev \in InRegister : Accounted(decision[ev], trail[ev])
      BY <3>1, <3>2 DEF InRegister
    <3>7. \A ev \in InRegister : Accounted(decision[ev], Account(ev))
      BY <3>6 DEF Accounted, Account
    <3>8. \A h \in Handler : EntryFine(handler[h])
      BY <2>1 DEF RequestsInit, Idle, EntryFine
    <3>9. trail = [ev \in Evaluation |-> trail[ev]] /\ lost = [ev \in Evaluation |-> lost[ev]]
      BY <2>1 DEF DecisionsInit
    <3> QED
      BY <3>5, <3>7, <3>8, <3>9 DEF Explained
  <2> QED
    BY <2>1, InitSteppable, InitComplete DEF Init
<1>2. Steppable /\ RowsComplete /\ Explained /\ [Next]_vars
        => Steppable' /\ RowsComplete' /\ Explained'
  BY StepSteppable, RowsCompleteNext, ExplainedNext
<1>3. RowsComplete /\ Explained => TrailExplains
  BY DEF RowsComplete, Explained, Accounted, Happened, InRegister, Decided, TrailExplains
<1> QED
  BY <1>1, <1>2, <1>3, PTL DEF Spec

-----------------------------------------------------------------------------
(* KeepsLifecycle *)

\* What a request that no other one has crossed still knows of its decision, and what
\* its write will put there.
Fresh(q, uncrossed) ==
    /\ q.step \in {"existing", "insert"} => q.ev \in Evaluation /\ q.entry.after \in Verdict
    /\ q.step = "approve" => /\ q.ev \in Evaluation /\ q.entry.by \in User \cup {Nobody}
                             /\ uncrossed => decision[q.ev].status = "DRAFT"
    /\ q.step = "correct" => /\ q.ev \in Evaluation /\ q.entry.after \in Verdict
                             /\ uncrossed => decision[q.ev].status = "APPROVED"
    /\ q.step = "revoke"  => /\ q.ev \in Evaluation /\ q.entry.after \in Reason
                             /\ uncrossed => decision[q.ev].status = "APPROVED"

UncrossedFresh == \A h \in Handler : Fresh(handler[h], h \notin crossed)

\* A slot that stays as it is knows no less, if the decisions stay or it is crossed.
LEMMA FreshStays ==
    ASSUME Undisturbed, NEW g \in Handler, Fresh(handler[g], g \notin crossed),
           handler'[g] = handler[g],
           UNCHANGED decision \/ g \in crossed' \/ handler[g].step \in {"idle", "audit"}
    PROVE  Fresh(handler[g], g \notin crossed)'
<1>1. CASE handler[g].step \in {"idle", "audit"}
  BY <1>1 DEF Fresh
<1>2. CASE g \in crossed'
  BY <1>2 DEF Fresh
<1>3. CASE UNCHANGED decision /\ g \notin crossed' /\ handler[g].step # "idle"
  <2>1. g \notin crossed
    BY <1>3 DEF Undisturbed, InFlight, At
  <2> QED
    BY <1>3, <2>1 DEF Fresh
<1> QED
  BY <1>1, <1>2, <1>3

\* A read that leaves the decisions as they are and whose slot holds what is fresh.
LEMMA FreshReads ==
    ASSUME Steppable, UncrossedFresh, Undisturbed, NEW h \in Handler, NEW m, Reads(h, m),
           UNCHANGED decision, Fresh(m, TRUE)
    PROVE  UncrossedFresh'
<1>1. ASSUME NEW g \in Handler, g # h PROVE Fresh(handler[g], g \notin crossed)'
  BY <1>1, FreshStays DEF Steppable, Reads, UncrossedFresh
<1>2. Fresh(handler[h], h \notin crossed)'
  BY DEF Steppable, Reads, Fresh
<1> QED
  BY <1>1, <1>2 DEF UncrossedFresh

\* A commit crosses all the others, and its own request has only its entry to append.
LEMMA FreshWritten ==
    ASSUME Steppable, UncrossedFresh, Undisturbed, NEW h \in Handler, CommitToAudit(h)
    PROVE  UncrossedFresh'
<1>1. ASSUME NEW g \in Handler, g # h PROVE Fresh(handler[g], g \notin crossed)'
  <2>1. handler'[g] = handler[g] /\ (g \in crossed' \/ handler[g].step = "idle")
    BY <1>1 DEF Steppable, CommitToAudit, Commits, InFlight, At
  <2> QED
    BY <1>1, <2>1, FreshStays DEF UncrossedFresh
<1>2. Fresh(handler[h], h \notin crossed)'
  BY DEF Steppable, CommitToAudit, Commits, Fresh
<1> QED
  BY <1>1, <1>2 DEF UncrossedFresh

\* Every action of GraduationDecisionService keeps uncrossed requests fresh.
LEMMA FreshStep ==
    ASSUME Steppable, UncrossedFresh, Undisturbed, NEW h \in Handler, HandleDecision(h)
    PROVE  UncrossedFresh'
<1> DEFINE q == handler[h]
<1>0. "step" \in DOMAIN q /\ Fresh(q, h \notin crossed) /\ Fresh(Idle, TRUE)
  BY DEF Steppable, UncrossedFresh, Fresh, Idle
<1>1. CASE FindEvaluation(h)
  BY <1>1, FreshReads DEF FindEvaluation, Decide, Receive, decisionTables, Fresh
<1>2. CASE FindExisting(h)
  <2>1. Fresh([q EXCEPT !.step = "insert"], TRUE)
    BY <1>0, <1>2 DEF FindExisting, At, Fresh
  <2> QED
    BY <1>0, <1>2, <2>1, FreshReads DEF FindExisting, Goto, Finish, decisionTables
<1>3. CASE InsertDecision(h)
  BY <1>0, <1>3, FreshReads, FreshWritten DEF InsertDecision, Finish
<1>4. CASE BeginApprove(h)
  BY <1>4, FreshReads DEF BeginApprove, CanTransition, Decide, Receive, decisionTables, Fresh
<1>5. CASE BeginCorrect(h)
  BY <1>5, FreshReads DEF BeginCorrect, Decide, Receive, decisionTables, Fresh
<1>6. CASE BeginRevoke(h)
  BY <1>6, FreshReads DEF BeginRevoke, CanTransition, Decide, Receive, decisionTables, Fresh
<1>7. CASE Approve(h) \/ Correct(h) \/ Revoke(h)
  BY <1>7, FreshWritten DEF Approve, Correct, Revoke
<1>8. CASE Audit(h)
  BY <1>0, <1>8, FreshReads DEF Audit, Finish
<1> QED
  BY <1>1, <1>2, <1>3, <1>4, <1>5, <1>6, <1>7, <1>8 DEF HandleDecision

\* Every step of the whole keeps uncrossed requests fresh.
LEMMA FreshNext ==
    ASSUME Steppable, UncrossedFresh, [Next]_vars
    PROVE  UncrossedFresh'
<1>0. Undisturbed
  BY NextUndisturbed
<1>1. CASE \E h \in Handler : HandleDecision(h)
  BY <1>0, <1>1, FreshStep
<1>2. ASSUME NEW h \in Handler, LoseDecision(h) PROVE UncrossedFresh'
  <2>1. Fresh(Idle, TRUE)
    BY DEF Fresh, Idle
  <2> QED
    BY <1>0, <1>2, <2>1, FreshReads DEF LoseDecision, Abandon, Finish
<1>3. CASE DecisionsOutside /\ UNCHANGED handler
  BY <1>0, <1>3, FreshStays DEF UncrossedFresh, DecisionsOutside, Evaluate, Supersede
<1>4. CASE UNCHANGED decisionTables /\ Unentered(DecisionsSteps)
  <2>1. ASSUME NEW h \in Handler, handler'[h] = handler[h]
        PROVE  Fresh(handler[h], h \notin crossed)'
    BY <1>0, <1>4, <2>1, FreshStays DEF UncrossedFresh, decisionTables
  <2>2. ASSUME NEW h \in Handler, handler'[h].step \notin DecisionsSteps
        PROVE  Fresh(handler[h], h \notin crossed)'
    BY <2>2 DEF Fresh, DecisionsSteps
  <2> QED
    BY <1>4, <2>1, <2>2 DEF Unentered, UncrossedFresh
<1> QED
  BY <1>1, <1>2, <1>3, <1>4, DecisionsElse

\* A step that no crossed request takes is one of the lifecycle's, or none.
LEMMA LifecycleStep ==
    ASSUME Steppable, UncrossedFresh, [Next]_vars
    PROVE  Promised(Lifecycle!Next, decision)
<1> SUFFICES ASSUME Uncrossed PROVE UNCHANGED decision \/ Lifecycle!Next
  BY DEF Promised
<1>1. ASSUME NEW h \in Handler, HandleDecision(h)
      PROVE  UNCHANGED decision \/ Lifecycle!Next
  <2> DEFINE q == handler[h]
  <2>1. ASSUME CommitToAudit(h), At(h, "insert") \/ At(h, "approve") \/ At(h, "correct") \/ At(h, "revoke")
        PROVE  Fresh(q, TRUE)
    <3>1. handler'[h] # handler[h]
      BY <2>1 DEF Steppable, CommitToAudit, Commits, At
    <3> QED
      BY <3>1 DEF Uncrossed, UncrossedFresh
  <2>2. CASE InsertDecision(h) /\ ~Decided(q.ev)
    <3>1. Fresh(q, TRUE)
      BY <2>1, <2>2 DEF InsertDecision
    <3>2. q.ev \in Evaluation /\ q.entry.after \in Verdict
      BY <2>2, <3>1 DEF InsertDecision, At, Fresh
    <3>3. Lifecycle!Create(q.ev)
      BY <2>2, <3>2 DEF InsertDecision, Decided, NoDecision, Lifecycle!Create, Lifecycle!Draft,
         Lifecycle!NoDecision
    <3> QED
      BY <3>2, <3>3 DEF Lifecycle!Next
  <2>3. CASE Approve(h)
    <3>1. Fresh(q, TRUE)
      BY <2>1, <2>3 DEF Approve
    <3>2. q.ev \in Evaluation /\ q.entry.by \in User \cup {Nobody} /\ decision[q.ev].status = "DRAFT"
      BY <2>3, <3>1 DEF Approve, At, Fresh
    <3> QED
      BY <2>3, <3>2 DEF Approve, Lifecycle!Approve, Lifecycle!Next
  <2>4. CASE Correct(h)
    <3>1. Fresh(q, TRUE)
      BY <2>1, <2>4 DEF Correct
    <3>2. q.ev \in Evaluation /\ q.entry.after \in Verdict /\ decision[q.ev].status = "APPROVED"
      BY <2>4, <3>1 DEF Correct, At, Fresh
    <3> QED
      BY <2>4, <3>2 DEF Correct, Lifecycle!Correct, Lifecycle!Next
  <2>5. CASE Revoke(h)
    <3>1. Fresh(q, TRUE)
      BY <2>1, <2>5 DEF Revoke
    <3>2. q.ev \in Evaluation /\ q.entry.after \in Reason /\ decision[q.ev].status = "APPROVED"
      BY <2>5, <3>1 DEF Revoke, At, Fresh
    <3> QED
      BY <2>5, <3>2 DEF Revoke, Lifecycle!Revoke, Lifecycle!Next
  <2>6. CASE UNCHANGED decision
    BY <2>6
  <2> QED
    BY <1>1, <2>2, <2>3, <2>4, <2>5, <2>6
    DEF HandleDecision, FindEvaluation, FindExisting, InsertDecision, BeginApprove, BeginCorrect,
        BeginRevoke, Audit, decisionTables
<1>2. ASSUME (\E h \in Handler : LoseDecision(h)) \/ DecisionsOutside \/ UNCHANGED decisionTables
      PROVE  UNCHANGED decision
  BY <1>2 DEF LoseDecision, DecisionsOutside, Evaluate, Supersede, decisionTables
<1> QED
  BY <1>1, <1>2, DecisionsElse

\* At the start there is no decision of an evaluation, or a draft, or one in force.
LEMMA InitLifecycle == Init => Lifecycle!Init /\ UncrossedFresh
<1>1. ASSUME DecisionsInit, NEW ev \in Evaluation
      PROVE  decision[ev] = NoDecision \/ \E v \in Verdict, u \in User :
                 decision[ev] \in {Lifecycle!Draft(v), Lifecycle!InForce(v, u)}
  <2> DEFINE v == CHOOSE x \in Verdict : TRUE
             u == CHOOSE x \in User : TRUE
  <2>1. v \in Verdict /\ u \in User
    BY DecisionAssumption
  <2>2. decision[ev] \in {NoDecision, Lifecycle!Draft(v), Lifecycle!InForce(v, u)}
    BY <1>1 DEF DecisionsInit, Lifecycle!Draft, Lifecycle!InForce
  <2> HIDE DEF v, u
  <2> QED
    BY <2>1, <2>2
<1>2. Init => Lifecycle!Init
  BY <1>1 DEF Init, Lifecycle!Init, NoDecision, Lifecycle!NoDecision
<1>3. Init => UncrossedFresh
  BY DEF Init, RequestsInit, Idle, UncrossedFresh, Fresh
<1> QED
  BY <1>2, <1>3

\* However the requests of the whole API interleave, what the service does to decisions
\* outside the requests that another one has crossed is the straight-line lifecycle, each
\* act one atomic step, for any numbers of evaluations, users and requests.
THEOREM LifecycleKept == Spec => KeepsLifecycle
<1>1. Init => Steppable /\ UncrossedFresh /\ Lifecycle!Init
  BY InitSteppable, InitLifecycle
<1>2. Steppable /\ UncrossedFresh /\ [Next]_vars => Steppable' /\ UncrossedFresh'
  BY StepSteppable, FreshNext
<1>3. Steppable /\ UncrossedFresh /\ [Next]_vars => [Promised(Lifecycle!Next, decision)]_decision
  BY LifecycleStep
<1> QED
  BY <1>1, <1>2, <1>3, PTL DEF Spec, KeepsLifecycle

-----------------------------------------------------------------------------
(* KeepsInstitution *)

\* What any step of the whole does to parent and booking.
LEMMA InstitutionElse ==
    ASSUME Steppable, [Next]_vars
    PROVE  \/ \E h \in Handler : \/ HandleOrganization(h) /\ UNCHANGED booking
                                 \/ HandleCalendar(h) /\ UNCHANGED parent
           \/ /\ UNCHANGED institutionTables
              /\ Unentered(OrganizationsSteps) /\ Unentered(CalendarSteps)
<1> DEFINE Same == UNCHANGED institutionTables
           Own(h) == \/ HandleOrganization(h) /\ UNCHANGED booking
                     \/ HandleCalendar(h) /\ UNCHANGED parent
<1>0. OrganizationsSteps \in Parts /\ CalendarSteps \in Parts
  BY DEF Parts
<1>1. ASSUME NEW h \in Handler, Operate(h)
      PROVE  Own(h) \/ (Same /\ Unentered(OrganizationsSteps) /\ Unentered(CalendarSteps))
  <2>1. \/ Own(h)
        \/ Same /\ HandleSubmit(h)
        \/ Same /\ HandleLink(h)
        \/ Same /\ HandleAssess(h)
        \/ Same /\ HandleAssignment(h)
        \/ Same /\ HandleFile(h)
        \/ Same /\ HandleMark(h)
        \/ Same /\ HandleGrade(h)
        \/ Same /\ HandleAttendance(h)
        \/ Same /\ HandleEnrollment(h)
        \/ Same /\ HandleQuestion(h)
        \/ Same /\ HandleExam(h)
        \/ Same /\ HandleDecision(h)
        \/ Same /\ HandleLearning(h)
    BY <1>1
    DEF Operate, CourseworkHandler, HandleSubmission, HandleSetup,
        vars, requests, courseTables, tables, work, markTables, gradeTables,
        attendanceTables, rollTables, setupTables, bankTables, decisionTables,
        catalogTables, learningTables, institutionTables
  <2> HIDE DEF Same, Own
  <2>2. Own(h) \/ (Same /\ Unentered(OrganizationsSteps))
    BY <1>0, <2>1, OthersUnentered, PartsDiffer
  <2>3. Own(h) \/ (Same /\ Unentered(CalendarSteps))
    BY <1>0, <2>1, OthersUnentered, PartsDiffer
  <2> QED
    BY <2>2, <2>3
<1>2. ASSUME NEW h \in Handler, LoseRequest(h)
      PROVE  Same /\ Unentered(OrganizationsSteps) /\ Unentered(CalendarSteps)
  <2>1. Same
    BY <1>2 DEF LoseRequest, LoseDecision, vars, requests, courseTables, tables, work, markTables, gradeTables,
               attendanceTables, rollTables, setupTables, bankTables,
               decisionTables, catalogTables, learningTables, institutionTables
  <2> QED
    BY <1>0, <1>2, <2>1, LossUnentered
<1>3. ASSUME Outside
      PROVE  Same /\ Unentered(OrganizationsSteps) /\ Unentered(CalendarSteps)
  <2>1. Same
    BY <1>3 DEF Outside, CourseworkOutside, CreateLesson, InitiateUpload, PutObject,
            Sit, SaveAnswer, CloseAttempt, DecisionsOutside, Evaluate, Supersede,
            WriteOutside, requests, vars, courseTables, tables, work, markTables,
            gradeTables, attendanceTables, rollTables, setupTables, bankTables,
            decisionTables, catalogTables, learningTables, institutionTables
  <2> QED
    BY <1>3, <2>1, OutsideMoves DEF Unentered
<1>4. ASSUME UNCHANGED vars
      PROVE  Same /\ Unentered(OrganizationsSteps) /\ Unentered(CalendarSteps)
  BY <1>4 DEF Unentered, vars, requests, courseTables, tables, work, markTables, gradeTables,
       attendanceTables, rollTables, setupTables, bankTables, decisionTables,
       catalogTables, learningTables, institutionTables
<1> HIDE DEF Same, Own
<1>5. \/ \E h \in Handler : Own(h)
      \/ Same /\ Unentered(OrganizationsSteps) /\ Unentered(CalendarSteps)
  BY <1>1, <1>2, <1>3, <1>4 DEF Next
<1> QED
  BY <1>5 DEF Same, Own

\* The parents of W lead to roots without leaving it.
Rooted(W, up) == \A o \in W : up[o] \in W \cup {NoParent}

\* Who is moved below an organization whose ancestors, all of them in W, it is not one
\* of, leaves the tree a tree: of organizations some of which are in W, one in W has its
\* parent outside, and of others one that had it outside before is not below them now.
LEMMA TreeMoved ==
    ASSUME Institute!Tree(parent), parent \in [Organization -> Organization \cup {NoParent, "none"}],
           NEW W \in SUBSET Organization, Rooted(W, parent),
           NEW o \in Organization \ W, NEW p \in W \cup {NoParent},
           NEW up, up = [parent EXCEPT ![o] = p]
    PROVE  Institute!Tree(up)
<1> SUFFICES ASSUME NEW S \in SUBSET Organization, S # {}
             PROVE  \E x \in S : up[x] \notin S
  BY DEF Institute!Tree
<1>1. CASE S \cap W # {}
  <2>1. PICK x \in S \cap W : parent[x] \notin S \cap W
    BY <1>1 DEF Institute!Tree
  <2>2. up[x] = parent[x] /\ parent[x] \in W \cup {NoParent}
    BY DEF Rooted
  <2> QED
    BY <2>1, <2>2, OrganizationsAssumption
<1>2. CASE S \cap W = {}
  <2>1. PICK x \in S : parent[x] \notin S
    BY DEF Institute!Tree
  <2>2. up[o] \notin S
    BY <1>2, OrganizationsAssumption
  <2> QED
    BY <2>1, <2>2
<1> QED
  BY <1>1, <1>2

\* Of the organization p nobody who is uncrossed has found o among the ancestors up to up.
Climbed(o, p, up) == \E W \in SUBSET Organization :
    /\ o \notin W /\ p \in W /\ up \in W
    /\ \A w \in W \ {up} : parent[w] \in W

\* What a request of OrganizationsService holds, and knows while it is uncrossed.
MoveKnown(q, uncrossed) ==
    /\ q.step = "organization" => q.o \in Organization /\ q.p \in Organization \cup {NoParent}
    /\ q.step = "ancestor" =>
        /\ "up" \in DOMAIN q
        /\ q.o \in Organization /\ q.p \in Organization /\ q.up \in Organization
        /\ uncrossed => parent[q.o] # "none" /\ Climbed(q.o, q.p, q.up)
    /\ q.step = "move" =>
        /\ q.o \in Organization /\ q.p \in Organization \cup {NoParent}
        /\ uncrossed =>
            /\ parent[q.o] # "none"
            /\ \E W \in SUBSET Organization :
                   Rooted(W, parent) /\ q.o \notin W /\ q.p \in W \cup {NoParent}

\* What the entry will be when the request has written its columns.
Entered(q) ==
    IF booking[q.b] = NoBooking THEN q.row
    ELSE [c \in DOMAIN booking[q.b] |-> IF c \in q.columns THEN q.row[c] ELSE booking[q.b][c]]

\* The entry b, with the row, is clear of its rivals.
Clear(b, row) == \A c \in Booking :
    Institute!Compete(b, c) /\ booking[c].status = "ACTIVE"
        => Institute!Apart(Sort[b], row, booking[c])

\* What a request of the calendars holds, and knows while it is uncrossed.
EntryKnown(q, uncrossed) ==
    q.step \in CalendarSteps =>
        /\ q.b \in Booking /\ q.row \in BookingRow
        /\ uncrossed =>
            /\ Sort[q.b] = "schedule" \/ booking[q.b].status # "ENDED"
            /\ Entered(q) = q.row
            /\ q.step = "booking" /\ q.row.status = "ACTIVE"
                 => booking[q.b] = q.row \/ Clear(q.b, q.row)

InstitutionKnown ==
    /\ OrganizationsTypeOK /\ CalendarTypeOK
    /\ \A h \in Handler : /\ MoveKnown(handler[h], h \notin crossed)
                          /\ EntryKnown(handler[h], h \notin crossed)

\* A slot that stays as it is knows no less, if the tables stay or it is crossed.
LEMMA InstitutionStays ==
    ASSUME Undisturbed, NEW g \in Handler, handler'[g] = handler[g],
           MoveKnown(handler[g], g \notin crossed), EntryKnown(handler[g], g \notin crossed),
           UNCHANGED institutionTables \/ g \in crossed' \/ handler[g].step = "idle"
    PROVE  /\ MoveKnown(handler[g], g \notin crossed)'
           /\ EntryKnown(handler[g], g \notin crossed)'
<1>1. CASE handler[g].step = "idle"
  BY <1>1 DEF MoveKnown, EntryKnown, CalendarSteps
<1>2. CASE g \in crossed'
  BY <1>2 DEF MoveKnown, EntryKnown
<1>3. CASE UNCHANGED institutionTables /\ g \notin crossed' /\ handler[g].step # "idle"
  <2>1. g \notin crossed /\ parent' = parent /\ booking' = booking
    BY <1>3 DEF Undisturbed, InFlight, At, institutionTables
  <2>2. MoveKnown(handler[g], g \notin crossed)'
    BY <1>3, <2>1 DEF MoveKnown, Climbed, Rooted
  <2>3. EntryKnown(handler[g], g \notin crossed)'
    BY <1>3, <2>1 DEF EntryKnown, Entered, Clear, Institute!Compete, Institute!Apart
  <2> QED
    BY <2>2, <2>3
<1> QED
  BY <1>1, <1>2, <1>3

\* A read that leaves the tables as they are and whose slot holds what it knows.
LEMMA InstitutionReads ==
    ASSUME Steppable, InstitutionKnown, Undisturbed, NEW h \in Handler, NEW m, Reads(h, m),
           UNCHANGED institutionTables,
           MoveKnown(m, h \notin crossed), EntryKnown(m, h \notin crossed)
    PROVE  InstitutionKnown'
<1>1. ASSUME NEW g \in Handler, g # h
      PROVE  /\ MoveKnown(handler[g], g \notin crossed)'
             /\ EntryKnown(handler[g], g \notin crossed)'
  BY <1>1, InstitutionStays DEF Steppable, Reads, InstitutionKnown
<1>2. parent' = parent /\ booking' = booking /\ handler'[h] = m
  BY DEF institutionTables, Steppable, Reads
<1>3. MoveKnown(handler[h], h \notin crossed)' /\ EntryKnown(handler[h], h \notin crossed)'
  <2>1. CASE m = Idle
    BY <1>2, <2>1 DEF MoveKnown, EntryKnown, Idle, CalendarSteps
  <2>2. CASE m # Idle
    <3>1. crossed' = crossed
      BY <2>2 DEF Reads
    <3>2. MoveKnown(handler[h], h \notin crossed)'
      BY <1>2, <3>1 DEF MoveKnown, Climbed, Rooted
    <3>3. EntryKnown(handler[h], h \notin crossed)'
      BY <1>2, <3>1 DEF EntryKnown, Entered, Clear, Institute!Compete, Institute!Apart
    <3> QED
      BY <3>2, <3>3
  <2> QED
    BY <2>1, <2>2
<1> QED
  BY <1>1, <1>2, <1>3 DEF InstitutionKnown, OrganizationsTypeOK, CalendarTypeOK

\* A commit that ends its request crosses all the others.
LEMMA InstitutionWritten ==
    ASSUME Steppable, InstitutionKnown, Undisturbed, NEW h \in Handler, Commit(h),
           OrganizationsTypeOK', CalendarTypeOK'
    PROVE  InstitutionKnown'
<1>1. ASSUME NEW g \in Handler, g # h
      PROVE  /\ MoveKnown(handler[g], g \notin crossed)'
             /\ EntryKnown(handler[g], g \notin crossed)'
  <2>1. handler'[g] = handler[g] /\ (g \in crossed' \/ handler[g].step = "idle")
    BY <1>1 DEF Steppable, Commit, Commits, InFlight, At
  <2> QED
    BY <1>1, <2>1, InstitutionStays DEF InstitutionKnown
<1>2. MoveKnown(handler[h], h \notin crossed)' /\ EntryKnown(handler[h], h \notin crossed)'
  BY DEF Steppable, Commit, Commits, Idle, MoveKnown, EntryKnown, CalendarSteps
<1> QED
  BY <1>1, <1>2 DEF InstitutionKnown

\* Every action of OrganizationsService keeps what is known.
LEMMA OrganizationsStep ==
    ASSUME Steppable, InstitutionKnown, Undisturbed, NEW h \in Handler, HandleOrganization(h),
           UNCHANGED booking
    PROVE  InstitutionKnown'
<1> DEFINE q == handler[h]
<1>0. /\ "step" \in DOMAIN q /\ MoveKnown(q, h \notin crossed)
      /\ MoveKnown(Idle, h \notin crossed) /\ EntryKnown(Idle, h \notin crossed)
      /\ OrganizationsTypeOK /\ CalendarTypeOK /\ CalendarTypeOK'
  BY DEF Steppable, InstitutionKnown, MoveKnown, EntryKnown, Idle, CalendarSteps, CalendarTypeOK
<1>a. ASSUME NEW m, m.step \in OrganizationsSteps PROVE EntryKnown(m, h \notin crossed)
  BY <1>a DEF EntryKnown, OrganizationsSteps, CalendarSteps
<1>1. CASE BeginOrganization(h)
  <2>1. ASSUME NEW o \in Organization, NEW p \in Organization \cup {NoParent}
        PROVE  MoveKnown([step |-> "organization", o |-> o, p |-> p], h \notin crossed)
    BY DEF MoveKnown
  <2>2. PICK o \in Organization, p \in Organization \cup {NoParent} :
            Reads(h, [step |-> "organization", o |-> o, p |-> p])
    BY <1>1 DEF BeginOrganization, Receive
  <2> QED
    BY <1>1, <1>a, <2>1, <2>2, InstitutionReads
    DEF BeginOrganization, institutionTables, OrganizationsSteps
<1>2. CASE CreateOrganization(h)
  <2>1. At(h, "organization") /\ q.o \in Organization /\ q.p \in Organization \cup {NoParent}
    BY <1>0, <1>2 DEF CreateOrganization, At, MoveKnown
  <2>2. CASE parent[q.o] # "none"
    BY <1>0, <1>2, <2>2, InstitutionReads DEF CreateOrganization, Finish, institutionTables
  <2>3. CASE parent[q.o] = "none"
    BY <1>0, <1>2, <2>1, <2>3, InstitutionWritten DEF CreateOrganization, OrganizationsTypeOK
  <2> QED
    BY <2>2, <2>3
<1>3. CASE BeginReparent(h)
  <2>1. PICK o \in Organization, p \in Organization \cup {NoParent} :
            /\ parent[o] # "none" /\ p # o
            /\ Reads(h, [step |-> IF p = NoParent THEN "move" ELSE "ancestor",
                         o |-> o, p |-> p, up |-> p])
    BY <1>3 DEF BeginReparent, Receive
  <2>2. CASE p = NoParent
    <3> DEFINE m == [step |-> "move", o |-> o, p |-> p, up |-> p]
    <3>1. Rooted({}, parent) /\ {} \in SUBSET Organization
      BY DEF Rooted
    <3>2. MoveKnown(m, h \notin crossed)
      BY <2>1, <2>2, <3>1 DEF MoveKnown
    <3> QED
      BY <1>3, <1>a, <2>1, <2>2, <3>2, InstitutionReads
      DEF BeginReparent, institutionTables, OrganizationsSteps
  <2>3. CASE p # NoParent
    <3> DEFINE m == [step |-> "ancestor", o |-> o, p |-> p, up |-> p]
    <3>1. Climbed(o, p, p)
      <4>1. /\ {p} \in SUBSET Organization /\ o \notin {p} /\ p \in {p}
            /\ \A w \in {p} \ {p} : parent[w] \in {p}
        BY <2>1, <2>3
      <4> QED
        BY <4>1 DEF Climbed
    <3>2. MoveKnown(m, h \notin crossed)
      BY <2>1, <2>3, <3>1 DEF MoveKnown
    <3> QED
      BY <1>3, <1>a, <2>1, <2>3, <3>2, InstitutionReads
      DEF BeginReparent, institutionTables, OrganizationsSteps
  <2> QED
    BY <2>2, <2>3
<1>4. CASE ReadAncestor(h)
  <2> DEFINE up == parent[q.up]
  <2>1. /\ At(h, "ancestor") /\ q.step = "ancestor"
        /\ q.o \in Organization /\ q.p \in Organization /\ q.up \in Organization
        /\ UNCHANGED institutionTables
    BY <1>0, <1>4 DEF ReadAncestor, At, MoveKnown, institutionTables
  <2>2. CASE up \in {q.o, "none"}
    BY <1>0, <1>4, <2>1, <2>2, InstitutionReads DEF ReadAncestor, Finish
  <2>k. ASSUME h \notin crossed
        PROVE  parent[q.o] # "none" /\ Climbed(q.o, q.p, q.up)
    BY <1>0, <2>1, <2>k DEF MoveKnown
  <2>3. CASE up = NoParent
    <3> DEFINE m == [q EXCEPT !.step = "move"]
    <3>1. Reads(h, m) /\ "step" \in DOMAIN m /\ m.step = "move" /\ m.o = q.o /\ m.p = q.p
      BY <1>0, <1>4, <2>1, <2>3, OrganizationsAssumption DEF ReadAncestor, WalkEnds, Goto
    <3>2. ASSUME Climbed(q.o, q.p, q.up)
          PROVE  \E W \in SUBSET Organization :
                     Rooted(W, parent) /\ q.o \notin W /\ q.p \in W \cup {NoParent}
      BY <2>3, <3>2 DEF Climbed, Rooted
    <3> HIDE DEF m
    <3>3. MoveKnown(m, h \notin crossed)
      BY <2>1, <2>k, <3>1, <3>2 DEF MoveKnown
    <3> QED
      BY <1>a, <2>1, <3>1, <3>3, InstitutionReads DEF OrganizationsSteps
  <2>4. CASE up \notin {q.o, "none", NoParent}
    <3> DEFINE m == [q EXCEPT !.up = parent[q.up]]
    <3>1. /\ Reads(h, m) /\ "step" \in DOMAIN m /\ "up" \in DOMAIN m
          /\ m.step = "ancestor" /\ m.o = q.o /\ m.p = q.p /\ m.up = up
      BY <1>0, <1>4, <2>1, <2>4 DEF ReadAncestor, WalkEnds, MoveKnown
    <3>2. up \in Organization
      BY <1>0, <2>1, <2>4 DEF OrganizationsTypeOK
    <3>3. ASSUME Climbed(q.o, q.p, q.up) PROVE Climbed(q.o, q.p, up)
      <4>1. PICK W \in SUBSET Organization :
                /\ q.o \notin W /\ q.p \in W /\ q.up \in W
                /\ \A w \in W \ {q.up} : parent[w] \in W
        BY <3>3 DEF Climbed
      <4>2. W \cup {up} \in SUBSET Organization
        BY <3>2
      <4> QED
        BY <2>4, <4>1, <4>2 DEF Climbed
    <3> HIDE DEF m
    <3>4. MoveKnown(m, h \notin crossed)
      BY <2>1, <2>k, <3>1, <3>2, <3>3 DEF MoveKnown
    <3> QED
      BY <1>a, <2>1, <3>1, <3>4, InstitutionReads DEF OrganizationsSteps
  <2> QED
    BY <2>2, <2>3, <2>4
<1>5. CASE Reparent(h)
  <2>1. q.o \in Organization /\ q.p \in Organization \cup {NoParent}
    BY <1>0, <1>5 DEF Reparent, At, MoveKnown
  <2> QED
    BY <1>0, <1>5, <2>1, InstitutionWritten DEF Reparent, OrganizationsTypeOK
<1> QED
  BY <1>1, <1>2, <1>3, <1>4, <1>5 DEF HandleOrganization


\* Where every column is written or the same already, what is entered is the row.
LEMMA ColumnsEnter ==
    ASSUME NEW old \in BookingRow, NEW new \in BookingRow, NEW columns,
           \A c \in {"status", "from", "until"} : c \in columns \/ new[c] = old[c]
    PROVE  [c \in DOMAIN old |-> IF c \in columns THEN new[c] ELSE old[c]] = new
BY DEF BookingRow

\* What findConflicts and findOverlapping do not find is not there.
LEMMA NoRivalClears ==
    ASSUME CalendarTypeOK, NEW b \in Booking, NEW row \in BookingRow,
           ~\E c \in Rivals(b) : booking[c].status = "ACTIVE" /\ Overlap(b, row, booking[c])
    PROVE  Clear(b, row)
<1> SUFFICES ASSUME NEW c \in Booking, Institute!Compete(b, c), booking[c].status = "ACTIVE"
             PROVE  Institute!Apart(Sort[b], row, booking[c])
  BY DEF Clear
<1>1. booking[c] # NoBooking
  BY DEF NoBooking
<1>2. booking[c] \in BookingRow
  BY <1>1 DEF CalendarTypeOK
<1>3. c \in Rivals(b)
  BY <1>1 DEF Rivals, Booked, Institute!Compete
<1>4. ~Overlap(b, row, booking[c])
  BY <1>3
<1>5. /\ row.from \in Nat /\ row.until \in Nat
      /\ booking[c].from \in Nat /\ booking[c].until \in Nat
  BY <1>2 DEF BookingRow
<1> QED
  BY <1>4, <1>5 DEF Overlap, Institute!Apart

\* What the update of an entry asks for.
RebookingAsked(h, b, p, s) ==
    LET columns == {c \in DOMAIN Row(p, s) : Sort[b] # "teaching" \/ Row(p, s)[c] # booking[b][c]}
    IN  /\ Sort[b] = "schedule" \/ booking[b].status = "ACTIVE"
        /\ Reads(h, [step |-> IF s = "ACTIVE" /\ (Sort[b] # "schedule" \/ Row(p, s) # booking[b])
                                THEN "conflicts" ELSE "booking",
                     b |-> b, row |-> Row(p, s), columns |-> columns])
        /\ UNCHANGED booking

\* Every action of the three calendar services keeps what is known.
LEMMA CalendarStep ==
    ASSUME Steppable, InstitutionKnown, Undisturbed, NEW h \in Handler, HandleCalendar(h),
           UNCHANGED parent
    PROVE  InstitutionKnown'
<1> DEFINE q == handler[h]
<1>0. /\ "step" \in DOMAIN q /\ EntryKnown(q, h \notin crossed)
      /\ MoveKnown(Idle, h \notin crossed) /\ EntryKnown(Idle, h \notin crossed)
      /\ OrganizationsTypeOK /\ CalendarTypeOK /\ OrganizationsTypeOK'
  BY DEF Steppable, InstitutionKnown, MoveKnown, EntryKnown, Idle, CalendarSteps,
         OrganizationsTypeOK
<1>a. ASSUME NEW m, m.step \in CalendarSteps PROVE MoveKnown(m, h \notin crossed)
  BY <1>a DEF MoveKnown, CalendarSteps
<1>b. ASSUME NEW b \in Booking, booking[b] # NoBooking PROVE booking[b] \in BookingRow
  BY <1>0, <1>b DEF CalendarTypeOK
<1>c. ASSUME NEW p \in Period, NEW s \in {"ACTIVE", "ENDED"}
      PROVE  Row(p, s) \in BookingRow /\ Row(p, s).status = s
  BY CalendarAssumption DEF Row, BookingRow
<1>1. CASE BeginBooking(h)
  <2>1. PICK b \in Booking, p \in Period, s \in {"ACTIVE", "ENDED"} :
            /\ booking[b] = NoBooking
            /\ Reads(h, [step |-> IF Sort[b] # "schedule" THEN "same person"
                                  ELSE IF s = "ACTIVE" THEN "conflicts" ELSE "booking",
                         b |-> b, row |-> Row(p, s), columns |-> {}])
            /\ UNCHANGED booking
    BY <1>1 DEF BeginBooking, Receive
  <2> DEFINE m == [step |-> IF Sort[b] # "schedule" THEN "same person"
                            ELSE IF s = "ACTIVE" THEN "conflicts" ELSE "booking",
                   b |-> b, row |-> Row(p, s), columns |-> {}]
  <2>2. /\ m.step \in CalendarSteps /\ m.b = b /\ m.row = Row(p, s)
        /\ m.step = "booking" => s = "ENDED"
    BY DEF CalendarSteps
  <2>3. Reads(h, m)
    BY <2>1
  <2> HIDE DEF m
  <2>4. EntryKnown(m, h \notin crossed)
    <3>1. Entered(m) = Row(p, s)
      BY <2>1, <2>2 DEF Entered
    <3>2. NoBooking.status # "ENDED"
      BY DEF NoBooking
    <3> QED
      BY <1>c, <2>1, <2>2, <3>1, <3>2 DEF EntryKnown
  <2> QED
    BY <1>a, <2>1, <2>2, <2>3, <2>4, InstitutionReads DEF institutionTables
<1>2. CASE CheckDuplicate(h)
  <2>1. At(h, "same person") /\ UNCHANGED institutionTables
    BY <1>2 DEF CheckDuplicate, institutionTables
  <2>2. CASE Finish(h)
    BY <1>0, <2>1, <2>2, InstitutionReads DEF Finish
  <2>3. CASE Goto(h, "conflicts")
    <3> DEFINE m == [q EXCEPT !.step = "conflicts"]
    <3>1. /\ Reads(h, m) /\ m.step = "conflicts"
          /\ m.b = q.b /\ m.row = q.row /\ m.columns = q.columns
      BY <1>0, <2>3 DEF Goto
    <3> HIDE DEF m
    <3>2. q.step = "same person" /\ q.step \in CalendarSteps /\ Entered(m) = Entered(q)
      BY <2>1, <3>1 DEF Entered, At, CalendarSteps
    <3>3. EntryKnown(m, h \notin crossed)
      BY <1>0, <3>1, <3>2 DEF EntryKnown
    <3>4. MoveKnown(m, h \notin crossed)
      BY <3>1 DEF MoveKnown
    <3> QED
      BY <2>1, <3>1, <3>3, <3>4, InstitutionReads
  <2> QED
    BY <1>2, <2>2, <2>3 DEF CheckDuplicate
<1>3. CASE BeginRebooking(h)
  <2>1. PICK b \in Booked, p \in Period, s \in {"ACTIVE", "ENDED"},
             columns \in SUBSET {"status", "from", "until"} :
            /\ columns = {c \in DOMAIN Row(p, s) : Sort[b] # "teaching" \/ Row(p, s)[c] # booking[b][c]}
            /\ Sort[b] = "schedule" \/ booking[b].status = "ACTIVE"
            /\ Reads(h, [step |-> IF s = "ACTIVE" /\ (Sort[b] # "schedule" \/ Row(p, s) # booking[b])
                                    THEN "conflicts" ELSE "booking",
                         b |-> b, row |-> Row(p, s), columns |-> columns])
            /\ UNCHANGED booking
    <3>1. PICK b \in Booked, p \in Period, s \in {"ACTIVE", "ENDED"} :
              RebookingAsked(h, b, p, s)
      BY <1>3 DEF BeginRebooking, Receive, RebookingAsked
    <3> DEFINE columns == {c \in DOMAIN Row(p, s) : Sort[b] # "teaching" \/ Row(p, s)[c] # booking[b][c]}
    <3>2. columns \in SUBSET {"status", "from", "until"}
      BY DEF Row
    <3>3. RebookingAsked(h, b, p, s)
      BY <3>1
    <3> QED
      BY <3>2, <3>3 DEF RebookingAsked
  <2> DEFINE m == [step |-> IF s = "ACTIVE" /\ (Sort[b] # "schedule" \/ Row(p, s) # booking[b])
                              THEN "conflicts" ELSE "booking",
                   b |-> b, row |-> Row(p, s), columns |-> columns]
  <2>2. /\ m.step \in CalendarSteps /\ m.b = b /\ m.row = Row(p, s) /\ m.columns = columns
        /\ m.step = "booking" => s = "ENDED" \/ booking[b] = Row(p, s)
    BY DEF CalendarSteps
  <2>3. Reads(h, m)
    BY <2>1
  <2> HIDE DEF m
  <2>4. b \in Booking /\ booking[b] # NoBooking
    BY DEF Booked
  <2>5. Entered(m) = Row(p, s)
    <3>1. \A c \in {"status", "from", "until"} : c \in columns \/ Row(p, s)[c] = booking[b][c]
      <4>1. columns = {c \in DOMAIN Row(p, s) : Sort[b] # "teaching" \/ Row(p, s)[c] # booking[b][c]}
        BY <2>1
      <4>2. DOMAIN Row(p, s) = {"status", "from", "until"}
        BY DEF Row
      <4> QED
        BY <4>1, <4>2
    <3>2. booking[b] \in BookingRow /\ Row(p, s) \in BookingRow
      BY <1>b, <1>c, <2>4
    <3>3. Entered(m) = [c \in DOMAIN booking[b] |-> IF c \in columns THEN Row(p, s)[c] ELSE booking[b][c]]
      BY <2>2, <2>4 DEF Entered
    <3> QED
      BY <3>1, <3>2, <3>3, ColumnsEnter
  <2>6. EntryKnown(m, h \notin crossed)
    <3>1. Sort[b] = "schedule" \/ booking[b].status # "ENDED"
      BY <2>1
    <3>2. m.row \in BookingRow /\ m.row.status = s
      BY <1>c, <2>2
    <3> QED
      BY <2>2, <2>4, <2>5, <3>1, <3>2 DEF EntryKnown
  <2> QED
    BY <1>a, <2>1, <2>2, <2>3, <2>6, InstitutionReads DEF institutionTables
<1>4. CASE BeginEnd(h)
  <2>1. PICK b \in Booked, p \in Period, new \in BookingRow,
             columns \in SUBSET {"status", "from", "until"} :
            /\ booking[b].status = "ACTIVE"
            /\ new = [booking[b] EXCEPT !.status = "ENDED",
                                        !.until = IF Sort[b] = "schedule" THEN @ ELSE p.from]
            /\ columns = IF Sort[b] = "schedule" THEN {"status"} ELSE {"status", "until"}
            /\ Reads(h, [step |-> "booking", b |-> b, row |-> new, columns |-> columns])
            /\ UNCHANGED booking
    <3>1. \A b \in Booked, p \in Period :
              [booking[b] EXCEPT !.status = "ENDED",
                                 !.until = IF Sort[b] = "schedule" THEN @ ELSE p.from] \in BookingRow
      BY <1>b, CalendarAssumption DEF Booked, BookingRow
    <3> QED
      BY <1>4, <3>1 DEF BeginEnd, Receive
  <2>2. b \in Booking /\ booking[b] # NoBooking /\ booking[b] \in BookingRow
    BY <1>b DEF Booked
  <2>3. /\ new \in BookingRow /\ new.status = "ENDED"
        /\ \A c \in {"status", "from", "until"} : c \in columns \/ new[c] = booking[b][c]
    BY <2>1, <2>2, CalendarAssumption DEF BookingRow
  <2> DEFINE m == [step |-> "booking", b |-> b, row |-> new, columns |-> columns]
  <2>4. m.step \in CalendarSteps /\ m.b = b /\ m.row = new /\ m.columns = columns
    BY DEF CalendarSteps
  <2>5. Reads(h, m)
    BY <2>1
  <2> HIDE DEF m
  <2>6. Entered(m) = new
    BY <2>2, <2>3, <2>4, ColumnsEnter DEF Entered
  <2>7. EntryKnown(m, h \notin crossed)
    BY <2>1, <2>2, <2>3, <2>4, <2>6 DEF EntryKnown
  <2> QED
    BY <1>a, <2>1, <2>4, <2>5, <2>7, InstitutionReads DEF institutionTables
<1>5. CASE CheckOverlap(h)
  <2>1. q.step = "conflicts" /\ q.b \in Booking /\ q.row \in BookingRow /\ UNCHANGED institutionTables
    BY <1>0, <1>5 DEF CheckOverlap, EntryKnown, At, CalendarSteps, institutionTables
  <2>2. CASE Finish(h)
    BY <1>0, <2>1, <2>2, InstitutionReads DEF Finish
  <2>3. CASE Goto(h, "booking") /\ ~\E c \in Rivals(q.b) : /\ booking[c].status = "ACTIVE"
                                                           /\ Overlap(q.b, q.row, booking[c])
    <3> DEFINE m == [q EXCEPT !.step = "booking"]
    <3>1. /\ Reads(h, m) /\ m.step = "booking"
          /\ m.b = q.b /\ m.row = q.row /\ m.columns = q.columns
      BY <1>0, <2>3 DEF Goto
    <3> HIDE DEF m
    <3>2. Clear(q.b, q.row)
      BY <1>0, <2>1, <2>3, NoRivalClears
    <3>3. q.step \in CalendarSteps /\ Entered(m) = Entered(q)
      BY <2>1, <3>1 DEF Entered, CalendarSteps
    <3>4. EntryKnown(m, h \notin crossed)
      BY <1>0, <3>1, <3>2, <3>3 DEF EntryKnown
    <3>5. MoveKnown(m, h \notin crossed)
      BY <3>1 DEF MoveKnown
    <3> QED
      BY <2>1, <3>1, <3>4, <3>5, InstitutionReads
  <2> QED
    BY <1>5, <2>2, <2>3 DEF CheckOverlap
<1>6. CASE Book(h)
  <2>1. q.step = "booking" /\ q.b \in Booking /\ q.row \in BookingRow
    BY <1>0, <1>6 DEF Book, EntryKnown, At, CalendarSteps
  <2>2. Entered(q) \in BookingRow
    <3>1. CASE booking[q.b] = NoBooking
      BY <2>1, <3>1 DEF Entered
    <3>2. CASE booking[q.b] # NoBooking
      BY <1>b, <2>1, <3>2 DEF Entered, BookingRow
    <3> QED
      BY <3>1, <3>2
  <2>3. booking' = [booking EXCEPT ![q.b] = Entered(q)]
    BY <1>6 DEF Book, Entered
  <2>4. CalendarTypeOK'
    BY <1>0, <2>1, <2>2, <2>3 DEF CalendarTypeOK
  <2> QED
    BY <1>0, <1>6, <2>4, InstitutionWritten DEF Book
<1> QED
  BY <1>1, <1>2, <1>3, <1>4, <1>5, <1>6 DEF HandleCalendar


\* No step of the whole leaves what is known of parents and entries untrue.
LEMMA InstitutionNext ==
    ASSUME Steppable, InstitutionKnown, [Next]_vars
    PROVE  InstitutionKnown'
<1>0. Undisturbed
  BY NextUndisturbed
<1>1. ASSUME NEW h \in Handler, HandleOrganization(h), UNCHANGED booking PROVE InstitutionKnown'
  BY <1>0, <1>1, OrganizationsStep
<1>2. ASSUME NEW h \in Handler, HandleCalendar(h), UNCHANGED parent PROVE InstitutionKnown'
  BY <1>0, <1>2, CalendarStep
<1>3. ASSUME UNCHANGED institutionTables, Unentered(OrganizationsSteps), Unentered(CalendarSteps)
      PROVE  InstitutionKnown'
  <2>1. OrganizationsTypeOK' /\ CalendarTypeOK'
    BY <1>3 DEF InstitutionKnown, institutionTables, OrganizationsTypeOK, CalendarTypeOK
  <2>2. ASSUME NEW g \in Handler
        PROVE  MoveKnown(handler[g], g \notin crossed)' /\ EntryKnown(handler[g], g \notin crossed)'
    <3>1. CASE handler'[g] = handler[g]
      BY <1>0, <1>3, <3>1, InstitutionStays DEF InstitutionKnown
    <3>2. CASE handler'[g] # handler[g]
      <4>1. handler'[g].step \notin OrganizationsSteps \cup CalendarSteps
        BY <1>3, <3>2 DEF Unentered
      <4> QED
        BY <4>1 DEF MoveKnown, EntryKnown, OrganizationsSteps
    <3> QED
      BY <3>1, <3>2
  <2> QED
    BY <2>1, <2>2 DEF InstitutionKnown
<1> QED
  BY <1>1, <1>2, <1>3, InstitutionElse

\* What a step writes that is not one of a crossed request the abstract step allows.
LEMMA InstitutionPromised ==
    ASSUME Steppable, InstitutionKnown, [Next]_vars, Uncrossed
    PROVE  UNCHANGED Institute!vars \/ Institute!Next
<1>1. ASSUME NEW h \in Handler, HandleOrganization(h), UNCHANGED booking
      PROVE  UNCHANGED Institute!vars \/ Institute!Next
  <2> DEFINE q == handler[h]
  <2>0. /\ OrganizationsTypeOK /\ MoveKnown(q, h \notin crossed)
    BY DEF InstitutionKnown
  <2>1. CASE UNCHANGED parent
    BY <1>1, <2>1 DEF Institute!vars
  <2>2. ASSUME At(h, "organization") \/ At(h, "move"), Commit(h) PROVE h \notin crossed
    BY <2>2 DEF Uncrossed, Commit, Commits, Steppable, At, Idle
  <2>3. CASE CreateOrganization(h) /\ parent' # parent
    <3>1. /\ At(h, "organization") /\ q.o \in Organization
          /\ parent[q.o] = "none" /\ parent' = [parent EXCEPT ![q.o] = q.p]
      BY <2>0, <2>3 DEF CreateOrganization, MoveKnown, At
    <3>2. parent' = [parent EXCEPT ![q.o] = parent'[q.o]]
      BY <2>0, <3>1 DEF OrganizationsTypeOK
    <3>3. Institute!Found(q.o)
      BY <1>1, <3>1, <3>2 DEF Institute!Found
    <3> QED
      BY <3>1, <3>3 DEF Institute!Next
  <2>4. CASE Reparent(h)
    <3>1. /\ At(h, "move") /\ q.o \in Organization /\ q.p \in Organization \cup {NoParent}
          /\ Commit(h) /\ parent' = [parent EXCEPT ![q.o] = q.p]
      BY <2>0, <2>4 DEF Reparent, MoveKnown, At
    <3>2. h \notin crossed
      BY <2>2, <3>1
    <3>3. /\ parent[q.o] # "none"
          /\ \E W \in SUBSET Organization :
                 Rooted(W, parent) /\ q.o \notin W /\ q.p \in W \cup {NoParent}
      BY <2>0, <3>1, <3>2 DEF MoveKnown, At
    <3>4. Institute!Tree(parent) => Institute!Tree(parent')
      <4> PICK up : up = parent'
        OBVIOUS
      <4> QED
        BY <2>0, <3>1, <3>3, TreeMoved DEF OrganizationsTypeOK
    <3>5. parent' = [parent EXCEPT ![q.o] = parent'[q.o]] /\ parent'[q.o] = q.p
      BY <2>0, <3>1 DEF OrganizationsTypeOK
    <3>6. Institute!Move(q.o)
      BY <1>1, <3>1, <3>3, <3>4, <3>5 DEF Institute!Move
    <3> QED
      BY <3>1, <3>6 DEF Institute!Next
  <2> QED
    BY <1>1, <2>1, <2>3, <2>4
    DEF HandleOrganization, BeginOrganization, BeginReparent, ReadAncestor, CreateOrganization
<1>2. ASSUME NEW h \in Handler, HandleCalendar(h), UNCHANGED parent
      PROVE  UNCHANGED Institute!vars \/ Institute!Next
  <2> DEFINE q == handler[h]
  <2>1. CASE UNCHANGED booking
    BY <1>2, <2>1 DEF Institute!vars
  <2>2. CASE Book(h)
    <3>1. CalendarTypeOK /\ EntryKnown(q, h \notin crossed) /\ At(h, "booking") /\ Commit(h)
      BY <2>2 DEF InstitutionKnown, Book
    <3>2. h \notin crossed
      BY <3>1 DEF Uncrossed, Commit, Commits, Steppable, At, Idle
    <3>3. q.step = "booking" /\ q.step \in CalendarSteps
      BY <3>1 DEF At, CalendarSteps
    <3>4. /\ q.b \in Booking /\ Entered(q) = q.row
          /\ Sort[q.b] = "schedule" \/ booking[q.b].status # "ENDED"
          /\ q.row.status = "ACTIVE" => booking[q.b] = q.row \/ Clear(q.b, q.row)
      BY <3>1, <3>2, <3>3 DEF EntryKnown
    <3>5. booking' = [booking EXCEPT ![q.b] = Entered(q)]
      BY <2>2 DEF Book, Entered
    <3>6. booking' = [booking EXCEPT ![q.b] = q.row]
      BY <3>4, <3>5
    <3>7. booking'[q.b] = q.row /\ (booking[q.b] = q.row => booking' = booking)
      BY <3>1, <3>4, <3>6 DEF CalendarTypeOK
    <3>8. CASE booking[q.b] = q.row
      BY <1>2, <3>7, <3>8 DEF Institute!vars
    <3>9. CASE q.row.status = "ACTIVE" => Clear(q.b, q.row)
      <4>1. Institute!Enter(q.b)
        BY <1>2, <3>4, <3>6, <3>7, <3>9 DEF Institute!Enter, Clear
      <4> QED
        BY <3>4, <4>1 DEF Institute!Next
    <3> QED
      BY <3>4, <3>8, <3>9
  <2> QED
    BY <1>2, <2>1, <2>2
    DEF HandleCalendar, BeginBooking, CheckDuplicate, BeginRebooking, BeginEnd, CheckOverlap
<1>3. UNCHANGED institutionTables => UNCHANGED Institute!vars
  BY DEF institutionTables, Institute!vars
<1> QED
  BY <1>1, <1>2, <1>3, InstitutionElse

\* Nobody has read anything yet, and every organization there is is a root.
LEMMA InitInstitution == Init => InstitutionKnown /\ Institute!Init
<1> SUFFICES ASSUME Init PROVE InstitutionKnown /\ Institute!Init
  OBVIOUS
<1>1. OrganizationsTypeOK /\ \A o \in Organization : parent[o] \notin Organization
  BY OrganizationsAssumption DEF Init, OrganizationsInit, OrganizationsTypeOK
<1>2. CalendarTypeOK
  <2>1. PICK when \in [Booking -> Period] :
            booking = [b \in Booking |-> IF Sort[b] \notin calls \/ "book" \in calls THEN NoBooking
                                         ELSE Row(when[b], "ACTIVE")]
    BY PeriodsSuffice DEF Init, CalendarInit
  <2>2. \A p \in Period : Row(p, "ACTIVE") \in BookingRow
    BY CalendarAssumption DEF Row, BookingRow
  <2> QED
    BY <2>1, <2>2 DEF CalendarTypeOK
<1>3. \A h \in Handler : MoveKnown(handler[h], h \notin crossed) /\ EntryKnown(handler[h], h \notin crossed)
  BY DEF Init, RequestsInit, MoveKnown, EntryKnown, Idle, CalendarSteps
<1>4. Institute!Init
  <2>1. ASSUME NEW S \in SUBSET Organization, S # {} PROVE \E o \in S : parent[o] \notin S
    <3>1. PICK o \in S : TRUE
      BY <2>1
    <3> QED
      BY <1>1
  <2>2. Institute!Tree(parent)
    BY <2>1 DEF Institute!Tree
  <2> QED
    BY <2>2 DEF Institute!Init
<1> QED
  BY <1>1, <1>2, <1>3, <1>4 DEF InstitutionKnown

\* OrganizationsService and the three calendar services implement the institution: a
\* request that no other one crosses leaves the organizations a tree, whatever ancestors
\* it walked by, and makes no entry active that its rivals overlap.
THEOREM InstitutionKept == Spec => KeepsInstitution
<1>1. Init => Steppable /\ InstitutionKnown /\ Institute!Init
  BY InitSteppable, InitInstitution
<1>2. Steppable /\ InstitutionKnown /\ [Next]_vars => Steppable' /\ InstitutionKnown'
  BY StepSteppable, InstitutionNext
<1>3. Steppable /\ InstitutionKnown /\ [Next]_vars
        => [Promised(Institute!Next, Institute!vars)]_(Institute!vars)
  BY InstitutionPromised DEF Promised
<1> QED
  BY <1>1, <1>2, <1>3, PTL DEF Spec, KeepsInstitution

-----------------------------------------------------------------------------
(* What the rows and slots of the enrollments hold *)

\* Who enrolls, changes status or transfers; the last two only of who is enrolled.
EnrollmentsAre ==
    /\ EnrollmentsTypeOK
    /\ Typed(EnrollmentsSteps, EnrollmentRequest)
    /\ \A h \in Handler : handler[h].step \in {"enrollment status", "transfer"} =>
            enrolled[handler[h].e] \in EnrollmentRow

\* What a request of EnrollmentsService holds.
LEMMA EnrollmentHolds ==
    ASSUME EnrollmentsAre, NEW h \in Handler
    PROVE  /\ handler[h].step = "enroll" =>
                handler[h].e \in Enrollee /\ handler[h].row \in EnrollmentRow
           /\ handler[h].step = "enrollment status" =>
                /\ handler[h].e \in Enrollee /\ handler[h].to \in EnrollmentStatus
                /\ handler[h].row \in EnrollmentRow
           /\ handler[h].step = "transfer" => handler[h].e \in Enrollee /\ handler[h].class \in Class
<1> DEFINE q == handler[h]
<1>1. q.step \in EnrollmentsSteps => q \in EnrollmentRequest
  BY DEF EnrollmentsAre, Typed
<1>2. CASE q.step = "enroll"
  BY <1>1, <1>2 DEF EnrollmentsSteps, EnrollmentRequest
<1>3. CASE q.step = "enrollment status"
  BY <1>1, <1>3 DEF EnrollmentsSteps, EnrollmentRequest
<1>4. CASE q.step = "transfer"
  BY <1>1, <1>4 DEF EnrollmentsSteps, EnrollmentRequest
<1> QED
  BY <1>2, <1>3, <1>4

\* A new enrollment is a row; no row is that of somebody who is not enrolled.
LEMMA RegisteredRows ==
    /\ \A s \in EnrollmentStatus, c \in Class \cup {NoClass} : Registered(s, c) \in EnrollmentRow
    /\ \A e \in Enrollee : EnrollmentsTypeOK /\ enrolled[e].status # "none" =>
            enrolled[e] \in EnrollmentRow
<1>1. ASSUME NEW s \in EnrollmentStatus, NEW c \in Class \cup {NoClass}
      PROVE  Registered(s, c) \in EnrollmentRow
  <2>1. PICK b \in BOOLEAN : b = (s = "COMPLETED")
    OBVIOUS
  <2>2. [status |-> s, class |-> c, completed |-> b] \in EnrollmentRow
    BY DEF EnrollmentRow
  <2> QED
    BY <2>1, <2>2 DEF Registered
<1>2. ASSUME NEW e \in Enrollee, EnrollmentsTypeOK, enrolled[e].status # "none"
      PROVE  enrolled[e] \in EnrollmentRow
  <2>1. enrolled[e] \in EnrollmentRow \cup {NotEnrolled}
    BY <1>2 DEF EnrollmentsTypeOK
  <2>2. NotEnrolled.status = "none"
    BY DEF NotEnrolled
  <2> QED
    BY <1>2, <2>1, <2>2
<1> QED
  BY <1>1, <1>2

\* What each action of EnrollmentsService puts into its slot.
LEMMA EnrollmentRequests ==
    ASSUME Steppable, EnrollmentsAre, NEW h \in Handler, HandleEnrollment(h)
    PROVE  /\ Becomes(h, EnrollmentRequest)
           /\ handler'[h].step \in {"enrollment status", "transfer"} =>
                enrolled[handler'[h].e] \in EnrollmentRow
<1> DEFINE Holds == /\ Becomes(h, EnrollmentRequest)
                    /\ handler'[h].step \in {"enrollment status", "transfer"} =>
                            enrolled[handler'[h].e] \in EnrollmentRow
<1>0. EnrollmentsTypeOK
  BY DEF EnrollmentsAre
<1> SUFFICES Holds
  OBVIOUS
<1>a. ASSUME Finish(h) \/ Commit(h) PROVE Holds
  <2>1. handler'[h] = Idle
    BY <1>a DEF Steppable, Finish, Commit, Reads, Commits
  <2>2. Idle.step = "idle"
    BY DEF Idle
  <2> QED
    BY <2>1, <2>2 DEF Becomes
<1>b. ASSUME NEW m \in EnrollmentRequest, Reads(h, m),
             m.step \in {"enrollment status", "transfer"} => enrolled[m.e] \in EnrollmentRow
      PROVE  Holds
  BY <1>b, GoesOn DEF Steppable, Reads
<1> HIDE DEF Holds
<1>1. CASE BeginEnroll(h)
  <2>1. PICK e \in Enrollee, s \in EnrollmentStatus, c \in Class \cup {NoClass} :
          Reads(h, [step |-> "enroll", e |-> e, row |-> Registered(s, c)])
    BY <1>1 DEF BeginEnroll, Receive
  <2>2. PICK row \in EnrollmentRow : row = Registered(s, c)
    BY RegisteredRows
  <2>3. [step |-> "enroll", e |-> e, row |-> row] \in EnrollmentRequest
    BY DEF EnrollmentRequest
  <2> QED
    BY <1>b, <2>1, <2>2, <2>3
<1>2. CASE BeginEnrollmentStatus(h)
  <2>1. PICK e \in Enrollee, to \in EnrollmentStatus :
          /\ CanMove(enrolled[e].status, to)
          /\ Reads(h, [step |-> "enrollment status", e |-> e, to |-> to, row |-> enrolled[e]])
    BY <1>2 DEF BeginEnrollmentStatus, Receive
  <2>2. PICK row \in EnrollmentRow : row = enrolled[e]
    BY <1>0, <2>1, RegisteredRows DEF CanMove
  <2>3. [step |-> "enrollment status", e |-> e, to |-> to, row |-> row] \in EnrollmentRequest
    BY DEF EnrollmentRequest
  <2> QED
    BY <1>b, <2>1, <2>2, <2>3
<1>3. CASE BeginTransfer(h)
  <2>1. PICK e \in Enrollee, c \in Class :
          /\ enrolled[e].status = "ACTIVE"
          /\ Reads(h, [step |-> "transfer", e |-> e, class |-> c])
    BY <1>3 DEF BeginTransfer, Receive
  <2>2. enrolled[e] \in EnrollmentRow
    BY <1>0, <2>1, RegisteredRows
  <2>3. [step |-> "transfer", e |-> e, class |-> c] \in EnrollmentRequest
    BY DEF EnrollmentRequest
  <2> QED
    BY <1>b, <2>1, <2>2, <2>3
<1>4. CASE CreateEnrollment(h) \/ SetEnrollmentStatus(h) \/ Transfer(h)
  BY <1>4, <1>a DEF CreateEnrollment, SetEnrollmentStatus, Transfer
<1> QED
  BY <1>1, <1>2, <1>3, <1>4 DEF HandleEnrollment

\* What it does to the rows: one of them becomes a row.
LEMMA EnrollmentWrites ==
    ASSUME Steppable, EnrollmentsAre, NEW h \in Handler, HandleEnrollment(h)
    PROVE  \/ UNCHANGED enrolled
           \/ \E e \in Enrollee, row \in EnrollmentRow : enrolled' = [enrolled EXCEPT ![e] = row]
<1> DEFINE q == handler[h]
<1>0. enrolled \in [Enrollee -> EnrollmentRow \cup {NotEnrolled}]
  BY DEF EnrollmentsAre, EnrollmentsTypeOK
<1>1. CASE CreateEnrollment(h)
  BY <1>1, EnrollmentHolds DEF CreateEnrollment, At
<1>2. CASE SetEnrollmentStatus(h)
  <2>1. q.e \in Enrollee /\ q.to \in EnrollmentStatus /\ q.row \in EnrollmentRow
    BY <1>2, EnrollmentHolds DEF SetEnrollmentStatus, At
  <2>2. enrolled[q.e] \in EnrollmentRow
    BY <1>2 DEF SetEnrollmentStatus, At, EnrollmentsAre
  <2>3. PICK b \in BOOLEAN : b = Completed(q.row, q.to)
    BY <2>1 DEF Completed, EnrollmentRow
  <2>4. PICK row : row = [enrolled[q.e] EXCEPT !.status = q.to, !.completed = b]
    OBVIOUS
  <2>5. row \in EnrollmentRow
    BY <2>1, <2>2, <2>4 DEF EnrollmentRow
  <2>6. enrolled' = [enrolled EXCEPT ![q.e] = row]
    BY <1>0, <1>2, <2>1, <2>3, <2>4 DEF SetEnrollmentStatus
  <2> QED
    BY <2>1, <2>5, <2>6
<1>3. CASE Transfer(h)
  <2>1. q.e \in Enrollee /\ q.class \in Class
    BY <1>3, EnrollmentHolds DEF Transfer, At
  <2>2. enrolled[q.e] \in EnrollmentRow
    BY <1>3 DEF Transfer, At, EnrollmentsAre
  <2>3. PICK row : row = [enrolled[q.e] EXCEPT !.class = q.class]
    OBVIOUS
  <2>4. row \in EnrollmentRow
    BY <2>1, <2>2, <2>3 DEF EnrollmentRow
  <2>5. enrolled' = [enrolled EXCEPT ![q.e] = row]
    BY <1>3, <2>3 DEF Transfer
  <2> QED
    BY <2>1, <2>4, <2>5
<1>4. CASE BeginEnroll(h) \/ BeginEnrollmentStatus(h) \/ BeginTransfer(h)
  BY <1>4 DEF BeginEnroll, BeginEnrollmentStatus, BeginTransfer
<1> QED
  BY <1>1, <1>2, <1>3, <1>4 DEF HandleEnrollment

\* Every step of the whole keeps the enrollments and their slots typed.
LEMMA EnrollmentsAreNext ==
    ASSUME Steppable, EnrollmentsAre, [Next]_vars
    PROVE  EnrollmentsAre'
<1>0. EnrollmentsSteps \in Parts
  BY DEF Parts
<1>1. \/ UNCHANGED enrolled /\ Unentered(EnrollmentsSteps)
      \/ \E h \in Handler : HandleEnrollment(h)
  BY EnrollmentsElse
<1>2. Typed(EnrollmentsSteps, EnrollmentRequest)'
  BY <1>0, <1>1, EnrollmentRequests, EnrollmentsMove, TypedElse DEF EnrollmentsAre
<1>3. \/ UNCHANGED enrolled
      \/ \E e \in Enrollee, row \in EnrollmentRow : enrolled' = [enrolled EXCEPT ![e] = row]
  BY <1>1, EnrollmentWrites
<1>4. EnrollmentsTypeOK /\ enrolled \in [Enrollee -> EnrollmentRow \cup {NotEnrolled}]
  BY DEF EnrollmentsAre, EnrollmentsTypeOK
<1>5. EnrollmentsTypeOK'
  BY <1>3, <1>4 DEF EnrollmentsTypeOK
<1>6. \A e \in Enrollee : enrolled[e] \in EnrollmentRow => enrolled'[e] \in EnrollmentRow
  BY <1>3, <1>4
<1>7. ASSUME NEW g \in Handler, handler'[g].step \in {"enrollment status", "transfer"}
      PROVE  enrolled'[handler'[g].e] \in EnrollmentRow
  <2>1. ASSUME NEW h \in Handler, HandleEnrollment(h)
        PROVE  handler'[g] = handler[g] \/ enrolled[handler'[g].e] \in EnrollmentRow
    <3>1. g # h => handler'[g] = handler[g]
      BY <2>1, EnrollmentsMove DEF Moves
    <3> QED
      BY <1>7, <2>1, <3>1, EnrollmentRequests
  <2>2. Unentered(EnrollmentsSteps) => handler'[g] = handler[g]
    BY <1>7 DEF Unentered, EnrollmentsSteps
  <2>3. handler'[g] = handler[g] \/ enrolled[handler'[g].e] \in EnrollmentRow
    BY <1>1, <2>1, <2>2
  <2>4. handler'[g].e \in Enrollee
    <3>1. handler'[g] \in EnrollmentRequest
      BY <1>2, <1>7 DEF Typed, EnrollmentsSteps
    <3> QED
      BY <3>1 DEF EnrollmentRequest
  <2> QED
    BY <1>6, <1>7, <2>3, <2>4 DEF EnrollmentsAre
<1> QED
  BY <1>2, <1>5, <1>7 DEF EnrollmentsAre

\* So they are at the start.
LEMMA InitEnrollmentsAre == Init => EnrollmentsAre
<1> SUFFICES ASSUME Init PROVE EnrollmentsAre
  OBVIOUS
<1>1. Typed(EnrollmentsSteps, EnrollmentRequest)
  BY InitTyped DEF Parts
<1>2. EnrollmentsTypeOK
  <2>1. enrolled \in IF "enroll" \in calls THEN [Enrollee -> {NotEnrolled}]
                     ELSE [Enrollee -> {Registered("ACTIVE", c) : c \in Class}]
    BY DEF Init, AttendanceInit, EnrollmentsInit
  <2>2. \A c \in Class : Registered("ACTIVE", c) \in EnrollmentRow
    BY RegisteredRows DEF EnrollmentStatus
  <2> QED
    BY <2>1, <2>2 DEF EnrollmentsTypeOK
<1>3. \A h \in Handler : handler[h].step = "idle"
  BY DEF Init, RequestsInit, Idle
<1> QED
  BY <1>1, <1>2, <1>3 DEF EnrollmentsAre

\* So they always are.
LEMMA AlwaysEnrollmentsAre == Spec => []EnrollmentsAre
BY EnrollmentsAreNext, InitEnrollmentsAre, AlwaysSteppable, PTL DEF Spec

-----------------------------------------------------------------------------
(* What the rows and slots of the question banks hold *)

\* A question of the bank.
ItemRow == [status: {"ACTIVE", "INACTIVE"}, kind: Kind]

\* Questions that are asked for a change of their status or type are in the bank.
QuestionsAre ==
    /\ item \in [Item -> ItemRow \cup {NoItem}]
    /\ Typed(QuestionsSteps, QuestionRequest)
    /\ \A h \in Handler : handler[h].step \in {"question status", "kind"} =>
            item[handler[h].i] \in ItemRow

\* What a request of QuestionBanksService holds.
LEMMA QuestionHolds ==
    ASSUME QuestionsAre, NEW h \in Handler
    PROVE  /\ handler[h].step = "question" =>
                /\ handler[h].i \in Item /\ handler[h].kind \in Kind
                /\ handler[h].content \in Content
           /\ handler[h].step = "question status" =>
                handler[h].i \in Item /\ handler[h].status \in {"ACTIVE", "INACTIVE"}
           /\ handler[h].step = "kind" => handler[h].i \in Item /\ handler[h].kind \in Kind
           /\ handler[h].step \in {"publishable", "predecessor"} =>
                handler[h] \in [step: {"publishable", "predecessor"}, i: Item, n: Nat]
<1> DEFINE q == handler[h]
<1>1. q.step \in QuestionsSteps => q \in QuestionRequest
  BY DEF QuestionsAre, Typed
<1>2. CASE q.step = "question"
  BY <1>1, <1>2 DEF QuestionsSteps, QuestionRequest
<1>3. CASE q.step = "question status"
  BY <1>1, <1>3 DEF QuestionsSteps, QuestionRequest
<1>4. CASE q.step = "kind"
  BY <1>1, <1>4 DEF QuestionsSteps, QuestionRequest
<1>5. CASE q.step \in {"publishable", "predecessor"}
  BY <1>1, <1>5 DEF QuestionsSteps, QuestionRequest
<1> QED
  BY <1>2, <1>3, <1>4, <1>5

\* The kinds of requests it makes.
LEMMA AreQuestions ==
    /\ \A i \in Item, k \in Kind, c \in Content :
          [step |-> "question", i |-> i, kind |-> k, content |-> c] \in QuestionRequest
    /\ \A i \in Item, s \in {"ACTIVE", "INACTIVE"} :
          [step |-> "question status", i |-> i, status |-> s] \in QuestionRequest
    /\ \A i \in Item, k \in Kind : [step |-> "kind", i |-> i, kind |-> k] \in QuestionRequest
    /\ \A i \in Item, n \in Nat \ {0}, c \in Content :
          [step |-> "version", i |-> i, number |-> n, content |-> c] \in QuestionRequest
    /\ \A i \in Item, n \in Nat, c \in Content :
          [step |-> "rewrite", i |-> i, n |-> n, content |-> c] \in QuestionRequest
    /\ \A i \in Item, n \in Nat : [step |-> "publishable", i |-> i, n |-> n] \in QuestionRequest
    /\ \A i \in Item, n \in Nat, m \in Nat :
          [step |-> "publish", i |-> i, n |-> n, previous |-> m] \in QuestionRequest
<1>1. \A i \in Item, k \in Kind, c \in Content :
          [step |-> "question", i |-> i, kind |-> k, content |-> c] \in QuestionRequest
  BY DEF QuestionRequest
<1>2. \A i \in Item, s \in {"ACTIVE", "INACTIVE"} :
          [step |-> "question status", i |-> i, status |-> s] \in QuestionRequest
  BY DEF QuestionRequest
<1>3. \A i \in Item, k \in Kind : [step |-> "kind", i |-> i, kind |-> k] \in QuestionRequest
  BY DEF QuestionRequest
<1>4. \A i \in Item, n \in Nat \ {0}, c \in Content :
          [step |-> "version", i |-> i, number |-> n, content |-> c] \in QuestionRequest
  BY DEF QuestionRequest
<1>5. \A i \in Item, n \in Nat, c \in Content :
          [step |-> "rewrite", i |-> i, n |-> n, content |-> c] \in QuestionRequest
  BY DEF QuestionRequest
<1>6. \A i \in Item, n \in Nat : [step |-> "publishable", i |-> i, n |-> n] \in QuestionRequest
  BY DEF QuestionRequest
<1>7. \A i \in Item, n \in Nat, m \in Nat :
          [step |-> "publish", i |-> i, n |-> n, previous |-> m] \in QuestionRequest
  BY DEF QuestionRequest
<1> QED
  BY <1>1, <1>2, <1>3, <1>4, <1>5, <1>6, <1>7

\* What each action puts into its slot.
LEMMA QuestionRequests ==
    ASSUME Steppable, QuestionsAre, VersionsTyped, NEW h \in Handler, HandleQuestion(h)
    PROVE  /\ Becomes(h, QuestionRequest)
           /\ handler'[h].step \in {"question status", "kind"} =>
                item[handler'[h].i] \in ItemRow
<1> DEFINE q == handler[h]
           Holds == /\ Becomes(h, QuestionRequest)
                    /\ handler'[h].step \in {"question status", "kind"} =>
                            item[handler'[h].i] \in ItemRow
<1> SUFFICES Holds
  OBVIOUS
<1>0. /\ \A i \in Item : item[i] \in ItemRow \cup {NoItem}
      /\ \A i \in Item : DOMAIN version[i] \subseteq Nat /\ Len(version[i]) \in Nat
  <2>1. item \in [Item -> ItemRow \cup {NoItem}] /\ version \in [Item -> Seq(VersionRow)]
    BY DEF QuestionsAre, VersionsTyped
  <2>2. \A s \in Seq(VersionRow) : DOMAIN s \subseteq Nat /\ Len(s) \in Nat
    OBVIOUS
  <2> QED
    BY <2>1, <2>2
<1>a. ASSUME Finish(h) \/ Commit(h) PROVE Holds
  <2>1. handler'[h] = Idle
    BY <1>a DEF Steppable, Finish, Commit, Reads, Commits
  <2>2. Idle.step = "idle"
    BY DEF Idle
  <2> QED
    BY <2>1, <2>2 DEF Becomes
<1>b. ASSUME NEW m \in QuestionRequest, Reads(h, m) \/ Commits(h, m),
             m.step \in {"question status", "kind"} => item[m.i] \in ItemRow
      PROVE  Holds
  BY <1>b, GoesOn DEF Steppable, Reads, Commits
<1> HIDE DEF Holds
<1>1. CASE BeginQuestion(h)
  <2>1. PICK i \in Item, k \in Kind, c \in Content :
          Reads(h, [step |-> "question", i |-> i, kind |-> k, content |-> c])
    BY <1>1 DEF BeginQuestion, Receive
  <2> QED
    BY <1>b, <2>1, AreQuestions
<1>2. CASE CreateQuestion(h)
  <2>a. 1 \in Nat \ {0}
    OBVIOUS
  <2>1. q.i \in Item /\ q.content \in Content /\ 1 \in Nat \ {0}
    BY <1>2, <2>a, QuestionHolds DEF CreateQuestion, At
  <2>2. \/ Finish(h)
        \/ Commits(h, [step |-> "version", i |-> q.i, number |-> 1, content |-> q.content])
    BY <1>2 DEF CreateQuestion
  <2> QED
    BY <1>a, <1>b, <2>1, <2>2, AreQuestions
<1>3. CASE BeginItemStatus(h)
  <2>1. PICK i \in Item, s \in {"ACTIVE", "INACTIVE"} :
          item[i] # NoItem /\ Reads(h, [step |-> "question status", i |-> i, status |-> s])
    BY <1>3 DEF BeginItemStatus, Receive
  <2> QED
    BY <1>0, <1>b, <2>1, AreQuestions
<1>4. CASE BeginKind(h)
  <2>1. PICK i \in Item, k \in Kind :
          item[i].kind # "none" /\ Reads(h, [step |-> "kind", i |-> i, kind |-> k])
    BY <1>4 DEF BeginKind, Receive
  <2>2. item[i] \in ItemRow
    BY <1>0, <2>1 DEF NoItem
  <2> QED
    BY <1>b, <2>1, <2>2, AreQuestions
<1>5. CASE BeginVersion(h)
  <2>1. PICK i \in Item, c \in Content :
          Reads(h, [step |-> "version", i |-> i, number |-> Len(version[i]) + 1, content |-> c])
    BY <1>5 DEF BeginVersion, Receive
  <2>2. PICK n \in Nat \ {0} : n = Len(version[i]) + 1
    BY <1>0
  <2> QED
    BY <1>b, <2>1, <2>2, AreQuestions
<1>6. CASE BeginRewrite(h)
  <2>1. PICK i \in Item, c \in Content : \E n \in WithStatus(i, "DRAFT") :
          Reads(h, [step |-> "rewrite", i |-> i, n |-> n, content |-> c])
    BY <1>6 DEF BeginRewrite, Receive
  <2>2. PICK n \in Nat : Reads(h, [step |-> "rewrite", i |-> i, n |-> n, content |-> c])
    BY <1>0, <2>1 DEF WithStatus
  <2> QED
    BY <1>b, <2>2, AreQuestions
<1>7. CASE BeginPublish(h)
  <2>1. PICK i \in Item : \E n \in DOMAIN version[i] :
          Reads(h, [step |-> "publishable", i |-> i, n |-> n])
    BY <1>7 DEF BeginPublish, Receive
  <2>2. PICK n \in Nat : Reads(h, [step |-> "publishable", i |-> i, n |-> n])
    BY <1>0, <2>1
  <2> QED
    BY <1>b, <2>2, AreQuestions
<1>8. CASE CheckPublishable(h)
  <2>1. q \in [step: {"publishable", "predecessor"}, i: Item, n: Nat]
    BY <1>8, QuestionHolds DEF CheckPublishable, At
  <2>2. PICK m : m = [q EXCEPT !.step = "predecessor"]
    OBVIOUS
  <2>3. m \in [step: {"publishable", "predecessor"}, i: Item, n: Nat] /\ m.step = "predecessor"
    BY <2>1, <2>2
  <2>4. m \in QuestionRequest
    BY <2>3 DEF QuestionRequest
  <2>5. Finish(h) \/ Reads(h, m)
    BY <1>8, <2>2 DEF CheckPublishable, Goto
  <2> QED
    BY <1>a, <1>b, <2>3, <2>4, <2>5
<1>9. CASE FindPublished(h)
  <2>1. q.i \in Item /\ q.n \in Nat
    BY <1>9, QuestionHolds DEF FindPublished, At
  <2>2. PICK m \in Published(q.i) \cup {0} :
          Reads(h, [step |-> "publish", i |-> q.i, n |-> q.n, previous |-> m])
    BY <1>9 DEF FindPublished
  <2>3. m \in Nat
    BY <1>0, <2>1, <2>2 DEF Published, WithStatus
  <2> QED
    BY <1>b, <2>1, <2>2, <2>3, AreQuestions
<1>10. CASE \/ SetItemStatus(h) \/ SetKind(h) \/ CreateVersion(h) \/ UpdateDraft(h)
            \/ SupersedeAndPublish(h)
  BY <1>10, <1>a DEF SetItemStatus, SetKind, CreateVersion, UpdateDraft, SupersedeAndPublish
<1> QED
  BY <1>1, <1>2, <1>3, <1>4, <1>5, <1>6, <1>7, <1>8, <1>9, <1>10 DEF HandleQuestion

\* What it does to the questions: one of them becomes a row.
LEMMA QuestionWrites ==
    ASSUME Steppable, QuestionsAre, NEW h \in Handler, HandleQuestion(h)
    PROVE  \/ UNCHANGED item
           \/ \E i \in Item, row \in ItemRow : item' = [item EXCEPT ![i] = row]
<1> DEFINE q == handler[h]
<1>0. item \in [Item -> ItemRow \cup {NoItem}]
  BY DEF QuestionsAre
<1>1. CASE CreateQuestion(h)
  <2>1. q.i \in Item /\ q.kind \in Kind
    BY <1>1, QuestionHolds DEF CreateQuestion, At
  <2>2. [status |-> "ACTIVE", kind |-> q.kind] \in ItemRow
    BY <2>1 DEF ItemRow
  <2> QED
    BY <1>1, <2>1, <2>2 DEF CreateQuestion
<1>2. CASE SetItemStatus(h)
  <2>1. q.i \in Item /\ q.status \in {"ACTIVE", "INACTIVE"} /\ item[q.i] \in ItemRow
    BY <1>2, QuestionHolds DEF SetItemStatus, At, QuestionsAre
  <2>2. PICK row : row = [item[q.i] EXCEPT !.status = q.status]
    OBVIOUS
  <2>3. row \in ItemRow
    BY <2>1, <2>2 DEF ItemRow
  <2>4. item' = [item EXCEPT ![q.i] = row]
    BY <1>2, <2>2 DEF SetItemStatus
  <2> QED
    BY <2>1, <2>3, <2>4
<1>3. CASE SetKind(h)
  <2>1. q.i \in Item /\ q.kind \in Kind /\ item[q.i] \in ItemRow
    BY <1>3, QuestionHolds DEF SetKind, At, QuestionsAre
  <2>2. PICK row : row = [item[q.i] EXCEPT !.kind = q.kind]
    OBVIOUS
  <2>3. row \in ItemRow
    BY <2>1, <2>2 DEF ItemRow
  <2>4. item' = [item EXCEPT ![q.i] = row]
    BY <1>3, <2>2 DEF SetKind
  <2> QED
    BY <2>1, <2>3, <2>4
<1>4. CASE UNCHANGED item
  BY <1>4
<1> QED
  BY <1>1, <1>2, <1>3, <1>4
  DEF HandleQuestion, BeginQuestion, BeginItemStatus, BeginKind, BeginVersion, CreateVersion,
      BeginRewrite, UpdateDraft, BeginPublish, CheckPublishable, FindPublished,
      SupersedeAndPublish, bankTables

\* Every step of the whole keeps the questions and their slots typed.
LEMMA QuestionsAreNext ==
    ASSUME Steppable, QuestionsAre, VersionsTyped, [Next]_vars
    PROVE  QuestionsAre'
<1>0. QuestionsSteps \in Parts
  BY DEF Parts
<1>1. \/ UNCHANGED item /\ Unentered(QuestionsSteps)
      \/ \E h \in Handler : HandleQuestion(h)
  BY QuestionsElse DEF bankTables
<1>2. Typed(QuestionsSteps, QuestionRequest)'
  BY <1>0, <1>1, QuestionRequests, QuestionsMove, TypedElse DEF QuestionsAre
<1>3. \/ UNCHANGED item
      \/ \E i \in Item, row \in ItemRow : item' = [item EXCEPT ![i] = row]
  BY <1>1, QuestionWrites
<1>4. item \in [Item -> ItemRow \cup {NoItem}]
  BY DEF QuestionsAre
<1>5. item' \in [Item -> ItemRow \cup {NoItem}]
  BY <1>3, <1>4
<1>6. \A i \in Item : item[i] \in ItemRow => item'[i] \in ItemRow
  BY <1>3, <1>4
<1>7. ASSUME NEW g \in Handler, handler'[g].step \in {"question status", "kind"}
      PROVE  item'[handler'[g].i] \in ItemRow
  <2>1. ASSUME NEW h \in Handler, HandleQuestion(h)
        PROVE  handler'[g] = handler[g] \/ item[handler'[g].i] \in ItemRow
    <3>1. g # h => handler'[g] = handler[g]
      BY <2>1, QuestionsMove DEF Moves
    <3> QED
      BY <1>7, <2>1, <3>1, QuestionRequests
  <2>2. Unentered(QuestionsSteps) => handler'[g] = handler[g]
    BY <1>7 DEF Unentered, QuestionsSteps
  <2>3. handler'[g] = handler[g] \/ item[handler'[g].i] \in ItemRow
    BY <1>1, <2>1, <2>2
  <2>4. handler'[g].i \in Item
    <3>1. handler'[g] \in QuestionRequest
      BY <1>2, <1>7 DEF Typed, QuestionsSteps
    <3> QED
      BY <3>1 DEF QuestionRequest
  <2> QED
    BY <1>6, <1>7, <2>3, <2>4 DEF QuestionsAre
<1> QED
  BY <1>2, <1>5, <1>7 DEF QuestionsAre

\* So they are at the start.
LEMMA InitQuestionsAre == Init => QuestionsAre
<1> SUFFICES ASSUME Init PROVE QuestionsAre
  OBVIOUS
<1>1. Typed(QuestionsSteps, QuestionRequest)
  BY InitTyped DEF Parts
<1>2. item \in [Item -> ItemRow \cup {NoItem}]
  <2>1. PICK k \in Kind : k = CHOOSE x \in Kind : TRUE
    BY QuestionsAssumption
  <2>2. item = [i \in Item |-> IF "question" \in calls THEN NoItem
                               ELSE [status |-> "ACTIVE", kind |-> k]]
    BY <2>1 DEF Init, ExamSetupInit, QuestionsInit
  <2>3. [status |-> "ACTIVE", kind |-> k] \in ItemRow
    BY DEF ItemRow
  <2> QED
    BY <2>2, <2>3
<1>3. \A h \in Handler : handler[h].step = "idle"
  BY DEF Init, RequestsInit, Idle
<1> QED
  BY <1>1, <1>2, <1>3 DEF QuestionsAre

\* So they always are, and so are the versions.
LEMMA AlwaysQuestionsAre == Spec => [](QuestionsAre /\ VersionsTyped)
BY QuestionsAreNext, QuestionsNext, InitQuestionsAre, InitVersionsTyped, StepSteppable,
   InitSteppable, PTL DEF Spec

-----------------------------------------------------------------------------
(* What the rows and slots of the decisions hold *)

\* The entries of the trail, by the act.
CreateEntry  == [act: {"create"}, after: Verdict]
ApproveEntry == [act: {"approve"}, by: User \cup {Nobody}]
CorrectEntry == [act: {"correct"}, before: Verdict, after: Verdict]
RevokeEntry  == [act: {"revoke"}, after: Reason]

\* A request of GraduationDecisionService, with the entry of its write.
DecisionAsked ==
    [step: {"existing", "insert"}, ev: Evaluation, entry: CreateEntry]
    \cup [step: {"approve"}, ev: Evaluation, entry: ApproveEntry]
    \cup [step: {"correct"}, ev: Evaluation, entry: CorrectEntry]
    \cup [step: {"revoke"}, ev: Evaluation, entry: RevokeEntry]
    \cup [step: {"audit"}, ev: Evaluation, entry: Entry]

\* The decisions, their trail and the slots of GraduationDecisionService are typed.
DecisionsAre == DecisionsTypeOK /\ Typed(DecisionsSteps, DecisionAsked)

\* The entries.
LEMMA Entries ==
    /\ Entry = CreateEntry \cup ApproveEntry \cup CorrectEntry \cup RevokeEntry
    /\ \A t \in DecisionAsked : t \in DecisionRequest
<1>1. Entry = CreateEntry \cup ApproveEntry \cup CorrectEntry \cup RevokeEntry
  BY DEF Entry, CreateEntry, ApproveEntry, CorrectEntry, RevokeEntry
<1>2. CreateEntry \cup ApproveEntry \cup CorrectEntry \cup RevokeEntry \subseteq Entry
  BY <1>1
<1>3. ASSUME NEW t \in DecisionAsked PROVE t \in DecisionRequest
  BY <1>2, <1>3 DEF DecisionAsked, DecisionRequest
<1> QED
  BY <1>1, <1>3

\* What a request holds at each of its steps.
LEMMA DecisionHolds ==
    ASSUME DecisionsAre, NEW h \in Handler
    PROVE  /\ handler[h].step \in {"existing", "insert"} =>
                handler[h] \in [step: {"existing", "insert"}, ev: Evaluation, entry: CreateEntry]
           /\ handler[h].step = "approve" =>
                handler[h] \in [step: {"approve"}, ev: Evaluation, entry: ApproveEntry]
           /\ handler[h].step = "correct" =>
                handler[h] \in [step: {"correct"}, ev: Evaluation, entry: CorrectEntry]
           /\ handler[h].step = "revoke" =>
                handler[h] \in [step: {"revoke"}, ev: Evaluation, entry: RevokeEntry]
           /\ handler[h].step = "audit" =>
                handler[h].ev \in Evaluation /\ handler[h].entry \in Entry
<1> DEFINE q == handler[h]
<1>1. q.step \in DecisionsSteps => q \in DecisionAsked
  BY DEF DecisionsAre, Typed
<1>2. CASE q.step \in {"existing", "insert"}
  BY <1>1, <1>2 DEF DecisionsSteps, DecisionAsked
<1>3. CASE q.step = "approve"
  BY <1>1, <1>3 DEF DecisionsSteps, DecisionAsked
<1>4. CASE q.step = "correct"
  BY <1>1, <1>4 DEF DecisionsSteps, DecisionAsked
<1>5. CASE q.step = "revoke"
  BY <1>1, <1>5 DEF DecisionsSteps, DecisionAsked
<1>6. CASE q.step = "audit"
  BY <1>1, <1>6 DEF DecisionsSteps, DecisionAsked
<1> QED
  BY <1>2, <1>3, <1>4, <1>5, <1>6

\* What each action puts into its slot.
LEMMA DecisionRequests ==
    ASSUME Steppable, DecisionsAre, NEW h \in Handler, HandleDecision(h)
    PROVE  Becomes(h, DecisionAsked)
<1> DEFINE q == handler[h]
<1>0. DecisionsTypeOK
  BY DEF DecisionsAre
<1>a. ASSUME NEW E, NEW s, q \in [step: {s}, ev: Evaluation, entry: E], E \subseteq Entry,
             CommitToAudit(h)
      PROVE  Becomes(h, DecisionAsked)
  <2>1. [q EXCEPT !.step = "audit"] \in [step: {"audit"}, ev: Evaluation, entry: Entry]
    BY <1>a
  <2>2. [q EXCEPT !.step = "audit"] \in DecisionAsked
    BY <2>1 DEF DecisionAsked
  <2> QED
    BY <1>a, <2>2, GoesOn DEF CommitToAudit
<1>b. /\ CreateEntry \subseteq Entry /\ ApproveEntry \subseteq Entry
      /\ CorrectEntry \subseteq Entry /\ RevokeEntry \subseteq Entry
  BY Entries
<1>1. CASE FindEvaluation(h)
  <2>1. PICK ev \in Evaluation, x \in Verdict :
          Reads(h, [step |-> "existing", ev |-> ev, entry |-> [act |-> "create", after |-> x]])
    BY <1>1 DEF FindEvaluation, Decide, Receive
  <2>2. [step |-> "existing", ev |-> ev, entry |-> [act |-> "create", after |-> x]] \in DecisionAsked
    BY DEF DecisionAsked, CreateEntry
  <2> QED
    BY <2>1, <2>2, GoesOn
<1>2. CASE FindExisting(h)
  <2>1. q \in [step: {"existing", "insert"}, ev: Evaluation, entry: CreateEntry]
    BY <1>2, DecisionHolds DEF FindExisting, At
  <2>2. [q EXCEPT !.step = "insert"] \in DecisionAsked
    BY <2>1 DEF DecisionAsked
  <2>3. Finish(h) \/ Reads(h, [q EXCEPT !.step = "insert"])
    BY <1>2 DEF FindExisting, Goto
  <2> QED
    BY <2>2, <2>3, GoesOn, IsDone
<1>3. CASE InsertDecision(h)
  <2>1. q \in [step: {"existing", "insert"}, ev: Evaluation, entry: CreateEntry] /\ q.step = "insert"
    BY <1>3, DecisionHolds DEF InsertDecision, At
  <2>2. q \in [step: {"insert"}, ev: Evaluation, entry: CreateEntry]
    BY <2>1
  <2>3. Finish(h) \/ CommitToAudit(h)
    BY <1>3 DEF InsertDecision
  <2> QED
    BY <1>a, <1>b, <2>2, <2>3, IsDone
<1>4. CASE BeginApprove(h)
  <2>1. PICK ev \in Evaluation, u \in User \cup {Nobody} :
          Reads(h, [step |-> "approve", ev |-> ev, entry |-> [act |-> "approve", by |-> u]])
    BY <1>4 DEF BeginApprove, Decide, Receive
  <2>2. [step |-> "approve", ev |-> ev, entry |-> [act |-> "approve", by |-> u]] \in DecisionAsked
    BY DEF DecisionAsked, ApproveEntry
  <2> QED
    BY <2>1, <2>2, GoesOn
<1>5. CASE BeginCorrect(h)
  <2>1. PICK ev \in Evaluation, x \in Verdict :
          /\ Decided(ev)
          /\ Reads(h, [step |-> "correct", ev |-> ev,
                       entry |-> [act |-> "correct", after |-> x, before |-> decision[ev].verdict]])
    BY <1>5 DEF BeginCorrect, Decide, Receive
  <2>2. decision[ev] \in DecisionRow
    BY <1>0, <2>1 DEF DecisionsTypeOK, Decided
  <2>3. PICK y \in Verdict : y = decision[ev].verdict
    BY <2>2 DEF DecisionRow
  <2>4. [step |-> "correct", ev |-> ev, entry |-> [act |-> "correct", after |-> x, before |-> y]]
            \in DecisionAsked
    BY DEF DecisionAsked, CorrectEntry
  <2> QED
    BY <2>1, <2>3, <2>4, GoesOn
<1>6. CASE BeginRevoke(h)
  <2>1. PICK ev \in Evaluation, t \in Reason :
          Reads(h, [step |-> "revoke", ev |-> ev, entry |-> [act |-> "revoke", after |-> t]])
    BY <1>6 DEF BeginRevoke, Decide, Receive
  <2>2. [step |-> "revoke", ev |-> ev, entry |-> [act |-> "revoke", after |-> t]] \in DecisionAsked
    BY DEF DecisionAsked, RevokeEntry
  <2> QED
    BY <2>1, <2>2, GoesOn
<1>7. CASE Approve(h)
  BY <1>7, <1>a, <1>b, DecisionHolds DEF Approve, At
<1>8. CASE Correct(h)
  BY <1>8, <1>a, <1>b, DecisionHolds DEF Correct, At
<1>9. CASE Revoke(h)
  BY <1>9, <1>a, <1>b, DecisionHolds DEF Revoke, At
<1>10. CASE Audit(h)
  BY <1>10, IsDone DEF Audit
<1> QED
  BY <1>1, <1>2, <1>3, <1>4, <1>5, <1>6, <1>7, <1>8, <1>9, <1>10 DEF HandleDecision

\* A row that is written, a new one or the one there is with another status, verdict, approver
\* or reason.
LEMMA DecisionRows ==
    /\ \A v \in Verdict : [status |-> "DRAFT", verdict |-> v, approved |-> FALSE,
                           approvedBy |-> Nobody, reason |-> NoReason] \in DecisionRow
    /\ \A row \in DecisionRow, u \in User \cup {Nobody} :
          [row EXCEPT !.status = "APPROVED", !.approved = TRUE, !.approvedBy = u] \in DecisionRow
    /\ \A row \in DecisionRow, v \in Verdict : [row EXCEPT !.verdict = v] \in DecisionRow
    /\ \A row \in DecisionRow, t \in Reason :
          [row EXCEPT !.status = "REVOKED", !.reason = t] \in DecisionRow
<1>1. \A v \in Verdict : [status |-> "DRAFT", verdict |-> v, approved |-> FALSE,
                          approvedBy |-> Nobody, reason |-> NoReason] \in DecisionRow
  BY DEF DecisionRow
<1>2. \A row \in DecisionRow, u \in User \cup {Nobody} :
          [row EXCEPT !.status = "APPROVED", !.approved = TRUE, !.approvedBy = u] \in DecisionRow
  BY DEF DecisionRow
<1>3. \A row \in DecisionRow, v \in Verdict : [row EXCEPT !.verdict = v] \in DecisionRow
  BY DEF DecisionRow
<1>4. \A row \in DecisionRow, t \in Reason :
          [row EXCEPT !.status = "REVOKED", !.reason = t] \in DecisionRow
  BY DEF DecisionRow
<1> QED
  BY <1>1, <1>2, <1>3, <1>4

\* What it does to the tables.
LEMMA DecisionWrites ==
    ASSUME Steppable, DecisionsAre, RowsComplete, NEW h \in Handler, HandleDecision(h)
    PROVE  DecisionsTypeOK'
<1> DEFINE q == handler[h]
<1>0. /\ DecisionsTypeOK
      /\ decision \in [Evaluation -> DecisionRow \cup {NoDecision}]
      /\ trail \in [Evaluation -> SUBSET Entry]
  BY DEF DecisionsAre, DecisionsTypeOK
<1>a. ASSUME NEW ev \in Evaluation, NEW row \in DecisionRow, decision' = [decision EXCEPT ![ev] = row],
             UNCHANGED <<evaluation, trail, lost>>
      PROVE  DecisionsTypeOK'
  <2>1. decision' \in [Evaluation -> DecisionRow \cup {NoDecision}]
    BY <1>0, <1>a
  <2> QED
    BY <1>0, <1>a, <2>1 DEF DecisionsTypeOK
<1>b. UNCHANGED decisionTables => DecisionsTypeOK'
  BY <1>0 DEF DecisionsTypeOK, decisionTables
<1>c. q.step \in {"approve", "correct", "revoke"} => decision[q.ev] \in DecisionRow
  <2>1. q.step \in {"approve", "correct", "revoke"} => q.ev \in InRegister
    BY DEF RowsComplete, DecisionFine, Approved
  <2> QED
    BY <1>0, <2>1 DEF InRegister
<1>1. CASE InsertDecision(h)
  <2>1. q.ev \in Evaluation /\ q.entry.after \in Verdict
    BY <1>1, DecisionHolds DEF InsertDecision, At, CreateEntry
  <2>2. PICK row \in DecisionRow : row = [status |-> "DRAFT", verdict |-> q.entry.after,
                                          approved |-> FALSE, approvedBy |-> Nobody,
                                          reason |-> NoReason]
    BY <2>1, DecisionRows
  <2>3. decision' = decision \/ decision' = [decision EXCEPT ![q.ev] = row]
    BY <1>1, <2>2 DEF InsertDecision
  <2>4. UNCHANGED <<evaluation, trail, lost>>
    BY <1>1 DEF InsertDecision
  <2>5. decision' = decision => UNCHANGED decisionTables
    BY <2>4 DEF decisionTables
  <2> QED
    BY <1>a, <1>b, <2>1, <2>3, <2>4, <2>5
<1>2. CASE Approve(h)
  <2>1. q.ev \in Evaluation /\ q.entry.by \in User \cup {Nobody} /\ decision[q.ev] \in DecisionRow
    BY <1>2, <1>c, DecisionHolds DEF Approve, At, ApproveEntry
  <2>2. PICK row \in DecisionRow :
          row = [decision[q.ev] EXCEPT !.status = "APPROVED", !.approved = TRUE,
                                       !.approvedBy = q.entry.by]
    BY <2>1, DecisionRows
  <2>3. decision' = [decision EXCEPT ![q.ev] = row]
    BY <1>2, <2>2 DEF Approve
  <2>4. UNCHANGED <<evaluation, trail, lost>>
    BY <1>2 DEF Approve
  <2> QED
    BY <1>a, <2>1, <2>3, <2>4
<1>3. CASE Correct(h)
  <2>1. q.ev \in Evaluation /\ q.entry.after \in Verdict /\ decision[q.ev] \in DecisionRow
    BY <1>3, <1>c, DecisionHolds DEF Correct, At, CorrectEntry
  <2>2. PICK row \in DecisionRow : row = [decision[q.ev] EXCEPT !.verdict = q.entry.after]
    BY <2>1, DecisionRows
  <2>3. decision' = [decision EXCEPT ![q.ev] = row]
    BY <1>3, <2>2 DEF Correct
  <2>4. UNCHANGED <<evaluation, trail, lost>>
    BY <1>3 DEF Correct
  <2> QED
    BY <1>a, <2>1, <2>3, <2>4
<1>4. CASE Revoke(h)
  <2>1. q.ev \in Evaluation /\ q.entry.after \in Reason /\ decision[q.ev] \in DecisionRow
    BY <1>4, <1>c, DecisionHolds DEF Revoke, At, RevokeEntry
  <2>2. PICK row \in DecisionRow :
          row = [decision[q.ev] EXCEPT !.status = "REVOKED", !.reason = q.entry.after]
    BY <2>1, DecisionRows
  <2>3. decision' = [decision EXCEPT ![q.ev] = row]
    BY <1>4, <2>2 DEF Revoke
  <2>4. UNCHANGED <<evaluation, trail, lost>>
    BY <1>4 DEF Revoke
  <2> QED
    BY <1>a, <2>1, <2>3, <2>4
<1>5. CASE Audit(h)
  <2>1. q.ev \in Evaluation /\ q.entry \in Entry
    BY <1>5, DecisionHolds DEF Audit, At
  <2>2. trail' = [trail EXCEPT ![q.ev] = @ \cup {q.entry}]
    BY <1>5 DEF Audit
  <2>3. trail' \in [Evaluation -> SUBSET Entry]
    BY <1>0, <2>1, <2>2
  <2>4. UNCHANGED <<evaluation, decision, lost>>
    BY <1>5 DEF Audit
  <2> QED
    BY <1>0, <2>3, <2>4 DEF DecisionsTypeOK
<1> QED
  BY <1>1, <1>2, <1>3, <1>4, <1>5, <1>b
  DEF HandleDecision, FindEvaluation, FindExisting, BeginApprove, BeginCorrect, BeginRevoke

\* The entry of a lost request, and an evaluation that is written or superseded.
LEMMA DecisionsElsewhere ==
    ASSUME DecisionsAre, RowsComplete
    PROVE  /\ \A h \in Handler : LoseDecision(h) => DecisionsTypeOK'
           /\ DecisionsOutside => DecisionsTypeOK'
<1>0. DecisionsTypeOK /\ lost \in [Evaluation -> SUBSET Entry]
  BY DEF DecisionsAre, DecisionsTypeOK
<1>1. ASSUME NEW h \in Handler, LoseDecision(h) PROVE DecisionsTypeOK'
  <2>1. UNCHANGED <<evaluation, decision, trail>>
    BY <1>1 DEF LoseDecision
  <2>2. CASE lost' = lost
    BY <1>0, <2>1, <2>2 DEF DecisionsTypeOK
  <2>3. CASE lost' # lost
    <3>1. /\ handler[h].step = "audit"
          /\ lost' = [lost EXCEPT ![handler[h].ev] = @ \cup {handler[h].entry}]
      BY <1>1, <2>3 DEF LoseDecision, At
    <3>2. handler[h].ev \in Evaluation /\ handler[h].entry \in Entry
      BY <3>1, DecisionHolds
    <3>3. lost' \in [Evaluation -> SUBSET Entry]
      BY <1>0, <3>1, <3>2
    <3> QED
      BY <1>0, <2>1, <3>3 DEF DecisionsTypeOK
  <2> QED
    BY <2>2, <2>3
<1>2. ASSUME DecisionsOutside PROVE DecisionsTypeOK'
  <2>1. PICK ev \in Evaluation, x \in {"ELIGIBLE", "NOT_ELIGIBLE", "SUPERSEDED"} :
          evaluation' = [evaluation EXCEPT ![ev].outcome = x] /\ UNCHANGED <<decision, trail, lost>>
    BY <1>2 DEF DecisionsOutside, Evaluate, Supersede
  <2>2. /\ evaluation = [e \in Evaluation |-> evaluation[e]]
        /\ "outcome" \in DOMAIN evaluation[ev]
    BY DEF RowsComplete
  <2>3. \A e \in Evaluation : evaluation'[e].outcome \in {x, evaluation[e].outcome}
    BY <2>1, <2>2
  <2>4. \A e \in Evaluation : evaluation'[e].outcome \in
            {"none", "ELIGIBLE", "NOT_ELIGIBLE", "SUPERSEDED"}
    BY <1>0, <2>3 DEF DecisionsTypeOK
  <2> QED
    BY <1>0, <2>1, <2>4 DEF DecisionsTypeOK
<1> QED
  BY <1>1, <1>2

\* Every step of the whole keeps the decisions and their slots typed.
LEMMA DecisionsAreNext ==
    ASSUME Steppable, DecisionsAre, RowsComplete, [Next]_vars
    PROVE  DecisionsAre'
<1>0. DecisionsSteps \in Parts
  BY DEF Parts
<1>1. Unentered(DecisionsSteps) \/ \E h \in Handler : HandleDecision(h)
  BY <1>0, EnteredByOwn, PartsDiffer
<1>2. Typed(DecisionsSteps, DecisionAsked)'
  BY <1>0, <1>1, DecisionRequests, DecisionsMove, TypedElse DEF DecisionsAre
<1>3. \/ \E h \in Handler : HandleDecision(h) \/ LoseDecision(h)
      \/ DecisionsOutside
      \/ UNCHANGED decisionTables
  BY DecisionsElse
<1>4. UNCHANGED decisionTables => DecisionsTypeOK'
  BY DEF DecisionsAre, DecisionsTypeOK, decisionTables
<1>5. DecisionsTypeOK'
  BY <1>3, <1>4, DecisionWrites, DecisionsElsewhere
<1> QED
  BY <1>2, <1>5 DEF DecisionsAre

\* So they are at the start.
LEMMA InitDecisionsAre == Init => DecisionsAre
<1> SUFFICES ASSUME Init PROVE DecisionsAre
  OBVIOUS
<1>1. Typed(DecisionsSteps, DecisionAsked)
  BY InitTyped DEF Parts
<1>2. PICK x \in Verdict : x = CHOOSE v \in Verdict : TRUE
  BY DecisionAssumption
<1>3. PICK u \in User : u = CHOOSE y \in User : TRUE
  BY DecisionAssumption
<1> DEFINE row == [status |-> "DRAFT", verdict |-> x, approved |-> FALSE,
                   approvedBy |-> Nobody, reason |-> NoReason]
           inForce == [row EXCEPT !.status = "APPROVED", !.approved = TRUE, !.approvedBy = u]
           entries == {[act |-> "create", after |-> x]} \cup
                      {e \in {[act |-> "approve", by |-> u]} : "approve" \notin calls}
<1>4. /\ \A ev \in Evaluation : evaluation[ev].outcome \in {"none", "ELIGIBLE"}
      /\ decision = [ev \in Evaluation |->
              IF "create" \in calls THEN NoDecision
              ELSE IF "approve" \in calls THEN row ELSE inForce]
      /\ trail = [ev \in Evaluation |-> IF "create" \notin calls THEN entries ELSE {}]
      /\ lost = [ev \in Evaluation |-> {}]
  BY <1>2, <1>3 DEF Init, DecisionsInit
<1>5. row \in DecisionRow /\ inForce \in DecisionRow
  BY DEF DecisionRow
<1>6. entries \subseteq Entry
  BY DEF Entry
<1> HIDE DEF row, inForce, entries
<1>7. /\ decision \in [Evaluation -> DecisionRow \cup {NoDecision}]
      /\ trail \in [Evaluation -> SUBSET Entry]
      /\ lost \in [Evaluation -> SUBSET Entry]
  BY <1>4, <1>5, <1>6
<1> QED
  BY <1>1, <1>4, <1>7 DEF DecisionsAre, DecisionsTypeOK

\* So they always are.
LEMMA AlwaysDecisionsAre == Spec => []DecisionsAre
<1>1. Init => Steppable /\ RowsComplete /\ DecisionsAre
  BY InitSteppable, InitComplete, InitDecisionsAre
<1>2. Steppable /\ RowsComplete /\ DecisionsAre /\ [Next]_vars
        => Steppable' /\ RowsComplete' /\ DecisionsAre'
  BY StepSteppable, RowsCompleteNext, DecisionsAreNext
<1> QED
  BY <1>1, <1>2, PTL DEF Spec

-----------------------------------------------------------------------------
(* What the slots of the institution hold *)

\* The slots of the institution's services hold their requests.
InstitutionAsked ==
    /\ Typed(OrganizationsSteps, OrganizationRequest)
    /\ Typed(CalendarSteps, CalendarRequest)

\* What each action of OrganizationsService puts into its slot.
LEMMA OrganizationRequests ==
    ASSUME Steppable, InstitutionKnown, InstitutionAsked, NEW h \in Handler,
           HandleOrganization(h)
    PROVE  Becomes(h, OrganizationRequest)
<1> DEFINE q == handler[h]
           Walk == [step: {"ancestor", "move"}, o: Organization, p: Organization \cup {NoParent},
                    up: Organization \cup {NoParent}]
<1>0. \A m \in Walk : m \in OrganizationRequest
  BY DEF OrganizationRequest
<1>1. CASE BeginOrganization(h)
  <2>1. PICK o \in Organization, p \in Organization \cup {NoParent} :
            Reads(h, [step |-> "organization", o |-> o, p |-> p])
    BY <1>1 DEF BeginOrganization, Receive
  <2>2. [step |-> "organization", o |-> o, p |-> p] \in OrganizationRequest
    BY DEF OrganizationRequest
  <2> QED
    BY <2>1, <2>2, GoesOn
<1>2. CASE CreateOrganization(h)
  BY <1>2, IsDone DEF CreateOrganization
<1>3. CASE BeginReparent(h)
  <2>1. PICK o \in Organization, p \in Organization \cup {NoParent}, s \in {"ancestor", "move"} :
            Reads(h, [step |-> s, o |-> o, p |-> p, up |-> p])
    BY <1>3 DEF BeginReparent, Receive
  <2>2. [step |-> s, o |-> o, p |-> p, up |-> p] \in Walk
    OBVIOUS
  <2> QED
    BY <1>0, <2>1, <2>2, GoesOn
<1>4. CASE ReadAncestor(h)
  <2>1. q.step = "ancestor" /\ q \in OrganizationRequest
    BY <1>4 DEF ReadAncestor, At, InstitutionAsked, Typed, OrganizationsSteps
  <2>2. q \in Walk
    BY <2>1 DEF OrganizationRequest
  <2>3. q.up \in Organization /\ parent[q.up] \in Organization \cup {NoParent, "none"}
    BY <2>1 DEF InstitutionKnown, MoveKnown, OrganizationsTypeOK
  <2>4. [q EXCEPT !.step = "move"] \in Walk
    BY <2>2
  <2>5. parent[q.up] # "none" => [q EXCEPT !.up = parent[q.up]] \in Walk
    BY <2>2, <2>3
  <2>6. \/ Finish(h)
        \/ Reads(h, [q EXCEPT !.step = "move"])
        \/ parent[q.up] # "none" /\ Reads(h, [q EXCEPT !.up = parent[q.up]])
    BY <1>4 DEF ReadAncestor, Goto
  <2> QED
    BY <1>0, <2>4, <2>5, <2>6, GoesOn, IsDone
<1>5. CASE Reparent(h)
  BY <1>5, IsDone DEF Reparent
<1> QED
  BY <1>1, <1>2, <1>3, <1>4, <1>5 DEF HandleOrganization

\* What each action of the calendars puts into its slot.
LEMMA CalendarRequests ==
    ASSUME Steppable, InstitutionKnown, InstitutionAsked, NEW h \in Handler, HandleCalendar(h)
    PROVE  Becomes(h, CalendarRequest)
<1> DEFINE q == handler[h]
           Columns == {"status", "from", "until"}
<1>0. /\ Booked \subseteq Booking /\ CalendarTypeOK
      /\ \A c \in Booked : booking[c] \in BookingRow
      /\ \A p \in Period, s \in {"ACTIVE", "ENDED"} :
            Row(p, s) \in BookingRow /\ DOMAIN Row(p, s) = Columns
  BY CalendarAssumption DEF InstitutionKnown, CalendarTypeOK, Booked, Row, BookingRow
<1>a. ASSUME NEW s \in CalendarSteps, NEW c \in Booking, NEW row \in BookingRow,
             NEW C \in SUBSET Columns
      PROVE  [step |-> s, b |-> c, row |-> row, columns |-> C] \in CalendarRequest
  BY DEF CalendarRequest, CalendarSteps
<1>b. ASSUME q.step \in CalendarSteps, NEW s \in CalendarSteps
      PROVE  [q EXCEPT !.step = s] \in CalendarRequest
  <2>1. q \in CalendarRequest
    BY <1>b DEF InstitutionAsked, Typed
  <2> QED
    BY <1>b, <2>1 DEF CalendarRequest, CalendarSteps
<1>1. CASE BeginBooking(h)
  <2>1. PICK c \in Booking, p \in Period, s \in {"ACTIVE", "ENDED"}, t \in CalendarSteps :
            Reads(h, [step |-> t, b |-> c, row |-> Row(p, s), columns |-> {}])
    BY <1>1 DEF BeginBooking, Receive, CalendarSteps
  <2> QED
    BY <1>0, <1>a, <2>1, GoesOn
<1>2. CASE CheckDuplicate(h)
  <2>1. q.step \in CalendarSteps /\ "conflicts" \in CalendarSteps
    BY <1>2 DEF CheckDuplicate, At, CalendarSteps
  <2>2. Finish(h) \/ Reads(h, [q EXCEPT !.step = "conflicts"])
    BY <1>2 DEF CheckDuplicate, Goto
  <2> QED
    BY <1>b, <2>1, <2>2, GoesOn, IsDone
<1>3. CASE BeginRebooking(h)
  <2>1. PICK c \in Booked, p \in Period, s \in {"ACTIVE", "ENDED"}, t \in CalendarSteps :
            Reads(h, [step |-> t, b |-> c, row |-> Row(p, s),
                      columns |-> {x \in DOMAIN Row(p, s) :
                          Sort[c] # "teaching" \/ Row(p, s)[x] # booking[c][x]}])
    BY <1>3 DEF BeginRebooking, Receive, CalendarSteps
  <2> QED
    BY <1>0, <1>a, <2>1, GoesOn
<1>4. CASE BeginEnd(h)
  <2>1. PICK c \in Booked :
            \E day \in {p.from : p \in {x \in Period : booking[c].from <= x.from}} :
                Reads(h, [step |-> "booking", b |-> c,
                          row |-> [booking[c] EXCEPT !.status = "ENDED",
                                     !.until = IF Sort[c] = "schedule" THEN @ ELSE day],
                          columns |-> IF Sort[c] = "schedule" THEN {"status"}
                                      ELSE {"status", "until"}])
    BY <1>4 DEF BeginEnd, Receive
  <2>2. PICK day \in {p.from : p \in {x \in Period : booking[c].from <= x.from}} :
            Reads(h, [step |-> "booking", b |-> c,
                      row |-> [booking[c] EXCEPT !.status = "ENDED",
                                 !.until = IF Sort[c] = "schedule" THEN @ ELSE day],
                      columns |-> IF Sort[c] = "schedule" THEN {"status"}
                                  ELSE {"status", "until"}])
    BY <2>1
  <2>3. PICK p \in Period : day = p.from
    OBVIOUS
  <2>4. day \in Nat /\ booking[c] \in BookingRow
    BY <1>0, <2>3, CalendarAssumption
  <2>5. [booking[c] EXCEPT !.status = "ENDED",
                           !.until = IF Sort[c] = "schedule" THEN @ ELSE day] \in BookingRow
    BY <2>4 DEF BookingRow
  <2>6. /\ (IF Sort[c] = "schedule" THEN {"status"} ELSE {"status", "until"}) \in SUBSET Columns
        /\ "booking" \in CalendarSteps
    BY DEF CalendarSteps
  <2> QED
    BY <1>0, <1>a, <2>2, <2>5, <2>6, GoesOn
<1>5. CASE CheckOverlap(h)
  <2>1. q.step \in CalendarSteps /\ "booking" \in CalendarSteps
    BY <1>5 DEF CheckOverlap, At, CalendarSteps
  <2>2. Finish(h) \/ Reads(h, [q EXCEPT !.step = "booking"])
    BY <1>5 DEF CheckOverlap, Goto
  <2> QED
    BY <1>b, <2>1, <2>2, GoesOn, IsDone
<1>6. CASE Book(h)
  BY <1>6, IsDone DEF Book
<1> QED
  BY <1>1, <1>2, <1>3, <1>4, <1>5, <1>6 DEF HandleCalendar

\* Nobody else enters their steps.
LEMMA InstitutionAskedNext ==
    ASSUME Steppable, InstitutionKnown, InstitutionAsked, [Next]_vars
    PROVE  InstitutionAsked'
<1>0. OrganizationsSteps \in Parts /\ CalendarSteps \in Parts
  BY DEF Parts
<1>1. Unentered(OrganizationsSteps) \/ \E h \in Handler : HandleOrganization(h)
  BY <1>0, EnteredByOwn, PartsDiffer
<1>2. Unentered(CalendarSteps) \/ \E h \in Handler : HandleCalendar(h)
  BY <1>0, EnteredByOwn, PartsDiffer
<1>3. Typed(OrganizationsSteps, OrganizationRequest)'
  BY <1>0, <1>1, OrganizationRequests, OrganizationsMove, TypedElse DEF InstitutionAsked
<1>4. Typed(CalendarSteps, CalendarRequest)'
  BY <1>0, <1>2, CalendarRequests, CalendarMove, TypedElse DEF InstitutionAsked
<1> QED
  BY <1>3, <1>4 DEF InstitutionAsked

\* Of the institution, its tables and its slots are typed.
LEMMA AlwaysInstitutionAsked == Spec => [](InstitutionKnown /\ InstitutionAsked)
<1>1. Init => Steppable /\ InstitutionKnown /\ InstitutionAsked
  <2> SUFFICES ASSUME Init PROVE Steppable /\ InstitutionKnown /\ InstitutionAsked
    OBVIOUS
  <2>1. Typed(OrganizationsSteps, OrganizationRequest)
    BY InitTyped DEF Parts
  <2>2. Typed(CalendarSteps, CalendarRequest)
    BY InitTyped DEF Parts
  <2> QED
    BY <2>1, <2>2, InitSteppable, InitInstitution DEF InstitutionAsked
<1>2. Steppable /\ InstitutionKnown /\ InstitutionAsked /\ [Next]_vars
        => Steppable' /\ InstitutionKnown' /\ InstitutionAsked'
  BY StepSteppable, InstitutionNext, InstitutionAskedNext
<1> QED
  BY <1>1, <1>2, PTL DEF Spec
=============================================================================
