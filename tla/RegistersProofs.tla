--------------------------- MODULE RegistersProofs ---------------------------
(***************************************************************************)
(* Proofs for the whole of Academy about the roll, its summaries and the   *)
(* preparation of exams: what the requests of the other components do to   *)
(* these tables is RollElse and PreparationElse here.                      *)
(*                                                                         *)
(* The other sections type the tables and slots of the roll, the exams and *)
(* the learning catalogue (AttendanceAre, ExamsAre, LearningAre), and put  *)
(* all of TypeOK together: AcademyTyped.                                   *)
(***************************************************************************)
EXTENDS CourseworkProofs

-----------------------------------------------------------------------------
(* KeepsRollBook *)

\* What any step of the whole does to the roll.
LEMMA RollElse ==
    ASSUME Steppable, [Next]_vars
    PROVE  \/ \E h \in Handler : \/ HandleAttendance(h)
                                 \/ HandleEnrollment(h) /\ UNCHANGED <<lesson, record, correction, summary>>
           \/ CreateLesson
           \/ /\ UNCHANGED <<rollTables, summary>>
              /\ Unentered(AttendanceSteps) /\ Unentered(EnrollmentsSteps)
<1> DEFINE Same == UNCHANGED <<rollTables, summary>>
           Own(h) == \/ HandleAttendance(h)
                     \/ HandleEnrollment(h) /\ UNCHANGED <<lesson, record, correction, summary>>
<1>0. AttendanceSteps \in Parts /\ EnrollmentsSteps \in Parts
  BY DEF Parts
<1>1. ASSUME NEW h \in Handler, Operate(h)
      PROVE  Own(h) \/ (Same /\ Unentered(AttendanceSteps) /\ Unentered(EnrollmentsSteps))
  <2>1. \/ Own(h)
        \/ Same /\ HandleSubmit(h)
        \/ Same /\ HandleLink(h)
        \/ Same /\ HandleAssess(h)
        \/ Same /\ HandleAssignment(h)
        \/ Same /\ HandleFile(h)
        \/ Same /\ HandleMark(h)
        \/ Same /\ HandleGrade(h)
        \/ Same /\ HandleQuestion(h)
        \/ Same /\ HandleExam(h)
        \/ Same /\ HandleDecision(h)
        \/ Same /\ HandleLearning(h)
        \/ Same /\ HandleOrganization(h)
        \/ Same /\ HandleCalendar(h)
    BY <1>1
    DEF Operate, CourseworkHandler, HandleSubmission, HandleSetup,
        vars, requests, courseTables, tables, work, markTables, gradeTables,
        attendanceTables, rollTables, setupTables, bankTables, decisionTables,
        catalogTables, learningTables, institutionTables
  <2> HIDE DEF Same, Own
  <2>2. Own(h) \/ (Same /\ Unentered(AttendanceSteps))
    BY <1>0, <2>1, OthersUnentered, PartsDiffer
  <2>3. Own(h) \/ (Same /\ Unentered(EnrollmentsSteps))
    BY <1>0, <2>1, OthersUnentered, PartsDiffer
  <2> QED
    BY <2>2, <2>3
<1>2. ASSUME NEW h \in Handler, LoseRequest(h)
      PROVE  Same /\ Unentered(AttendanceSteps) /\ Unentered(EnrollmentsSteps)
  <2>1. Same
    BY <1>2 DEF LoseRequest, LoseDecision, vars, requests, courseTables, tables, work, markTables, gradeTables,
               attendanceTables, rollTables, setupTables, bankTables,
               decisionTables, catalogTables, learningTables, institutionTables
  <2> QED
    BY <1>0, <1>2, <2>1, LossUnentered
<1>3. ASSUME Outside
      PROVE  CreateLesson \/ (Same /\ Unentered(AttendanceSteps) /\ Unentered(EnrollmentsSteps))
  <2>1. CreateLesson \/ Same
    BY <1>3 DEF Outside, CourseworkOutside, InitiateUpload, PutObject, Sit, SaveAnswer,
            CloseAttempt, DecisionsOutside, Evaluate, Supersede, WriteOutside,
            requests, vars, courseTables, tables, work, markTables, gradeTables,
            attendanceTables, rollTables, setupTables, bankTables, decisionTables,
            catalogTables, learningTables, institutionTables
  <2> QED
    BY <1>3, <2>1, OutsideMoves DEF Unentered
<1>4. ASSUME UNCHANGED vars
      PROVE  Same /\ Unentered(AttendanceSteps) /\ Unentered(EnrollmentsSteps)
  BY <1>4 DEF Unentered, vars, requests, courseTables, tables, work, markTables, gradeTables,
       attendanceTables, rollTables, setupTables, bankTables, decisionTables,
       catalogTables, learningTables, institutionTables
<1> HIDE DEF Same, Own
<1>5. \/ \E h \in Handler : Own(h)
      \/ CreateLesson
      \/ Same /\ Unentered(AttendanceSteps) /\ Unentered(EnrollmentsSteps)
  BY <1>1, <1>2, <1>3, <1>4 DEF Next
<1> QED
  BY <1>5 DEF Same, Own

\* The steps of a request that is about to change the roll.
RollSteps == EnrollmentsSteps \cup {"lesson status", "roll call", "record", "correction"}

\* What such a request holds, and knows while it is uncrossed.
RollKnown(q, uncrossed) ==
    /\ q.step = "enroll" => q.e \in Enrollee /\ q.row.status # "none"
    /\ q.step = "enrollment status" =>
        /\ q.e \in Enrollee
        /\ uncrossed => CanMove(enrolled[q.e].status, q.to)
    /\ q.step = "transfer" =>
        /\ q.e \in Enrollee /\ q.class \in Class
        /\ uncrossed => enrolled[q.e].status = "ACTIVE"
    /\ q.step = "lesson status" => q.l \in Lesson /\ q.to \in LessonStatus
    /\ q.step \in {"roll call", "record"} =>
        /\ q.l \in Lesson /\ q.marks \in [DOMAIN q.marks -> Presence]
        /\ uncrossed => lesson[q.l] = "OPEN"
        /\ uncrossed /\ q.step = "record" => \A e \in DOMAIN q.marks : MayAttend(e, q.l)
    /\ q.step = "correction" =>
        /\ q.l \in Lesson /\ q.e \in Enrollee /\ q.to \in Presence
        /\ uncrossed => /\ lesson[q.l] # "CANCELLED"
                        /\ record[q.l][q.e] = q.from /\ q.from \notin {"none", q.to}

RollTyped ==
    /\ lesson = [l \in Lesson |-> lesson[l]]
    /\ record = [l \in Lesson |-> [e \in Enrollee |-> record[l][e]]]

RollHeld == RollTyped /\ \A h \in Handler : RollKnown(handler[h], h \notin crossed)

\* A request that does not wait to change the roll knows nothing of it.
LEMMA RollIgnored ==
    ASSUME NEW q, q.step \notin RollSteps, NEW u \in BOOLEAN
    PROVE  RollKnown(q, u)
BY DEF RollKnown, RollSteps, EnrollmentsSteps

\* A slot that stays as it is knows no less, if the roll stays or it is crossed.
LEMMA RollStays ==
    ASSUME Undisturbed, NEW g \in Handler, handler'[g] = handler[g],
           RollKnown(handler[g], g \notin crossed),
           UNCHANGED rollTables \/ g \in crossed' \/ handler[g].step = "idle"
    PROVE  RollKnown(handler[g], g \notin crossed)'
<1>1. CASE handler[g].step = "idle"
  BY <1>1 DEF RollKnown
<1>2. CASE g \in crossed'
  BY <1>2 DEF RollKnown
<1>3. CASE UNCHANGED rollTables /\ g \notin crossed' /\ handler[g].step # "idle"
  <2>1. g \notin crossed
    BY <1>3 DEF Undisturbed, InFlight, At
  <2>2. enrolled' = enrolled /\ lesson' = lesson /\ record' = record
    BY <1>3 DEF rollTables
  <2> QED
    BY <2>1, <2>2 DEF RollKnown, MayAttend
<1> QED
  BY <1>1, <1>2, <1>3

\* A read that leaves the roll as it is and whose slot holds what it knows.
LEMMA RollReads ==
    ASSUME Steppable, RollHeld, Undisturbed, NEW h \in Handler, NEW m, Reads(h, m),
           UNCHANGED rollTables, m.step \in RollSteps => RollKnown(m, h \notin crossed)
    PROVE  RollHeld'
<1>1. ASSUME NEW g \in Handler, g # h PROVE RollKnown(handler[g], g \notin crossed)'
  BY <1>1, RollStays DEF Steppable, Reads, RollHeld
<1>2. handler'[h] = m /\ enrolled' = enrolled /\ lesson' = lesson /\ record' = record
  BY DEF rollTables, Steppable, Reads
<1>3. RollKnown(handler[h], h \notin crossed)'
  <2>1. CASE m.step \notin RollSteps
    BY <1>2, <2>1 DEF RollKnown, RollSteps, EnrollmentsSteps
  <2>2. CASE m.step \in RollSteps
    <3>1. crossed' = crossed
      <4>1. Idle.step \notin RollSteps
        BY DEF Idle, RollSteps, EnrollmentsSteps
      <4> QED
        BY <2>2, <4>1 DEF Reads
    <3>2. PICK u \in BOOLEAN : u <=> h \notin crossed
      OBVIOUS
    <3>3. RollKnown(m, u)
      BY <2>2, <3>2
    <3>4. RollKnown(m, u)'
      BY <1>2, <3>3 DEF RollKnown, MayAttend
    <3> QED
      BY <1>2, <3>1, <3>2, <3>4
  <2> QED
    BY <2>1, <2>2
<1> QED
  BY <1>1, <1>2, <1>3 DEF RollHeld, RollTyped

\* A commit crosses all the others, and what its own request goes on with is no change
\* of the roll.
LEMMA RollWritten ==
    ASSUME Steppable, RollHeld, Undisturbed, NEW h \in Handler, NEW m, Commits(h, m),
           m.step \notin RollSteps, RollTyped'
    PROVE  RollHeld'
<1>1. ASSUME NEW g \in Handler, g # h PROVE RollKnown(handler[g], g \notin crossed)'
  <2>1. handler'[g] = handler[g] /\ (g \in crossed' \/ handler[g].step = "idle")
    BY <1>1 DEF Steppable, Commits, InFlight, At
  <2> QED
    BY <1>1, <2>1, RollStays DEF RollHeld
<1>2. RollKnown(handler[h], h \notin crossed)'
  BY DEF Steppable, Commits, RollKnown, RollSteps, EnrollmentsSteps
<1> QED
  BY <1>1, <1>2 DEF RollHeld

\* Every action of EnrollmentsService keeps what is known, and if it is not one of a
\* crossed request it is a step of the roll book.
LEMMA EnrollmentsRoll ==
    ASSUME Steppable, EnrollmentsDated, RollHeld, Undisturbed, NEW h \in Handler,
           HandleEnrollment(h), UNCHANGED <<lesson, record, correction>>
    PROVE  RollHeld' /\ (Uncrossed => UNCHANGED Roll!vars \/ Roll!Next)
<1> DEFINE q == handler[h]
           Fine == UNCHANGED Roll!vars \/ Roll!Next
<1>0. /\ RollKnown(q, h \notin crossed) /\ RollTyped /\ RollTyped'
      /\ Idle.step \notin RollSteps
  BY DEF RollHeld, RollTyped, Idle, RollSteps, EnrollmentsSteps
<1>a. ASSUME NEW m, Reads(h, m), UNCHANGED enrolled,
             m.step \in RollSteps => RollKnown(m, h \notin crossed)
      PROVE  RollHeld' /\ Fine
  BY <1>a, RollReads DEF rollTables, Roll!vars
<1>b. ASSUME Commit(h) PROVE RollHeld' /\ (Uncrossed /\ q # Idle => h \notin crossed)
  BY <1>0, <1>b, RollWritten DEF Commit, Uncrossed, Commits, Steppable
<1>c. ASSUME NEW s, At(h, s), s # "idle" PROVE q # Idle
  BY <1>c DEF At, Idle
<1>1. CASE BeginEnroll(h)
  <2>1. PICK e \in Enrollee, s \in EnrollmentStatus, c \in Class \cup {NoClass} :
            Reads(h, [step |-> "enroll", e |-> e, row |-> Registered(s, c)]) /\ UNCHANGED enrolled
    BY <1>1 DEF BeginEnroll, Receive
  <2>2. Registered(s, c).status # "none"
    BY DEF Registered, EnrollmentStatus
  <2>3. RollKnown([step |-> "enroll", e |-> e, row |-> Registered(s, c)], h \notin crossed)
    BY <2>2 DEF RollKnown
  <2> QED
    BY <1>a, <2>1, <2>3
<1>2. CASE CreateEnrollment(h)
  <2>1. q.e \in Enrollee /\ q.row.status # "none"
    BY <1>0, <1>2 DEF CreateEnrollment, At, RollKnown
  <2>2. CASE Finish(h) /\ UNCHANGED enrolled
    BY <1>0, <1>a, <2>2 DEF Finish
  <2>3. CASE enrolled[q.e] = NotEnrolled /\ enrolled' = [enrolled EXCEPT ![q.e] = q.row] /\ Commit(h)
    <3>1. enrolled[q.e].status = "none"
      BY <2>3 DEF NotEnrolled
    <3>2. enrolled'[q.e] = q.row
      BY <2>1, <2>3 DEF EnrollmentsDated
    <3>3. Roll!Enroll(q.e)
      BY <2>1, <2>3, <3>1, <3>2 DEF Roll!Enroll
    <3> QED
      BY <1>b, <2>1, <2>3, <3>3 DEF Roll!Next
  <2> QED
    BY <1>2, <2>2, <2>3 DEF CreateEnrollment
<1>3. CASE BeginEnrollmentStatus(h)
  <2>1. PICK e \in Enrollee, to \in EnrollmentStatus :
            /\ CanMove(enrolled[e].status, to)
            /\ Reads(h, [step |-> "enrollment status", e |-> e, to |-> to, row |-> enrolled[e]])
            /\ UNCHANGED enrolled
    BY <1>3 DEF BeginEnrollmentStatus, Receive
  <2> DEFINE m == [step |-> "enrollment status", e |-> e, to |-> to, row |-> enrolled[e]]
  <2>2. m.step = "enrollment status" /\ m.e = e /\ m.to = to /\ Reads(h, m)
    BY <2>1
  <2> HIDE DEF m
  <2>3. RollKnown(m, h \notin crossed)
    BY <2>1, <2>2 DEF RollKnown
  <2> QED
    BY <1>a, <2>1, <2>2, <2>3
<1>4. CASE SetEnrollmentStatus(h)
  <2>1. /\ At(h, "enrollment status") /\ q.e \in Enrollee /\ Commit(h)
        /\ h \notin crossed => CanMove(enrolled[q.e].status, q.to)
    BY <1>0, <1>4 DEF SetEnrollmentStatus, At, RollKnown
  <2>2. ASSUME CanMove(enrolled[q.e].status, q.to) PROVE Roll!Move(q.e)
    <3> DEFINE row == [enrolled[q.e] EXCEPT !.status = q.to, !.completed = Completed(q.row, q.to)]
    <3>1. enrolled' = [enrolled EXCEPT ![q.e] = row] /\ enrolled'[q.e] = row
      BY <1>4, <2>1 DEF SetEnrollmentStatus, EnrollmentsDated
    <3>2. row.status = q.to /\ row.class = enrolled[q.e].class
      BY <2>1 DEF EnrollmentsDated, Dated
    <3> HIDE DEF row
    <3> QED
      BY <2>2, <3>1, <3>2 DEF Roll!Move, CanMove
  <2> QED
    BY <1>b, <1>c, <2>1, <2>2 DEF Roll!Next
<1>5. CASE BeginTransfer(h)
  <2>1. PICK e \in Enrollee, c \in Class :
            /\ enrolled[e].status = "ACTIVE"
            /\ Reads(h, [step |-> "transfer", e |-> e, class |-> c])
            /\ UNCHANGED enrolled
    BY <1>5 DEF BeginTransfer, Receive
  <2>2. RollKnown([step |-> "transfer", e |-> e, class |-> c], h \notin crossed)
    BY <2>1 DEF RollKnown
  <2> QED
    BY <1>a, <2>1, <2>2
<1>6. CASE Transfer(h)
  <2>1. /\ At(h, "transfer") /\ q.e \in Enrollee /\ q.class \in Class /\ Commit(h)
        /\ h \notin crossed => enrolled[q.e].status = "ACTIVE"
        /\ enrolled' = [enrolled EXCEPT ![q.e].class = q.class]
    BY <1>0, <1>6 DEF Transfer, At, RollKnown
  <2>2. enrolled[q.e].status = "ACTIVE" => Roll!Transfer(q.e)
    BY <2>1 DEF Roll!Transfer
  <2> QED
    BY <1>b, <1>c, <2>1, <2>2 DEF Roll!Next
<1> QED
  BY <1>1, <1>2, <1>3, <1>4, <1>5, <1>6 DEF HandleEnrollment
\* Counting a scope leaves the roll as it is, and what is known of it.
LEMMA RefreshRoll ==
    ASSUME Steppable, RollHeld, Undisturbed, NEW h \in Handler,
           \/ BeginRefresh(h) \/ ReadClassRows(h) \/ ReadPlace(h) \/ ReadLessons(h)
           \/ ReadMembers(h) \/ ReadRecords(h) \/ StoreSummary(h) \/ SkipSummary(h)
    PROVE  RollHeld' /\ UNCHANGED Roll!vars
<1>1. Moves(h, RefreshSteps)
  BY RefreshMove
<1>2. UNCHANGED rollTables
  BY DEF BeginRefresh, ReadClassRows, ReadPlace, ReadLessons, ReadMembers, ReadRecords,
         StoreSummary, SkipSummary
<1>3. ASSUME NEW g \in Handler, g # h PROVE RollKnown(handler[g], g \notin crossed)'
  BY <1>1, <1>2, <1>3, RollStays DEF Moves, RollHeld
<1>4. RollKnown(handler[h], h \notin crossed)'
  <2>1. handler'[h].step \in RefreshSteps \cup {"idle"}
    BY <1>1 DEF Moves, Idle
  <2> QED
    BY <2>1 DEF RefreshSteps, RollKnown
<1> QED
  BY <1>2, <1>3, <1>4 DEF RollHeld, RollTyped, rollTables, Roll!vars

\* Every action of the attendance services keeps what is known, and if it is not one of
\* a crossed request it is a step of the roll book.
LEMMA AttendanceRoll ==
    ASSUME Steppable, RollHeld, Undisturbed, NEW h \in Handler, HandleAttendance(h)
    PROVE  RollHeld' /\ (Uncrossed => UNCHANGED Roll!vars \/ Roll!Next)
<1> DEFINE q == handler[h]
           Fine == UNCHANGED Roll!vars \/ Roll!Next
<1>0. /\ RollKnown(q, h \notin crossed) /\ RollTyped
      /\ Idle.step \notin RollSteps
  BY DEF RollHeld, RollTyped, Idle, RollSteps, EnrollmentsSteps
<1>a. ASSUME NEW m, Reads(h, m), UNCHANGED rollTables,
             m.step \in RollSteps => RollKnown(m, h \notin crossed)
      PROVE  RollHeld' /\ Fine
  BY <1>a, RollReads DEF rollTables, Roll!vars
<1>b. ASSUME NEW m, Commits(h, m), m.step \notin RollSteps, RollTyped'
      PROVE  RollHeld'
  BY <1>b, RollWritten
<1>c. ASSUME NEW m, Commits(h, m), m.step # q.step, Uncrossed
      PROVE  h \notin crossed
  BY <1>c DEF Uncrossed, Commits, Steppable
<1>d. \A c : Refreshing(c).step = "class rows" /\ Refreshing(c).step \notin RollSteps
  BY DEF Refreshing, RollSteps, EnrollmentsSteps
<1>1. CASE BeginLessonStatus(h)
  <2>1. PICK l \in Lesson, to \in LessonStatus :
            /\ Reads(h, [step |-> "lesson status", l |-> l, to |-> to, from |-> lesson[l]])
            /\ UNCHANGED rollTables
    BY <1>1 DEF BeginLessonStatus, Receive
  <2>2. RollKnown([step |-> "lesson status", l |-> l, to |-> to, from |-> lesson[l]], h \notin crossed)
    BY DEF RollKnown
  <2> QED
    BY <1>a, <2>1, <2>2
<1>2. CASE SetLessonStatus(h)
  <2>1. PICK m : Commits(h, m) /\ (m = Idle \/ \E c : m = Refreshing(c))
    BY <1>2 DEF SetLessonStatus
  <2>2. /\ q.l \in Lesson /\ q.to \in LessonStatus
        /\ lesson' = [lesson EXCEPT ![q.l] = q.to]
        /\ UNCHANGED <<enrolled, record, correction>>
    BY <1>0, <1>2 DEF SetLessonStatus, At, RollKnown
  <2>3. m.step \notin RollSteps /\ RollTyped'
    BY <1>0, <1>d, <2>1, <2>2 DEF RollTyped
  <2>4. Roll!SetLesson(q.l)
    BY <2>2 DEF Roll!SetLesson, LessonStatus
  <2> QED
    BY <1>b, <2>1, <2>2, <2>3, <2>4 DEF Roll!Next
<1>3. CASE BeginRoll(h)
  <2>1. PICK l \in Lesson, E \in (SUBSET Enrollee) \ {{}} : \E marks \in [E -> Presence] :
            /\ lesson[l] = "OPEN"
            /\ Reads(h, [step |-> "roll call", l |-> l, marks |-> marks])
            /\ UNCHANGED rollTables
    BY <1>3 DEF BeginRoll, Receive
  <2>2. PICK marks \in [E -> Presence] :
            /\ lesson[l] = "OPEN"
            /\ Reads(h, [step |-> "roll call", l |-> l, marks |-> marks])
            /\ UNCHANGED rollTables
    BY <2>1
  <2>3. RollKnown([step |-> "roll call", l |-> l, marks |-> marks], h \notin crossed)
    BY <2>2 DEF RollKnown
  <2> QED
    BY <1>a, <2>2, <2>3
<1>4. CASE CheckEnrollments(h)
  <2>1. CASE Finish(h) /\ UNCHANGED rollTables
    BY <1>0, <1>a, <2>1 DEF Finish
  <2>2. CASE Goto(h, "record") /\ UNCHANGED rollTables /\ \A e \in DOMAIN q.marks : MayAttend(e, q.l)
    <3> DEFINE m == [q EXCEPT !.step = "record"]
    <3>1. /\ Reads(h, m)
          /\ m.step = "record" /\ m.l = q.l /\ m.marks = q.marks
      BY <2>2 DEF Goto, Steppable
    <3> HIDE DEF m
    <3>2. RollKnown(m, h \notin crossed)
      BY <1>0, <1>4, <2>2, <3>1 DEF CheckEnrollments, At, RollKnown
    <3> QED
      BY <1>a, <2>2, <3>1, <3>2
  <2> QED
    BY <1>4, <2>1, <2>2 DEF CheckEnrollments
<1>5. CASE RecordRoll(h)
  <2>1. /\ At(h, "record") /\ Commits(h, Refreshing(ClassOf[q.l]))
        /\ record' = [record EXCEPT ![q.l] =
                [e \in Enrollee |-> IF e \in DOMAIN q.marks THEN q.marks[e] ELSE @[e]]]
        /\ UNCHANGED <<enrolled, lesson, correction>>
        /\ q.l \in Lesson /\ q.marks \in [DOMAIN q.marks -> Presence]
        /\ h \notin crossed => /\ lesson[q.l] = "OPEN"
                               /\ \A e \in DOMAIN q.marks : MayAttend(e, q.l)
    BY <1>0, <1>5 DEF RecordRoll, At, RollKnown
  <2>2. record'[q.l] = [e \in Enrollee |-> IF e \in DOMAIN q.marks THEN q.marks[e] ELSE record[q.l][e]]
    BY <1>0, <2>1 DEF RollTyped
  <2>3. RollTyped'
    BY <1>0, <2>1, <2>2 DEF RollTyped
  <2>4. record' = [record EXCEPT ![q.l] = record'[q.l]]
    BY <1>0, <2>1, <2>2
  <2>5. ASSUME h \notin crossed PROVE Roll!Take(q.l)
    BY <2>1, <2>2, <2>4, <2>5 DEF Roll!Take, MayAttend
  <2>6. Refreshing(ClassOf[q.l]).step # q.step
    BY <1>d, <2>1 DEF At
  <2>7. RollHeld'
    BY <1>b, <1>d, <2>1, <2>3
  <2> QED
    BY <1>c, <2>1, <2>5, <2>6, <2>7 DEF Roll!Next
<1>6. CASE BeginCorrection(h)
  <2>1. PICK l \in Lesson, e \in Enrollee, to \in Presence :
            /\ record[l][e] \notin {"none", to}
            /\ lesson[l] # "CANCELLED"
            /\ Reads(h, [step |-> "correction", l |-> l, e |-> e, from |-> record[l][e], to |-> to])
            /\ UNCHANGED rollTables
    BY <1>6 DEF BeginCorrection, Receive
  <2>2. RollKnown([step |-> "correction", l |-> l, e |-> e, from |-> record[l][e], to |-> to],
                  h \notin crossed)
    BY <2>1 DEF RollKnown
  <2> QED
    BY <1>a, <2>1, <2>2
<1>7. CASE ApplyCorrection(h)
  <2>1. /\ At(h, "correction") /\ Commits(h, Refreshing(ClassOf[q.l]))
        /\ correction' = [correction EXCEPT ![q.l][q.e] = Append(@, [from |-> q.from, to |-> q.to])]
        /\ record' = [record EXCEPT ![q.l][q.e] = q.to]
        /\ UNCHANGED <<enrolled, lesson>>
        /\ q.l \in Lesson /\ q.e \in Enrollee /\ q.to \in Presence
        /\ h \notin crossed => /\ lesson[q.l] # "CANCELLED"
                               /\ record[q.l][q.e] = q.from /\ q.from \notin {"none", q.to}
    BY <1>0, <1>7 DEF ApplyCorrection, At, RollKnown
  <2>2. RollTyped'
    BY <1>0, <2>1 DEF RollTyped
  <2>3. ASSUME h \notin crossed PROVE Roll!Correct(q.l, q.e)
    <3>1. correction' = [correction EXCEPT ![q.l][q.e] =
                            Append(@, [from |-> record[q.l][q.e], to |-> q.to])]
      BY <2>1, <2>3
    <3> QED
      BY <2>1, <2>3, <3>1 DEF Roll!Correct
  <2>4. Refreshing(ClassOf[q.l]).step # q.step
    BY <1>d, <2>1 DEF At
  <2>5. RollHeld'
    BY <1>b, <1>d, <2>1, <2>2
  <2> QED
    BY <1>c, <2>1, <2>3, <2>4, <2>5 DEF Roll!Next
<1>8. CASE \/ BeginRefresh(h) \/ ReadClassRows(h) \/ ReadPlace(h) \/ ReadLessons(h)
           \/ ReadMembers(h) \/ ReadRecords(h) \/ StoreSummary(h) \/ SkipSummary(h)
  BY <1>8, RefreshRoll
<1> QED
  BY <1>1, <1>2, <1>3, <1>4, <1>5, <1>6, <1>7, <1>8 DEF HandleAttendance

\* Every step of the whole keeps what is known, and if it is not one of a crossed request
\* it is a step of the roll book.
LEMMA RollStep ==
    ASSUME Steppable, EnrollmentsDated, RollHeld, [Next]_vars
    PROVE  RollHeld' /\ (Uncrossed => UNCHANGED Roll!vars \/ Roll!Next)
<1>0. Undisturbed
  BY NextUndisturbed
<1>1. ASSUME NEW h \in Handler, HandleAttendance(h)
      PROVE  RollHeld' /\ (Uncrossed => UNCHANGED Roll!vars \/ Roll!Next)
  BY <1>0, <1>1, AttendanceRoll
<1>2. ASSUME NEW h \in Handler, HandleEnrollment(h), UNCHANGED <<lesson, record, correction>>
      PROVE  RollHeld' /\ (Uncrossed => UNCHANGED Roll!vars \/ Roll!Next)
  BY <1>0, <1>2, EnrollmentsRoll
<1>3. ASSUME CreateLesson
      PROVE  RollHeld' /\ (Uncrossed => UNCHANGED Roll!vars \/ Roll!Next)
  <2>1. PICK l \in Lesson, s \in LessonStatus :
            lesson' = [lesson EXCEPT ![l] = s] /\ UNCHANGED <<enrolled, record, correction>>
    BY <1>3 DEF CreateLesson
  <2>2. crossed' = InFlight /\ handler' = handler
    BY <1>3 DEF CreateLesson, WriteOutside
  <2>3. ASSUME NEW g \in Handler PROVE RollKnown(handler[g], g \notin crossed)'
    <3>1. handler'[g] = handler[g] /\ (g \in crossed' \/ handler[g].step = "idle")
      BY <2>2 DEF InFlight, At
    <3> QED
      BY <1>0, <3>1, RollStays DEF RollHeld
  <2>4. RollTyped'
    BY <2>1 DEF RollHeld, RollTyped
  <2>5. Roll!SetLesson(l)
    BY <2>1 DEF Roll!SetLesson, LessonStatus
  <2> QED
    BY <2>3, <2>4, <2>5 DEF RollHeld, Roll!Next
<1>4. ASSUME UNCHANGED rollTables, Unentered(AttendanceSteps), Unentered(EnrollmentsSteps)
      PROVE  RollHeld' /\ UNCHANGED Roll!vars
  <2>1. RollTyped' /\ UNCHANGED Roll!vars
    BY <1>4 DEF RollHeld, RollTyped, rollTables, Roll!vars
  <2>2. ASSUME NEW g \in Handler PROVE RollKnown(handler[g], g \notin crossed)'
    <3>1. CASE handler'[g] = handler[g]
      BY <1>0, <1>4, <3>1, RollStays DEF RollHeld
    <3>2. CASE handler'[g] # handler[g]
      <4>1. handler'[g].step \notin AttendanceSteps \cup EnrollmentsSteps
        BY <1>4, <3>2 DEF Unentered
      <4> QED
        BY <4>1 DEF RollKnown, AttendanceSteps, EnrollmentsSteps
    <3> QED
      BY <3>1, <3>2
  <2> QED
    BY <2>1, <2>2 DEF RollHeld
<1> QED
  BY <1>1, <1>2, <1>3, <1>4, RollElse

\* Nobody has read anything yet, and no lesson has been corrected.
LEMMA InitRoll == Init => RollHeld /\ Roll!Init
<1> SUFFICES ASSUME Init PROVE RollHeld /\ Roll!Init
  OBVIOUS
<1>1. AttendanceInit /\ RequestsInit
  BY DEF Init
<1>2. RollTyped
  BY <1>1 DEF AttendanceInit, RollTyped
<1>3. \A h \in Handler : handler[h] = Idle
  BY <1>1 DEF RequestsInit
<1>4. ASSUME NEW h \in Handler PROVE RollKnown(handler[h], h \notin crossed)
  <2>1. Idle.step \notin RollSteps
    BY DEF Idle, RollSteps, EnrollmentsSteps
  <2>2. PICK u \in BOOLEAN : u <=> h \notin crossed
    OBVIOUS
  <2>3. handler[h].step \notin RollSteps
    BY <1>3, <2>1
  <2>5. RollKnown(handler[h], u)
    BY <2>3, RollIgnored
  <2> QED
    BY <2>2, <2>5
<1>5. \A e \in Enrollee : enrolled[e].status \in {"none", "ACTIVE"}
  <2>1. \A e \in Enrollee : \/ enrolled[e] = NotEnrolled
                            \/ \E c \in Class : enrolled[e] = Registered("ACTIVE", c)
    BY <1>1 DEF AttendanceInit, EnrollmentsInit
  <2>2. NotEnrolled.status = "none" /\ \A c \in Class : Registered("ACTIVE", c).status = "ACTIVE"
    BY DEF NotEnrolled, Registered
  <2> QED
    BY <2>1, <2>2
<1>6. Roll!Init
  BY <1>1, <1>5 DEF AttendanceInit, Roll!Init
<1> QED
  BY <1>2, <1>4, <1>6 DEF RollHeld

\* EnrollmentsService and the attendance services implement the roll book: a request that
\* no other one crosses marks active enrollments of the class in an open session only, and
\* changes a mark later by a correction that says what it replaced.
THEOREM RollBookKept == Spec => KeepsRollBook
<1>1. Init => Steppable /\ EnrollmentsDated /\ RollHeld /\ Roll!Init
  BY InitSteppable, InitEnrollmentsDated, InitRoll
<1>2. Steppable /\ EnrollmentsDated /\ RollHeld /\ [Next]_vars
        => Steppable' /\ EnrollmentsDated' /\ RollHeld'
  BY StepSteppable, EnrollmentsDatedNext, RollStep
<1>3. Steppable /\ EnrollmentsDated /\ RollHeld /\ [Next]_vars
        => [Promised(Roll!Next, Roll!vars)]_(Roll!vars)
  BY RollStep DEF Promised
<1> QED
  BY <1>1, <1>2, <1>3, PTL DEF Spec, KeepsRollBook

-----------------------------------------------------------------------------
(* FreshWhenAnswered *)

\* The first scope that is left.
Current(q) == Head(q.todo)

\* The scopes that a change in class c concerns.
Concerned(c) == DOMAIN PlacedIn({c}) \cup {c, Batch}

CountColumns == {"step", "class", "whole", "todo", "lessons", "members", "row"}

\* What a request that recounts scopes holds.
CountHeld(q) ==
    q.step \in RefreshSteps \cup {"class rows"} =>
        /\ DOMAIN q = CountColumns /\ q.whole \in BOOLEAN
        /\ q.class \in Class \cup {NoClass}
        /\ q.step = "class rows" => q.class \in Class
        /\ q.step \in RefreshSteps => q.todo \in Seq(Scope) /\ q.todo # <<>>

\* How far the count of the current scope has come.
CountBegun(q) ==
    LET s == Current(q)
    IN  /\ q.step = "lessons" =>
            s \in Enrollee /\ enrolled[s].class # NoClass /\ q.members[s] = enrolled[s].class
        /\ q.step = "members" => s \notin Enrollee
        /\ q.step \in {"members", "records"} =>
            q.lessons = Eligible(ClassesIn(s)) /\ q.lessons # {}
        /\ q.step = "records" /\ s \notin Enrollee =>
            q.members = PlacedIn(ClassesOf(q.lessons)) /\ q.members # <<>>
        /\ q.step = "summary" => q.row = Recount(s)

\* What is no longer left is stored.
CountDone(q) ==
    q.step \in RefreshSteps /\ q.class # NoClass /\ q.whole =>
        \A s \in Concerned(q.class) : s \in Range(q.todo) \/ summary[s] = Recount(s)

CountKnown(q) ==
    /\ q.step = "lesson status" => lesson[q.l] = q.from
    /\ q.step \in RefreshSteps => CountBegun(q)
    /\ CountDone(q)

CountFine(q, uncrossed) == CountHeld(q) /\ (uncrossed => CountKnown(q))

CountsFine ==
    /\ DOMAIN summary = Scope
    /\ \A h \in Handler : CountFine(handler[h], h \notin crossed)

\* The head count of a group or a person depends on the records alone.
LEMMA CountsStay ==
    ASSUME record' = record, NEW L, NEW M, NEW e
    PROVE  /\ GroupCounts(L, M)' = GroupCounts(L, M)
           /\ PersonalCounts(e, L)' = PersonalCounts(e, L)
<1>1. GroupCounts(L, M)' = GroupCounts(L, M)
  BY DEF GroupCounts, PersonalTally
<1>2. PersonalCounts(e, L)' = PersonalCounts(e, L)
  BY DEF PersonalCounts, PersonalTally
<1> QED
  BY <1>1, <1>2

\* A recount gives the same as long as places, records and the closed lessons do.
LEMMA RecountStays ==
    ASSUME record' = record, enrolled' = enrolled,
           \A l \in Lesson : lesson'[l] = "CLOSED" <=> lesson[l] = "CLOSED", NEW s
    PROVE  /\ Recount(s)' = Recount(s)
           /\ Eligible(ClassesIn(s))' = Eligible(ClassesIn(s))
<1>1. Eligible(ClassesIn(s))' = Eligible(ClassesIn(s))
  BY DEF Eligible, ClassesIn
<1>2. PICK L : L = Eligible(ClassesIn(s))
  OBVIOUS
<1>3. PICK M : M = PlacedIn(ClassesOf(L))
  OBVIOUS
<1>4. M = PlacedIn(ClassesOf(L))'
  BY <1>3 DEF PlacedIn, ClassesOf
<1>5. GroupCounts(L, M)' = GroupCounts(L, M) /\ PersonalCounts(s, L)' = PersonalCounts(s, L)
  BY CountsStay
<1>6. Recount(s) = IF L = {} \/ M = <<>> THEN EmptyCounts
                   ELSE IF s \in Enrollee THEN PersonalCounts(s, L) ELSE GroupCounts(L, M)
  BY <1>2, <1>3 DEF Recount
<1>7. Recount(s)' = IF L = {} \/ M = <<>> THEN EmptyCounts
                    ELSE IF s \in Enrollee THEN PersonalCounts(s, L)' ELSE GroupCounts(L, M)'
  BY <1>1, <1>2, <1>4 DEF Recount
<1> QED
  BY <1>1, <1>5, <1>6, <1>7

\* What is known stays known as long as the tables stay.
LEMMA CountSame ==
    ASSUME UNCHANGED <<rollTables, summary>>, NEW q, CountKnown(q)
    PROVE  CountKnown(q)'
<1>1. enrolled' = enrolled /\ lesson' = lesson /\ record' = record /\ summary' = summary
  BY DEF rollTables
<1>2. \A s : Recount(s)' = Recount(s) /\ Eligible(ClassesIn(s))' = Eligible(ClassesIn(s))
  BY <1>1, RecountStays
<1>3. \A C : PlacedIn(C)' = PlacedIn(C)
  BY <1>1 DEF PlacedIn
<1>4. ASSUME q.step \in RefreshSteps PROVE CountBegun(q)'
  <2>1. CountBegun(q)
    BY <1>4 DEF CountKnown
  <2> QED
    BY <1>1, <1>2, <1>3, <2>1 DEF CountBegun, Current, ClassesOf
<1>5. CountDone(q)'
  <2>1. CountDone(q) /\ \A c : Concerned(c)' = Concerned(c)
    BY <1>3 DEF CountKnown, Concerned
  <2> QED
    BY <1>1, <1>2, <2>1 DEF CountDone, Range
<1> QED
  BY <1>1, <1>4, <1>5 DEF CountKnown

\* A request with nothing to do with the counts knows nothing of them.
LEMMA CountIgnored ==
    ASSUME NEW q, q.step \notin RefreshSteps \cup {"class rows", "lesson status"}
    PROVE  CountHeld(q) /\ CountKnown(q) /\ CountHeld(q)' /\ CountKnown(q)'
<1>1. CountHeld(q) /\ CountHeld(q)'
  BY DEF CountHeld
<1>2. CountDone(q) /\ CountDone(q)'
  BY DEF CountDone
<1> QED
  BY <1>1, <1>2 DEF CountKnown

\* A slot that stays as it is knows no less, if the tables stay or it is crossed.
LEMMA CountStays ==
    ASSUME Undisturbed, NEW g \in Handler, handler'[g] = handler[g],
           CountFine(handler[g], g \notin crossed),
           UNCHANGED <<rollTables, summary>> \/ g \in crossed' \/ handler[g].step = "idle"
    PROVE  CountFine(handler[g], g \notin crossed)'
<1>1. CountHeld(handler[g])'
  BY DEF CountFine, CountHeld
<1>2. ASSUME g \notin crossed' PROVE CountKnown(handler[g])'
  <2>1. CASE handler[g].step = "idle"
    <3>1. "idle" \notin RefreshSteps \cup {"class rows", "lesson status"}
      BY DEF RefreshSteps
    <3> QED
      BY <2>1, <3>1, CountIgnored
  <2>2. CASE UNCHANGED <<rollTables, summary>> /\ handler[g].step # "idle"
    <3>1. g \notin crossed
      BY <1>2, <2>2 DEF Undisturbed, InFlight, At
    <3>2. CountKnown(handler[g])
      BY <3>1 DEF CountFine
    <3>3. PICK q : q = handler[g]
      OBVIOUS
    <3>4. CountKnown(q)'
      BY <2>2, <3>2, <3>3, CountSame
    <3>5. handler'[g] = q
      BY <3>3
    <3> QED
      BY <3>4, <3>5
  <2> QED
    BY <1>2, <2>1, <2>2
<1> QED
  BY <1>1, <1>2 DEF CountFine

\* A read whose slot goes on with what it knows.
LEMMA CountReads ==
    ASSUME Steppable, CountsFine, Undisturbed, NEW h \in Handler, NEW m, Reads(h, m),
           UNCHANGED <<rollTables, summary>>,
           CountHeld(m), h \notin crossed => CountKnown(m)
    PROVE  CountsFine'
<1>1. ASSUME NEW g \in Handler, g # h PROVE CountFine(handler[g], g \notin crossed)'
  BY <1>1, CountStays DEF Steppable, Reads, CountsFine
<1>2. handler'[h] = m
  BY DEF Steppable, Reads
<1>3. CountFine(handler[h], h \notin crossed)'
  <2>1. CASE m.step = "idle"
    <3>1. "idle" \notin RefreshSteps \cup {"class rows", "lesson status"}
      BY DEF RefreshSteps
    <3>2. CountHeld(m)' /\ CountKnown(m)'
      BY <2>1, <3>1, CountIgnored
    <3> QED
      BY <1>2, <3>2 DEF CountFine
  <2>2. CASE m.step # "idle"
    <3>1. crossed' = crossed
      BY <2>2 DEF Reads, Idle
    <3>2. h \notin crossed => CountKnown(m)'
      BY CountSame
    <3>3. CountHeld(m)'
      BY DEF CountHeld
    <3> QED
      BY <1>2, <3>1, <3>2, <3>3 DEF CountFine
  <2> QED
    BY <2>1, <2>2
<1> QED
  BY <1>1, <1>3 DEF CountsFine, rollTables

\* A commit crosses all the others.
LEMMA CountWritten ==
    ASSUME Steppable, CountsFine, Undisturbed, NEW h \in Handler, NEW m, Commits(h, m),
           DOMAIN summary' = DOMAIN summary,
           handler[h].step # "idle", CountHeld(m), h \notin crossed => CountKnown(m)'
    PROVE  CountsFine'
<1>1. ASSUME NEW g \in Handler, g # h PROVE CountFine(handler[g], g \notin crossed)'
  <2>1. handler'[g] = handler[g] /\ (g \in crossed' \/ handler[g].step = "idle")
    BY <1>1 DEF Steppable, Commits, InFlight, At
  <2> QED
    BY <1>1, <2>1, CountStays DEF CountsFine
<1>2. handler'[h] = m
  BY DEF Steppable, Commits
<1>3. CountFine(handler[h], h \notin crossed)'
  <2>1. CASE m.step = "idle"
    <3>1. "idle" \notin RefreshSteps \cup {"class rows", "lesson status"}
      BY DEF RefreshSteps
    <3>2. CountHeld(m)' /\ CountKnown(m)'
      BY <2>1, <3>1, CountIgnored
    <3> QED
      BY <1>2, <3>2 DEF CountFine
  <2>2. CASE m.step # "idle"
    <3>1. h \notin crossed' => h \notin crossed
      BY <2>2 DEF Commits, Idle, InFlight, At
    <3>2. CountHeld(m)'
      BY DEF CountHeld
    <3> QED
      BY <1>2, <3>1, <3>2 DEF CountFine
  <2> QED
    BY <2>1, <2>2
<1> QED
  BY <1>1, <1>3 DEF CountsFine

\* What a person is counted on.
LEMMA PersonRecount ==
    ASSUME NEW s \in Enrollee
    PROVE  /\ ClassesIn(s) = {enrolled[s].class}
           /\ enrolled[s].class = NoClass => Recount(s) = EmptyCounts
           /\ Eligible(ClassesIn(s)) = {} => Recount(s) = EmptyCounts
           /\ Eligible(ClassesIn(s)) # {} =>
                Recount(s) = PersonalCounts(s, Eligible(ClassesIn(s)))
<1> DEFINE L == Eligible(ClassesIn(s))
<1>1. ClassesIn(s) = {enrolled[s].class}
  BY AttendanceAssumption DEF ClassesIn
<1>2. enrolled[s].class = NoClass => L = {}
  BY <1>1, AttendanceAssumption, EnrollmentsAssumption DEF Eligible
<1>3. L = {} => Recount(s) = EmptyCounts
  BY DEF Recount
<1>4. ASSUME L # {} PROVE Recount(s) = PersonalCounts(s, L)
  <2>1. PICK l \in L : TRUE
    BY <1>4
  <2>2. ClassOf[l] = enrolled[s].class
    BY <1>1, <2>1 DEF Eligible
  <2>3. s \in DOMAIN PlacedIn(ClassesOf(L))
    BY <2>1, <2>2 DEF PlacedIn, ClassesOf
  <2>4. PlacedIn(ClassesOf(L)) # <<>>
    <3>1. DOMAIN <<>> = {}
      OBVIOUS
    <3> QED
      BY <2>3, <3>1
  <2> HIDE DEF L
  <2> QED
    BY <1>4, <2>4 DEF Recount, L
<1> QED
  BY <1>1, <1>2, <1>3, <1>4

\* What a class or the batch is counted on.
LEMMA GroupRecount ==
    ASSUME NEW s, s \notin Enrollee, NEW L, L = Eligible(ClassesIn(s)),
           NEW M, M = PlacedIn(ClassesOf(L))
    PROVE  /\ L = {} \/ M = <<>> => Recount(s) = EmptyCounts
           /\ L # {} /\ M # <<>> => Recount(s) = GroupCounts(L, M)
BY DEF Recount

\* A count that has come to its end knows the recount.
LEMMA CountEnded ==
    ASSUME Steppable, CountsFine, Undisturbed, NEW h \in Handler, NEW row,
           handler[h].step \in RefreshSteps, Reads(h, Counted(handler[h], row)),
           UNCHANGED <<rollTables, summary>>,
           h \notin crossed => row = Recount(Current(handler[h]))
    PROVE  CountsFine'
<1> DEFINE q == handler[h]
           m == Counted(q, row)
<1>1. CountHeld(q) /\ (h \notin crossed => CountKnown(q))
  BY DEF CountsFine, CountFine
<1>2. DOMAIN q = CountColumns
  BY <1>1 DEF CountHeld
<1>3. /\ DOMAIN m = CountColumns /\ m.step = "summary" /\ m.row = row
      /\ m.class = q.class /\ m.whole = q.whole /\ m.todo = q.todo
  BY <1>2 DEF Counted, CountColumns
<1>4. Reads(h, m)
  OBVIOUS
<1> HIDE DEF m
<1>5. CountHeld(m)
  BY <1>1, <1>3 DEF CountHeld, RefreshSteps
<1>6. ASSUME h \notin crossed PROVE CountKnown(m)
  <2>1. CountBegun(m)
    BY <1>3, <1>6 DEF CountBegun, Current
  <2>2. CountDone(m)
    BY <1>1, <1>3, <1>6 DEF CountKnown, CountDone
  <2> QED
    BY <1>3, <2>1, <2>2 DEF CountKnown
<1> QED
  BY <1>4, <1>5, <1>6, CountReads

\* The persons of a class, one after another.
LEMMA Sequenced ==
    ASSUME NEW S, IsFiniteSet(S)
    PROVE  SetToSeq(S) \in Seq(S) /\ S \subseteq Range(SetToSeq(S))
<1> DEFINE N == 1 .. Cardinality(S)
           f == SetToSeq(S)
<1>1. Cardinality(S) \in Nat /\ ExistsBijection(N, S)
  BY FS_CardinalityType
<1>2. IsFiniteSet(N) /\ Cardinality(N) = Cardinality(S)
  BY <1>1, FS_Interval
<1>3. PICK g : g \in Bijection(N, S)
  BY <1>1 DEF ExistsBijection
<1>4. g \in [N -> S] /\ IsInjective(g)
  BY <1>3 DEF Bijection, Injection, IsInjective
<1>5. f \in [N -> S] /\ IsInjective(f)
  BY <1>4 DEF SetToSeq
<1> HIDE DEF N, f
<1>6. f \in Injection(N, S)
  BY <1>5 DEF Injection, IsInjective
<1>7. f \in Surjection(N, S)
  BY <1>2, <1>6, FS_Injection
<1>8. S \subseteq Range(f)
  BY <1>5, <1>7 DEF Surjection, Range
<1>9. f \in Seq(S)
  BY <1>1, <1>5 DEF N
<1> QED
  BY <1>8, <1>9 DEF f

\* refreshForClassSubject and the refresh of one scope begin with what is to be recounted.
LEMMA CountPlanned ==
    ASSUME Steppable, CountsFine, Undisturbed, NEW h \in Handler,
           BeginRefresh(h) \/ ReadClassRows(h)
    PROVE  CountsFine'
<1> DEFINE q == handler[h]
<1>0. CountHeld(q) /\ UNCHANGED <<rollTables, summary>>
  BY DEF CountsFine, CountFine, BeginRefresh, ReadClassRows
<1>1. CASE BeginRefresh(h)
  <2>1. PICK s \in Scope :
            Reads(h, [Refreshing(NoClass) EXCEPT !.step = "refresh", !.todo = <<s>>])
    BY <1>1 DEF BeginRefresh, Receive
  <2> DEFINE m == [Refreshing(NoClass) EXCEPT !.step = "refresh", !.todo = <<s>>]
  <2>2. /\ DOMAIN m = CountColumns /\ m.step = "refresh" /\ m.whole = TRUE
        /\ m.class = NoClass /\ m.todo = <<s>>
    BY DEF Refreshing, CountColumns
  <2>3. Reads(h, m)
    BY <2>1
  <2> HIDE DEF m
  <2>4. CountHeld(m)
    <3>1. <<s>> \in Seq(Scope) /\ <<s>> # <<>>
      OBVIOUS
    <3> QED
      BY <2>2, <3>1 DEF CountHeld
  <2>5. CountKnown(m)
    BY <2>2 DEF CountKnown, CountBegun, CountDone
  <2> QED
    BY <1>0, <2>3, <2>4, <2>5, CountReads
<1>2. CASE ReadClassRows(h)
  <2> DEFINE c == q.class
             P == DOMAIN PlacedIn({c})
             todo == SetToSeq(P) \o <<c, Batch>>
             m == [q EXCEPT !.step = "refresh", !.todo = todo]
  <2>1. Reads(h, m) /\ q.step = "class rows"
    BY <1>2 DEF ReadClassRows, At
  <2>2. DOMAIN q = CountColumns /\ c \in Class /\ q.whole \in BOOLEAN
    BY <1>0, <2>1 DEF CountHeld
  <2>3. P \subseteq Enrollee /\ IsFiniteSet(P)
    <3>1. P \subseteq Enrollee
      BY DEF PlacedIn
    <3> QED
      BY <3>1, AttendanceAssumption, FS_Subset
  <2>4. SetToSeq(P) \in Seq(P) /\ P \subseteq Range(SetToSeq(P))
    BY <2>3, Sequenced
  <2>5. todo \in Seq(Scope) /\ todo # <<>> /\ Concerned(c) \subseteq Range(todo)
    <3> HIDE DEF P
    <3>1. PICK A : A = SetToSeq(P)
      OBVIOUS
    <3>2. A \in Seq(Scope)
      BY <2>3, <2>4, <3>1 DEF Scope
    <3>3. <<c, Batch>> \in Seq(Scope)
      BY <2>2 DEF Scope
    <3>4. todo = A \o <<c, Batch>>
      BY <3>1
    <3> HIDE DEF todo
    <3>5. todo \in Seq(Scope) /\ Len(todo) = Len(A) + 2
      BY <3>2, <3>3, <3>4
    <3>6. ASSUME NEW s \in P PROVE s \in Range(todo)
      <4>1. PICK i \in DOMAIN A : A[i] = s
        BY <2>4, <3>1 DEF Range
      <4>2. i \in DOMAIN todo /\ todo[i] = s
        BY <3>2, <3>4, <3>5, <4>1
      <4> QED
        BY <4>2 DEF Range
    <3>7. c \in Range(todo)
      <4>1. Len(A) + 1 \in DOMAIN todo /\ todo[Len(A) + 1] = c
        BY <3>2, <3>4, <3>5
      <4> QED
        BY <4>1 DEF Range
    <3>8. Batch \in Range(todo)
      <4>1. Len(A) + 2 \in DOMAIN todo /\ todo[Len(A) + 2] = Batch
        BY <3>2, <3>4, <3>5
      <4> QED
        BY <4>1 DEF Range
    <3>9. todo # <<>>
      BY <3>2, <3>5
    <3> QED
      BY <3>5, <3>6, <3>7, <3>8, <3>9 DEF Concerned, P
  <2> HIDE DEF todo
  <2>6. /\ DOMAIN m = CountColumns /\ m.step = "refresh" /\ m.class = c
        /\ m.whole = q.whole /\ m.todo = todo
    BY <2>2 DEF CountColumns
  <2> HIDE DEF m
  <2>7. CountHeld(m)
    BY <2>2, <2>5, <2>6 DEF CountHeld
  <2>8. CountKnown(m)
    BY <2>5, <2>6 DEF CountKnown, CountBegun, CountDone
  <2> QED
    BY <1>0, <2>1, <2>7, <2>8, CountReads
<1> QED
  BY <1>1, <1>2

\* The class of a person, and the closed lessons of a scope.
LEMMA CountPlaced ==
    ASSUME Steppable, CountsFine, Undisturbed, NEW h \in Handler,
           ReadPlace(h) \/ ReadLessons(h)
    PROVE  CountsFine'
<1> DEFINE q == handler[h]
           s == Head(q.todo)
<1>0. /\ CountHeld(q) /\ (h \notin crossed => CountKnown(q))
      /\ UNCHANGED <<rollTables, summary>>
  BY DEF CountsFine, CountFine, ReadPlace, ReadLessons
<1>1. CASE ReadPlace(h)
  <2>1. q.step = "refresh" /\ s \in Enrollee /\ q.step \in RefreshSteps
    BY <1>1 DEF ReadPlace, At, RefreshSteps
  <2> DEFINE place == [p \in {s} |-> enrolled[s].class]
             m == [q EXCEPT !.step = "lessons", !.members = place]
  <2>2. CASE enrolled[s].class = NoClass
    <3>1. Reads(h, Counted(q, EmptyCounts))
      BY <1>1, <2>2 DEF ReadPlace
    <3>2. EmptyCounts = Recount(Current(q))
      BY <2>1, <2>2, PersonRecount DEF Current
    <3> QED
      BY <1>0, <2>1, <3>1, <3>2, CountEnded
  <2>3. CASE enrolled[s].class # NoClass
    <3>1. Reads(h, m)
      BY <1>1, <2>3 DEF ReadPlace
    <3>2. DOMAIN q = CountColumns
      BY <1>0, <2>1 DEF CountHeld
    <3>3. place[s] = enrolled[s].class
      OBVIOUS
    <3> HIDE DEF place
    <3>4. /\ DOMAIN m = CountColumns /\ m.step = "lessons" /\ m.members = place
          /\ m.class = q.class /\ m.whole = q.whole /\ m.todo = q.todo
      BY <3>2 DEF CountColumns
    <3> HIDE DEF m
    <3>5. CountHeld(m)
      BY <1>0, <2>1, <3>4 DEF CountHeld, RefreshSteps
    <3>6. ASSUME h \notin crossed PROVE CountKnown(m)
      <4>1. CountBegun(m)
        BY <2>1, <2>3, <3>3, <3>4 DEF CountBegun, Current
      <4>2. CountDone(m)
        BY <1>0, <2>1, <3>4, <3>6 DEF CountKnown, CountDone
      <4> QED
        BY <3>4, <4>1, <4>2 DEF CountKnown
    <3> QED
      BY <1>0, <3>1, <3>5, <3>6, CountReads
  <2> QED
    BY <2>2, <2>3
<1>2. CASE ReadLessons(h)
  <2> DEFINE L == Eligible(IF s \in Enrollee THEN {q.members[s]} ELSE ClassesIn(s))
             to == IF s \in Enrollee THEN "records" ELSE "members"
             m == [q EXCEPT !.step = to, !.lessons = L]
  <2>1. /\ IF q.step = "refresh" THEN s \notin Enrollee ELSE q.step = "lessons"
        /\ q.step \in RefreshSteps
    BY <1>2 DEF ReadLessons, At, RefreshSteps
  <2>2. ASSUME h \notin crossed PROVE L = Eligible(ClassesIn(s))
    <3>1. CASE s \in Enrollee
      <4>1. q.members[s] = enrolled[s].class
        BY <1>0, <2>1, <2>2, <3>1 DEF CountKnown, CountBegun, Current
      <4> QED
        BY <3>1, <4>1, PersonRecount
    <3> QED
      BY <3>1
  <2>3. CASE L = {}
    <3>1. Reads(h, Counted(q, EmptyCounts))
      BY <1>2, <2>3 DEF ReadLessons
    <3>2. ASSUME h \notin crossed PROVE EmptyCounts = Recount(Current(q))
      BY <2>2, <2>3, <3>2, PersonRecount, GroupRecount DEF Current
    <3> QED
      BY <1>0, <2>1, <3>1, <3>2, CountEnded
  <2>4. CASE L # {}
    <3>1. Reads(h, m)
      BY <1>2, <2>4 DEF ReadLessons
    <3>2. DOMAIN q = CountColumns
      BY <1>0, <2>1 DEF CountHeld
    <3> HIDE DEF L
    <3>3. /\ DOMAIN m = CountColumns /\ m.step = to /\ m.lessons = L
          /\ m.class = q.class /\ m.whole = q.whole /\ m.todo = q.todo
      BY <3>2 DEF CountColumns
    <3> HIDE DEF m
    <3>4. m.step \in {"records", "members"} /\ (m.step = "records" <=> s \in Enrollee)
      BY <3>3
    <3> HIDE DEF to
    <3>5. CountHeld(m)
      BY <1>0, <2>1, <3>3, <3>4 DEF CountHeld, RefreshSteps
    <3>6. ASSUME h \notin crossed PROVE CountKnown(m)
      <4>1. CountBegun(m)
        BY <2>2, <2>4, <3>3, <3>4, <3>6 DEF CountBegun, Current
      <4>2. CountDone(m)
        BY <1>0, <2>1, <3>3, <3>6 DEF CountKnown, CountDone
      <4> QED
        BY <3>4, <4>1, <4>2 DEF CountKnown
    <3> QED
      BY <1>0, <3>1, <3>5, <3>6, CountReads
  <2> QED
    BY <2>3, <2>4
<1> QED
  BY <1>1, <1>2

\* Who is in the classes of these lessons, and the marks.
LEMMA CountMade ==
    ASSUME Steppable, CountsFine, Undisturbed, NEW h \in Handler,
           ReadMembers(h) \/ ReadRecords(h)
    PROVE  CountsFine'
<1> DEFINE q == handler[h]
           s == Head(q.todo)
<1>0. /\ CountHeld(q) /\ (h \notin crossed => CountKnown(q))
      /\ UNCHANGED <<rollTables, summary>>
  BY DEF CountsFine, CountFine, ReadMembers, ReadRecords
<1>1. CASE ReadMembers(h)
  <2> DEFINE M == PlacedIn(ClassesOf(q.lessons))
             m == [q EXCEPT !.step = "records", !.members = M]
  <2>1. q.step = "members" /\ q.step \in RefreshSteps
    BY <1>1 DEF ReadMembers, At, RefreshSteps
  <2>2. h \notin crossed => /\ s \notin Enrollee
                            /\ q.lessons = Eligible(ClassesIn(s)) /\ q.lessons # {}
    BY <1>0, <2>1 DEF CountKnown, CountBegun, Current
  <2>3. CASE M = <<>>
    <3>1. Reads(h, Counted(q, EmptyCounts))
      BY <1>1, <2>3 DEF ReadMembers
    <3>2. ASSUME h \notin crossed PROVE EmptyCounts = Recount(Current(q))
      BY <2>2, <2>3, <3>2, GroupRecount DEF Current
    <3> QED
      BY <1>0, <2>1, <3>1, <3>2, CountEnded
  <2>4. CASE M # <<>>
    <3>1. Reads(h, m)
      BY <1>1, <2>4 DEF ReadMembers
    <3>2. DOMAIN q = CountColumns
      BY <1>0, <2>1 DEF CountHeld
    <3> HIDE DEF M
    <3>3. /\ DOMAIN m = CountColumns /\ m.step = "records" /\ m.members = M
          /\ m.lessons = q.lessons
          /\ m.class = q.class /\ m.whole = q.whole /\ m.todo = q.todo
      BY <3>2 DEF CountColumns
    <3> HIDE DEF m
    <3>4. CountHeld(m)
      BY <1>0, <2>1, <3>3 DEF CountHeld, RefreshSteps
    <3>5. ASSUME h \notin crossed PROVE CountKnown(m)
      <4>1. CountBegun(m)
        BY <2>2, <2>4, <3>3, <3>5 DEF CountBegun, Current, M
      <4>2. CountDone(m)
        BY <1>0, <2>1, <3>3, <3>5 DEF CountKnown, CountDone
      <4> QED
        BY <3>3, <4>1, <4>2 DEF CountKnown
    <3> QED
      BY <1>0, <3>1, <3>4, <3>5, CountReads
  <2> QED
    BY <2>3, <2>4
<1>2. CASE ReadRecords(h)
  <2> DEFINE row == IF s \in Enrollee THEN PersonalCounts(s, q.lessons)
                    ELSE GroupCounts(q.lessons, q.members)
  <2>1. q.step = "records" /\ q.step \in RefreshSteps /\ Reads(h, Counted(q, row))
    BY <1>2 DEF ReadRecords, At, RefreshSteps
  <2>2. ASSUME h \notin crossed PROVE row = Recount(Current(q))
    <3>1. /\ q.lessons = Eligible(ClassesIn(s)) /\ q.lessons # {}
          /\ s \notin Enrollee => q.members = PlacedIn(ClassesOf(q.lessons)) /\ q.members # <<>>
      BY <1>0, <2>1, <2>2 DEF CountKnown, CountBegun, Current
    <3>2. CASE s \in Enrollee
      BY <3>1, <3>2, PersonRecount DEF Current
    <3>3. CASE s \notin Enrollee
      BY <3>1, <3>3, GroupRecount DEF Current
    <3> QED
      BY <3>2, <3>3
  <2> HIDE DEF row
  <2> QED
    BY <1>0, <2>1, <2>2, CountEnded
<1> QED
  BY <1>1, <1>2

\* What is left when the first of several scopes is done.
LEMMA TailLeft ==
    ASSUME NEW S, NEW t \in Seq(S), t # <<>>
    PROVE  /\ Head(t) \in S /\ Tail(t) \in Seq(S)
           /\ Len(t) # 1 => Tail(t) # <<>>
           /\ \A x \in Range(t) : x # Head(t) => x \in Range(Tail(t))
<1>1. Len(t) \in Nat /\ Len(t) # 0 /\ DOMAIN t = 1 .. Len(t)
  OBVIOUS
<1>2. /\ Head(t) = t[1] /\ Tail(t) \in Seq(S) /\ Len(Tail(t)) = Len(t) - 1
      /\ \A i \in 1 .. Len(t) - 1 : Tail(t)[i] = t[i + 1]
  BY <1>1
<1>3. ASSUME NEW x \in Range(t), x # Head(t) PROVE x \in Range(Tail(t))
  <2>1. PICK i \in 1 .. Len(t) : t[i] = x
    BY <1>1, <1>3 DEF Range
  <2>2. i # 1 /\ i - 1 \in 1 .. Len(t) - 1
    BY <1>1, <1>2, <1>3, <2>1
  <2>3. Tail(t)[i - 1] = x /\ i - 1 \in DOMAIN Tail(t)
    <3>1. Tail(t)[i - 1] = t[(i - 1) + 1] /\ (i - 1) + 1 = i
      BY <1>2, <2>2
    <3>2. DOMAIN Tail(t) = 1 .. Len(t) - 1
      BY <1>2
    <3> QED
      BY <2>1, <2>2, <3>1, <3>2
  <2> QED
    BY <2>3 DEF Range
<1>4. Len(t) # 1 => Tail(t) # <<>>
  <2>1. PICK r : r = Tail(t)
    OBVIOUS
  <2>2. Len(r) = Len(t) - 1
    BY <1>2, <2>1
  <2>3. r = <<>> => Len(r) = 0
    OBVIOUS
  <2>4. Len(t) # 1 => r # <<>>
    BY <1>1, <2>2, <2>3
  <2> QED
    BY <2>1, <2>4
<1> QED
  BY <1>1, <1>2, <1>3, <1>4

\* The row is stored and the next scope begins, or the refresh is answered.
LEMMA CountStored ==
    ASSUME Steppable, CountsFine, Undisturbed, NEW h \in Handler,
           StoreSummary(h) \/ SkipSummary(h)
    PROVE  CountsFine'
<1> DEFINE q == handler[h]
           s == Head(q.todo)
           last == Len(q.todo) = 1
<1>0. CountHeld(q) /\ (h \notin crossed => CountKnown(q)) /\ DOMAIN summary = Scope
  BY DEF CountsFine, CountFine
<1>1. q.step = "summary" /\ UNCHANGED rollTables
  BY DEF StoreSummary, SkipSummary, At
<1>2. /\ DOMAIN q = CountColumns /\ q.whole \in BOOLEAN
      /\ q.class \in Class \cup {NoClass} /\ q.todo \in Seq(Scope) /\ q.todo # <<>>
  BY <1>0, <1>1 DEF CountHeld, RefreshSteps
<1>3. s \in Scope /\ \A x \in Range(q.todo) : x # s => x \in Range(Tail(q.todo))
  BY <1>2, TailLeft
<1>4. ASSUME NEW whole \in BOOLEAN, ~last
      PROVE  \E m : /\ m = NextScope(q, whole) /\ CountHeld(m)
                    /\ m.step = "refresh" /\ m.class = q.class /\ m.todo = Tail(q.todo)
                    /\ m.whole = (q.whole /\ whole)
  <2> DEFINE m == [q EXCEPT !.step = "refresh", !.todo = Tail(@), !.row = EmptyCounts,
                            !.whole = @ /\ whole]
  <2>1. m = NextScope(q, whole)
    BY <1>4 DEF NextScope
  <2>2. /\ DOMAIN m = CountColumns /\ m.step = "refresh"
        /\ m.class = q.class /\ m.todo = Tail(q.todo)
        /\ m.whole = (q.whole /\ whole)
    BY <1>2 DEF CountColumns
  <2>3. Tail(q.todo) \in Seq(Scope) /\ Tail(q.todo) # <<>>
    BY <1>2, <1>4, TailLeft
  <2> HIDE DEF m
  <2>4. m.whole \in BOOLEAN
    <3>1. (q.whole /\ whole) \in BOOLEAN
      OBVIOUS
    <3> QED
      BY <2>2, <3>1
  <2>5. m.step \in RefreshSteps /\ m.step # "class rows"
    BY <2>2 DEF RefreshSteps
  <2>6. CountHeld(m)
    BY <1>2, <2>2, <2>3, <2>4, <2>5 DEF CountHeld
  <2> QED
    BY <2>1, <2>2, <2>6
<1>5. CountHeld(Idle) /\ CountKnown(Idle) /\ CountHeld(Idle)' /\ CountKnown(Idle)'
  <2>1. Idle.step \notin RefreshSteps \cup {"class rows", "lesson status"}
    BY DEF Idle, RefreshSteps
  <2> QED
    BY <2>1, CountIgnored DEF Idle
<1>6. CASE StoreSummary(h)
  <2>1. summary' = [summary EXCEPT ![s] = q.row] /\ Commits(h, NextScope(q, TRUE))
    BY <1>6 DEF StoreSummary
  <2>2. DOMAIN summary' = DOMAIN summary /\ q.step # "idle"
    BY <1>1, <2>1
  <2>3. CASE last
    <3>1. Commits(h, Idle)
      BY <2>1, <2>3 DEF NextScope
    <3> QED
      BY <1>5, <2>2, <3>1, CountWritten
  <2>4. CASE ~last
    <3>1. PICK m : /\ m = NextScope(q, TRUE) /\ CountHeld(m)
                   /\ m.step = "refresh" /\ m.class = q.class /\ m.todo = Tail(q.todo)
                   /\ m.whole = (q.whole /\ TRUE)
      BY <1>4, <2>4
    <3>2. ASSUME h \notin crossed PROVE CountKnown(m)'
      <4>1. q.row = Recount(s) /\ CountDone(q)
        BY <1>0, <1>1, <3>2 DEF CountKnown, CountBegun, Current, RefreshSteps
      <4>2. enrolled' = enrolled /\ lesson' = lesson /\ record' = record
        BY <1>1 DEF rollTables
      <4>3. \A x : Recount(x)' = Recount(x)
        BY <4>2, RecountStays
      <4>4. \A c : Concerned(c)' = Concerned(c)
        BY <4>2 DEF Concerned, PlacedIn
      <4>5. CountBegun(m)'
        BY <3>1 DEF CountBegun
      <4>6. ASSUME q.class # NoClass, q.whole, NEW x \in Concerned(q.class)
            PROVE  x \in Range(Tail(q.todo)) \/ summary'[x] = Recount(x)
        <5>1. CASE x = s
          BY <1>0, <1>3, <2>1, <4>1, <5>1
        <5>2. CASE x # s /\ x \in Range(q.todo)
          BY <1>3, <5>2
        <5>3. CASE x # s /\ x \notin Range(q.todo)
          <6>1. summary[x] = Recount(x)
            BY <1>1, <4>1, <4>6, <5>3 DEF CountDone, RefreshSteps
          <6>2. x \in Scope
            BY <1>2, <4>6 DEF Concerned, PlacedIn, Scope
          <6> QED
            BY <1>0, <2>1, <5>3, <6>1, <6>2
        <5> QED
          BY <5>1, <5>2, <5>3
      <4>7. m.whole => q.whole
        BY <3>1
      <4>8. CountDone(m)'
        <5>1. PICK T : T = Range(Tail(q.todo))
          OBVIOUS
        <5>2. Range(m.todo)' = T
          BY <3>1, <5>1 DEF Range
        <5> QED
          BY <3>1, <4>3, <4>4, <4>6, <4>7, <5>1, <5>2 DEF CountDone
      <4> QED
        BY <3>1, <4>5, <4>8 DEF CountKnown
    <3> QED
      BY <2>1, <2>2, <3>1, <3>2, CountWritten
  <2> QED
    BY <2>3, <2>4
<1>7. CASE SkipSummary(h)
  <2>1. Reads(h, NextScope(q, FALSE)) /\ UNCHANGED <<rollTables, summary>>
    BY <1>7 DEF SkipSummary
  <2>2. CASE last
    <3>1. Reads(h, Idle)
      BY <2>1, <2>2 DEF NextScope
    <3> QED
      BY <1>5, <2>1, <3>1, CountReads
  <2>3. CASE ~last
    <3>1. PICK m : /\ m = NextScope(q, FALSE) /\ CountHeld(m) /\ m.step = "refresh"
                   /\ m.whole = (q.whole /\ FALSE)
      BY <1>4, <2>3
    <3>2. ~m.whole
      BY <3>1
    <3>3. CountKnown(m)
      BY <3>1, <3>2 DEF CountKnown, CountBegun, CountDone
    <3> QED
      BY <2>1, <3>1, <3>3, CountReads
  <2> QED
    BY <2>2, <2>3
<1> QED
  BY <1>6, <1>7

\* The changes of the roll and of a lesson: what follows is told which class it is.
LEMMA CountCalled ==
    ASSUME Steppable, RollHeld, CountsFine, Undisturbed, NEW h \in Handler,
           \/ BeginLessonStatus(h) \/ SetLessonStatus(h)
           \/ BeginRoll(h) \/ CheckEnrollments(h) \/ RecordRoll(h)
           \/ BeginCorrection(h) \/ ApplyCorrection(h)
    PROVE  CountsFine'
<1> DEFINE q == handler[h]
<1>0. RollKnown(q, h \notin crossed)
  BY DEF RollHeld
<1>1. CountHeld(Idle) /\ CountKnown(Idle) /\ CountHeld(Idle)' /\ CountKnown(Idle)'
  <2>1. Idle.step \notin RefreshSteps \cup {"class rows", "lesson status"}
    BY DEF Idle, RefreshSteps
  <2> QED
    BY <2>1, CountIgnored DEF Idle
<1>2. ASSUME NEW c \in Class PROVE CountHeld(Refreshing(c)) /\ CountKnown(Refreshing(c))'
  <2>1. /\ DOMAIN Refreshing(c) = CountColumns /\ Refreshing(c).step = "class rows"
        /\ Refreshing(c).class = c /\ Refreshing(c).whole = TRUE
    BY DEF Refreshing, CountColumns
  <2>2. CountHeld(Refreshing(c))
    BY <2>1 DEF CountHeld, RefreshSteps
  <2>3. CountKnown(Refreshing(c))'
    BY DEF CountKnown, CountDone, Refreshing, RefreshSteps
  <2> QED
    BY <2>2, <2>3
<1>3. CASE BeginLessonStatus(h)
  <2>1. PICK l \in Lesson, to \in LessonStatus :
            /\ Reads(h, [step |-> "lesson status", l |-> l, to |-> to, from |-> lesson[l]])
            /\ UNCHANGED <<rollTables, summary>>
    BY <1>3 DEF BeginLessonStatus, Receive
  <2> DEFINE m == [step |-> "lesson status", l |-> l, to |-> to, from |-> lesson[l]]
  <2>2. m.step = "lesson status" /\ m.l = l /\ m.from = lesson[l] /\ Reads(h, m)
    BY <2>1
  <2> HIDE DEF m
  <2>3. CountHeld(m) /\ CountKnown(m)
    BY <2>2 DEF CountHeld, CountKnown, CountDone, RefreshSteps
  <2> QED
    BY <2>1, <2>2, <2>3, CountReads
<1>4. CASE SetLessonStatus(h)
  <2>1. /\ q.step = "lesson status" /\ UNCHANGED summary
        /\ Commits(h, Idle) \/ Commits(h, Refreshing(ClassOf[q.l]))
    BY <1>4 DEF SetLessonStatus, At
  <2>2. ClassOf[q.l] \in Class
    BY <1>0, <2>1, AttendanceAssumption DEF RollKnown
  <2> QED
    BY <1>1, <1>2, <2>1, <2>2, CountWritten
<1>5. CASE BeginRoll(h) \/ BeginCorrection(h)
  <2>1. PICK m : /\ m.step \in {"roll call", "correction"} /\ Reads(h, m)
                 /\ UNCHANGED <<rollTables, summary>>
    <3>1. CASE BeginRoll(h)
      <4>1. PICK l, marks : /\ Reads(h, [step |-> "roll call", l |-> l, marks |-> marks])
                            /\ UNCHANGED <<rollTables, summary>>
        BY <3>1 DEF BeginRoll, Receive
      <4>2. [step |-> "roll call", l |-> l, marks |-> marks].step = "roll call"
        OBVIOUS
      <4> QED
        BY <4>1, <4>2
    <3>2. CASE BeginCorrection(h)
      <4>1. PICK l, e, x, y :
                /\ Reads(h, [step |-> "correction", l |-> l, e |-> e, from |-> x, to |-> y])
                /\ UNCHANGED <<rollTables, summary>>
        BY <3>2 DEF BeginCorrection, Receive
      <4>2. [step |-> "correction", l |-> l, e |-> e, from |-> x, to |-> y].step = "correction"
        OBVIOUS
      <4> QED
        BY <4>1, <4>2
    <3> QED
      BY <1>5, <3>1, <3>2
  <2>2. CountHeld(m) /\ CountKnown(m)
    BY <2>1, CountIgnored DEF RefreshSteps
  <2> QED
    BY <2>1, <2>2, CountReads
<1>6. CASE CheckEnrollments(h)
  <2>1. PICK m : m \in {Idle, [q EXCEPT !.step = "record"]} /\ Reads(h, m)
    BY <1>6 DEF CheckEnrollments, Goto, Finish
  <2>2. UNCHANGED <<rollTables, summary>>
    BY <1>6 DEF CheckEnrollments
  <2>3. CountHeld(m) /\ CountKnown(m)
    <3>1. CASE m = Idle
      BY <1>1, <3>1
    <3>2. CASE m = [q EXCEPT !.step = "record"]
      <4>1. m.step = "record"
        BY <3>2 DEF Steppable
      <4> QED
        BY <4>1, CountIgnored DEF RefreshSteps
    <3> QED
      BY <2>1, <3>1, <3>2
  <2> QED
    BY <2>1, <2>2, <2>3, CountReads
<1>7. CASE RecordRoll(h) \/ ApplyCorrection(h)
  <2>1. /\ q.step \in {"record", "correction"} /\ UNCHANGED summary
        /\ Commits(h, Refreshing(ClassOf[q.l]))
    BY <1>7 DEF RecordRoll, ApplyCorrection, At
  <2>2. ClassOf[q.l] \in Class
    BY <1>0, <2>1, AttendanceAssumption DEF RollKnown
  <2> QED
    BY <1>2, <2>1, <2>2, CountWritten
<1> QED
  BY <1>3, <1>4, <1>5, <1>6, <1>7

\* EnrollmentsService counts nothing.
LEMMA CountEnrolled ==
    ASSUME Steppable, CountsFine, Undisturbed, NEW h \in Handler,
           HandleEnrollment(h), UNCHANGED <<lesson, record, correction, summary>>
    PROVE  CountsFine'
<1>1. \/ UNCHANGED enrolled
      \/ \A g \in Handler \ {h} : g \in crossed' \/ handler[g].step = "idle"
  BY DEF HandleEnrollment, BeginEnroll, CreateEnrollment, BeginEnrollmentStatus,
         SetEnrollmentStatus, BeginTransfer, Transfer, Commit, Commits, InFlight, At, Finish
<1>2. Moves(h, EnrollmentsSteps)
  BY EnrollmentsMove
<1>3. ASSUME NEW g \in Handler, g # h PROVE CountFine(handler[g], g \notin crossed)'
  <2>1. handler'[g] = handler[g]
    BY <1>2, <1>3 DEF Moves
  <2>2. UNCHANGED <<rollTables, summary>> \/ g \in crossed' \/ handler[g].step = "idle"
    BY <1>1, <1>3 DEF rollTables
  <2> QED
    BY <2>1, <2>2, CountStays DEF CountsFine
<1>4. CountFine(handler[h], h \notin crossed)'
  <2>1. handler'[h].step \in EnrollmentsSteps \cup {"idle"}
    BY <1>2 DEF Moves, Idle
  <2>2. handler'[h].step \notin RefreshSteps \cup {"class rows", "lesson status"}
    BY <2>1 DEF EnrollmentsSteps, RefreshSteps
  <2> QED
    BY <2>2 DEF CountFine, CountHeld, CountKnown, CountDone
<1> QED
  BY <1>3, <1>4 DEF CountsFine

\* Every step of the whole keeps what is held and known.
LEMMA CountStep ==
    ASSUME Steppable, RollHeld, CountsFine, [Next]_vars
    PROVE  CountsFine'
<1>0. Undisturbed
  BY NextUndisturbed
<1>1. ASSUME NEW h \in Handler, HandleAttendance(h) PROVE CountsFine'
  BY <1>0, <1>1, CountPlanned, CountPlaced, CountMade, CountStored, CountCalled
  DEF HandleAttendance
<1>2. ASSUME NEW h \in Handler, HandleEnrollment(h),
             UNCHANGED <<lesson, record, correction, summary>>
      PROVE  CountsFine'
  BY <1>0, <1>2, CountEnrolled
<1>3. ASSUME CreateLesson PROVE CountsFine'
  <2>1. crossed' = InFlight /\ handler' = handler /\ summary' = summary
    BY <1>3 DEF CreateLesson, WriteOutside
  <2>2. ASSUME NEW g \in Handler PROVE CountFine(handler[g], g \notin crossed)'
    <3>1. handler'[g] = handler[g] /\ (g \in crossed' \/ handler[g].step = "idle")
      BY <2>1 DEF InFlight, At
    <3> QED
      BY <1>0, <3>1, CountStays DEF CountsFine
  <2> QED
    BY <2>1, <2>2 DEF CountsFine
<1>4. ASSUME UNCHANGED <<rollTables, summary>>, Unentered(AttendanceSteps),
             Unentered(EnrollmentsSteps)
      PROVE  CountsFine'
  <2>1. ASSUME NEW g \in Handler PROVE CountFine(handler[g], g \notin crossed)'
    <3>1. CASE handler'[g] = handler[g]
      BY <1>0, <1>4, <3>1, CountStays DEF CountsFine
    <3>2. CASE handler'[g] # handler[g]
      <4>1. handler'[g].step \notin AttendanceSteps
        BY <1>4, <3>2 DEF Unentered
      <4>2. handler'[g].step \notin RefreshSteps \cup {"class rows", "lesson status"}
        BY <4>1 DEF AttendanceSteps, RefreshSteps
      <4> QED
        BY <4>2 DEF CountFine, CountHeld, CountKnown, CountDone
    <3> QED
      BY <3>1, <3>2
  <2> QED
    BY <1>4, <2>1 DEF CountsFine
<1> QED
  BY <1>1, <1>2, <1>3, <1>4, RollElse

\* Nobody counts yet.
LEMMA InitCounts == Init => CountsFine
<1> SUFFICES ASSUME Init PROVE CountsFine
  OBVIOUS
<1>1. DOMAIN summary = Scope
  BY DEF Init, AttendanceInit
<1>2. \A h \in Handler : handler[h] = Idle
  BY DEF Init, RequestsInit
<1>3. CountHeld(Idle) /\ CountKnown(Idle)
  <2>1. Idle.step \notin RefreshSteps \cup {"class rows", "lesson status"}
    BY DEF Idle, RefreshSteps
  <2> QED
    BY <2>1, CountIgnored DEF Idle
<1> QED
  BY <1>1, <1>2, <1>3 DEF CountsFine, CountFine

\* A change of a lesson that refreshes nothing changes no count.
LEMMA LessonUncounted ==
    ASSUME Steppable, RollHeld, CountsFine, NEW h \in Handler \ crossed,
           SetLessonStatus(h), handler'[h] = Idle
    PROVE  \A s \in Scope : Recount(s)' = Recount(s)
<1> DEFINE q == handler[h]
<1>1. /\ q.step = "lesson status" /\ lesson' = [lesson EXCEPT ![q.l] = q.to]
      /\ enrolled' = enrolled /\ record' = record
      /\ handler'[h] = IF ChangesCounts(q.from, q.to) THEN Refreshing(ClassOf[q.l]) ELSE Idle
  BY DEF SetLessonStatus, At, Commits, Steppable
<1>2. Refreshing(ClassOf[q.l]) # Idle
  BY DEF Refreshing, Idle
<1>3. q.from # "CLOSED" /\ q.to # "CLOSED"
  BY <1>1, <1>2 DEF ChangesCounts
<1>4. lesson[q.l] = q.from
  BY <1>1 DEF CountsFine, CountFine, CountKnown
<1>5. lesson = [l \in Lesson |-> lesson[l]]
  BY DEF RollHeld, RollTyped
<1>6. \A l \in Lesson : lesson'[l] = "CLOSED" <=> lesson[l] = "CLOSED"
  BY <1>1, <1>3, <1>4, <1>5
<1> QED
  BY <1>1, <1>6, RecountStays

\* Who answers the last of its scopes has stored the recount of each of them.
LEMMA RefreshAnswered ==
    ASSUME Steppable, CountsFine, NEW h \in Handler \ crossed, StoreSummary(h),
           handler'[h] = Idle, handler[h].whole, handler[h].class # NoClass,
           NEW s \in Concerned(handler[h].class)
    PROVE  summary'[s] = Recount(s)
<1> DEFINE q == handler[h]
<1>1. /\ q.step = "summary" /\ summary' = [summary EXCEPT ![Head(q.todo)] = q.row]
      /\ handler'[h] = NextScope(q, TRUE)
  BY DEF StoreSummary, At, Commits, Steppable
<1>2. CountHeld(q) /\ CountKnown(q) /\ DOMAIN summary = Scope
  BY DEF CountsFine, CountFine
<1>3. /\ DOMAIN q = CountColumns /\ q.class \in Class \cup {NoClass}
      /\ q.todo \in Seq(Scope) /\ q.todo # <<>>
  BY <1>1, <1>2 DEF CountHeld, RefreshSteps
<1>4. Len(q.todo) = 1
  <2>1. SUFFICES ASSUME Len(q.todo) # 1 PROVE FALSE
    OBVIOUS
  <2>2. NextScope(q, TRUE).step = "refresh"
    BY <1>3, <2>1 DEF NextScope, CountColumns
  <2>3. Idle.step # "refresh"
    BY DEF Idle
  <2>4. Idle = NextScope(q, TRUE)
    BY <1>1
  <2> QED
    BY <2>2, <2>3, <2>4
<1>5. Range(q.todo) \subseteq {Head(q.todo)} /\ Head(q.todo) \in Scope
  <2>1. Head(q.todo) \in Scope
    BY <1>3, TailLeft
  <2>2. DOMAIN q.todo = {1} /\ Head(q.todo) = q.todo[1]
    BY <1>3, <1>4
  <2> QED
    BY <2>1, <2>2 DEF Range
<1>6. q.row = Recount(Head(q.todo)) /\ (s \in Range(q.todo) \/ summary[s] = Recount(s))
  BY <1>1, <1>2 DEF CountKnown, CountBegun, CountDone, Current, RefreshSteps
<1>7. s \in Scope
  BY <1>3 DEF Concerned, PlacedIn, Scope
<1> QED
  BY <1>1, <1>2, <1>5, <1>6, <1>7

\* What an uncrossed change of the roll leaves behind when it is answered: a summary of
\* every scope it concerns that is what a recount would give.
THEOREM CountsFreshWhenAnswered == Spec => FreshWhenAnswered
<1>1. Init => Steppable /\ EnrollmentsDated /\ RollHeld /\ CountsFine
  BY InitSteppable, InitEnrollmentsDated, InitRoll, InitCounts
<1>2. Steppable /\ EnrollmentsDated /\ RollHeld /\ CountsFine /\ [Next]_vars
        => Steppable' /\ EnrollmentsDated' /\ RollHeld' /\ CountsFine'
  BY StepSteppable, EnrollmentsDatedNext, RollStep, CountStep
<1>3. Steppable /\ RollHeld /\ CountsFine
        => [\A h \in Handler \ crossed :
              /\ SetLessonStatus(h) /\ handler'[h] = Idle
                   => \A s \in Scope : Recount(s)' = Recount(s)
              /\ StoreSummary(h) /\ handler'[h] = Idle /\ handler[h].whole
                   /\ handler[h].class # NoClass
                   => LET c == handler[h].class
                      IN  \A s \in DOMAIN PlacedIn({c}) \cup {c, Batch} :
                              summary'[s] = Recount(s)]_<<calls, lesson, summary>>
  BY LessonUncounted, RefreshAnswered DEF Concerned
<1> QED
  BY <1>1, <1>2, <1>3, PTL DEF Spec, FreshWhenAnswered

-----------------------------------------------------------------------------
(* KeepsPreparation *)

\* What any step of the whole does to the question banks, the exam and its session.
LEMMA PreparationElse ==
    ASSUME Steppable, [Next]_vars
    PROVE  \/ \E h \in Handler : \/ HandleQuestion(h) /\ UNCHANGED <<exam, session>>
                                 \/ HandleExam(h)
           \/ /\ UNCHANGED setupTables
              /\ Unentered(QuestionsSteps) /\ Unentered(ExamsSteps)
<1> DEFINE Same == UNCHANGED setupTables
           Own(h) == \/ HandleQuestion(h) /\ UNCHANGED <<exam, session>>
                     \/ HandleExam(h)
<1>0. QuestionsSteps \in Parts /\ ExamsSteps \in Parts
  BY DEF Parts
<1>1. ASSUME NEW h \in Handler, Operate(h)
      PROVE  Own(h) \/ (Same /\ Unentered(QuestionsSteps) /\ Unentered(ExamsSteps))
  <2>1. \/ Own(h)
        \/ Same /\ HandleSubmit(h)
        \/ Same /\ HandleLink(h)
        \/ Same /\ HandleAssess(h)
        \/ Same /\ HandleAssignment(h)
        \/ Same /\ HandleFile(h)
        \/ Same /\ HandleMark(h)
        \/ Same /\ HandleGrade(h)
        \/ Same /\ HandleAttendance(h)
        \/ Same /\ HandleEnrollment(h)
        \/ Same /\ HandleDecision(h)
        \/ Same /\ HandleLearning(h)
        \/ Same /\ HandleOrganization(h)
        \/ Same /\ HandleCalendar(h)
    BY <1>1
    DEF Operate, CourseworkHandler, HandleSubmission, HandleSetup,
        vars, requests, courseTables, tables, work, markTables, gradeTables,
        attendanceTables, rollTables, setupTables, bankTables, decisionTables,
        catalogTables, learningTables, institutionTables
  <2> HIDE DEF Same, Own
  <2>2. Own(h) \/ (Same /\ Unentered(QuestionsSteps))
    BY <1>0, <2>1, OthersUnentered, PartsDiffer
  <2>3. Own(h) \/ (Same /\ Unentered(ExamsSteps))
    BY <1>0, <2>1, OthersUnentered, PartsDiffer
  <2> QED
    BY <2>2, <2>3
<1>2. ASSUME NEW h \in Handler, LoseRequest(h)
      PROVE  Same /\ Unentered(QuestionsSteps) /\ Unentered(ExamsSteps)
  <2>1. Same
    BY <1>2 DEF LoseRequest, LoseDecision, vars, requests, courseTables, tables, work, markTables, gradeTables,
               attendanceTables, rollTables, setupTables, bankTables,
               decisionTables, catalogTables, learningTables, institutionTables
  <2> QED
    BY <1>0, <1>2, <2>1, LossUnentered
<1>3. ASSUME Outside
      PROVE  Same /\ Unentered(QuestionsSteps) /\ Unentered(ExamsSteps)
  <2>1. Same
    BY <1>3 DEF Outside, CourseworkOutside, CreateLesson, InitiateUpload, PutObject,
            Sit, SaveAnswer, CloseAttempt, DecisionsOutside, Evaluate, Supersede,
            WriteOutside, requests, vars, courseTables, tables, work, markTables,
            gradeTables, attendanceTables, rollTables, setupTables, bankTables,
            decisionTables, catalogTables, learningTables, institutionTables
  <2> QED
    BY <1>3, <2>1, OutsideMoves DEF Unentered
<1>4. ASSUME UNCHANGED vars
      PROVE  Same /\ Unentered(QuestionsSteps) /\ Unentered(ExamsSteps)
  BY <1>4 DEF Unentered, vars, requests, courseTables, tables, work, markTables, gradeTables,
       attendanceTables, rollTables, setupTables, bankTables, decisionTables,
       catalogTables, learningTables, institutionTables
<1> HIDE DEF Same, Own
<1>5. \/ \E h \in Handler : Own(h)
      \/ Same /\ Unentered(QuestionsSteps) /\ Unentered(ExamsSteps)
  BY <1>1, <1>2, <1>3, <1>4 DEF Next
<1> QED
  BY <1>5 DEF Same, Own

\* The number n is that of the newest published version of i, or 0 and there is none.
Newest(i, n) == n \in Published(i) \cup {0} /\ \A m \in Published(i) : m <= n

\* What a request about the questions or the exam holds.
PreparationHeld(q) ==
    /\ q.step \in QuestionsSteps => q.i \in Item
    /\ q.step \in {"pool", "exam status"} => q.to \in ExamStatus
    /\ q.step = "pool" => {"to", "rules"} \subseteq DOMAIN q /\ q.to = "VALIDATED"
    /\ q.step = "exam status" => q.rules = {}

\* What it knows while it is uncrossed.
PreparationKnown(q) ==
    /\ q.step = "kind" => Published(q.i) = {}
    /\ q.step \in {"rewrite", "predecessor", "publish"} => q.n \in WithStatus(q.i, "DRAFT")
    /\ q.step \in {"publishable", "predecessor", "publish"} => item[q.i].status = "ACTIVE"
    /\ q.step = "publish" => Newest(q.i, q.previous)
    /\ q.step \in {"setting", "blueprint"} => ~Frozen(exam.status)
    /\ q.step \in {"pool", "exam status"} => ExamMoves(exam.status, q.to)
    /\ q.step \in {"pool", "exam status"} /\ q.to = "VALIDATED" =>
        exam.rules # {} /\ \A r \in exam.rules \ q.rules : Pool(r) >= Need[r]
    /\ q.step = "session status" => SessionMoves(session.status, q.to)
    /\ q.step = "seat" => SeatsOpen(session.status)

SetupTyped ==
    /\ item = [i \in Item |-> [status |-> item[i].status, kind |-> item[i].kind]]
    /\ exam = [status |-> exam.status, setting |-> exam.setting, rules |-> exam.rules]
    /\ exam.status \in ExamStatus
    /\ session = [status |-> session.status, seats |-> session.seats]

SetupHeld ==
    /\ SetupTyped
    /\ \A h \in Handler : /\ PreparationHeld(handler[h])
                          /\ h \notin crossed => PreparationKnown(handler[h])

\* A request that is none of this kind holds and knows nothing of it.
LEMMA PreparationIgnored ==
    ASSUME NEW q, q.step \notin QuestionsSteps \cup ExamsSteps
    PROVE  PreparationHeld(q) /\ PreparationKnown(q)
BY DEF PreparationHeld, PreparationKnown, QuestionsSteps, ExamsSteps

\* What is known depends on the tables of this part only.
LEMMA PreparationSame ==
    ASSUME UNCHANGED setupTables, NEW q, PreparationKnown(q)
    PROVE  PreparationKnown(q)'
<1>1. item' = item /\ version' = version /\ exam' = exam /\ session' = session
  BY DEF setupTables, bankTables
<1>2. \A i, s : WithStatus(i, s)' = WithStatus(i, s)
  BY <1>1 DEF WithStatus
<1>3. \A i : Published(i)' = Published(i)
  BY <1>2 DEF Published
<1>4. \A r : Pool(r)' = Pool(r)
  BY <1>1 DEF Pool, Published, WithStatus
<1>5. \A i, n : Newest(i, n) => Newest(i, n)'
  BY <1>3 DEF Newest
<1> QED
  BY <1>1, <1>2, <1>3, <1>4, <1>5 DEF PreparationKnown

\* A slot that stays as it is knows no less, if the tables stay or it is crossed.
LEMMA PreparationStays ==
    ASSUME Undisturbed, NEW g \in Handler, handler'[g] = handler[g],
           PreparationHeld(handler[g]), g \notin crossed => PreparationKnown(handler[g]),
           UNCHANGED setupTables \/ g \in crossed' \/ handler[g].step = "idle"
    PROVE  /\ PreparationHeld(handler'[g])
           /\ g \notin crossed' => PreparationKnown(handler[g])'
<1>1. CASE handler[g].step = "idle"
  <2>1. "idle" \notin QuestionsSteps \cup ExamsSteps
    BY DEF QuestionsSteps, ExamsSteps
  <2>2. PreparationKnown(handler[g])'
    BY <1>1 DEF PreparationKnown
  <2> QED
    BY <2>2
<1>2. CASE g \in crossed'
  BY <1>2
<1>3. CASE UNCHANGED setupTables /\ g \notin crossed' /\ handler[g].step # "idle"
  <2>1. g \notin crossed
    BY <1>3 DEF Undisturbed, InFlight, At
  <2>2. \A q : PreparationKnown(q) => PreparationKnown(q)'
    BY <1>3, PreparationSame
  <2> QED
    BY <2>1, <2>2
<1> QED
  BY <1>1, <1>2, <1>3

\* A read that leaves the tables as they are and whose slot holds what it knows.
LEMMA PreparationReads ==
    ASSUME Steppable, SetupHeld, Undisturbed, NEW h \in Handler, NEW m, Reads(h, m),
           UNCHANGED setupTables,
           m.step \in QuestionsSteps \cup ExamsSteps =>
             PreparationHeld(m) /\ (h \notin crossed => PreparationKnown(m))
    PROVE  SetupHeld' /\ UNCHANGED Preparation!vars
<1>1. ASSUME NEW g \in Handler, g # h
      PROVE  /\ PreparationHeld(handler'[g])
             /\ g \notin crossed' => PreparationKnown(handler[g])'
  BY <1>1, PreparationStays DEF Steppable, Reads, SetupHeld
<1>2. handler'[h] = m
  BY DEF Steppable, Reads
<1>3. PreparationHeld(m) /\ (h \notin crossed => PreparationKnown(m))
  BY PreparationIgnored
<1>4. h \notin crossed' => PreparationKnown(m)'
  <2>1. CASE m = Idle
    <3>1. m.step \notin QuestionsSteps \cup ExamsSteps
      BY <2>1 DEF Idle, QuestionsSteps, ExamsSteps
    <3>2. PreparationKnown(m)
      BY <3>1, PreparationIgnored
    <3> QED
      BY <3>2, PreparationSame
  <2>2. CASE m # Idle
    BY <1>3, <2>2, PreparationSame DEF Reads
  <2> QED
    BY <2>1, <2>2
<1>5. SetupTyped' /\ UNCHANGED Preparation!vars
  BY DEF SetupHeld, SetupTyped, setupTables, bankTables, Preparation!vars
<1> QED
  BY <1>1, <1>2, <1>3, <1>4, <1>5 DEF SetupHeld

\* A commit crosses all the others; its own request is done or goes on without
\* knowing anything.
LEMMA PreparationWritten ==
    ASSUME Steppable, SetupHeld, Undisturbed, NEW h \in Handler, NEW m, Commits(h, m),
           PreparationHeld(m), PreparationKnown(m)', SetupTyped'
    PROVE  SetupHeld'
<1>1. ASSUME NEW g \in Handler, g # h
      PROVE  /\ PreparationHeld(handler'[g])
             /\ g \notin crossed' => PreparationKnown(handler[g])'
  <2>1. handler'[g] = handler[g] /\ (g \in crossed' \/ handler[g].step = "idle")
    BY <1>1 DEF Steppable, Commits, InFlight, At
  <2> QED
    BY <1>1, <2>1, PreparationStays DEF SetupHeld
<1>2. handler'[h] = m
  BY DEF Steppable, Commits
<1> QED
  BY <1>1, <1>2 DEF SetupHeld

\* The published versions are the same in the promise.
LEMMA PublishedAlike ==
    ASSUME NEW i
    PROVE  Preparation!Published(i) = Published(i)
BY DEF Preparation!Published, Published, WithStatus

\* A question that is created or changed, with its type unless nothing of it is published.
LEMMA QuestionAdded ==
    ASSUME SetupTyped, NEW i \in Item, NEW row, row = [status |-> row.status, kind |-> row.kind],
           item' = [item EXCEPT ![i] = row], UNCHANGED <<version, exam, session>>
    PROVE  /\ SetupTyped'
           /\ item[i].status = "none" \/ row.kind = item[i].kind \/ Published(i) = {}
                => Preparation!Next
<1>1. item'[i] = row /\ item' = [item EXCEPT ![i] = item'[i]]
  BY DEF SetupTyped
<1>2. SetupTyped'
  BY <1>1 DEF SetupTyped
<1>3. ASSUME item[i].status = "none" \/ row.kind = item[i].kind \/ Published(i) = {}
      PROVE  Preparation!AddQuestion(i)
  BY <1>1, <1>3, PublishedAlike DEF Preparation!AddQuestion
<1> QED
  BY <1>2, <1>3 DEF Preparation!Next

\* The draft n of i is published and the newest published version retired.
LEMMA DraftPublished ==
    ASSUME VersionsTyped, NEW i \in Item, NEW n \in WithStatus(i, "DRAFT"), NEW p, Newest(i, p),
           item[i].status = "ACTIVE", UNCHANGED <<item, exam, session>>,
           version' = [version EXCEPT ![i] = RetireThenPublish(@, p, n)]
    PROVE  Preparation!Next
<1> DEFINE s == version[i]
<1>1. s \in Seq(VersionRow) /\ DOMAIN s = 1..Len(s) /\ Len(s) \in Nat
  BY DEF VersionsTyped
<1>2. n \in DOMAIN s /\ s[n].status = "DRAFT"
  BY DEF WithStatus
<1>3. ASSUME NEW m \in DOMAIN s
      PROVE  m = p <=> m \in Published(i) /\ \A k \in Published(i) : k <= m
  <2>1. Published(i) \subseteq 1..Len(s)
    BY <1>1 DEF Published, WithStatus
  <2> QED
    BY <1>1, <2>1 DEF Newest
<1>4. RetireThenPublish(s, p, n) =
        [m \in DOMAIN s |->
            IF m = n THEN [s[m] EXCEPT !.status = "PUBLISHED"]
            ELSE IF m \in Published(i) /\ \A k \in Published(i) : k <= m
              THEN [s[m] EXCEPT !.status = "SUPERSEDED"]
            ELSE s[m]]
  BY <1>3 DEF RetireThenPublish
<1>5. Preparation!Publish(i, n)
  BY <1>2, <1>4, PublishedAlike DEF Preparation!Publish
<1> QED
  BY <1>2, <1>5 DEF Preparation!Next

\* The draft n of i gets another content.
LEMMA DraftRewritten ==
    ASSUME VersionsTyped, NEW i \in Item, NEW n \in WithStatus(i, "DRAFT"), NEW c,
           UNCHANGED <<item, exam, session>>,
           version' = [version EXCEPT ![i][n].content = c]
    PROVE  Preparation!Next
<1>1. n \in DOMAIN version[i] /\ version[i][n].status = "DRAFT" /\ version[i] \in Seq(VersionRow)
  BY DEF WithStatus, VersionsTyped
<1>2. version[i][n] \in VersionRow
  BY <1>1
<1> DEFINE row == [version[i][n] EXCEPT !.content = c]
<1>3. row = [row EXCEPT !.status = "DRAFT"]
  BY <1>1, <1>2 DEF VersionRow
<1>4. version' = [version EXCEPT ![i][n] = row]
  BY <1>1 DEF VersionsTyped
<1>5. version'[i][n] = row
  BY <1>1, <1>4 DEF VersionsTyped
<1> HIDE DEF row
<1>6. Preparation!Rewrite(i, n)
  BY <1>1, <1>3, <1>4, <1>5 DEF Preparation!Rewrite
<1> QED
  BY <1>1, <1>6 DEF Preparation!Next

\* A draft is appended to the versions of i.
LEMMA DraftAdded ==
    ASSUME VersionsTyped, NEW i \in Item, NEW c, UNCHANGED <<item, exam, session>>,
           version' = [version EXCEPT ![i] = Append(@, Draft(c))]
    PROVE  Preparation!Next
<1> DEFINE s == version[i]
<1>1. s \in Seq(VersionRow) /\ Len(s) \in Nat
  BY DEF VersionsTyped
<1>2. version'[i] = Append(s, Draft(c))
  BY DEF VersionsTyped
<1>3. Len(Append(s, Draft(c))) = Len(s) + 1 /\ Append(s, Draft(c))[Len(s) + 1] = Draft(c)
  BY <1>1
<1>4. [Draft(c) EXCEPT !.status = "DRAFT"] = Draft(c)
  BY DEF Draft
<1>5. Preparation!AddVersion(i)
  BY <1>2, <1>3, <1>4 DEF Preparation!AddVersion
<1> QED
  BY <1>5 DEF Preparation!Next

\* Every action of QuestionBanksService keeps what is known, and if it is not one of a
\* crossed request it is a step of the preparation.
LEMMA QuestionsPrepared ==
    ASSUME Steppable, VersionsTyped, SetupHeld, Undisturbed, NEW h \in Handler,
           HandleQuestion(h), UNCHANGED <<exam, session>>
    PROVE  SetupHeld' /\ (Uncrossed => UNCHANGED Preparation!vars \/ Preparation!Next)
<1> DEFINE q == handler[h]
           Fine == UNCHANGED Preparation!vars \/ Preparation!Next
<1>0. /\ SetupTyped /\ PreparationHeld(q)
      /\ h \notin crossed => PreparationKnown(q)
  BY DEF SetupHeld
<1>a. ASSUME NEW m, Reads(h, m), UNCHANGED bankTables,
             m.step \in QuestionsSteps \cup ExamsSteps =>
               PreparationHeld(m) /\ (h \notin crossed => PreparationKnown(m))
      PROVE  SetupHeld' /\ Fine
  BY <1>a, PreparationReads DEF setupTables
<1>b. Idle.step \notin QuestionsSteps \cup ExamsSteps
  BY DEF Idle, QuestionsSteps, ExamsSteps
<1>c. ASSUME Finish(h), UNCHANGED bankTables PROVE SetupHeld' /\ Fine
  BY <1>a, <1>b, <1>c DEF Finish
<1>d. ASSUME NEW s \in QuestionsSteps, At(h, s), Commit(h), SetupTyped'
      PROVE  SetupHeld' /\ (Uncrossed => h \notin crossed)
  <2>1. PreparationHeld(Idle) /\ PreparationKnown(Idle)'
    BY DEF PreparationHeld, PreparationKnown, Idle, QuestionsSteps
  <2>2. SetupHeld'
    BY <1>d, <2>1, PreparationWritten DEF Commit
  <2>3. q # Idle
    BY <1>b, <1>d DEF At
  <2> QED
    BY <1>d, <2>2, <2>3 DEF Commit, Commits, Uncrossed, Steppable
<1>e. \A s \in QuestionsSteps : At(h, s) => q.i \in Item
  BY <1>0 DEF At, PreparationHeld
<1>1. CASE BeginQuestion(h)
  <2>1. PICK i \in Item, k \in Kind, c \in Content :
            Reads(h, [step |-> "question", i |-> i, kind |-> k, content |-> c])
    BY <1>1 DEF BeginQuestion, Receive
  <2> DEFINE m == [step |-> "question", i |-> i, kind |-> k, content |-> c]
  <2>2. m.step = "question" /\ m.i = i /\ Reads(h, m) /\ UNCHANGED bankTables
    BY <1>1, <2>1 DEF BeginQuestion
  <2> HIDE DEF m
  <2> QED
    BY <1>a, <2>2 DEF PreparationHeld, PreparationKnown
<1>2. CASE CreateQuestion(h)
  <2>0. "question" \in QuestionsSteps /\ At(h, "question")
    BY <1>2 DEF CreateQuestion, QuestionsSteps
  <2>1. CASE Finish(h) /\ UNCHANGED item
    BY <1>2, <1>c, <2>1 DEF CreateQuestion, bankTables
  <2>2. CASE /\ item[q.i] = NoItem
             /\ item' = [item EXCEPT ![q.i] = [status |-> "ACTIVE", kind |-> q.kind]]
             /\ Commits(h, [step |-> "version", i |-> q.i, number |-> 1, content |-> q.content])
    <3>1. UNCHANGED <<version, exam, session>> /\ item[q.i].status = "none"
      BY <1>2, <2>2 DEF CreateQuestion, NoItem
    <3> DEFINE row == [status |-> "ACTIVE", kind |-> q.kind]
    <3>2. row = [status |-> row.status, kind |-> row.kind] /\ item' = [item EXCEPT ![q.i] = row]
      BY <2>2
    <3>3. PICK m : m.step = "version" /\ m.i = q.i /\ Commits(h, m)
      BY <2>2
    <3> HIDE DEF row
    <3>4. SetupTyped' /\ Preparation!Next
      BY <1>0, <1>e, <2>0, <3>1, <3>2, QuestionAdded
    <3>5. PreparationHeld(m) /\ PreparationKnown(m)'
      BY <1>e, <2>0, <3>3 DEF PreparationHeld, PreparationKnown
    <3> QED
      BY <3>3, <3>4, <3>5, PreparationWritten
  <2> QED
    BY <1>2, <2>1, <2>2 DEF CreateQuestion
<1>3. CASE BeginItemStatus(h)
  <2>1. PICK i \in Item, s \in {"ACTIVE", "INACTIVE"} :
            Reads(h, [step |-> "question status", i |-> i, status |-> s])
    BY <1>3 DEF BeginItemStatus, Receive
  <2> DEFINE m == [step |-> "question status", i |-> i, status |-> s]
  <2>2. m.step = "question status" /\ m.i = i /\ Reads(h, m) /\ UNCHANGED bankTables
    BY <1>3, <2>1 DEF BeginItemStatus
  <2> HIDE DEF m
  <2> QED
    BY <1>a, <2>2 DEF PreparationHeld, PreparationKnown
<1>4. CASE SetItemStatus(h)
  <2>1. /\ "question status" \in QuestionsSteps /\ At(h, "question status") /\ Commit(h)
        /\ item' = [item EXCEPT ![q.i].status = q.status] /\ UNCHANGED version
    BY <1>4 DEF SetItemStatus, QuestionsSteps
  <2>2. q.i \in Item
    BY <1>e, <2>1
  <2> DEFINE row == [status |-> q.status, kind |-> item[q.i].kind]
  <2>3. row = [status |-> row.status, kind |-> row.kind] /\ row.kind = item[q.i].kind
    OBVIOUS
  <2>4. [item[q.i] EXCEPT !.status = q.status] = row
    BY <1>0, <2>2 DEF SetupTyped
  <2>5. item' = [item EXCEPT ![q.i] = row]
    BY <2>1, <2>2, <2>4 DEF SetupTyped
  <2> HIDE DEF row
  <2>6. SetupTyped' /\ Preparation!Next
    BY <1>0, <2>1, <2>2, <2>3, <2>5, QuestionAdded
  <2> QED
    BY <1>d, <2>1, <2>6
<1>5. CASE BeginKind(h)
  <2>1. PICK i \in Item, k \in Kind :
            Published(i) = {} /\ Reads(h, [step |-> "kind", i |-> i, kind |-> k])
    BY <1>5 DEF BeginKind, Receive
  <2> DEFINE m == [step |-> "kind", i |-> i, kind |-> k]
  <2>2. m.step = "kind" /\ m.i = i /\ Reads(h, m) /\ UNCHANGED bankTables
    BY <1>5, <2>1 DEF BeginKind
  <2> HIDE DEF m
  <2> QED
    BY <1>a, <2>1, <2>2 DEF PreparationHeld, PreparationKnown
<1>6. CASE SetKind(h)
  <2>1. /\ "kind" \in QuestionsSteps /\ At(h, "kind") /\ Commit(h)
        /\ item' = [item EXCEPT ![q.i].kind = q.kind] /\ UNCHANGED version
    BY <1>6 DEF SetKind, QuestionsSteps
  <2>2. q.i \in Item /\ (h \notin crossed => Published(q.i) = {})
    BY <1>0, <1>e, <2>1 DEF At, PreparationKnown
  <2> DEFINE row == [status |-> item[q.i].status, kind |-> q.kind]
  <2>3. row = [status |-> row.status, kind |-> row.kind]
    OBVIOUS
  <2>4. [item[q.i] EXCEPT !.kind = q.kind] = row
    BY <1>0, <2>2 DEF SetupTyped
  <2>5. item' = [item EXCEPT ![q.i] = row]
    BY <2>1, <2>2, <2>4 DEF SetupTyped
  <2> HIDE DEF row
  <2>6. SetupTyped' /\ (h \notin crossed => Preparation!Next)
    BY <1>0, <2>1, <2>2, <2>3, <2>5, QuestionAdded
  <2> QED
    BY <1>d, <2>1, <2>6
<1>7. CASE BeginVersion(h)
  <2>1. PICK i \in Item, c \in Content :
            Reads(h, [step |-> "version", i |-> i, number |-> Len(version[i]) + 1, content |-> c])
    BY <1>7 DEF BeginVersion, Receive
  <2> DEFINE m == [step |-> "version", i |-> i, number |-> Len(version[i]) + 1, content |-> c]
  <2>2. m.step = "version" /\ m.i = i /\ Reads(h, m) /\ UNCHANGED bankTables
    BY <1>7, <2>1 DEF BeginVersion
  <2> HIDE DEF m
  <2> QED
    BY <1>a, <2>2 DEF PreparationHeld, PreparationKnown
<1>8. CASE CreateVersion(h)
  <2>0. "version" \in QuestionsSteps /\ At(h, "version") /\ UNCHANGED <<item, exam, session>>
    BY <1>8 DEF CreateVersion, QuestionsSteps
  <2>1. CASE Finish(h) /\ UNCHANGED version
    BY <1>c, <2>0, <2>1 DEF bankTables
  <2>2. CASE Commit(h) /\ version' = [version EXCEPT ![q.i] = Append(@, Draft(q.content))]
    <3>1. SetupTyped'
      BY <1>0, <2>0 DEF SetupTyped
    <3>2. Preparation!Next
      BY <1>e, <2>0, <2>2, DraftAdded
    <3> QED
      BY <1>d, <2>0, <2>2, <3>1, <3>2
  <2> QED
    BY <1>8, <2>1, <2>2 DEF CreateVersion
<1>9. CASE BeginRewrite(h)
  <2>1. PICK i \in Item, c \in Content : \E n \in WithStatus(i, "DRAFT") :
            Reads(h, [step |-> "rewrite", i |-> i, n |-> n, content |-> c])
    BY <1>9 DEF BeginRewrite, Receive
  <2>2. PICK n \in WithStatus(i, "DRAFT") :
            Reads(h, [step |-> "rewrite", i |-> i, n |-> n, content |-> c])
    BY <2>1
  <2> DEFINE m == [step |-> "rewrite", i |-> i, n |-> n, content |-> c]
  <2>3. m.step = "rewrite" /\ m.i = i /\ m.n = n /\ Reads(h, m) /\ UNCHANGED bankTables
    BY <1>9, <2>2 DEF BeginRewrite
  <2> HIDE DEF m
  <2> QED
    BY <1>a, <2>3 DEF PreparationHeld, PreparationKnown
<1>10. CASE UpdateDraft(h)
  <2>1. /\ "rewrite" \in QuestionsSteps /\ At(h, "rewrite") /\ Commit(h)
        /\ version' = [version EXCEPT ![q.i][q.n].content = q.content]
        /\ UNCHANGED <<item, exam, session>>
    BY <1>10 DEF UpdateDraft, QuestionsSteps
  <2>2. q.i \in Item /\ (h \notin crossed => q.n \in WithStatus(q.i, "DRAFT"))
    BY <1>0, <1>e, <2>1 DEF At, PreparationKnown
  <2>3. SetupTyped'
    BY <1>0, <2>1 DEF SetupTyped
  <2>4. h \notin crossed => Preparation!Next
    BY <2>1, <2>2, DraftRewritten
  <2> QED
    BY <1>d, <2>1, <2>3, <2>4
<1>11. CASE BeginPublish(h)
  <2>1. PICK i \in Item : \E n \in DOMAIN version[i] :
            item[i].status = "ACTIVE" /\ Reads(h, [step |-> "publishable", i |-> i, n |-> n])
    BY <1>11 DEF BeginPublish, Receive
  <2>2. PICK n : item[i].status = "ACTIVE" /\ Reads(h, [step |-> "publishable", i |-> i, n |-> n])
    BY <2>1
  <2> DEFINE m == [step |-> "publishable", i |-> i, n |-> n]
  <2>3. m.step = "publishable" /\ m.i = i /\ m.n = n /\ Reads(h, m) /\ UNCHANGED bankTables
    BY <1>11, <2>2 DEF BeginPublish
  <2> HIDE DEF m
  <2> QED
    BY <1>a, <2>2, <2>3 DEF PreparationHeld, PreparationKnown
<1>12. CASE CheckPublishable(h)
  <2>1. "publishable" \in QuestionsSteps /\ At(h, "publishable") /\ UNCHANGED bankTables
    BY <1>12 DEF CheckPublishable, QuestionsSteps
  <2>2. CASE Finish(h)
    BY <1>c, <2>1, <2>2
  <2>3. CASE version[q.i][q.n].status = "DRAFT" /\ Goto(h, "predecessor")
    <3> DEFINE m == [q EXCEPT !.step = "predecessor"]
    <3>1. m.step = "predecessor" /\ m.i = q.i /\ m.n = q.n /\ Reads(h, m)
      BY <2>3 DEF Goto, Steppable
    <3> HIDE DEF m
    <3>2. q.i \in Item /\ (h \notin crossed => item[q.i].status = "ACTIVE")
      BY <1>0, <1>e, <2>1 DEF At, PreparationKnown
    <3>3. q.n \in WithStatus(q.i, "DRAFT")
      <4>1. QuestionFine(q)
        BY DEF VersionsTyped
      <4>2. q.n \in DOMAIN version[q.i]
        BY <2>1, <4>1 DEF QuestionFine, At
      <4> QED
        BY <2>3, <4>2 DEF WithStatus
    <3> QED
      BY <1>a, <2>1, <3>1, <3>2, <3>3 DEF PreparationHeld, PreparationKnown
  <2> QED
    BY <1>12, <2>2, <2>3 DEF CheckPublishable
<1>13. CASE FindPublished(h)
  <2>1. PICK p \in Published(q.i) \cup {0} :
            /\ \A m \in Published(q.i) : m <= p
            /\ Reads(h, [step |-> "publish", i |-> q.i, n |-> q.n, previous |-> p])
    BY <1>13 DEF FindPublished
  <2> DEFINE m == [step |-> "publish", i |-> q.i, n |-> q.n, previous |-> p]
  <2>2. m.step = "publish" /\ m.i = q.i /\ m.n = q.n /\ m.previous = p /\ Reads(h, m)
    BY <2>1
  <2> HIDE DEF m
  <2>3. Newest(q.i, p)
    BY <2>1 DEF Newest
  <2>4. "predecessor" \in QuestionsSteps /\ At(h, "predecessor") /\ UNCHANGED bankTables
    BY <1>13 DEF FindPublished, QuestionsSteps
  <2>5. /\ q.i \in Item
        /\ h \notin crossed => item[q.i].status = "ACTIVE" /\ q.n \in WithStatus(q.i, "DRAFT")
    BY <1>0, <1>e, <2>4 DEF At, PreparationKnown
  <2> QED
    BY <1>a, <2>2, <2>3, <2>4, <2>5 DEF PreparationHeld, PreparationKnown
<1>14. CASE SupersedeAndPublish(h)
  <2>1. /\ "publish" \in QuestionsSteps /\ At(h, "publish") /\ Commit(h)
        /\ version' = [version EXCEPT ![q.i] = RetireThenPublish(@, q.previous, q.n)]
        /\ UNCHANGED <<item, exam, session>>
    BY <1>14 DEF SupersedeAndPublish, QuestionsSteps
  <2>2. /\ q.i \in Item
        /\ h \notin crossed => /\ item[q.i].status = "ACTIVE" /\ q.n \in WithStatus(q.i, "DRAFT")
                               /\ Newest(q.i, q.previous)
    BY <1>0, <1>e, <2>1 DEF At, PreparationKnown
  <2>3. SetupTyped'
    BY <1>0, <2>1 DEF SetupTyped
  <2>4. h \notin crossed => Preparation!Next
    BY <2>1, <2>2, DraftPublished
  <2> QED
    BY <1>d, <2>1, <2>3, <2>4
<1> QED
  BY <1>1, <1>2, <1>3, <1>4, <1>5, <1>6, <1>7, <1>8, <1>9, <1>10, <1>11, <1>12, <1>13,
     <1>14 DEF HandleQuestion

\* The questions and their versions are finitely many, so that a pool has a size.
LEMMA PoolCounted ==
    ASSUME VersionsTyped, NEW r \in Rule
    PROVE  Pool(r) \in Nat
<1> DEFINE Rows(i) == {<<i, n>> : n \in Published(i)}
           All == {Rows(i) : i \in Matches[r]}
<1>1. IsFiniteSet(Item) /\ Matches[r] \in SUBSET Item
  BY QuestionsAssumption, ExamSetupAssumption
<1>2. IsFiniteSet(Matches[r])
  BY <1>1, FS_Subset
<1>3. ASSUME NEW i \in Matches[r] PROVE IsFiniteSet(Rows(i))
  <2>1. version[i] \in Seq(VersionRow)
    BY <1>1 DEF VersionsTyped
  <2>2. Len(version[i]) \in Nat /\ Published(i) \in SUBSET (1..Len(version[i]))
    BY <2>1 DEF Published, WithStatus
  <2>3. IsFiniteSet(Published(i))
    <3>1. IsFiniteSet(1..Len(version[i]))
      BY <2>2, FS_Interval
    <3> QED
      BY <2>2, <3>1, FS_Subset
  <2> DEFINE f == [n \in Published(i) |-> <<i, n>>]
  <2>4. f \in Surjection(Published(i), Rows(i))
    <3>1. \A n \in Published(i) : f[n] = <<i, n>> /\ f[n] \in Rows(i)
      OBVIOUS
    <3>2. \A t \in Rows(i) : \E n \in Published(i) : t = <<i, n>>
      OBVIOUS
    <3>3. f \in [Published(i) -> Rows(i)]
      BY <3>1
    <3> HIDE DEF f, Rows
    <3> QED
      BY <3>1, <3>2, <3>3 DEF Surjection
  <2> HIDE DEF f
  <2> QED
    BY <2>3, <2>4, FS_Surjection
<1>4. IsFiniteSet(All)
  <2> DEFINE f == [i \in Matches[r] |-> Rows(i)]
  <2>1. f \in Surjection(Matches[r], All)
    BY DEF Surjection
  <2> HIDE DEF f, All
  <2> QED
    BY <1>2, <2>1, FS_Surjection
<1>5. \A T \in All : IsFiniteSet(T)
  BY <1>3
<1>6. Pool(r) = Cardinality(UNION All)
  BY DEF Pool
<1> HIDE DEF All
<1> QED
  BY <1>4, <1>5, <1>6, FS_UNION, FS_CardinalityType

\* An exam that moves to another status for which it is ready.
LEMMA ExamMoved ==
    ASSUME SetupTyped, NEW to \in ExamStatus, ExamMoves(exam.status, to),
           to = "VALIDATED" => exam.rules # {} /\ \A r \in exam.rules : Pool(r) >= Need[r],
           exam' = [exam EXCEPT !.status = to], UNCHANGED <<item, version, session>>
    PROVE  UNCHANGED Preparation!vars \/ Preparation!Next
<1>1. CASE to = exam.status
  BY <1>1 DEF SetupTyped, Preparation!vars
<1>2. CASE to # exam.status /\ to # "VALIDATED"
  <2>1. /\ exam.status \in {"DRAFT", "VALIDATED", "SCHEDULED", "CLOSED", "ARCHIVED"}
        /\ to \in {"DRAFT", "VALIDATED", "SCHEDULED", "CLOSED", "ARCHIVED"}
    BY DEF SetupTyped, ExamStatus
  <2>2. <<exam.status, to>> \in {<<"VALIDATED", "DRAFT">>, <<"VALIDATED", "SCHEDULED">>,
                                 <<"SCHEDULED", "CLOSED">>, <<"CLOSED", "ARCHIVED">>}
    BY <1>2 DEF ExamMoves
  <2>3. Preparation!MoveExam
    BY <2>1, <2>2 DEF Preparation!MoveExam
  <2> QED
    BY <2>3 DEF Preparation!Next
<1>3. CASE to # exam.status /\ to = "VALIDATED"
  <2>1. exam.status = "DRAFT"
    BY <1>3 DEF ExamMoves
  <2>2. ASSUME NEW r \in exam.rules PROVE Preparation!Covered(r)
    <3>1. Pool(r) >= Need[r]
      BY <1>3, <2>2
    <3>2. {{<<i, n>> : n \in Preparation!Published(i)} : i \in Matches[r]} =
          {{<<i, n>> : n \in Published(i)} : i \in Matches[r]}
      BY PublishedAlike
    <3> QED
      BY <3>1, <3>2 DEF Pool, Preparation!Covered, Cardinality, Preparation!Cardinality
  <2>3. Preparation!Validate
    BY <1>3, <2>1, <2>2 DEF Preparation!Validate
  <2> QED
    BY <2>3 DEF Preparation!Next
<1> QED
  BY <1>1, <1>2, <1>3

\* Every action of ExamsService and ExamSessionsService keeps what is known, and if it is
\* not one of a crossed request it is a step of the preparation.
LEMMA ExamsPrepared ==
    ASSUME Steppable, VersionsTyped, SetupHeld, Undisturbed, NEW h \in Handler, HandleExam(h)
    PROVE  SetupHeld' /\ (Uncrossed => UNCHANGED Preparation!vars \/ Preparation!Next)
<1> DEFINE q == handler[h]
           Fine == UNCHANGED Preparation!vars \/ Preparation!Next
<1>0. /\ SetupTyped /\ PreparationHeld(q)
      /\ h \notin crossed => PreparationKnown(q)
  BY DEF SetupHeld
<1>a. ASSUME NEW m, Reads(h, m), UNCHANGED setupTables,
             m.step \in QuestionsSteps \cup ExamsSteps =>
               PreparationHeld(m) /\ (h \notin crossed => PreparationKnown(m))
      PROVE  SetupHeld' /\ Fine
  BY <1>a, PreparationReads
<1>b. Idle.step \notin QuestionsSteps \cup ExamsSteps
  BY DEF Idle, QuestionsSteps, ExamsSteps
<1>c. ASSUME Finish(h), UNCHANGED setupTables PROVE SetupHeld' /\ Fine
  BY <1>a, <1>b, <1>c DEF Finish
<1>d. ASSUME NEW s \in ExamsSteps, At(h, s), Commit(h), SetupTyped'
      PROVE  SetupHeld' /\ (Uncrossed => h \notin crossed)
  <2>1. PreparationHeld(Idle) /\ PreparationKnown(Idle)'
    BY DEF PreparationHeld, PreparationKnown, Idle, QuestionsSteps
  <2>2. SetupHeld'
    BY <1>d, <2>1, PreparationWritten DEF Commit
  <2>3. q # Idle
    BY <1>b, <1>d DEF At
  <2> QED
    BY <1>d, <2>2, <2>3 DEF Commit, Commits, Uncrossed, Steppable
<1>e. UNCHANGED setupTables => Fine
  BY DEF setupTables, bankTables, Preparation!vars
<1>1. CASE BeginSetting(h)
  <2>1. PICK x \in Setting : Reads(h, [step |-> "setting", setting |-> x])
    BY <1>1 DEF BeginSetting, Receive
  <2> DEFINE m == [step |-> "setting", setting |-> x]
  <2>2. m.step = "setting" /\ Reads(h, m) /\ UNCHANGED setupTables /\ ~Frozen(exam.status)
    BY <1>1, <2>1 DEF BeginSetting
  <2> HIDE DEF m
  <2> QED
    BY <1>a, <2>2 DEF PreparationHeld, PreparationKnown, QuestionsSteps
<1>2. CASE SetSetting(h)
  <2>1. /\ "setting" \in ExamsSteps /\ At(h, "setting") /\ Commit(h)
        /\ exam' = [exam EXCEPT !.setting = q.setting]
        /\ UNCHANGED <<item, version, session>>
    BY <1>2 DEF SetSetting, ExamsSteps, bankTables
  <2>2. h \notin crossed => ~Frozen(exam.status)
    BY <1>0, <2>1 DEF At, PreparationKnown
  <2>3. SetupTyped' /\ exam'.status = exam.status
    BY <1>0, <2>1 DEF SetupTyped
  <2>4. h \notin crossed => Preparation!Configure
    BY <1>0, <2>1, <2>2, <2>3 DEF Preparation!Configure, Frozen, SetupTyped, ExamStatus
  <2> QED
    BY <1>d, <2>1, <2>3, <2>4 DEF Preparation!Next
<1>3. CASE BeginBlueprint(h)
  <2>1. PICK R \in (SUBSET Rule) \ {{}} : Reads(h, [step |-> "blueprint", rules |-> R])
    BY <1>3 DEF BeginBlueprint, Receive
  <2> DEFINE m == [step |-> "blueprint", rules |-> R]
  <2>2. m.step = "blueprint" /\ Reads(h, m) /\ UNCHANGED setupTables /\ ~Frozen(exam.status)
    BY <1>3, <2>1 DEF BeginBlueprint
  <2> HIDE DEF m
  <2> QED
    BY <1>a, <2>2 DEF PreparationHeld, PreparationKnown, QuestionsSteps
<1>4. CASE SaveBlueprint(h)
  <2>1. /\ "blueprint" \in ExamsSteps /\ At(h, "blueprint") /\ Commit(h)
        /\ exam' = [exam EXCEPT !.rules = q.rules]
        /\ UNCHANGED <<item, version, session>>
    BY <1>4 DEF SaveBlueprint, ExamsSteps, bankTables
  <2>2. h \notin crossed => ~Frozen(exam.status)
    BY <1>0, <2>1 DEF At, PreparationKnown
  <2>3. SetupTyped' /\ exam'.status = exam.status
    BY <1>0, <2>1 DEF SetupTyped
  <2>4. h \notin crossed => Preparation!Configure
    BY <1>0, <2>1, <2>2, <2>3 DEF Preparation!Configure, Frozen, SetupTyped, ExamStatus
  <2> QED
    BY <1>d, <2>1, <2>3, <2>4 DEF Preparation!Next
<1>5. CASE BeginExamStatus(h)
  <2>1. PICK to \in ExamStatus :
            /\ to = "VALIDATED" => exam.rules # {}
            /\ ExamMoves(exam.status, to)
            /\ Reads(h, [step |-> IF to = "VALIDATED" THEN "pool" ELSE "exam status", to |-> to,
                         rules |-> IF to = "VALIDATED" THEN exam.rules ELSE {}])
    BY <1>5 DEF BeginExamStatus, Receive
  <2>2. PICK m : /\ Reads(h, m) /\ UNCHANGED setupTables
                 /\ m = [step |-> IF to = "VALIDATED" THEN "pool" ELSE "exam status",
                         to |-> to, rules |-> IF to = "VALIDATED" THEN exam.rules ELSE {}]
    BY <1>5, <2>1 DEF BeginExamStatus
  <2>3. PreparationHeld(m)
    BY <2>1, <2>2 DEF PreparationHeld, QuestionsSteps
  <2>4. PreparationKnown(m)
    BY <2>1, <2>2 DEF PreparationKnown
  <2> QED
    BY <1>a, <2>2, <2>3, <2>4
<1>6. CASE CountPool(h)
  <2>1. PICK r \in Rule :
            /\ At(h, "pool") /\ r \in q.rules /\ UNCHANGED setupTables
            /\ IF Pool(r) < Need[r] THEN Finish(h)
               ELSE Reads(h, [q EXCEPT !.rules = @ \ {r},
                                       !.step = IF q.rules = {r} THEN "exam status" ELSE @])
    BY <1>6 DEF CountPool
  <2>2. CASE Finish(h)
    BY <1>c, <2>1, <2>2
  <2>3. CASE ~(Pool(r) < Need[r])
    <3>1. Pool(r) >= Need[r]
      BY <2>3, PoolCounted, ExamSetupAssumption
    <3>2. q.step = "pool" /\ {"step", "to", "rules"} \subseteq DOMAIN q /\ q.to = "VALIDATED"
      BY <1>0, <2>1 DEF At, PreparationHeld, Steppable
    <3>3. PICK m : /\ Reads(h, m)
                   /\ m = [q EXCEPT !.rules = @ \ {r},
                                    !.step = IF q.rules = {r} THEN "exam status" ELSE @]
      BY <2>1, <2>3
    <3>4. /\ m.step = IF q.rules = {r} THEN "exam status" ELSE "pool"
          /\ m.to = "VALIDATED" /\ m.rules = q.rules \ {r}
          /\ {"to", "rules"} \subseteq DOMAIN m
      BY <3>2, <3>3
    <3>5. PreparationHeld(m)
      BY <3>4 DEF PreparationHeld, QuestionsSteps, ExamStatus
    <3>6. ASSUME h \notin crossed PROVE PreparationKnown(m)
      <4>1. /\ ExamMoves(exam.status, "VALIDATED") /\ exam.rules # {}
            /\ \A k \in exam.rules \ q.rules : Pool(k) >= Need[k]
        <5>1. PreparationKnown(q) /\ q.to = "VALIDATED"
          BY <1>0, <3>2, <3>6
        <5> QED
          BY <3>2, <5>1 DEF PreparationKnown
      <4>2. \A k \in exam.rules \ m.rules : Pool(k) >= Need[k]
        BY <3>1, <3>4, <4>1
      <4>3. m.to = "VALIDATED" /\ m.step \in {"pool", "exam status"}
        BY <3>4
      <4> QED
        BY <4>1, <4>2, <4>3 DEF PreparationKnown
    <3> QED
      BY <1>a, <2>1, <3>3, <3>5, <3>6
  <2> QED
    BY <2>1, <2>2, <2>3
<1>7. CASE SetExamStatus(h)
  <2>1. /\ "exam status" \in ExamsSteps /\ At(h, "exam status") /\ Commit(h)
        /\ exam' = [exam EXCEPT !.status = q.to]
        /\ UNCHANGED <<item, version, session>>
    BY <1>7 DEF SetExamStatus, ExamsSteps, bankTables
  <2>2. q.to \in ExamStatus /\ q.rules = {}
    BY <1>0, <2>1 DEF At, PreparationHeld
  <2>3. SetupTyped'
    BY <1>0, <2>1, <2>2 DEF SetupTyped
  <2>4. ASSUME h \notin crossed PROVE Fine
    <3>1. /\ ExamMoves(exam.status, q.to)
          /\ q.to = "VALIDATED" => /\ exam.rules # {}
                                   /\ \A r \in exam.rules \ q.rules : Pool(r) >= Need[r]
      BY <1>0, <2>1, <2>4 DEF At, PreparationKnown
    <3>2. \A r \in exam.rules : r \in exam.rules \ q.rules
      BY <2>2
    <3> QED
      BY <1>0, <2>1, <2>2, <3>1, <3>2, ExamMoved
  <2> QED
    BY <1>d, <2>1, <2>3, <2>4
<1>8. CASE BeginSessionStatus(h)
  <2>1. PICK to \in SessionStatus :
            SessionMoves(session.status, to) /\ Reads(h, [step |-> "session status", to |-> to])
    BY <1>8 DEF BeginSessionStatus, Receive
  <2> DEFINE m == [step |-> "session status", to |-> to]
  <2>2. m.step = "session status" /\ m.to = to /\ Reads(h, m) /\ UNCHANGED setupTables
    BY <1>8, <2>1 DEF BeginSessionStatus
  <2> HIDE DEF m
  <2> QED
    BY <1>a, <2>1, <2>2 DEF PreparationHeld, PreparationKnown, QuestionsSteps
<1>9. CASE SetSessionStatus(h)
  <2>1. /\ "session status" \in ExamsSteps /\ At(h, "session status") /\ Commit(h)
        /\ session' = [session EXCEPT !.status = q.to]
        /\ UNCHANGED <<item, version, exam>>
    BY <1>9 DEF SetSessionStatus, ExamsSteps, bankTables
  <2>2. h \notin crossed => SessionMoves(session.status, q.to)
    BY <1>0, <2>1 DEF At, PreparationKnown
  <2>3. SetupTyped' /\ session'.status = q.to
    BY <1>0, <2>1 DEF SetupTyped
  <2>4. CASE q.to = session.status
    <3>1. session' = session
      BY <1>0, <2>1, <2>4 DEF SetupTyped
    <3> QED
      BY <1>d, <2>1, <2>3, <3>1 DEF Preparation!vars
  <2>5. CASE q.to # session.status
    <3>1. h \notin crossed => Preparation!MoveSession
      BY <2>1, <2>2, <2>3, <2>5 DEF Preparation!MoveSession, SessionMoves
    <3> QED
      BY <1>d, <2>1, <2>3, <3>1 DEF Preparation!Next
  <2> QED
    BY <2>4, <2>5
<1>10. CASE BeginSeat(h)
  <2>1. PICK p \in Candidate : Reads(h, [step |-> "seat", p |-> p])
    BY <1>10 DEF BeginSeat, Receive
  <2> DEFINE m == [step |-> "seat", p |-> p]
  <2>2. /\ m.step = "seat" /\ Reads(h, m) /\ UNCHANGED setupTables
        /\ SeatsOpen(session.status)
    BY <1>10, <2>1 DEF BeginSeat
  <2> HIDE DEF m
  <2> QED
    BY <1>a, <2>2 DEF PreparationHeld, PreparationKnown, QuestionsSteps
<1>11. CASE AddParticipant(h)
  <2>1. "seat" \in ExamsSteps /\ At(h, "seat") /\ UNCHANGED <<item, version, exam>>
    BY <1>11 DEF AddParticipant, ExamsSteps, bankTables
  <2>2. CASE Finish(h) /\ UNCHANGED session
    BY <1>c, <2>1, <2>2 DEF setupTables, bankTables
  <2>3. CASE session' = [session EXCEPT !.seats = @ \cup {q.p}] /\ Commit(h)
    <3>1. SetupTyped' /\ session' = [session EXCEPT !.seats = session'.seats]
          /\ session.seats \subseteq session'.seats
      BY <1>0, <2>1, <2>3 DEF SetupTyped
    <3>2. h \notin crossed => SeatsOpen(session.status)
      BY <1>0, <2>1 DEF At, PreparationKnown
    <3>3. h \notin crossed => Preparation!Seat
      BY <2>1, <3>1, <3>2 DEF Preparation!Seat, SeatsOpen
    <3> QED
      BY <1>d, <2>1, <2>3, <3>1, <3>3 DEF Preparation!Next
  <2> QED
    BY <1>11, <2>2, <2>3 DEF AddParticipant
<1> QED
  BY <1>1, <1>2, <1>3, <1>4, <1>5, <1>6, <1>7, <1>8, <1>9, <1>10, <1>11 DEF HandleExam

\* Every step of the whole keeps what is known, and if it is not one of a crossed request
\* it is a step of the preparation.
LEMMA PreparationStep ==
    ASSUME Steppable, VersionsTyped, SetupHeld, [Next]_vars
    PROVE  SetupHeld' /\ (Uncrossed => UNCHANGED Preparation!vars \/ Preparation!Next)
<1>0. Undisturbed
  BY NextUndisturbed
<1>1. ASSUME NEW h \in Handler, HandleQuestion(h), UNCHANGED <<exam, session>>
      PROVE  SetupHeld' /\ (Uncrossed => UNCHANGED Preparation!vars \/ Preparation!Next)
  BY <1>0, <1>1, QuestionsPrepared
<1>2. ASSUME NEW h \in Handler, HandleExam(h)
      PROVE  SetupHeld' /\ (Uncrossed => UNCHANGED Preparation!vars \/ Preparation!Next)
  BY <1>0, <1>2, ExamsPrepared
<1>3. ASSUME UNCHANGED setupTables, Unentered(QuestionsSteps), Unentered(ExamsSteps)
      PROVE  SetupHeld' /\ UNCHANGED Preparation!vars
  <2>1. SetupTyped' /\ UNCHANGED Preparation!vars
    BY <1>3 DEF SetupHeld, SetupTyped, setupTables, bankTables, Preparation!vars
  <2>2. ASSUME NEW g \in Handler
        PROVE  /\ PreparationHeld(handler'[g])
               /\ g \notin crossed' => PreparationKnown(handler[g])'
    <3>1. CASE handler'[g] = handler[g]
      BY <1>0, <1>3, <3>1, PreparationStays DEF SetupHeld
    <3>2. CASE handler'[g] # handler[g]
      <4>1. PICK m : m = handler'[g]
        OBVIOUS
      <4>2. m.step \notin QuestionsSteps \cup ExamsSteps
        BY <1>3, <3>2, <4>1 DEF Unentered
      <4>3. PreparationHeld(m) /\ PreparationKnown(m)'
        BY <1>3, <4>2, PreparationIgnored, PreparationSame
      <4> QED
        BY <4>1, <4>3
    <3> QED
      BY <3>1, <3>2
  <2> QED
    BY <2>1, <2>2 DEF SetupHeld
<1> QED
  BY <1>1, <1>2, <1>3, PreparationElse

\* Nobody has read anything yet; at most the first version of a question is published.
LEMMA InitPreparation == Init => SetupHeld /\ Preparation!Init
<1> SUFFICES ASSUME Init PROVE SetupHeld /\ Preparation!Init
  OBVIOUS
<1>1. ExamSetupInit /\ QuestionsInit /\ \A h \in Handler : handler[h] = Idle
  BY DEF Init, ExamSetupInit, RequestsInit
<1>2. SetupTyped
  BY <1>1 DEF SetupTyped, ExamSetupInit, QuestionsInit, NoItem, ExamStatus
<1>3. ASSUME NEW h \in Handler PROVE PreparationHeld(handler[h]) /\ PreparationKnown(handler[h])
  <2>1. Idle.step \notin QuestionsSteps \cup ExamsSteps
    BY DEF Idle, QuestionsSteps, ExamsSteps
  <2>2. handler[h].step \notin QuestionsSteps \cup ExamsSteps
    BY <1>1, <2>1
  <2> QED
    BY <2>2, PreparationIgnored
<1>4. ASSUME NEW i \in Item PROVE Cardinality(Published(i)) <= 1
  <2> DEFINE row(s) == [Draft(CHOOSE c \in Content : TRUE) EXCEPT !.status = s]
  <2>1. \A s : row(s).status = s
    BY DEF Draft
  <2> HIDE DEF row
  <2>2. version[i] \in {<<>>, <<row("PUBLISHED"), row("DRAFT")>>,
                        <<row("PUBLISHED"), row("DRAFT"), row("DRAFT")>>}
    BY <1>1 DEF QuestionsInit, row
  <2>3. Published(i) \in {{}, {1}}
    BY <2>1, <2>2 DEF Published, WithStatus
  <2>4. Cardinality({}) = 0 /\ Cardinality({1}) = 1
    BY FS_EmptySet, FS_Singleton
  <2> QED
    BY <2>3, <2>4
<1>5. Preparation!Init
  BY <1>1, <1>4, PublishedAlike DEF Preparation!Init, ExamSetupInit, Cardinality, Preparation!Cardinality
<1> QED
  BY <1>2, <1>3, <1>5 DEF SetupHeld

\* QuestionBanksService, ExamsService and ExamSessionsService implement the preparation of
\* an exam: a request that no other one crosses retires the newest published version for a
\* draft, changes no version but a draft, validates an exam only against what is published,
\* leaves a scheduled one as it is and seats nobody in an open session.
THEOREM PreparationKept == Spec => KeepsPreparation
<1>1. Init => Steppable /\ VersionsTyped /\ SetupHeld /\ Preparation!Init
  BY InitSteppable, InitVersionsTyped, InitPreparation
<1>2. Steppable /\ VersionsTyped /\ SetupHeld /\ [Next]_vars
        => Steppable' /\ VersionsTyped' /\ SetupHeld'
  BY StepSteppable, QuestionsNext, PreparationStep
<1>3. Steppable /\ VersionsTyped /\ SetupHeld /\ [Next]_vars
        => [Promised(Preparation!Next, Preparation!vars)]_(Preparation!vars)
  BY PreparationStep DEF Promised
<1> QED
  BY <1>1, <1>2, <1>3, PTL DEF Spec, KeepsPreparation

-----------------------------------------------------------------------------
(* What the rows and slots of the roll and its summaries hold *)

\* A percentage of natural numbers is one.
LEMMA PercentageIsNatural ==
    ASSUME NEW a \in Nat, NEW b \in Nat
    PROVE  Percentage(a, b) \in Nat
<1>1. \A n \in Nat, d \in Nat \ {0} : n \div d \in Nat
  OBVIOUS
<1>2. CASE b = 0
  BY <1>2 DEF Percentage
<1>3. CASE b # 0
  <2>1. 20000 * a + b \in Nat /\ 2 * b \in Nat \ {0} /\ ~(b <= 0)
    BY <1>3
  <2>2. (20000 * a + b) \div (2 * b) \in Nat
    BY <1>1, <2>1
  <2> QED
    BY <2>1, <2>2 DEF Percentage
<1> QED
  BY <1>2, <1>3

\* Lessons are counted in natural numbers.
LEMMA LessonsAreCounted ==
    ASSUME NEW L \in SUBSET Lesson, NEW P \in SUBSET L
    PROVE  Cardinality(P) \in Nat
<1>1. IsFiniteSet(P)
  BY AttendanceAssumption, FS_Subset
<1> QED
  BY <1>1, FS_CardinalityType

\* The tally of a person has a natural number for each status.
LEMMA TallyIsNatural ==
    ASSUME NEW n \in Nat, NEW e, NEW L \in SUBSET Lesson
    PROVE  PersonalTally(n, e, L) \in [AttendanceStatus -> Nat]
<1>1. PICK recorded \in Nat : recorded = Cardinality({l \in L : record[l][e] # "none"})
  BY LessonsAreCounted
<1>2. Max({0, n - recorded}) \in Nat
  <2>1. PICK S : S = {0, n - recorded}
    OBVIOUS
  <2>2. \E x \in S : \A y \in S : x >= y
    BY <2>1
  <2>3. Max(S) \in S /\ \A y \in S : Max(S) >= y
    BY <2>2 DEF Max
  <2> QED
    BY <2>1, <2>3
<1>3. ASSUME NEW s \in AttendanceStatus
      PROVE  Cardinality({l \in L : record[l][e] = s})
                + (IF s = "ABSENT" THEN Max({0, n - recorded}) ELSE 0) \in Nat
  <2>1. Cardinality({l \in L : record[l][e] = s}) \in Nat
    BY LessonsAreCounted
  <2> HIDE DEF Max
  <2> QED
    BY <1>2, <2>1
<1> QED
  BY <1>1, <1>3 DEF PersonalTally

\* A row of counts is one of the table.
LEMMA CountsAreRows ==
    ASSUME NEW n \in Nat, NEW m \in Nat, NEW tally \in [AttendanceStatus -> Nat], NEW d \in Nat
    PROVE  Counts(n, m, tally, Percentage(Attended(tally), d)) \in SummaryRow
<1>1. Attended(tally) \in Nat
  BY DEF Attended, AttendanceStatus
<1>2. Percentage(Attended(tally), d) \in Nat
  BY <1>1, PercentageIsNatural
<1> QED
  BY <1>2 DEF Counts, SummaryRow

\* What a summary of no lessons holds is a row of the summaries.
LEMMA EmptyCountsAreARow == EmptyCounts \in SummaryRow
<1>1. [s \in AttendanceStatus |-> 0] \in [AttendanceStatus -> Nat]
  OBVIOUS
<1> QED
  BY <1>1 DEF EmptyCounts, Counts, SummaryRow

\* So is what is counted for one enrollment.
LEMMA PersonalCountsAreARow ==
    ASSUME NEW e, NEW L \in SUBSET Lesson
    PROVE  PersonalCounts(e, L) \in SummaryRow
<1>1. Cardinality(L) \in Nat
  BY LessonsAreCounted
<1>2. PersonalTally(Cardinality(L), e, L) \in [AttendanceStatus -> Nat]
  BY <1>1, TallyIsNatural
<1>3. 1 \in Nat
  OBVIOUS
<1> QED
  BY <1>1, <1>2, <1>3, CountsAreRows DEF PersonalCounts

\* Members, each with the class that the member is in.
Placement == UNION {[E -> Class] : E \in SUBSET Enrollee}

\* So is what is counted for a class and its members.
LEMMA GroupCountsAreARow ==
    ASSUME NEW L \in SUBSET Lesson, NEW members \in Placement
    PROVE  GroupCounts(L, members) \in SummaryRow
<1> DEFINE Expected(e) == Cardinality({l \in L : ClassOf[l] = members[e]})
           M == DOMAIN members
           all == [e \in M |-> Expected(e)]
           each(s) == [e \in M |-> PersonalTally(Expected(e), e, L)[s]]
           tally == [s \in AttendanceStatus |-> SumFunction(each(s))]
<1>1. M \subseteq Enrollee
  BY DEF Placement
<1>2. IsFiniteSet(M)
  BY <1>1, AttendanceAssumption, FS_Subset
<1>3. ASSUME NEW e \in M PROVE Expected(e) \in Nat
  BY LessonsAreCounted
<1>4. all \in [M -> Nat]
  BY <1>3
<1>5. ASSUME NEW s \in AttendanceStatus PROVE each(s) \in [M -> Nat]
  <2>1. ASSUME NEW e \in M PROVE PersonalTally(Expected(e), e, L)[s] \in Nat
    <3> HIDE DEF Expected
    <3>1. PersonalTally(Expected(e), e, L) \in [AttendanceStatus -> Nat]
      BY <1>3, TallyIsNatural
    <3> QED
      BY <3>1
  <2> HIDE DEF Expected
  <2> QED
    BY <2>1
<1> HIDE DEF M, all, each
<1>6. SumFunction(all) \in Nat
  BY <1>2, <1>4, SumIsNatural
<1>7. \A s \in AttendanceStatus : SumFunction(each(s)) \in Nat
  BY <1>2, <1>5, SumIsNatural
<1>8. tally \in [AttendanceStatus -> Nat]
  BY <1>7
<1>9. Cardinality(L) \in Nat /\ Cardinality(M) \in Nat
  BY <1>2, LessonsAreCounted, FS_CardinalityType
<1> HIDE DEF tally
<1>10. Counts(Cardinality(L), Cardinality(M), tally, Percentage(Attended(tally), SumFunction(all)))
          \in SummaryRow
  BY <1>6, <1>8, <1>9, CountsAreRows
<1> QED
  BY <1>10 DEF GroupCounts, tally, each, all, M

\* Lessons that count are lessons; who is placed in classes is a member.
LEMMA EligibleAreLessons == \A C : Eligible(C) \in SUBSET Lesson
BY DEF Eligible

\* Whoever is placed in a class gives a function of members.
LEMMA PlacedAreMembers ==
    ASSUME NEW C \in SUBSET Class
    PROVE  PlacedIn(C) \in Placement
<1> DEFINE E == {e \in Enrollee : enrolled[e].class \in C}
<1>1. PlacedIn(C) = [e \in E |-> enrolled[e].class]
  BY DEF PlacedIn
<1>2. PlacedIn(C) \in [E -> Class]
  BY <1>1
<1>3. E \in SUBSET Enrollee
  OBVIOUS
<1> HIDE DEF E
<1> QED
  BY <1>2, <1>3 DEF Placement

\* The classes of lessons are classes.
LEMMA ClassesOfLessons == \A L \in SUBSET Lesson : ClassesOf(L) \in SUBSET Class
BY AttendanceAssumption DEF ClassesOf

\* Nobody is a member of no class.
LEMMA NobodyIsMember == <<>> \in Placement
<1>1. <<>> \in [{} -> Class]
  OBVIOUS
<1> QED
  BY <1>1 DEF Placement

\* What a recount gives is a row of the table.
LEMMA RecountIsARow ==
    ASSUME NEW s \in Scope
    PROVE  Recount(s) \in SummaryRow
<1> DEFINE L == Eligible(ClassesIn(s))
           members == PlacedIn(ClassesOf(L))
<1>1. L \in SUBSET Lesson
  BY EligibleAreLessons
<1>2. members \in Placement
  BY <1>1, ClassesOfLessons, PlacedAreMembers
<1> HIDE DEF L
<1>3. PersonalCounts(s, L) \in SummaryRow
  BY <1>1, PersonalCountsAreARow
<1> HIDE DEF members
<1>4. GroupCounts(L, members) \in SummaryRow
  BY <1>1, <1>2, GroupCountsAreARow
<1> QED
  BY <1>3, <1>4, EmptyCountsAreARow DEF Recount, L, members

\* The marks of a roll call.
RollMarks == UNION {[E -> Presence] : E \in SUBSET Enrollee}

RollAsked    == [step: {"roll call", "record"}, l: Lesson, marks: RollMarks]
\* A request that counts again.
RecountAsked == [step: RefreshSteps \cup {"class rows"}, class: Class \cup {NoClass}, whole: BOOLEAN,
                 todo: Seq(Scope), lessons: SUBSET Lesson, members: Placement, row: SummaryRow]

\* The tables of the roll and the slots of AttendanceService are typed.
AttendanceAre ==
    /\ lesson \in [Lesson -> LessonStatus \cup {"none"}]
    /\ record \in [Lesson -> [Enrollee -> AttendanceStatus \cup {"none"}]]
    /\ correction \in [Lesson -> [Enrollee ->
                            Seq([from: AttendanceStatus, to: AttendanceStatus])]]
    /\ summary \in [Scope -> SummaryRow]
    /\ Typed(AttendanceSteps, AttendanceRequest)

\* The kinds of its requests.
LEMMA AttendanceKinds ==
    AttendanceRequest =
        [step: {"lesson status"}, l: Lesson, to: LessonStatus, from: LessonStatus]
        \cup RollAsked
        \cup [step: {"correction"}, l: Lesson, e: Enrollee, from: AttendanceStatus, to: Presence]
        \cup RecountAsked
<1>1. RefreshSteps \cup {"class rows"} =
        {"class rows", "refresh", "lessons", "members", "records", "summary"}
  BY DEF RefreshSteps
<1> QED
  BY <1>1 DEF AttendanceRequest, RollAsked, RecountAsked, RollMarks, Placement

\* What a request of the roll or of the summaries holds.
LEMMA AttendanceHolds ==
    ASSUME AttendanceAre, NEW h \in Handler
    PROVE  /\ handler[h].step = "lesson status" =>
                /\ handler[h].l \in Lesson /\ handler[h].to \in LessonStatus
                /\ handler[h].from \in LessonStatus
           /\ handler[h].step \in {"roll call", "record"} => handler[h] \in RollAsked
           /\ handler[h].step = "correction" =>
                /\ handler[h].l \in Lesson /\ handler[h].e \in Enrollee
                /\ handler[h].from \in AttendanceStatus /\ handler[h].to \in Presence
           /\ handler[h].step \in RefreshSteps \cup {"class rows"} => handler[h] \in RecountAsked
<1> DEFINE q == handler[h]
<1>1. q.step \in AttendanceSteps =>
        \/ q \in [step: {"lesson status"}, l: Lesson, to: LessonStatus, from: LessonStatus]
        \/ q \in RollAsked
        \/ q \in [step: {"correction"}, l: Lesson, e: Enrollee, from: AttendanceStatus, to: Presence]
        \/ q \in RecountAsked
  BY AttendanceKinds DEF AttendanceAre, Typed
<1>2. /\ q \in RollAsked => q.step \in {"roll call", "record"}
      /\ q \in RecountAsked => q.step \in RefreshSteps \cup {"class rows"}
  BY DEF RollAsked, RecountAsked
<1>3. CASE q.step = "lesson status"
  BY <1>1, <1>2, <1>3 DEF AttendanceSteps, RefreshSteps
<1>4. CASE q.step \in {"roll call", "record"}
  BY <1>1, <1>2, <1>4 DEF AttendanceSteps, RefreshSteps
<1>5. CASE q.step = "correction"
  BY <1>1, <1>2, <1>5 DEF AttendanceSteps, RefreshSteps
<1>6. CASE q.step \in RefreshSteps \cup {"class rows"}
  BY <1>1, <1>2, <1>6 DEF AttendanceSteps, RefreshSteps
<1> QED
  BY <1>3, <1>4, <1>5, <1>6

\* A refresh, as it begins and as it goes on.
LEMMA RecountsAreAsked ==
    /\ \A c \in Class \cup {NoClass} : Refreshing(c) \in RecountAsked
    /\ \A q \in RecountAsked, row \in SummaryRow : Counted(q, row) \in RecountAsked
    /\ \A q \in RecountAsked, b \in BOOLEAN :
          q.todo # <<>> => NextScope(q, b) = Idle \/ NextScope(q, b) \in RecountAsked
    /\ RecountAsked \subseteq AttendanceRequest
<1>1. ASSUME NEW c \in Class \cup {NoClass} PROVE Refreshing(c) \in RecountAsked
  <2>1. <<>> \in Seq(Scope) /\ {} \in SUBSET Lesson
    OBVIOUS
  <2>2. PICK row \in SummaryRow : row = EmptyCounts
    BY EmptyCountsAreARow
  <2>3. PICK t \in Seq(Scope) : t = <<>>
    BY <2>1
  <2>4. PICK m \in Placement : m = <<>>
    BY NobodyIsMember
  <2>5. [step |-> "class rows", class |-> c, whole |-> TRUE, todo |-> t,
         lessons |-> {}, members |-> m, row |-> row] \in RecountAsked
    BY <2>1 DEF RecountAsked
  <2> QED
    BY <2>2, <2>3, <2>4, <2>5 DEF Refreshing
<1>2. ASSUME NEW q \in RecountAsked, NEW row \in SummaryRow
      PROVE  Counted(q, row) \in RecountAsked
  <2>1. PICK m \in Placement : m = <<>>
    BY NobodyIsMember
  <2>2. [q EXCEPT !.step = "summary", !.row = row, !.lessons = {}, !.members = m] \in RecountAsked
    BY DEF RecountAsked, RefreshSteps
  <2> QED
    BY <2>1, <2>2 DEF Counted
<1>3. ASSUME NEW q \in RecountAsked, NEW b \in BOOLEAN, q.todo # <<>>, Len(q.todo) # 1
      PROVE  NextScope(q, b) \in RecountAsked
  <2>1. q.todo \in Seq(Scope) /\ q.whole \in BOOLEAN
    BY DEF RecountAsked
  <2>2. PICK t \in Seq(Scope) : t = Tail(q.todo)
    BY <1>3, <2>1, TailLeft
  <2>3. PICK row \in SummaryRow : row = EmptyCounts
    BY EmptyCountsAreARow
  <2>4. PICK w \in BOOLEAN : w = (q.whole /\ b)
    BY <2>1
  <2>5. [q EXCEPT !.step = "refresh", !.todo = t, !.row = row, !.whole = w] \in RecountAsked
    BY DEF RecountAsked, RefreshSteps
  <2> QED
    BY <1>3, <2>2, <2>3, <2>4, <2>5 DEF NextScope
<1>4. \A q \in RecountAsked, b \in BOOLEAN :
          q.todo # <<>> => NextScope(q, b) = Idle \/ NextScope(q, b) \in RecountAsked
  BY <1>3 DEF NextScope
<1>5. RecountAsked \subseteq AttendanceRequest
  BY AttendanceKinds
<1> QED
  BY <1>1, <1>2, <1>4, <1>5

\* What each action puts into its slot.
LEMMA AttendanceRequests ==
    ASSUME Steppable, AttendanceAre, EnrollmentsAre, CountsFine, NEW h \in Handler,
           HandleAttendance(h)
    PROVE  Becomes(h, AttendanceRequest)
<1> DEFINE q == handler[h]
           s == Head(q.todo)
<1>0. /\ \A l \in Lesson : lesson[l] \in LessonStatus \cup {"none"}
      /\ \A l \in Lesson, e \in Enrollee : record[l][e] \in AttendanceStatus \cup {"none"}
  BY DEF AttendanceAre
<1>a. /\ RollAsked \subseteq AttendanceRequest
      /\ \A l \in Lesson, to, from \in LessonStatus :
            [step |-> "lesson status", l |-> l, to |-> to, from |-> from] \in AttendanceRequest
      /\ \A l \in Lesson, e \in Enrollee, from \in AttendanceStatus, to \in Presence :
            [step |-> "correction", l |-> l, e |-> e, from |-> from, to |-> to]
                \in AttendanceRequest
  <2>1. \A l \in Lesson, to, from \in LessonStatus :
            [step |-> "lesson status", l |-> l, to |-> to, from |-> from]
                \in [step: {"lesson status"}, l: Lesson, to: LessonStatus, from: LessonStatus]
    OBVIOUS
  <2>2. \A l \in Lesson, e \in Enrollee, from \in AttendanceStatus, to \in Presence :
            [step |-> "correction", l |-> l, e |-> e, from |-> from, to |-> to]
                \in [step: {"correction"}, l: Lesson, e: Enrollee, from: AttendanceStatus, to: Presence]
    OBVIOUS
  <2> QED
    BY <2>1, <2>2, AttendanceKinds
<1>b. q.step \in RefreshSteps \cup {"class rows"} =>
        /\ q \in RecountAsked
        /\ q.step = "class rows" => q.class \in Class
        /\ q.step \in RefreshSteps => q.todo # <<>> /\ s \in Scope
  <2>1. q.step \in RefreshSteps \cup {"class rows"} => q \in RecountAsked
    BY AttendanceHolds
  <2>2. CountHeld(q)
    BY DEF CountsFine, CountFine
  <2>3. q.step \in RefreshSteps => q.todo # <<>> /\ q.todo \in Seq(Scope)
    BY <2>2 DEF CountHeld
  <2>4. q.step \in RefreshSteps => s \in Scope
    BY <2>3, TailLeft
  <2> QED
    BY <2>1, <2>2, <2>3, <2>4 DEF CountHeld
<1>c. ASSUME NEW m \in RecountAsked, Reads(h, m) \/ Commits(h, m)
      PROVE  Becomes(h, AttendanceRequest)
  BY <1>c, RecountsAreAsked, GoesOn
<1>d. ASSUME NEW row \in SummaryRow, q.step \in RefreshSteps, Reads(h, Counted(q, row))
      PROVE  Becomes(h, AttendanceRequest)
  BY <1>b, <1>c, <1>d, RecountsAreAsked
<1>e. ASSUME NEW c \in Class, Commits(h, Refreshing(c))
      PROVE  Becomes(h, AttendanceRequest)
  BY <1>c, <1>e, RecountsAreAsked
<1>1. CASE BeginLessonStatus(h)
  <2>1. PICK l \in Lesson, to \in LessonStatus :
          /\ lesson[l] \notin {"none", to}
          /\ Reads(h, [step |-> "lesson status", l |-> l, to |-> to, from |-> lesson[l]])
    BY <1>1 DEF BeginLessonStatus, Receive
  <2>2. PICK from \in LessonStatus : from = lesson[l]
    BY <1>0, <2>1
  <2> QED
    BY <1>a, <2>1, <2>2, GoesOn
<1>2. CASE SetLessonStatus(h)
  <2>1. q.l \in Lesson
    BY <1>2, AttendanceHolds DEF SetLessonStatus, At
  <2>2. ClassOf[q.l] \in Class
    BY <2>1, AttendanceAssumption
  <2>3. Commits(h, Idle) \/ Commits(h, Refreshing(ClassOf[q.l]))
    BY <1>2 DEF SetLessonStatus
  <2> QED
    BY <1>e, <2>2, <2>3, IsDone
<1>3. CASE BeginRoll(h)
  <2>1. PICK l \in Lesson, E \in (SUBSET Enrollee) \ {{}} : \E marks \in [E -> Presence] :
          Reads(h, [step |-> "roll call", l |-> l, marks |-> marks])
    BY <1>3 DEF BeginRoll, Receive
  <2>2. PICK marks \in [E -> Presence] :
          Reads(h, [step |-> "roll call", l |-> l, marks |-> marks])
    BY <2>1
  <2>3. marks \in RollMarks
    BY DEF RollMarks
  <2> HIDE DEF RollMarks
  <2>4. [step |-> "roll call", l |-> l, marks |-> marks] \in RollAsked
    BY <2>3 DEF RollAsked
  <2> QED
    BY <1>a, <2>2, <2>4, GoesOn
<1>4. CASE CheckEnrollments(h)
  <2>1. q \in RollAsked
    BY <1>4, AttendanceHolds DEF CheckEnrollments, At
  <2>2. [q EXCEPT !.step = "record"] \in RollAsked
    BY <2>1 DEF RollAsked
  <2>3. Finish(h) \/ Reads(h, [q EXCEPT !.step = "record"])
    BY <1>4 DEF CheckEnrollments, Goto
  <2> QED
    BY <1>a, <2>2, <2>3, GoesOn, IsDone
<1>5. CASE RecordRoll(h)
  <2>1. q \in RollAsked
    BY <1>5, AttendanceHolds DEF RecordRoll, At
  <2>2. ClassOf[q.l] \in Class
    BY <2>1, AttendanceAssumption DEF RollAsked
  <2>3. Commits(h, Refreshing(ClassOf[q.l]))
    BY <1>5 DEF RecordRoll
  <2> QED
    BY <1>e, <2>2, <2>3
<1>6. CASE BeginCorrection(h)
  <2>1. PICK l \in Lesson, e \in Enrollee, m \in Presence :
          /\ record[l][e] \notin {"none", m}
          /\ Reads(h, [step |-> "correction", l |-> l, e |-> e, from |-> record[l][e], to |-> m])
    BY <1>6 DEF BeginCorrection, Receive
  <2>2. PICK from \in AttendanceStatus : from = record[l][e]
    BY <1>0, <2>1
  <2> QED
    BY <1>a, <2>1, <2>2, GoesOn
<1>7. CASE ApplyCorrection(h)
  <2>1. q.l \in Lesson
    BY <1>7, AttendanceHolds DEF ApplyCorrection, At
  <2>2. ClassOf[q.l] \in Class
    BY <2>1, AttendanceAssumption
  <2>3. Commits(h, Refreshing(ClassOf[q.l]))
    BY <1>7 DEF ApplyCorrection
  <2> QED
    BY <1>e, <2>2, <2>3
<1>8. CASE BeginRefresh(h)
  <2>1. PICK x \in Scope :
            Reads(h, [Refreshing(NoClass) EXCEPT !.step = "refresh", !.todo = <<x>>])
    BY <1>8 DEF BeginRefresh, Receive
  <2>2. PICK r \in RecountAsked : r = Refreshing(NoClass)
    BY RecountsAreAsked
  <2>a. <<x>> \in Seq(Scope)
    OBVIOUS
  <2>3. PICK t \in Seq(Scope) : t = <<x>>
    BY <2>a
  <2>4. [r EXCEPT !.step = "refresh", !.todo = t] \in RecountAsked
    BY DEF RecountAsked, RefreshSteps
  <2> QED
    BY <1>c, <2>1, <2>2, <2>3, <2>4
<1>9. CASE ReadClassRows(h)
  <2>1. q \in RecountAsked /\ q.class \in Class
    BY <1>9, <1>b DEF ReadClassRows, At
  <2> DEFINE c == q.class
             P == DOMAIN PlacedIn({c})
  <2>2. P \subseteq Enrollee /\ IsFiniteSet(P)
    <3>1. P \subseteq Enrollee
      BY DEF PlacedIn
    <3> QED
      BY <3>1, AttendanceAssumption, FS_Subset
  <2>3. PICK A : A = SetToSeq(P)
    OBVIOUS
  <2>4. A \in Seq(P)
    BY <2>2, <2>3, Sequenced
  <2>5. A \in Seq(Scope)
    BY <2>2, <2>4 DEF Scope
  <2>6. <<c, Batch>> \in Seq(Scope)
    BY <2>1 DEF Scope
  <2>a. \A a, b \in Seq(Scope) : a \o b \in Seq(Scope)
    OBVIOUS
  <2>b. A \o <<c, Batch>> \in Seq(Scope)
    BY <2>5, <2>6, <2>a
  <2>7. PICK t \in Seq(Scope) : t = A \o <<c, Batch>>
    BY <2>b
  <2>8. [q EXCEPT !.step = "refresh", !.todo = t] \in RecountAsked
    BY <2>1 DEF RecountAsked, RefreshSteps
  <2>9. Reads(h, [q EXCEPT !.step = "refresh", !.todo = t])
    BY <1>9, <2>3, <2>7 DEF ReadClassRows
  <2> QED
    BY <1>c, <2>8, <2>9
<1>10. CASE ReadPlace(h)
  <2>1. q.step \in RefreshSteps /\ s \in Enrollee
    BY <1>10 DEF ReadPlace, At, RefreshSteps
  <2>2. PICK m : m = [p \in {s} |-> enrolled[s].class]
    OBVIOUS
  <2>3. \/ Reads(h, Counted(q, EmptyCounts))
        \/ /\ enrolled[s].class # NoClass
           /\ Reads(h, [q EXCEPT !.step = "lessons", !.members = m])
    BY <1>10, <2>2 DEF ReadPlace
  <2>4. ASSUME enrolled[s].class # NoClass PROVE m \in Placement
    <3>1. enrolled[s] \in EnrollmentRow \cup {NotEnrolled}
      BY <2>1 DEF EnrollmentsAre, EnrollmentsTypeOK
    <3>2. NotEnrolled.class = NoClass /\ \A row \in EnrollmentRow : row.class \in Class \cup {NoClass}
      BY DEF NotEnrolled, EnrollmentRow
    <3>3. enrolled[s].class \in Class
      BY <2>4, <3>1, <3>2
    <3>4. m \in [{s} -> Class] /\ {s} \in SUBSET Enrollee
      BY <2>1, <2>2, <3>3
    <3> QED
      BY <3>4 DEF Placement
  <2>5. ASSUME enrolled[s].class # NoClass
        PROVE  [q EXCEPT !.step = "lessons", !.members = m] \in RecountAsked
    BY <1>b, <2>1, <2>4, <2>5 DEF RecountAsked, RefreshSteps
  <2> QED
    BY <1>c, <1>d, <2>1, <2>3, <2>5, EmptyCountsAreARow
<1>11. CASE ReadLessons(h)
  <2>1. q.step \in RefreshSteps
    BY <1>11 DEF ReadLessons, At, RefreshSteps
  <2>2. PICK L : L = Eligible(IF s \in Enrollee THEN {q.members[s]} ELSE ClassesIn(s))
    OBVIOUS
  <2>3. L \in SUBSET Lesson
    BY <2>2, EligibleAreLessons
  <2>4. PICK next \in {"records", "members"} : next = IF s \in Enrollee THEN "records" ELSE "members"
    OBVIOUS
  <2>5. \/ Reads(h, Counted(q, EmptyCounts))
        \/ Reads(h, [q EXCEPT !.step = next, !.lessons = L])
    BY <1>11, <2>2, <2>4 DEF ReadLessons
  <2>6. [q EXCEPT !.step = next, !.lessons = L] \in RecountAsked
    BY <1>b, <2>1, <2>3 DEF RecountAsked, RefreshSteps
  <2> QED
    BY <1>c, <1>d, <2>1, <2>5, <2>6, EmptyCountsAreARow
<1>12. CASE ReadMembers(h)
  <2>1. q.step \in RefreshSteps
    BY <1>12 DEF ReadMembers, At, RefreshSteps
  <2>2. q.lessons \in SUBSET Lesson
    BY <1>b, <2>1 DEF RecountAsked
  <2>3. PICK m \in Placement : m = PlacedIn(ClassesOf(q.lessons))
    BY <2>2, ClassesOfLessons, PlacedAreMembers
  <2>4. \/ Reads(h, Counted(q, EmptyCounts))
        \/ Reads(h, [q EXCEPT !.step = "records", !.members = m])
    BY <1>12, <2>3 DEF ReadMembers
  <2>5. [q EXCEPT !.step = "records", !.members = m] \in RecountAsked
    BY <1>b, <2>1 DEF RecountAsked, RefreshSteps
  <2> QED
    BY <1>c, <1>d, <2>1, <2>4, <2>5, EmptyCountsAreARow
<1>13. CASE ReadRecords(h)
  <2>1. q.step \in RefreshSteps
    BY <1>13 DEF ReadRecords, At, RefreshSteps
  <2>2. q.lessons \in SUBSET Lesson /\ q.members \in Placement
    BY <1>b, <2>1 DEF RecountAsked
  <2>3. PICK row \in SummaryRow : row = IF s \in Enrollee THEN PersonalCounts(s, q.lessons)
                                       ELSE GroupCounts(q.lessons, q.members)
    BY <2>2, PersonalCountsAreARow, GroupCountsAreARow
  <2>4. Reads(h, Counted(q, row))
    BY <1>13, <2>3 DEF ReadRecords
  <2> QED
    BY <1>d, <2>1, <2>4
<1>14. CASE StoreSummary(h) \/ SkipSummary(h)
  <2>1. q.step \in RefreshSteps
    BY <1>14 DEF StoreSummary, SkipSummary, At, RefreshSteps
  <2>2. PICK b \in BOOLEAN : Commits(h, NextScope(q, b)) \/ Reads(h, NextScope(q, b))
    BY <1>14 DEF StoreSummary, SkipSummary
  <2>3. NextScope(q, b) = Idle \/ NextScope(q, b) \in RecountAsked
    BY <1>b, <2>1, RecountsAreAsked
  <2> QED
    BY <1>c, <2>2, <2>3, IsDone
<1> QED
  BY <1>1, <1>2, <1>3, <1>4, <1>5, <1>6, <1>7, <1>8, <1>9, <1>10, <1>11, <1>12, <1>13, <1>14
  DEF HandleAttendance

\* What it does to the tables.
LEMMA AttendanceWrites ==
    ASSUME Steppable, AttendanceAre, CountsFine, NEW h \in Handler, HandleAttendance(h)
    PROVE  /\ lesson' \in [Lesson -> LessonStatus \cup {"none"}]
           /\ record' \in [Lesson -> [Enrollee -> AttendanceStatus \cup {"none"}]]
           /\ correction' \in [Lesson -> [Enrollee ->
                                    Seq([from: AttendanceStatus, to: AttendanceStatus])]]
           /\ summary' \in [Scope -> SummaryRow]
<1> DEFINE q == handler[h]
           OnRecord == AttendanceStatus \cup {"none"}
           LogRow == [from: AttendanceStatus, to: AttendanceStatus]
<1>0. /\ lesson \in [Lesson -> LessonStatus \cup {"none"}]
      /\ record \in [Lesson -> [Enrollee -> OnRecord]]
      /\ correction \in [Lesson -> [Enrollee -> Seq(LogRow)]]
      /\ summary \in [Scope -> SummaryRow]
  BY DEF AttendanceAre
<1>a. Presence \subseteq AttendanceStatus
  BY AttendanceAssumption
<1> HIDE DEF OnRecord, LogRow
<1>1. CASE SetLessonStatus(h)
  <2>1. q.l \in Lesson /\ q.to \in LessonStatus
    BY <1>1, AttendanceHolds DEF SetLessonStatus, At
  <2>2. lesson' = [lesson EXCEPT ![q.l] = q.to]
    BY <1>1 DEF SetLessonStatus
  <2>3. UNCHANGED <<record, correction, summary>>
    BY <1>1 DEF SetLessonStatus
  <2>4. lesson' \in [Lesson -> LessonStatus \cup {"none"}]
    BY <1>0, <2>1, <2>2
  <2> QED
    BY <1>0, <2>3, <2>4 DEF OnRecord, LogRow
<1>2. CASE RecordRoll(h)
  <2>1. q.l \in Lesson /\ q.marks \in RollMarks
    BY <1>2, AttendanceHolds DEF RecordRoll, At, RollAsked
  <2>2. PICK row : row = [e \in Enrollee |-> IF e \in DOMAIN q.marks THEN q.marks[e]
                                            ELSE record[q.l][e]]
    OBVIOUS
  <2>3. \A e \in DOMAIN q.marks : q.marks[e] \in Presence
    BY <2>1 DEF RollMarks
  <2>4. \A e \in DOMAIN q.marks : q.marks[e] \in OnRecord
    BY <1>a, <2>3 DEF OnRecord
  <2>5. row \in [Enrollee -> OnRecord]
    BY <1>0, <2>1, <2>2, <2>4
  <2>6. record' = [record EXCEPT ![q.l] = row]
    BY <1>2, <2>2 DEF RecordRoll
  <2>7. record' \in [Lesson -> [Enrollee -> OnRecord]]
    BY <1>0, <2>5, <2>6
  <2>8. UNCHANGED <<lesson, correction, summary>>
    BY <1>2 DEF RecordRoll
  <2> QED
    BY <1>0, <2>7, <2>8 DEF OnRecord, LogRow
<1>3. CASE ApplyCorrection(h)
  <2>1. q.l \in Lesson /\ q.e \in Enrollee /\ q.from \in AttendanceStatus /\ q.to \in AttendanceStatus
    BY <1>3, <1>a, AttendanceHolds DEF ApplyCorrection, At
  <2>2. PICK x \in LogRow : x = [from |-> q.from, to |-> q.to]
    BY <2>1 DEF LogRow
  <2>3. \A c \in Seq(LogRow) : Append(c, x) \in Seq(LogRow)
    OBVIOUS
  <2>4. PICK log \in Seq(LogRow) : log = Append(correction[q.l][q.e], x)
    BY <1>0, <2>1, <2>3
  <2>5. correction' = [correction EXCEPT ![q.l][q.e] = log]
    BY <1>3, <2>2, <2>4 DEF ApplyCorrection
  <2>6. correction' \in [Lesson -> [Enrollee -> Seq(LogRow)]]
    BY <1>0, <2>1, <2>5
  <2>7. record' = [record EXCEPT ![q.l][q.e] = q.to]
    BY <1>3 DEF ApplyCorrection
  <2>8. q.to \in OnRecord
    BY <2>1 DEF OnRecord
  <2>9. record' \in [Lesson -> [Enrollee -> OnRecord]]
    BY <1>0, <2>1, <2>7, <2>8
  <2>10. UNCHANGED <<lesson, summary>>
    BY <1>3 DEF ApplyCorrection
  <2> QED
    BY <1>0, <2>6, <2>9, <2>10 DEF OnRecord, LogRow
<1>4. CASE StoreSummary(h)
  <2>1. q.step \in RefreshSteps
    BY <1>4 DEF StoreSummary, At, RefreshSteps
  <2>2. q.row \in SummaryRow
    BY <2>1, AttendanceHolds DEF RecountAsked
  <2>3. CountHeld(q)
    BY DEF CountsFine, CountFine
  <2>4. Head(q.todo) \in Scope
    BY <2>1, <2>3, TailLeft DEF CountHeld
  <2>5. summary' = [summary EXCEPT ![Head(q.todo)] = q.row]
    BY <1>4 DEF StoreSummary
  <2>6. summary' \in [Scope -> SummaryRow]
    BY <1>0, <2>2, <2>4, <2>5
  <2>7. UNCHANGED <<lesson, record, correction>>
    BY <1>4 DEF StoreSummary, rollTables
  <2> QED
    BY <1>0, <2>6, <2>7 DEF OnRecord, LogRow
<1>5. CASE UNCHANGED <<rollTables, summary>>
  <2>1. UNCHANGED <<lesson, record, correction, summary>>
    BY <1>5 DEF rollTables
  <2> QED
    BY <1>0, <2>1 DEF OnRecord, LogRow
<1> QED
  BY <1>1, <1>2, <1>3, <1>4, <1>5
  DEF HandleAttendance, BeginLessonStatus, BeginRoll, CheckEnrollments, BeginCorrection,
      BeginRefresh, ReadClassRows, ReadPlace, ReadLessons, ReadMembers, ReadRecords, SkipSummary

\* Every step of the whole keeps the roll and its slots typed.
LEMMA AttendanceAreNext ==
    ASSUME Steppable, AttendanceAre, EnrollmentsAre, CountsFine, [Next]_vars
    PROVE  AttendanceAre'
<1> DEFINE Tables == <<lesson, record, correction, summary>>
           Kept == /\ lesson' \in [Lesson -> LessonStatus \cup {"none"}]
                   /\ record' \in [Lesson -> [Enrollee -> AttendanceStatus \cup {"none"}]]
                   /\ correction' \in [Lesson -> [Enrollee ->
                                            Seq([from: AttendanceStatus, to: AttendanceStatus])]]
                   /\ summary' \in [Scope -> SummaryRow]
<1>0. AttendanceSteps \in Parts
  BY DEF Parts
<1>1. Unentered(AttendanceSteps) \/ \E h \in Handler : HandleAttendance(h)
  BY <1>0, EnteredByOwn, PartsDiffer
<1>2. Typed(AttendanceSteps, AttendanceRequest)'
  BY <1>0, <1>1, AttendanceRequests, AttendanceMove, TypedElse DEF AttendanceAre
<1>3. ASSUME UNCHANGED Tables PROVE Kept
  BY <1>3 DEF AttendanceAre
<1>4. ASSUME CreateLesson PROVE Kept
  <2>1. PICK l \in Lesson, s \in LessonStatus : lesson' = [lesson EXCEPT ![l] = s]
    BY <1>4 DEF CreateLesson
  <2>2. UNCHANGED <<record, correction, summary>>
    BY <1>4 DEF CreateLesson
  <2>3. lesson' \in [Lesson -> LessonStatus \cup {"none"}]
    BY <2>1 DEF AttendanceAre
  <2> QED
    BY <2>2, <2>3 DEF AttendanceAre
<1>5. Kept
  <2>1. \/ \E h \in Handler : HandleAttendance(h)
        \/ UNCHANGED Tables
        \/ CreateLesson
    BY RollElse DEF rollTables
  <2> HIDE DEF Kept, Tables
  <2>2. ASSUME NEW h \in Handler, HandleAttendance(h) PROVE Kept
    BY <2>2, AttendanceWrites DEF Kept
  <2> QED
    BY <1>3, <1>4, <2>1, <2>2
<1> QED
  BY <1>2, <1>5 DEF AttendanceAre

\* So they are at the start.
LEMMA InitAttendanceAre == Init => AttendanceAre
<1> SUFFICES ASSUME Init PROVE AttendanceAre
  OBVIOUS
<1>1. Typed(AttendanceSteps, AttendanceRequest)
  BY InitTyped DEF Parts
<1>2. AttendanceInit
  BY DEF Init
<1>3. lesson \in [Lesson -> LessonStatus \cup {"none"}]
  BY <1>2 DEF AttendanceInit, LessonStatus
<1>4. record \in [Lesson -> [Enrollee -> AttendanceStatus \cup {"none"}]]
  BY <1>2 DEF AttendanceInit, AttendanceStatus
<1>5. correction \in [Lesson -> [Enrollee -> Seq([from: AttendanceStatus, to: AttendanceStatus])]]
  <2>1. <<>> \in Seq([from: AttendanceStatus, to: AttendanceStatus])
    OBVIOUS
  <2> QED
    BY <1>2, <2>1 DEF AttendanceInit
<1>6. summary \in [Scope -> SummaryRow]
  BY <1>2, RecountIsARow DEF AttendanceInit
<1> QED
  BY <1>1, <1>3, <1>4, <1>5, <1>6 DEF AttendanceAre

\* The roll and its summaries keep to their columns, and so does every request about them.
LEMMA AlwaysAttendanceAre == Spec => [](EnrollmentsAre /\ AttendanceAre)
<1>1. Init => /\ Steppable /\ EnrollmentsDated /\ RollHeld /\ CountsFine
              /\ EnrollmentsAre /\ AttendanceAre
  BY InitSteppable, InitEnrollmentsDated, InitRoll, InitCounts, InitEnrollmentsAre,
     InitAttendanceAre
<1>2. /\ Steppable /\ EnrollmentsDated /\ RollHeld /\ CountsFine /\ EnrollmentsAre /\ AttendanceAre
      /\ [Next]_vars
      => /\ Steppable' /\ EnrollmentsDated' /\ RollHeld' /\ CountsFine'
         /\ EnrollmentsAre' /\ AttendanceAre'
  BY StepSteppable, EnrollmentsDatedNext, RollStep, CountStep, EnrollmentsAreNext,
     AttendanceAreNext
<1> QED
  BY <1>1, <1>2, PTL DEF Spec

-----------------------------------------------------------------------------
(* What the rows and slots of the exam hold *)

\* A request for another status of the exam.
MoveAsked == [step: {"pool", "exam status"}, to: ExamStatus, rules: SUBSET Rule]

\* A request about the exam or its session.
ExamAsked ==
    [step: {"setting"}, setting: Setting]
    \cup [step: {"blueprint"}, rules: SUBSET Rule]
    \cup MoveAsked
    \cup [step: {"session status"}, to: SessionStatus]
    \cup [step: {"seat"}, p: Candidate]

\* The exam, its session and the slots of ExamsService are typed.
ExamsAre ==
    /\ exam \in [status: ExamStatus, setting: Setting, rules: SUBSET Rule]
    /\ session \in [status: SessionStatus, seats: SUBSET Candidate]
    /\ Typed(ExamsSteps, ExamAsked)

\* What such a request holds.
LEMMA ExamHolds ==
    ASSUME ExamsAre, NEW h \in Handler
    PROVE  /\ handler[h].step = "setting" => handler[h].setting \in Setting
           /\ handler[h].step = "blueprint" => handler[h].rules \in SUBSET Rule
           /\ handler[h].step \in {"pool", "exam status"} => handler[h] \in MoveAsked
           /\ handler[h].step = "session status" => handler[h].to \in SessionStatus
           /\ handler[h].step = "seat" => handler[h].p \in Candidate
<1> DEFINE q == handler[h]
<1>1. q.step \in ExamsSteps => q \in ExamAsked
  BY DEF ExamsAre, Typed
<1>2. CASE q.step = "setting"
  BY <1>1, <1>2 DEF ExamsSteps, ExamAsked, MoveAsked
<1>3. CASE q.step = "blueprint"
  BY <1>1, <1>3 DEF ExamsSteps, ExamAsked, MoveAsked
<1>4. CASE q.step \in {"pool", "exam status"}
  BY <1>1, <1>4 DEF ExamsSteps, ExamAsked, MoveAsked
<1>5. CASE q.step = "session status"
  BY <1>1, <1>5 DEF ExamsSteps, ExamAsked, MoveAsked
<1>6. CASE q.step = "seat"
  BY <1>1, <1>6 DEF ExamsSteps, ExamAsked, MoveAsked
<1> QED
  BY <1>2, <1>3, <1>4, <1>5, <1>6

\* What each action puts into its slot.
LEMMA ExamRequests ==
    ASSUME Steppable, ExamsAre, NEW h \in Handler, HandleExam(h)
    PROVE  Becomes(h, ExamAsked)
<1> DEFINE q == handler[h]
<1>1. CASE BeginSetting(h)
  <2>1. PICK x \in Setting : Reads(h, [step |-> "setting", setting |-> x])
    BY <1>1 DEF BeginSetting, Receive
  <2>2. [step |-> "setting", setting |-> x] \in ExamAsked
    BY DEF ExamAsked
  <2> QED
    BY <2>1, <2>2, GoesOn
<1>2. CASE BeginBlueprint(h)
  <2>1. PICK R \in (SUBSET Rule) \ {{}} : Reads(h, [step |-> "blueprint", rules |-> R])
    BY <1>2 DEF BeginBlueprint, Receive
  <2>2. [step |-> "blueprint", rules |-> R] \in ExamAsked
    BY DEF ExamAsked
  <2> QED
    BY <2>1, <2>2, GoesOn
<1>3. CASE BeginExamStatus(h)
  <2>1. PICK to \in ExamStatus :
          Reads(h, [step |-> IF to = "VALIDATED" THEN "pool" ELSE "exam status", to |-> to,
                    rules |-> IF to = "VALIDATED" THEN exam.rules ELSE {}])
    BY <1>3 DEF BeginExamStatus, Receive
  <2>2. PICK s \in {"pool", "exam status"} : s = IF to = "VALIDATED" THEN "pool" ELSE "exam status"
    OBVIOUS
  <2>3. PICK R \in SUBSET Rule : R = IF to = "VALIDATED" THEN exam.rules ELSE {}
    BY DEF ExamsAre
  <2>4. [step |-> s, to |-> to, rules |-> R] \in ExamAsked
    BY DEF ExamAsked, MoveAsked
  <2> QED
    BY <2>1, <2>2, <2>3, <2>4, GoesOn
<1>4. CASE CountPool(h)
  <2>1. q \in MoveAsked
    BY <1>4, ExamHolds DEF CountPool, At
  <2>2. PICK r \in Rule :
          \/ Finish(h)
          \/ Reads(h, [q EXCEPT !.rules = @ \ {r},
                                !.step = IF q.rules = {r} THEN "exam status" ELSE @])
    BY <1>4 DEF CountPool
  <2>3. PICK s \in {"pool", "exam status"} : s = IF q.rules = {r} THEN "exam status" ELSE q.step
    BY <2>1 DEF MoveAsked
  <2>4. PICK R \in SUBSET Rule : R = q.rules \ {r}
    BY <2>1 DEF MoveAsked
  <2>5. [q EXCEPT !.rules = R, !.step = s] \in MoveAsked
    BY <2>1 DEF MoveAsked
  <2>6. Finish(h) \/ Reads(h, [q EXCEPT !.rules = R, !.step = s])
    BY <2>1, <2>2, <2>3, <2>4 DEF MoveAsked
  <2>7. MoveAsked \subseteq ExamAsked
    BY DEF ExamAsked
  <2> QED
    BY <2>5, <2>6, <2>7, GoesOn, IsDone
<1>5. CASE BeginSessionStatus(h)
  <2>1. PICK to \in SessionStatus : Reads(h, [step |-> "session status", to |-> to])
    BY <1>5 DEF BeginSessionStatus, Receive
  <2>2. [step |-> "session status", to |-> to] \in ExamAsked
    BY DEF ExamAsked
  <2> QED
    BY <2>1, <2>2, GoesOn
<1>6. CASE BeginSeat(h)
  <2>1. PICK p \in Candidate : Reads(h, [step |-> "seat", p |-> p])
    BY <1>6 DEF BeginSeat, Receive
  <2>2. [step |-> "seat", p |-> p] \in ExamAsked
    BY DEF ExamAsked
  <2> QED
    BY <2>1, <2>2, GoesOn
<1>7. CASE \/ SetSetting(h) \/ SaveBlueprint(h) \/ SetExamStatus(h) \/ SetSessionStatus(h)
           \/ AddParticipant(h)
  BY <1>7, IsDone DEF SetSetting, SaveBlueprint, SetExamStatus, SetSessionStatus, AddParticipant
<1> QED
  BY <1>1, <1>2, <1>3, <1>4, <1>5, <1>6, <1>7 DEF HandleExam

\* What it does to the exam and its session.
LEMMA ExamWrites ==
    ASSUME Steppable, ExamsAre, NEW h \in Handler, HandleExam(h)
    PROVE  /\ exam' \in [status: ExamStatus, setting: Setting, rules: SUBSET Rule]
           /\ session' \in [status: SessionStatus, seats: SUBSET Candidate]
<1> DEFINE q == handler[h]
           Exam == [status: ExamStatus, setting: Setting, rules: SUBSET Rule]
           Meeting == [status: SessionStatus, seats: SUBSET Candidate]
<1> SUFFICES exam' \in Exam /\ session' \in Meeting
  OBVIOUS
<1>0. exam \in Exam /\ session \in Meeting
  BY DEF ExamsAre
<1>1. CASE SetSetting(h)
  <2>1. q.setting \in Setting
    BY <1>1, ExamHolds DEF SetSetting, At
  <2>2. exam' = [exam EXCEPT !.setting = q.setting] /\ session' = session
    BY <1>1 DEF SetSetting
  <2> QED
    BY <1>0, <2>1, <2>2
<1>2. CASE SaveBlueprint(h)
  <2>1. q.rules \in SUBSET Rule
    BY <1>2, ExamHolds DEF SaveBlueprint, At
  <2>2. exam' = [exam EXCEPT !.rules = q.rules] /\ session' = session
    BY <1>2 DEF SaveBlueprint
  <2> QED
    BY <1>0, <2>1, <2>2
<1>3. CASE SetExamStatus(h)
  <2>1. q.to \in ExamStatus
    BY <1>3, ExamHolds DEF SetExamStatus, At, MoveAsked
  <2>2. exam' = [exam EXCEPT !.status = q.to] /\ session' = session
    BY <1>3 DEF SetExamStatus
  <2> QED
    BY <1>0, <2>1, <2>2
<1>4. CASE SetSessionStatus(h)
  <2>1. q.to \in SessionStatus
    BY <1>4, ExamHolds DEF SetSessionStatus, At
  <2>2. session' = [session EXCEPT !.status = q.to] /\ exam' = exam
    BY <1>4 DEF SetSessionStatus
  <2> QED
    BY <1>0, <2>1, <2>2
<1>5. CASE AddParticipant(h)
  <2>1. q.p \in Candidate
    BY <1>5, ExamHolds DEF AddParticipant, At
  <2>2. PICK S \in SUBSET Candidate : S = session.seats \cup {q.p}
    BY <1>0, <2>1
  <2>3. (session' = session \/ session' = [session EXCEPT !.seats = S]) /\ exam' = exam
    BY <1>5, <2>2 DEF AddParticipant
  <2> QED
    BY <1>0, <2>3
<1>6. CASE UNCHANGED <<exam, session>>
  BY <1>0, <1>6
<1> QED
  BY <1>1, <1>2, <1>3, <1>4, <1>5, <1>6
  DEF HandleExam, BeginSetting, BeginBlueprint, BeginExamStatus, CountPool,
      BeginSessionStatus, BeginSeat, setupTables

\* Every step of the whole keeps the exam and its slots typed.
LEMMA ExamsAreNext ==
    ASSUME Steppable, ExamsAre, [Next]_vars
    PROVE  ExamsAre'
<1>0. ExamsSteps \in Parts
  BY DEF Parts
<1>1. Unentered(ExamsSteps) \/ \E h \in Handler : HandleExam(h)
  BY <1>0, EnteredByOwn, PartsDiffer
<1>2. Typed(ExamsSteps, ExamAsked)'
  BY <1>0, <1>1, ExamRequests, ExamsMove, TypedElse DEF ExamsAre
<1>3. UNCHANGED <<exam, session>> \/ \E h \in Handler : HandleExam(h)
  BY PreparationElse DEF setupTables
<1>4. /\ exam' \in [status: ExamStatus, setting: Setting, rules: SUBSET Rule]
      /\ session' \in [status: SessionStatus, seats: SUBSET Candidate]
  BY <1>3, ExamWrites DEF ExamsAre
<1> QED
  BY <1>2, <1>4 DEF ExamsAre

\* So they are at the start.
LEMMA InitExamsAre == Init => ExamsAre
<1> SUFFICES ASSUME Init PROVE ExamsAre
  OBVIOUS
<1>1. Typed(ExamsSteps, ExamAsked)
  BY InitTyped DEF Parts
<1>2. PICK x \in Setting : x = CHOOSE y \in Setting : TRUE
  BY ExamSetupAssumption
<1>3. PICK R \in SUBSET Rule : R = IF "blueprint" \in calls THEN {} ELSE Rule
  OBVIOUS
<1>4. /\ exam = [status |-> "DRAFT", setting |-> x, rules |-> R]
      /\ session = [status |-> "DRAFT", seats |-> {}]
  BY <1>2, <1>3 DEF Init, ExamSetupInit
<1>5. /\ exam \in [status: ExamStatus, setting: Setting, rules: SUBSET Rule]
      /\ session \in [status: SessionStatus, seats: SUBSET Candidate]
  BY <1>4 DEF ExamStatus, SessionStatus
<1> QED
  BY <1>1, <1>5 DEF ExamsAre

\* So they always are.
LEMMA AlwaysExamsAre == Spec => []ExamsAre
BY ExamsAreNext, InitExamsAre, AlwaysSteppable, PTL DEF Spec

\* A request of question banks or exams is a request of this part.
LEMMA SetupAsked ==
    /\ \A t \in QuestionRequest : t \in SetupRequest
    /\ \A t \in ExamAsked : t \in SetupRequest
BY DEF SetupRequest, ExamAsked, MoveAsked

-----------------------------------------------------------------------------
(* What the tables and slots of the learning catalogue hold *)

\* The requests about the catalogue and the progress, kind by kind.
TypeAsked   == [step: {"live activities", "activity type"}, k: ActivityType,
                row: [active: BOOLEAN, requires: BOOLEAN]]
PlaceAsked  == [step: {"place", "activity"}, a: Activity, row: ActivityRow]
ChangeAsked == [step: GateSteps, a: Activity, row: ActivityRow,
                sets: SUBSET {"status", "kind", "required", "place"},
                order: {AskedByStatus, AskedByEdit, AskedByKind},
                todo: SUBSET {"type", "meeting", "count", "contents", "place"}]
OrderAsked  == [step: {"reorder"}, plan: UNION {Orders(A) : A \in SUBSET Activity}]
StatusAsked == [step: {"version state", "material status"}, a: Activity, number: Nat,
                to: ActivityStatus]
RenewAsked  == [step: RenewSteps, a: Activity, number: Nat, old: Nat]
Progressed  == [step: {"progress row", "progress"}, e: Enrollee, a: Activity,
                status: {"NOT_STARTED", "IN_PROGRESS", "COMPLETED"}, started: BOOLEAN]
CountAsked  == [step: {"counts", "aggregate"}, e: Enrollee, of: SUBSET {"activities", "progress"},
                row: AggregateRow]

\* These are all of them.
LEMMA LearningKinds ==
    LearningRequest = [step: {"meeting"}, to: {"DRAFT", "PUBLISHED", "COMPLETED", "ARCHIVED"}]
        \cup TypeAsked \cup PlaceAsked \cup [step: {"gate"}, a: Activity]
        \cup ChangeAsked \cup OrderAsked
        \cup [step: {"material"}, a: Activity, status: {"DRAFT", "ARCHIVED"}]
        \cup StatusAsked \cup RenewAsked \cup Progressed \cup CountAsked
BY DEF LearningRequest, TypeAsked, PlaceAsked, ChangeAsked, OrderAsked, StatusAsked,
       RenewAsked, Progressed, CountAsked, GateSteps, RenewSteps

\* What a request of this kind is, step by step.
LEMMA LearningHolds ==
    ASSUME NEW q \in LearningRequest
    PROVE  /\ q.step = "meeting" => q.to \in {"DRAFT", "PUBLISHED", "COMPLETED", "ARCHIVED"}
           /\ q.step \in {"live activities", "activity type"} => q \in TypeAsked
           /\ q.step \in {"place", "activity"} => q \in PlaceAsked
           /\ q.step \in GateSteps => q \in ChangeAsked
           /\ q.step = "reorder" => q \in OrderAsked
           /\ q.step = "material" => q.a \in Activity /\ q.status \in {"DRAFT", "ARCHIVED"}
           /\ q.step \in {"version state", "material status"} => q \in StatusAsked
           /\ q.step \in RenewSteps => q \in RenewAsked
           /\ q.step \in {"progress row", "progress"} => q \in Progressed
           /\ q.step \in {"counts", "aggregate"} => q \in CountAsked
<1>a. \/ q \in [step: {"meeting"}, to: {"DRAFT", "PUBLISHED", "COMPLETED", "ARCHIVED"}]
      \/ q \in TypeAsked \/ q \in PlaceAsked \/ q \in [step: {"gate"}, a: Activity]
      \/ q \in ChangeAsked \/ q \in OrderAsked
      \/ q \in [step: {"material"}, a: Activity, status: {"DRAFT", "ARCHIVED"}]
      \/ q \in StatusAsked \/ q \in RenewAsked \/ q \in Progressed \/ q \in CountAsked
  BY LearningKinds
<1>b. /\ q \in [step: {"meeting"}, to: {"DRAFT", "PUBLISHED", "COMPLETED", "ARCHIVED"}] =>
            q.step = "meeting" /\ q.to \in {"DRAFT", "PUBLISHED", "COMPLETED", "ARCHIVED"}
      /\ q \in [step: {"gate"}, a: Activity] => q.step = "gate"
      /\ q \in [step: {"material"}, a: Activity, status: {"DRAFT", "ARCHIVED"}] =>
            q.step = "material" /\ q.a \in Activity /\ q.status \in {"DRAFT", "ARCHIVED"}
  OBVIOUS
<1>c. /\ q \in TypeAsked => q.step \in {"live activities", "activity type"}
      /\ q \in PlaceAsked => q.step \in {"place", "activity"}
      /\ q \in ChangeAsked => q.step \in GateSteps
      /\ q \in OrderAsked => q.step = "reorder"
  BY DEF TypeAsked, PlaceAsked, ChangeAsked, OrderAsked
<1>d. /\ q \in StatusAsked => q.step \in {"version state", "material status"}
      /\ q \in RenewAsked => q.step \in RenewSteps
      /\ q \in Progressed => q.step \in {"progress row", "progress"}
      /\ q \in CountAsked => q.step \in {"counts", "aggregate"}
  BY DEF StatusAsked, RenewAsked, Progressed, CountAsked
<1>1. \/ q.step = "meeting" /\ q.to \in {"DRAFT", "PUBLISHED", "COMPLETED", "ARCHIVED"}
      \/ q \in TypeAsked /\ q.step \in {"live activities", "activity type"}
      \/ q \in PlaceAsked /\ q.step \in {"place", "activity"}
      \/ q.step = "gate"
      \/ q \in ChangeAsked /\ q.step \in GateSteps
      \/ q \in OrderAsked /\ q.step = "reorder"
      \/ q.step = "material" /\ q.a \in Activity /\ q.status \in {"DRAFT", "ARCHIVED"}
      \/ q \in StatusAsked /\ q.step \in {"version state", "material status"}
      \/ q \in RenewAsked /\ q.step \in RenewSteps
      \/ q \in Progressed /\ q.step \in {"progress row", "progress"}
      \/ q \in CountAsked /\ q.step \in {"counts", "aggregate"}
  BY <1>a, <1>b, <1>c, <1>d
<1>2. q.step = "meeting" => q.to \in {"DRAFT", "PUBLISHED", "COMPLETED", "ARCHIVED"}
  BY <1>1 DEF GateSteps, RenewSteps
<1>3. q.step \in {"live activities", "activity type"} => q \in TypeAsked
  BY <1>1 DEF GateSteps, RenewSteps
<1>4. q.step \in {"place", "activity"} => q \in PlaceAsked
  BY <1>1 DEF GateSteps, RenewSteps
<1>5. q.step \in GateSteps => q \in ChangeAsked
  BY <1>1 DEF GateSteps, RenewSteps
<1>6. q.step = "reorder" => q \in OrderAsked
  BY <1>1 DEF GateSteps, RenewSteps
<1>7. q.step = "material" => q.a \in Activity /\ q.status \in {"DRAFT", "ARCHIVED"}
  BY <1>1 DEF GateSteps, RenewSteps
<1>8. q.step \in {"version state", "material status"} => q \in StatusAsked
  BY <1>1 DEF GateSteps, RenewSteps
<1>9. q.step \in RenewSteps => q \in RenewAsked
  BY <1>1 DEF GateSteps, RenewSteps
<1>10. q.step \in {"progress row", "progress"} => q \in Progressed
  BY <1>1 DEF GateSteps, RenewSteps
<1>11. q.step \in {"counts", "aggregate"} => q \in CountAsked
  BY <1>1 DEF GateSteps, RenewSteps
<1> QED
  BY <1>2, <1>3, <1>4, <1>5, <1>6, <1>7, <1>8, <1>9, <1>10, <1>11

\* No other request creates the material of an activity that has none yet; a version is
\* prepared of a material that there is, with a number that is taken or the next one.
MaterialsHeld ==
    /\ \A h \in Handler : handler[h].step = "material" => material[handler[h].a] = <<>>
    /\ \A h, g \in Handler : /\ handler[h].step = "material" /\ handler[g].step = "material"
                             /\ handler[h].a = handler[g].a
                             => h = g
    /\ \A h \in Handler : handler[h].step \in RenewSteps =>
          /\ material[handler[h].a] # <<>>
          /\ handler[h].number <= Len(material[handler[h].a]) + 1

\* The tables of the catalogue and the progress and what their requests hold.
LearningAre == LearningTypeOK /\ Typed(LearningSteps, LearningRequest) /\ MaterialsHeld

\* So a slot at one of the steps holds a request of its kind.
LEMMA LearningKnows ==
    ASSUME LearningAre, NEW h \in Handler
    PROVE  /\ handler[h].step = "meeting" =>
                handler[h].to \in {"DRAFT", "PUBLISHED", "COMPLETED", "ARCHIVED"}
           /\ handler[h].step \in {"live activities", "activity type"} => handler[h] \in TypeAsked
           /\ handler[h].step \in {"place", "activity"} => handler[h] \in PlaceAsked
           /\ handler[h].step \in GateSteps => handler[h] \in ChangeAsked
           /\ handler[h].step = "reorder" => handler[h] \in OrderAsked
           /\ handler[h].step = "material" =>
                handler[h].a \in Activity /\ handler[h].status \in {"DRAFT", "ARCHIVED"}
           /\ handler[h].step \in {"version state", "material status"} => handler[h] \in StatusAsked
           /\ handler[h].step \in RenewSteps => handler[h] \in RenewAsked
           /\ handler[h].step \in {"progress row", "progress"} => handler[h] \in Progressed
           /\ handler[h].step \in {"counts", "aggregate"} => handler[h] \in CountAsked
<1>1. handler[h].step \in LearningSteps => handler[h] \in LearningRequest
  BY DEF LearningAre, Typed
<1>2. CASE handler[h].step \in LearningSteps
  BY <1>1, <1>2, LearningHolds
<1>3. CASE handler[h].step \notin LearningSteps
  BY <1>3 DEF LearningSteps, GateSteps, RenewSteps
<1> QED
  BY <1>2, <1>3

\* The requests that hold nothing about a material to be created or renewed.
Elsewhere == {q \in LearningRequest : q.step \notin {"material"} \cup RenewSteps}

\* The kinds of request are requests.
LEMMA AreLearning ==
    /\ \A t \in TypeAsked : t \in Elsewhere
    /\ \A t \in PlaceAsked : t \in Elsewhere
    /\ \A t \in ChangeAsked : t \in Elsewhere
    /\ \A t \in OrderAsked : t \in Elsewhere
    /\ \A t \in StatusAsked : t \in Elsewhere
    /\ \A t \in Progressed : t \in Elsewhere
    /\ \A t \in CountAsked : t \in Elsewhere
    /\ \A t \in [step: {"meeting"}, to: {"DRAFT", "PUBLISHED", "COMPLETED", "ARCHIVED"}] :
          t \in Elsewhere
    /\ \A t \in [step: {"gate"}, a: Activity] : t \in Elsewhere
    /\ \A t \in RenewAsked : t \in LearningRequest
    /\ \A t \in [step: {"material"}, a: Activity, status: {"DRAFT", "ARCHIVED"}] :
          t \in LearningRequest
<1> DEFINE Else(s) == s \notin {"material"} \cup RenewSteps
<1>1. /\ \A t \in TypeAsked : t \in LearningRequest
      /\ \A t \in PlaceAsked : t \in LearningRequest
      /\ \A t \in ChangeAsked : t \in LearningRequest
      /\ \A t \in OrderAsked : t \in LearningRequest
      /\ \A t \in StatusAsked : t \in LearningRequest
      /\ \A t \in RenewAsked : t \in LearningRequest
      /\ \A t \in Progressed : t \in LearningRequest
      /\ \A t \in CountAsked : t \in LearningRequest
      /\ \A t \in [step: {"meeting"}, to: {"DRAFT", "PUBLISHED", "COMPLETED", "ARCHIVED"}] :
            t \in LearningRequest
      /\ \A t \in [step: {"material"}, a: Activity, status: {"DRAFT", "ARCHIVED"}] :
            t \in LearningRequest
      /\ \A t \in [step: {"gate"}, a: Activity] : t \in LearningRequest
  BY LearningKinds
<1>2. /\ \A t \in TypeAsked : Else(t.step)
      /\ \A t \in PlaceAsked : Else(t.step)
      /\ \A t \in OrderAsked : Else(t.step)
  BY DEF TypeAsked, PlaceAsked, OrderAsked, RenewSteps
<1>3. /\ \A t \in ChangeAsked : Else(t.step)
      /\ \A t \in StatusAsked : Else(t.step)
  BY DEF ChangeAsked, StatusAsked, GateSteps, RenewSteps
<1>4. /\ \A t \in Progressed : Else(t.step)
      /\ \A t \in CountAsked : Else(t.step)
  BY DEF Progressed, CountAsked, RenewSteps
<1>5. /\ \A t \in [step: {"meeting"}, to: {"DRAFT", "PUBLISHED", "COMPLETED", "ARCHIVED"}] :
            Else(t.step)
      /\ \A t \in [step: {"gate"}, a: Activity] : Else(t.step)
  BY DEF RenewSteps
<1> HIDE DEF Else
<1>6. \A t \in LearningRequest : Else(t.step) => t \in Elsewhere
  BY DEF Else, Elsewhere
<1> QED
  BY <1>1, <1>2, <1>3, <1>4, <1>5, <1>6

\* The rows of the activities that there are.
LEMMA ActivitiesAre ==
    ASSUME LearningTypeOK
    PROVE  /\ \A a \in Existing : a \in Activity /\ activity[a] \in ActivityRow
           /\ \A a \in Activity : activity[a] = NoActivity \/ activity[a] \in ActivityRow
           /\ IsFiniteSet(Existing) /\ Existing \in SUBSET Activity
<1>1. Existing \in SUBSET Activity
  BY DEF Existing
<1>2. IsFiniteSet(Existing)
  BY <1>1, FS_Subset, LearningAssumption
<1> QED
  BY <1>1, <1>2 DEF LearningTypeOK, Existing

\* LearningMeetingsService and LearningActivityTypesService.
LEMMA MeetingRequests ==
    ASSUME Steppable, LearningAre, NEW h \in Handler,
           \/ BeginMeeting(h) \/ SetMeeting(h)
           \/ BeginActivityType(h) \/ CountLive(h) \/ SetActivityType(h)
    PROVE  Becomes(h, Elsewhere)
<1> DEFINE q == handler[h]
<1>1. CASE BeginMeeting(h)
  <2>1. PICK to \in {"DRAFT", "PUBLISHED", "COMPLETED", "ARCHIVED"} :
          Reads(h, [step |-> "meeting", to |-> to])
    BY <1>1 DEF BeginMeeting, Receive
  <2>2. [step |-> "meeting", to |-> to]
          \in [step: {"meeting"}, to: {"DRAFT", "PUBLISHED", "COMPLETED", "ARCHIVED"}]
    OBVIOUS
  <2> QED
    BY <2>1, <2>2, AreLearning, GoesOn
<1>2. CASE BeginActivityType(h)
  <2>1. PICK s \in {"live activities", "activity type"}, k \in ActivityType,
             row \in [active: BOOLEAN, requires: BOOLEAN] :
          Reads(h, [step |-> s, k |-> k, row |-> row])
    <3>1. PICK k \in ActivityType, active \in BOOLEAN, requires \in BOOLEAN :
            Reads(h, [step |-> IF activityType[k].active /\ ~active THEN "live activities"
                               ELSE "activity type",
                      k |-> k, row |-> [active |-> active, requires |-> requires]])
      BY <1>2 DEF BeginActivityType, Receive
    <3>2. PICK s : s = IF activityType[k].active /\ ~active THEN "live activities"
                       ELSE "activity type"
      OBVIOUS
    <3>3. PICK row \in [active: BOOLEAN, requires: BOOLEAN] :
            row = [active |-> active, requires |-> requires]
      OBVIOUS
    <3>4. s \in {"live activities", "activity type"}
      BY <3>2
    <3> QED
      BY <3>1, <3>2, <3>3, <3>4
  <2>2. [step |-> s, k |-> k, row |-> row] \in TypeAsked
    BY DEF TypeAsked
  <2> QED
    BY <2>1, <2>2, AreLearning, GoesOn
<1>3. CASE CountLive(h)
  <2>1. q \in TypeAsked
    BY <1>3, LearningKnows DEF CountLive, At
  <2>2. [q EXCEPT !.step = "activity type"] \in TypeAsked
    BY <2>1 DEF TypeAsked
  <2> QED
    BY <1>3, <2>2, AreLearning, GoesOn, IsDone DEF CountLive, Goto
<1>4. CASE SetMeeting(h) \/ SetActivityType(h)
  BY <1>4, IsDone DEF SetMeeting, SetActivityType
<1> QED
  BY <1>1, <1>2, <1>3, <1>4

\* The next place is a number.
LEMMA NextPlace ==
    ASSUME LearningTypeOK
    PROVE  1 + Max({activity[a].place : a \in Existing} \cup {0}) \in Nat
<1> DEFINE S == {activity[a].place : a \in Existing}
           T == S \cup {0}
<1>1. S \subseteq Nat
  BY ActivitiesAre DEF ActivityRow
<1>2. IsFiniteSet(S)
  <2> DEFINE f == [a \in Existing |-> activity[a].place]
  <2>1. f \in Surjection(Existing, S)
    BY DEF Surjection
  <2> HIDE DEF f, S
  <2> QED
    BY <2>1, ActivitiesAre, FS_Surjection
<1>3. IsFiniteSet(T)
  BY <1>2, FS_AddElement
<1>4. T \subseteq Nat /\ T \subseteq Int /\ T # {}
  BY <1>1
<1> HIDE DEF S, T
<1>5. PICK x \in T : \A y \in T : y <= x
  BY <1>3, <1>4, GreatestOf
<1>6. Max(T) \in T
  <2>1. \A y \in T : x >= y
    BY <1>4, <1>5
  <2> QED
    BY <2>1 DEF Max
<1>7. Max(T) \in Nat
  BY <1>4, <1>6
<1>8. 1 + Max(T) \in Nat
  BY <1>7
<1> QED
  BY <1>8 DEF T, S

\* LearningActivitiesService: create.
LEMMA CreationRequests ==
    ASSUME Steppable, LearningAre, NEW h \in Handler,
           BeginActivity(h) \/ ChoosePlace(h) \/ CreateActivity(h) \/ CheckGate(h)
    PROVE  Becomes(h, Elsewhere)
<1> DEFINE q == handler[h]
<1>1. CASE BeginActivity(h)
  <2>1. PICK a \in Activity, k \in ActivityType, s \in ActivityStatus :
          Reads(h, [step |-> "place", a |-> a,
                    row |-> [status |-> s, kind |-> k, required |-> TRUE, place |-> 0]])
    BY <1>1 DEF BeginActivity, Receive
  <2>2. PICK row \in ActivityRow :
          row = [status |-> s, kind |-> k, required |-> TRUE, place |-> 0]
    BY DEF ActivityRow
  <2>3. [step |-> "place", a |-> a, row |-> row] \in PlaceAsked
    BY DEF PlaceAsked
  <2> QED
    BY <2>1, <2>2, <2>3, AreLearning, GoesOn
<1>2. CASE ChoosePlace(h)
  <2>1. q \in PlaceAsked
    BY <1>2, LearningKnows DEF ChoosePlace, At
  <2>2. PICK top : top = 1 + Max({activity[a].place : a \in Existing} \cup {0})
    OBVIOUS
  <2>3. top \in Nat
    BY <2>2, NextPlace DEF LearningAre
  <2>4. PICK n \in 1 .. MaxPlace \cup {top} :
          Reads(h, [q EXCEPT !.step = "activity", !.row.place = n])
    BY <1>2, <2>2 DEF ChoosePlace
  <2>5. n \in Nat
    BY <2>3, <2>4
  <2>6. [q EXCEPT !.step = "activity", !.row.place = n] \in PlaceAsked
    BY <2>1, <2>5 DEF PlaceAsked, ActivityRow
  <2> QED
    BY <2>4, <2>6, AreLearning, GoesOn
<1>3. CASE CreateActivity(h)
  <2>1. q \in PlaceAsked
    BY <1>3, LearningKnows DEF CreateActivity, At
  <2>2. [step |-> "gate", a |-> q.a] \in [step: {"gate"}, a: Activity]
    BY <2>1 DEF PlaceAsked
  <2>3. Finish(h) \/ Commit(h) \/ Commits(h, [step |-> "gate", a |-> q.a])
    BY <1>3 DEF CreateActivity
  <2> QED
    BY <2>2, <2>3, AreLearning, GoesOn, IsDone
<1>4. CASE CheckGate(h)
  BY <1>4, IsDone DEF CheckGate
<1> QED
  BY <1>1, <1>2, <1>3, <1>4

\* LearningActivitiesService: changeStatus, update and reorder.
LEMMA ChangeRequests ==
    ASSUME Steppable, LearningAre, NEW h \in Handler,
           \/ BeginActivityStatus(h) \/ BeginActivityEdit(h) \/ AskType(h) \/ AskMeeting(h)
           \/ AskContents(h) \/ AskPlace(h)
           \/ ChangeActivity(h) \/ BeginReorder(h) \/ Reorder(h)
    PROVE  Becomes(h, Elsewhere)
<1> DEFINE q == handler[h]
<1>a. ASSUME NEW a \in Activity, NEW row \in ActivityRow,
             NEW sets \in SUBSET {"status", "kind", "required", "place"},
             NEW order \in {AskedByStatus, AskedByEdit, AskedByKind},
             NEW todo \in SUBSET {"type", "meeting", "count", "contents", "place"},
             Amend(h, a, row, sets, order, todo)
      PROVE  Becomes(h, Elsewhere)
  <2>1. [step |-> "change", a |-> a, row |-> row, sets |-> sets, order |-> order,
         todo |-> todo] \in ChangeAsked
    BY <1>a DEF ChangeAsked, GateSteps
  <2>2. Reads(h, [step |-> "change", a |-> a, row |-> row, sets |-> sets, order |-> order,
                  todo |-> todo])
    BY <1>a DEF Amend, Receive
  <2> QED
    BY <2>1, <2>2, AreLearning, GoesOn
<1>b. ASSUME At(h, "change"), NEW X, Finish(h) \/ Learned(h, X) PROVE Becomes(h, Elsewhere)
  <2>1. q \in ChangeAsked
    BY <1>b, LearningKnows DEF At, GateSteps
  <2>2. [q EXCEPT !.todo = @ \ X] \in ChangeAsked
    BY <2>1 DEF ChangeAsked
  <2> QED
    BY <1>b, <2>2, AreLearning, GoesOn, IsDone DEF Learned
<1>c. ASSUME NEW a \in Existing PROVE a \in Activity /\ activity[a] \in ActivityRow
  BY <1>c, ActivitiesAre DEF LearningAre
<1>1. CASE BeginActivityStatus(h)
  <2>1. PICK a \in Existing, to \in ActivityStatus :
          Amend(h, a, [activity[a] EXCEPT !.status = to], {"status"}, AskedByStatus,
                IF to = "PUBLISHED" THEN {"type", "meeting", "contents"} ELSE {})
    BY <1>1, Zenon DEF BeginActivityStatus
  <2>2. [activity[a] EXCEPT !.status = to] \in ActivityRow
    BY <1>c, <2>1 DEF ActivityRow
  <2>3. (IF to = "PUBLISHED" THEN {"type", "meeting", "contents"} ELSE {})
            \in SUBSET {"type", "meeting", "count", "contents", "place"}
    OBVIOUS
  <2> QED
    BY <1>a, <1>c, <2>1, <2>2, <2>3
<1>2. CASE BeginActivityEdit(h)
  <2>1. PICK a \in Existing : EditActivity(h, a)
    BY <1>2, Zenon DEF BeginActivityEdit
  <2>2. PICK k, s, r, n, sets :
          /\ k \in ActivityType /\ s \in ActivityStatus /\ r \in BOOLEAN
          /\ n \in 1 .. MaxPlace \cup {activity[a].place}
          /\ sets \in SUBSET {"status", "kind", "required", "place"}
          /\ Amend(h, a, [status |-> s, kind |-> k, required |-> r, place |-> n], sets,
                   IF "kind" \in sets THEN AskedByKind ELSE AskedByEdit,
                   {"meeting"} \cup (sets \cap {"place"})
                   \cup (IF "kind" \in sets THEN {"type", "count"} ELSE {})
                   \cup (IF s = "PUBLISHED" THEN {"type", "contents"} ELSE {}))
    BY <2>1 DEF EditActivity
  <2>3. n \in Nat
    BY <1>c, <2>2, LearningAssumption DEF ActivityRow
  <2>4. PICK row : row = [status |-> s, kind |-> k, required |-> r, place |-> n]
    OBVIOUS
  <2>5. PICK todo : todo = {"meeting"} \cup (sets \cap {"place"})
                   \cup (IF "kind" \in sets THEN {"type", "count"} ELSE {})
                   \cup (IF s = "PUBLISHED" THEN {"type", "contents"} ELSE {})
    OBVIOUS
  <2>6. PICK order : order = IF "kind" \in sets THEN AskedByKind ELSE AskedByEdit
    OBVIOUS
  <2>7. /\ row \in ActivityRow /\ order \in {AskedByStatus, AskedByEdit, AskedByKind}
        /\ todo \in SUBSET {"type", "meeting", "count", "contents", "place"}
    BY <2>2, <2>3, <2>4, <2>5, <2>6 DEF ActivityRow
  <2> QED
    BY <1>a, <1>c, <2>2, <2>4, <2>5, <2>6, <2>7
<1>3. CASE AskType(h) \/ AskMeeting(h) \/ AskContents(h) \/ AskPlace(h)
  <2>1. At(h, "change") /\ \E X : Finish(h) \/ Learned(h, X)
    BY <1>3 DEF AskType, AskMeeting, AskContents, AskPlace, Turn
  <2> QED
    BY <1>b, <2>1
<1>4. CASE BeginReorder(h)
  <2>1. PICK plan \in Orders(Existing) : Reads(h, [step |-> "reorder", plan |-> plan])
    BY <1>4 DEF BeginReorder, Receive
  <2>2. Existing \in SUBSET Activity
    BY DEF Existing
  <2>3. plan \in UNION {Orders(A) : A \in SUBSET Activity}
    BY <2>1, <2>2
  <2>4. [step |-> "reorder", plan |-> plan] \in OrderAsked
    BY <2>3 DEF OrderAsked
  <2> QED
    BY <2>1, <2>4, AreLearning, GoesOn
<1>5. CASE ChangeActivity(h) \/ Reorder(h)
  BY <1>5, IsDone DEF ChangeActivity, Reorder
<1> QED
  BY <1>1, <1>2, <1>3, <1>4, <1>5

\* The numbers of the published versions.
LEMMA LastIsNatural ==
    ASSUME LearningTypeOK, NEW a \in Activity
    PROVE  /\ Len(material[a]) \in Nat /\ DOMAIN material[a] = 1 .. Len(material[a])
           /\ Max(PublishedMaterial(a) \cup {0}) \in Nat
<1>1. material[a] \in Seq(MaterialStatus)
  BY DEF LearningTypeOK
<1>2. Len(material[a]) \in Nat /\ DOMAIN material[a] = 1 .. Len(material[a])
  BY <1>1
<1>3. PublishedMaterial(a) \in SUBSET (1 .. Len(material[a]))
  BY <1>2 DEF PublishedMaterial
<1>4. Max(PublishedMaterial(a) \cup {0}) \in PublishedMaterial(a) \cup {0}
  BY <1>2, <1>3, GreatestNumber
<1> QED
  BY <1>2, <1>3, <1>4

\* LearningContentsService: update of the status, and what create and createVersion write.
LEMMA StatusRequests ==
    ASSUME Steppable, LearningAre, NEW h \in Handler,
           \/ BeginMaterialStatus(h) \/ CheckVersionState(h) \/ SetMaterialStatus(h)
           \/ CreateMaterial(h) \/ CreateMaterialVersion(h)
    PROVE  Becomes(h, Elsewhere)
<1> DEFINE q == handler[h]
<1>0. LearningTypeOK
  BY DEF LearningAre
<1>1. CASE BeginMaterialStatus(h)
  <2>1. PICK s, a, n, to :
          /\ a \in Activity
          /\ Reads(h, [step |-> s, a |-> a, number |-> n, to |-> to])
          /\ s \in {"version state", "material status"}
          /\ n \in DOMAIN material[a] /\ to \in ActivityStatus
    BY <1>1 DEF BeginMaterialStatus, Receive
  <2>2. n \in Nat
    <3>1. n \in 1 .. Len(material[a]) /\ Len(material[a]) \in Nat
      BY <1>0, <2>1, LastIsNatural
    <3> QED
      BY <3>1
  <2>3. [step |-> s, a |-> a, number |-> n, to |-> to] \in StatusAsked
    BY <2>1, <2>2 DEF StatusAsked
  <2> QED
    BY <2>1, <2>3, AreLearning, GoesOn
<1>2. CASE CheckVersionState(h)
  <2>1. q \in StatusAsked
    BY <1>2, LearningKnows DEF CheckVersionState, At
  <2>2. [q EXCEPT !.step = "material status"] \in StatusAsked
    BY <2>1 DEF StatusAsked
  <2> QED
    BY <1>2, <2>2, AreLearning, GoesOn, IsDone DEF CheckVersionState, Goto
<1>3. CASE CreateMaterial(h) \/ SetMaterialStatus(h) \/ CreateMaterialVersion(h)
  BY <1>3, IsDone DEF CreateMaterial, SetMaterialStatus, CreateMaterialVersion
<1> QED
  BY <1>1, <1>2, <1>3

\* LearningContentsService: create and createVersion until they write.
LEMMA MaterialRequests ==
    ASSUME Steppable, LearningAre, NEW h \in Handler,
           BeginMaterial(h) \/ BeginMaterialVersion(h) \/ ReadLastVersion(h) \/ ReadPublishedVersion(h)
    PROVE  Becomes(h, LearningRequest)
<1> DEFINE q == handler[h]
<1>0. LearningTypeOK
  BY DEF LearningAre
<1>1. CASE BeginMaterial(h)
  <2>1. PICK a \in Existing, s \in {"DRAFT", "ARCHIVED"} :
          Reads(h, [step |-> "material", a |-> a, status |-> s])
    BY <1>1 DEF BeginMaterial, Receive
  <2>2. [step |-> "material", a |-> a, status |-> s]
          \in [step: {"material"}, a: Activity, status: {"DRAFT", "ARCHIVED"}]
    BY DEF Existing
  <2> QED
    BY <2>1, <2>2, AreLearning, GoesOn
<1>2. CASE BeginMaterialVersion(h)
  <2>1. PICK a \in Activity :
          Reads(h, [step |-> "last version", a |-> a, number |-> 0, old |-> 0])
    BY <1>2 DEF BeginMaterialVersion, Receive
  <2>2. [step |-> "last version", a |-> a, number |-> 0, old |-> 0] \in RenewAsked
    BY DEF RenewAsked, RenewSteps
  <2> QED
    BY <2>1, <2>2, AreLearning, GoesOn
<1>3. CASE ReadLastVersion(h)
  <2>1. q \in RenewAsked
    BY <1>3, LearningKnows DEF ReadLastVersion, At, RenewSteps
  <2>2. PICK n : n = Len(material[q.a]) + 1
    OBVIOUS
  <2>3. n \in Nat
    <3>1. Len(material[q.a]) \in Nat
      BY <1>0, <2>1, LastIsNatural DEF RenewAsked
    <3> QED
      BY <2>2, <3>1
  <2>4. [q EXCEPT !.step = "published version", !.number = n] \in RenewAsked
    BY <2>1, <2>3 DEF RenewAsked, RenewSteps
  <2> QED
    BY <1>3, <2>2, <2>4, AreLearning, GoesOn DEF ReadLastVersion
<1>4. CASE ReadPublishedVersion(h)
  <2>1. q \in RenewAsked
    BY <1>4, LearningKnows DEF ReadPublishedVersion, At, RenewSteps
  <2>2. PICK n : n = Max(PublishedMaterial(q.a) \cup {0})
    OBVIOUS
  <2>3. n \in Nat
    BY <1>0, <2>1, <2>2, LastIsNatural DEF RenewAsked
  <2>4. [q EXCEPT !.step = "material version", !.old = n] \in RenewAsked
    BY <2>1, <2>3 DEF RenewAsked, RenewSteps
  <2>5. Reads(h, [q EXCEPT !.step = "material version", !.old = n])
    BY <1>4, <2>2 DEF ReadPublishedVersion
  <2> QED
    BY <2>4, <2>5, AreLearning, GoesOn
<1> QED
  BY <1>1, <1>2, <1>3, <1>4

\* What a summary counts.
LEMMA CountsAreNatural ==
    ASSUME LearningTypeOK, NEW e
    PROVE  /\ Cardinality(Live) \in Nat /\ Cardinality(RequiredOf(Live)) \in Nat
           /\ Cardinality(Done(e)) \in Nat /\ Cardinality(RequiredOf(Done(e))) \in Nat
<1>1. /\ Live \subseteq Activity /\ RequiredOf(Live) \subseteq Activity
      /\ Done(e) \subseteq Activity /\ RequiredOf(Done(e)) \subseteq Activity
  BY DEF Live, Done, RequiredOf, Existing
<1> QED
  BY <1>1, LearningAssumption, FS_Subset, FS_CardinalityType

\* LearningProgressService.
LEMMA ProgressRequests ==
    ASSUME Steppable, LearningAre, NEW h \in Handler,
           \/ BeginProgress(h) \/ ReadProgress(h) \/ SaveProgress(h) \/ ReadCounts(h)
           \/ StoreAggregate(h)
    PROVE  Becomes(h, Elsewhere)
<1> DEFINE q == handler[h]
<1>0. LearningTypeOK
  BY DEF LearningAre
<1>1. CASE BeginProgress(h)
  <2>1. PICK e \in Enrollee, a \in Activity, s \in {"NOT_STARTED", "IN_PROGRESS", "COMPLETED"} :
          Reads(h, [step |-> "progress row", e |-> e, a |-> a, status |-> s, started |-> FALSE])
    BY <1>1 DEF BeginProgress, Receive
  <2>2. [step |-> "progress row", e |-> e, a |-> a, status |-> s, started |-> FALSE]
          \in Progressed
    BY DEF Progressed
  <2> QED
    BY <2>1, <2>2, AreLearning, GoesOn
<1>2. CASE ReadProgress(h)
  <2>1. q \in Progressed
    BY <1>2, LearningKnows DEF ReadProgress, At
  <2>2. PICK b \in BOOLEAN : b = (progress[q.e][q.a].started \/ q.status # "NOT_STARTED")
    OBVIOUS
  <2>3. [q EXCEPT !.step = "progress", !.started = b] \in Progressed
    BY <2>1 DEF Progressed
  <2>4. Finish(h) \/ Reads(h, [q EXCEPT !.step = "progress", !.started = b])
    BY <1>2, <2>2 DEF ReadProgress
  <2> QED
    BY <2>3, <2>4, AreLearning, GoesOn, IsDone
<1>3. CASE SaveProgress(h)
  <2>1. q \in Progressed
    BY <1>3, LearningKnows DEF SaveProgress, At
  <2>2. NoAggregate \in AggregateRow
    BY DEF NoAggregate, AggregateRow
  <2>3. [step |-> "counts", e |-> q.e, of |-> {}, row |-> NoAggregate] \in CountAsked
    BY <2>1, <2>2 DEF Progressed, CountAsked
  <2>4. Commits(h, [step |-> "counts", e |-> q.e, of |-> {}, row |-> NoAggregate])
    BY <1>3 DEF SaveProgress
  <2> QED
    BY <2>3, <2>4, AreLearning, GoesOn
<1>4. CASE ReadCounts(h)
  <2>1. q \in CountAsked
    BY <1>4, LearningKnows DEF ReadCounts, At
  <2>2. q.row \in AggregateRow /\ q.of \in SUBSET {"activities", "progress"}
    BY <2>1 DEF CountAsked
  <2>3. ASSUME NEW n \in Nat, NEW k \in Nat
        PROVE  /\ [q.row EXCEPT !.total = n, !.required = k] \in AggregateRow
               /\ [q.row EXCEPT !.completed = n, !.completedRequired = k] \in AggregateRow
    BY <2>2 DEF AggregateRow
  <2>4. PICK which \in {"activities", "progress"} :
          Reads(h, [q EXCEPT
               !.step = IF q.of = {} THEN @ ELSE "aggregate",
               !.of = @ \cup {which},
               !.row = IF which = "activities"
                 THEN [@ EXCEPT !.total = Cardinality(Live),
                                !.required = Cardinality(RequiredOf(Live))]
                 ELSE [@ EXCEPT !.completed = Cardinality(Done(q.e)),
                                !.completedRequired = Cardinality(RequiredOf(Done(q.e)))]])
    BY <1>4 DEF ReadCounts
  <2>5. PICK row : row = IF which = "activities"
                 THEN [q.row EXCEPT !.total = Cardinality(Live),
                                    !.required = Cardinality(RequiredOf(Live))]
                 ELSE [q.row EXCEPT !.completed = Cardinality(Done(q.e)),
                                    !.completedRequired = Cardinality(RequiredOf(Done(q.e)))]
    OBVIOUS
  <2>6. row \in AggregateRow
    BY <1>0, <2>3, <2>5, CountsAreNatural
  <2>7. PICK s : s = IF q.of = {} THEN q.step ELSE "aggregate"
    OBVIOUS
  <2>8. PICK o : o = q.of \cup {which}
    OBVIOUS
  <2>9. s \in {"counts", "aggregate"} /\ o \in SUBSET {"activities", "progress"}
    BY <2>1, <2>2, <2>7, <2>8 DEF CountAsked
  <2>10. [q EXCEPT !.step = s, !.of = o, !.row = row] \in CountAsked
    BY <2>1, <2>6, <2>9 DEF CountAsked
  <2>11. Reads(h, [q EXCEPT !.step = s, !.of = o, !.row = row])
    BY <2>1, <2>4, <2>5, <2>7, <2>8 DEF CountAsked
  <2> QED
    BY <2>10, <2>11, AreLearning, GoesOn
<1>5. CASE StoreAggregate(h)
  BY <1>5, IsDone DEF StoreAggregate
<1> QED
  BY <1>1, <1>2, <1>3, <1>4, <1>5

\* Altogether: a request about the catalogue or the progress goes on with what its step needs.
LEMMA LearningRequests ==
    ASSUME Steppable, LearningAre, NEW h \in Handler, HandleLearning(h)
    PROVE  Becomes(h, LearningRequest)
<1>1. Becomes(h, Elsewhere) => Becomes(h, LearningRequest)
  BY DEF Becomes, Elsewhere
<1> QED
  BY <1>1, MeetingRequests, CreationRequests, ChangeRequests, StatusRequests, MaterialRequests,
     ProgressRequests
  DEF HandleLearning

\* A percentage.
LEMMA ShareIsPercent ==
    ASSUME NEW done \in Nat, NEW total \in Nat
    PROVE  ShareDone(done, total) \in 0 .. 100
<1>1. CASE total = 0
  BY <1>1 DEF ShareDone
<1>2. CASE total # 0
  <2>1. PICK x : x = (200 * done + total) \div (2 * total)
    OBVIOUS
  <2>2. \A n \in Nat, d \in Nat \ {0} : n \div d \in Nat
    OBVIOUS
  <2>3. 200 * done + total \in Nat /\ 2 * total \in Nat \ {0}
    BY <1>2
  <2>4. x \in Nat
    BY <2>1, <2>2, <2>3
  <2>5. Min({100, x}) \in {100, x} /\ Min({100, x}) <= 100 /\ Min({100, x}) <= x
    <3>1. \E m \in {100, x} : \A n \in {100, x} : m <= n
      BY <2>4
    <3> QED
      BY <3>1 DEF Min
  <2>6. Min({100, x}) \in 0 .. 100
    BY <2>4, <2>5
  <2> QED
    BY <1>2, <2>1, <2>6 DEF ShareDone
<1> QED
  BY <1>1, <1>2

\* The catalogue but for the materials.
LEMMA CatalogWrites ==
    ASSUME Steppable, LearningAre, CourseFine, NEW h \in Handler,
           \/ SetMeeting(h) \/ SetActivityType(h) \/ CreateActivity(h) \/ ChangeActivity(h)
           \/ Reorder(h)
    PROVE  LearningTypeOK'
<1> DEFINE q == handler[h]
<1>0. LearningTypeOK
  BY DEF LearningAre
<1>1. CASE SetMeeting(h)
  <2>1. q.to \in {"DRAFT", "PUBLISHED", "COMPLETED", "ARCHIVED"}
    BY <1>1, LearningKnows DEF SetMeeting, At
  <2> QED
    BY <1>0, <1>1, <2>1 DEF SetMeeting, LearningTypeOK
<1>2. CASE SetActivityType(h)
  <2>1. q \in TypeAsked
    BY <1>2, LearningKnows DEF SetActivityType, At
  <2>2. q.k \in ActivityType /\ q.row \in [active: BOOLEAN, requires: BOOLEAN]
    BY <2>1 DEF TypeAsked
  <2>3. activityType' \in [ActivityType -> [active: BOOLEAN, requires: BOOLEAN]]
    BY <1>0, <1>2, <2>2 DEF SetActivityType, LearningTypeOK
  <2> QED
    BY <1>0, <1>2, <2>3 DEF SetActivityType, LearningTypeOK
<1>a. ASSUME \A a \in Activity : activity'[a] = NoActivity \/ activity'[a] \in ActivityRow,
             activity' = [a \in Activity |-> activity'[a]],
             UNCHANGED <<meeting, activityType, material, progress, aggregate>>
      PROVE  LearningTypeOK'
  <2>1. activity' \in [Activity -> ActivityRow \cup {NoActivity}]
    BY <1>a
  <2> QED
    BY <1>0, <1>a, <2>1 DEF LearningTypeOK
<1>b. /\ activity = [a \in Activity |-> activity[a]]
      /\ \A a \in Activity : activity[a] = NoActivity \/ activity[a] \in ActivityRow
  BY <1>0, ActivitiesAre DEF LearningTypeOK
<1>3. CASE CreateActivity(h)
  <2>1. q \in PlaceAsked
    BY <1>3, LearningKnows DEF CreateActivity, At
  <2>2. q.a \in Activity /\ q.row \in ActivityRow
    BY <2>1 DEF PlaceAsked
  <2>3. activity' = activity \/ activity' = [activity EXCEPT ![q.a] = q.row]
    BY <1>3 DEF CreateActivity
  <2>4. UNCHANGED <<meeting, activityType, material, progress, aggregate>>
    BY <1>3 DEF CreateActivity
  <2> QED
    BY <1>a, <1>b, <2>2, <2>3, <2>4
<1>4. CASE ChangeActivity(h)
  <2>1. q \in ChangeAsked
    BY <1>4, LearningKnows DEF ChangeActivity, At, GateSteps
  <2>2. q.a \in Existing
    BY <1>4 DEF CourseFine, CourseHeld, ChangeActivity, At, GateSteps
  <2>3. q.a \in Activity /\ activity[q.a] \in ActivityRow /\ q.row \in ActivityRow
    BY <1>0, <2>1, <2>2, ActivitiesAre DEF ChangeAsked
  <2>4. PICK row : row = [c \in DOMAIN activity[q.a] |->
                            IF c \in q.sets THEN q.row[c] ELSE activity[q.a][c]]
    OBVIOUS
  <2>5. row \in ActivityRow
    <3>1. DOMAIN activity[q.a] = {"status", "kind", "required", "place"}
      BY <2>3 DEF ActivityRow
    <3>2. /\ row = [c \in {"status", "kind", "required", "place"} |-> row[c]]
          /\ row["status"] \in ActivityStatus /\ row["kind"] \in ActivityType
          /\ row["required"] \in BOOLEAN /\ row["place"] \in Nat
      BY <2>3, <2>4, <3>1 DEF ActivityRow
    <3> QED
      BY <3>2 DEF ActivityRow
  <2>6. activity' = activity \/ activity' = [activity EXCEPT ![q.a] = row]
    BY <1>4, <1>b, <2>3, <2>4 DEF ChangeActivity
  <2>7. UNCHANGED <<meeting, activityType, material, progress, aggregate>>
    BY <1>4 DEF ChangeActivity
  <2> QED
    BY <1>a, <1>b, <2>3, <2>5, <2>6, <2>7
<1>5. CASE Reorder(h)
  <2> DEFINE plan == q.plan
  <2>1. q \in OrderAsked
    BY <1>5, LearningKnows DEF Reorder, At
  <2>2. PICK A \in SUBSET Activity : plan \in Orders(A)
    BY <2>1 DEF OrderAsked
  <2>3. plan \in [A -> 1 .. Cardinality(A)] /\ DOMAIN plan = A
    BY <2>2 DEF Orders
  <2>4. A \subseteq Existing
    BY <1>5, <2>3 DEF CourseFine, CourseHeld, Reorder, At
  <2>5. \A a \in A : plan[a] \in Nat
    <3>1. Cardinality(A) \in Nat
      BY LearningAssumption, FS_Subset, FS_CardinalityType
    <3> QED
      BY <2>3, <3>1
  <2>6. CASE activity' = [a \in Activity |->
                        IF a \in DOMAIN plan THEN [activity[a] EXCEPT !.place = plan[a]]
                        ELSE activity[a]]
    <3>1. \A row \in ActivityRow, n \in Nat : [row EXCEPT !.place = n] \in ActivityRow
      BY DEF ActivityRow
    <3>2. \A a \in A : activity'[a] \in ActivityRow
      BY <1>0, <2>3, <2>4, <2>5, <2>6, <3>1, ActivitiesAre
    <3>3. \A a \in Activity \ A : activity'[a] = activity[a]
      BY <2>3, <2>6
    <3>4. UNCHANGED <<meeting, activityType, material, progress, aggregate>>
      BY <1>5 DEF Reorder
    <3>5. activity' = [a \in Activity |-> activity'[a]]
      BY <2>6
    <3>6. \A a \in Activity : activity'[a] = NoActivity \/ activity'[a] \in ActivityRow
      BY <1>b, <3>2, <3>3
    <3> QED
      BY <1>a, <3>4, <3>5, <3>6
  <2>7. CASE activity' = activity
    BY <1>5, <1>a, <1>b, <2>7 DEF Reorder
  <2> QED
    BY <1>5, <2>6, <2>7 DEF Reorder
<1> QED
  BY <1>1, <1>2, <1>3, <1>4, <1>5

\* What recordProgress stores keeps to the columns.
LEMMA ProgressWrites ==
    ASSUME Steppable, LearningAre, NEW h \in Handler, SaveProgress(h) \/ StoreAggregate(h)
    PROVE  LearningTypeOK'
<1> DEFINE q == handler[h]
<1>0. LearningTypeOK
  BY DEF LearningAre
<1>1. CASE SaveProgress(h)
  <2>1. q \in Progressed
    BY <1>1, LearningKnows DEF SaveProgress, At
  <2>2. q.e \in Enrollee /\ q.a \in Activity
        /\ q.status \in {"NOT_STARTED", "IN_PROGRESS", "COMPLETED"} /\ q.started \in BOOLEAN
    BY <2>1 DEF Progressed
  <2>3. PICK b \in BOOLEAN : b = (progress[q.e][q.a].started \/ q.started)
    OBVIOUS
  <2>4. PICK row \in ProgressRow : row = [status |-> q.status, started |-> b]
    BY <2>2 DEF ProgressRow
  <2>5. progress \in [Enrollee -> [Activity -> ProgressRow \cup {NoProgress}]]
    BY <1>0 DEF LearningTypeOK
  <2>6. progress' = [progress EXCEPT ![q.e][q.a] = row]
    <3>1. progress' = [progress EXCEPT ![q.e][q.a] =
                            [status |-> q.status, started |-> @.started \/ q.started]]
      BY <1>1 DEF SaveProgress
    <3>2. progress' = [progress EXCEPT ![q.e] = [progress[q.e] EXCEPT ![q.a] =
                [status |-> q.status, started |-> progress[q.e][q.a].started \/ q.started]]]
      BY <2>2, <2>5, <3>1
    <3> QED
      BY <2>3, <2>4, <3>2
  <2>7. progress' \in [Enrollee -> [Activity -> ProgressRow \cup {NoProgress}]]
    BY <2>2, <2>5, <2>6
  <2> QED
    BY <1>0, <1>1, <2>7 DEF SaveProgress, LearningTypeOK
<1>2. CASE StoreAggregate(h)
  <2>1. q \in CountAsked
    BY <1>2, LearningKnows DEF StoreAggregate, At
  <2>2. q.e \in Enrollee /\ q.row \in AggregateRow
    BY <2>1 DEF CountAsked
  <2>3. PICK n : n = ShareDone(q.row.completed, q.row.total)
    OBVIOUS
  <2>4. n \in 0 .. 100
    BY <2>2, <2>3, ShareIsPercent DEF AggregateRow
  <2>5. PICK row \in AggregateRow : row = [q.row EXCEPT !.percent = n]
    BY <2>2, <2>4 DEF AggregateRow
  <2>6. aggregate' = [aggregate EXCEPT ![q.e] = row]
    BY <1>2, <2>3, <2>5 DEF StoreAggregate
  <2> QED
    BY <1>0, <1>2, <2>2, <2>6 DEF StoreAggregate, LearningTypeOK
<1> QED
  BY <1>1, <1>2

\* No version is lost, and a material that there is stays.
MaterialsGrow == \A a \in Activity :
    /\ Len(material[a]) \in Nat /\ Len(material'[a]) \in Nat
    /\ Len(material[a]) <= Len(material'[a])
    /\ material[a] # <<>> => material'[a] # <<>>

\* A step by which materials grow, where nobody creates them, and by which a slot goes on
\* with what is held of them, keeps what is held.
LEMMA MaterialsHeldNext ==
    ASSUME LearningAre, MaterialsGrow, NEW h \in Handler,
           \A g \in Handler \ {h} : handler'[g] = handler[g],
           \A g \in Handler \ {h} : handler[g].step = "material" =>
                material'[handler[g].a] = material[handler[g].a],
           handler'[h].step = "material" =>
                /\ material'[handler'[h].a] = <<>>
                /\ \A g \in Handler \ {h} : handler[g].step = "material" =>
                        handler[g].a # handler'[h].a,
           handler'[h].step \in RenewSteps =>
                /\ material'[handler'[h].a] # <<>>
                /\ handler'[h].number <= Len(material'[handler'[h].a]) + 1
    PROVE  MaterialsHeld'
<1>0. MaterialsHeld
  BY DEF LearningAre
<1>1. \A g \in Handler : handler'[g].step = "material" => material'[handler'[g].a] = <<>>
  BY <1>0 DEF MaterialsHeld
<1>2. \A f, g \in Handler : /\ handler'[f].step = "material" /\ handler'[g].step = "material"
                            /\ handler'[f].a = handler'[g].a
                            => f = g
  BY <1>0 DEF MaterialsHeld
<1>3. ASSUME NEW g \in Handler \ {h}, handler[g].step \in RenewSteps
      PROVE  /\ material'[handler[g].a] # <<>>
             /\ handler[g].number <= Len(material'[handler[g].a]) + 1
  <2>1. handler[g] \in RenewAsked
    BY <1>3, LearningKnows
  <2>2. handler[g].a \in Activity /\ handler[g].number \in Nat
    BY <2>1 DEF RenewAsked
  <2>3. /\ material[handler[g].a] # <<>>
        /\ handler[g].number <= Len(material[handler[g].a]) + 1
    BY <1>0, <1>3 DEF MaterialsHeld
  <2>4. \A k, l, n \in Nat : k <= l /\ n <= k + 1 => n <= l + 1
    OBVIOUS
  <2> QED
    BY <2>2, <2>3, <2>4 DEF MaterialsGrow
<1>4. \A g \in Handler : handler'[g].step \in RenewSteps =>
        /\ material'[handler'[g].a] # <<>>
        /\ handler'[g].number <= Len(material'[handler'[g].a]) + 1
  BY <1>3
<1> QED
  BY <1>1, <1>2, <1>4 DEF MaterialsHeld

\* Materials that stay grow by nothing.
LEMMA MaterialsStay ==
    ASSUME LearningTypeOK, UNCHANGED material
    PROVE  MaterialsGrow
BY LastIsNatural DEF MaterialsGrow

\* What a slot holds elsewhere is nothing about a material to be created or renewed.
LEMMA ElseIsElse ==
    ASSUME NEW h \in Handler, Becomes(h, Elsewhere)
    PROVE  handler'[h].step # "material" /\ handler'[h].step \notin RenewSteps
<1>1. Idle.step = "idle"
  BY DEF Idle
<1>2. "idle" \notin {"material"} \cup RenewSteps
  BY DEF RenewSteps
<1> QED
  BY <1>1, <1>2 DEF Becomes, Elsewhere

\* An entry of a sequence replaced, and one appended.
LEMMA EntryReplaced ==
    ASSUME NEW S
    PROVE  \A s \in Seq(S), n \in Nat, x \in S :
              [s EXCEPT ![n] = x] \in Seq(S) /\ Len([s EXCEPT ![n] = x]) = Len(s)
<1> SUFFICES ASSUME NEW s \in Seq(S), NEW n \in Nat, NEW x \in S
             PROVE  [s EXCEPT ![n] = x] \in Seq(S) /\ Len([s EXCEPT ![n] = x]) = Len(s)
  OBVIOUS
<1> DEFINE t == [s EXCEPT ![n] = x]
<1>1. s \in [1 .. Len(s) -> S] /\ Len(s) \in Nat
  OBVIOUS
<1>2. t \in [1 .. Len(s) -> S]
  BY <1>1
<1> HIDE DEF t
<1>3. t \in Seq(S) /\ Len(t) = Len(s)
  BY <1>1, <1>2
<1> QED
  BY <1>3 DEF t

\* Another entry appended, perhaps with an earlier one changed.
LEMMA EntryAdded ==
    ASSUME NEW S, NEW s \in Seq(S), NEW old, NEW x \in S, NEW y \in S
    PROVE  LET t == [i \in 1 .. Len(s) + 1 |->
                        IF i = Len(s) + 1 THEN x ELSE IF i = old THEN y ELSE s[i]]
           IN  t \in Seq(S) /\ Len(t) = Len(s) + 1
<1> DEFINE n == Len(s) + 1
           t == [i \in 1 .. n |-> IF i = n THEN x ELSE IF i = old THEN y ELSE s[i]]
<1>1. n \in Nat /\ Len(s) \in Nat /\ s \in [1 .. Len(s) -> S]
  OBVIOUS
<1>2. ASSUME NEW i \in 1 .. n, i # n PROVE s[i] \in S
  <2>1. i \in 1 .. Len(s)
    BY <1>1, <1>2
  <2> QED
    BY <1>1, <2>1
<1>3. t \in [1 .. n -> S]
  BY <1>2
<1> HIDE DEF t, n
<1>4. t \in Seq(S) /\ Len(t) = n
  BY <1>1, <1>3
<1> QED
  BY <1>4 DEF t, n

\* What create, update and createVersion write is a material, and nothing of it is lost.
LEMMA MaterialWrites ==
    ASSUME Steppable, LearningAre, CourseFine, NEW h \in Handler,
           CreateMaterial(h) \/ SetMaterialStatus(h) \/ CreateMaterialVersion(h)
    PROVE  /\ LearningTypeOK' /\ MaterialsGrow
           /\ \A g \in Handler \ {h} : handler[g].step = "material" =>
                material'[handler[g].a] = material[handler[g].a]
<1> DEFINE q == handler[h]
           s == material[q.a]
<1>0. LearningTypeOK /\ MaterialsHeld
  BY DEF LearningAre
<1>1. material \in [Activity -> Seq(MaterialStatus)]
  BY <1>0 DEF LearningTypeOK
<1>2. ASSUME NEW t \in Seq(MaterialStatus), q.a \in Activity,
             material' = [material EXCEPT ![q.a] = t],
             Len(s) <= Len(t), s # <<>> => t # <<>>,
             UNCHANGED <<meeting, activityType, activity, progress, aggregate>>
      PROVE  LearningTypeOK' /\ MaterialsGrow
  <2>1. material' \in [Activity -> Seq(MaterialStatus)]
    BY <1>1, <1>2
  <2>2. LearningTypeOK'
    BY <1>0, <1>2, <2>1 DEF LearningTypeOK
  <2>3. ASSUME NEW a \in Activity
        PROVE  /\ Len(material[a]) \in Nat /\ Len(material'[a]) \in Nat
               /\ Len(material[a]) <= Len(material'[a])
               /\ material[a] # <<>> => material'[a] # <<>>
    <3>1. material[a] \in Seq(MaterialStatus) /\ material'[a] \in Seq(MaterialStatus)
      BY <1>1, <2>1
    <3>2. Len(material[a]) \in Nat /\ Len(material'[a]) \in Nat
      BY <3>1
    <3>3. CASE a = q.a
      BY <1>1, <1>2, <3>2, <3>3
    <3>4. CASE a # q.a
      BY <1>1, <1>2, <3>2, <3>4
    <3> QED
      BY <3>3, <3>4
  <2> QED
    BY <2>2, <2>3 DEF MaterialsGrow
<1>3. \A x \in ActivityStatus \cup {"SUPERSEDED", "PUBLISHED", "DRAFT", "ARCHIVED"} :
        x \in MaterialStatus
  BY DEF MaterialStatus, ActivityStatus
<1>4. CASE CreateMaterial(h)
  <2>1. q.a \in Activity /\ q.status \in MaterialStatus /\ s = <<>>
    BY <1>0, <1>3, <1>4, LearningKnows DEF CreateMaterial, At, MaterialsHeld
  <2>2. material' = [material EXCEPT ![q.a] = <<q.status>>]
    BY <1>4 DEF CreateMaterial
  <2>3. PICK t : t = <<q.status>>
    OBVIOUS
  <2>4. t \in Seq(MaterialStatus) /\ Len(s) <= Len(t)
    BY <2>1, <2>3
  <2>5. LearningTypeOK' /\ MaterialsGrow
    BY <1>2, <1>4, <2>1, <2>2, <2>3, <2>4 DEF CreateMaterial
  <2>6. ASSUME NEW g \in Handler \ {h}, handler[g].step = "material"
        PROVE  material'[handler[g].a] = material[handler[g].a]
    <3>1. handler[g].a # q.a /\ handler[g].a \in Activity
      BY <1>0, <1>4, <2>6, LearningKnows DEF CreateMaterial, At, MaterialsHeld
    <3> QED
      BY <1>1, <2>2, <3>1
  <2> QED
    BY <2>5, <2>6
<1>5. CASE SetMaterialStatus(h)
  <2>1. q \in StatusAsked
    BY <1>5, LearningKnows DEF SetMaterialStatus, At
  <2>2. q.a \in Activity /\ q.to \in MaterialStatus
    BY <1>3, <2>1 DEF StatusAsked
  <2>3. PICK t : t = [s EXCEPT ![q.number] = q.to]
    OBVIOUS
  <2>4. s \in Seq(MaterialStatus) /\ Len(s) \in Nat
    BY <1>1, <2>2
  <2>5. t \in Seq(MaterialStatus) /\ Len(t) = Len(s)
    <3>1. \A z \in Seq(MaterialStatus), n \in Nat, x \in MaterialStatus :
            [z EXCEPT ![n] = x] \in Seq(MaterialStatus) /\ Len([z EXCEPT ![n] = x]) = Len(z)
      BY EntryReplaced
    <3>2. q.number \in Nat
      BY <2>1 DEF StatusAsked
    <3> QED
      BY <2>2, <2>3, <2>4, <3>1, <3>2
  <2>6. s # <<>> => t # <<>>
    BY <2>4, <2>5
  <2>7. material' = [material EXCEPT ![q.a] = t]
    BY <1>5, <2>3 DEF SetMaterialStatus
  <2>8. LearningTypeOK' /\ MaterialsGrow
    <3>1. UNCHANGED <<meeting, activityType, activity, progress, aggregate>>
      BY <1>5 DEF SetMaterialStatus
    <3>2. Len(s) <= Len(t)
      BY <2>4, <2>5
    <3> QED
      BY <1>2, <2>2, <2>5, <2>6, <2>7, <3>1, <3>2
  <2>9. ASSUME NEW g \in Handler \ {h}, handler[g].step = "material"
        PROVE  material'[handler[g].a] = material[handler[g].a]
    <3>1. material[handler[g].a] = <<>> /\ handler[g].a \in Activity
      BY <1>0, <2>9, LearningKnows DEF MaterialsHeld
    <3>2. s = <<>> => t = <<>>
      BY <2>4, <2>5
    <3> QED
      BY <1>1, <2>7, <3>1, <3>2
  <2> QED
    BY <2>8, <2>9
<1>6. CASE CreateMaterialVersion(h)
  <2>1. q \in RenewAsked
    BY <1>6, LearningKnows DEF CreateMaterialVersion, At, RenewSteps
  <2>2. q.a \in Activity /\ q.number \in Nat
    BY <2>1 DEF RenewAsked
  <2>3. s \in Seq(MaterialStatus) /\ Len(s) \in Nat /\ DOMAIN s = 1 .. Len(s)
    BY <1>1, <2>2
  <2>4. q.number # 0
    <3>1. CourseHeld(q) /\ q.step = "material version"
      BY <1>6 DEF CourseFine, CreateMaterialVersion, At
    <3> QED
      BY <3>1 DEF CourseHeld, RenewSteps
  <2>5. s # <<>> /\ q.number <= Len(s) + 1
    BY <1>0, <1>6 DEF CreateMaterialVersion, At, MaterialsHeld, RenewSteps
  <2>6. CASE material' = material
    <3>1. LearningTypeOK'
      BY <1>0, <1>6, <2>6 DEF LearningTypeOK, CreateMaterialVersion
    <3> QED
      BY <1>0, <2>6, <3>1, MaterialsStay
  <2>7. CASE q.number \notin DOMAIN s
    <3>1. q.number = Len(s) + 1
      BY <2>2, <2>3, <2>4, <2>5, <2>7
    <3>2. PICK t : t = [n \in 1 .. Len(s) + 1 |-> IF n = Len(s) + 1 THEN "PUBLISHED"
                                                 ELSE IF n = q.old THEN "SUPERSEDED" ELSE s[n]]
      OBVIOUS
    <3>3. t \in Seq(MaterialStatus) /\ Len(t) = Len(s) + 1
      BY <1>3, <2>3, <3>2, EntryAdded
    <3>4. t # <<>> /\ Len(s) <= Len(t)
      BY <2>3, <3>3
    <3>5. material' = [material EXCEPT ![q.a] = t]
      BY <1>6, <2>7, <3>1, <3>2 DEF CreateMaterialVersion
    <3>6. LearningTypeOK' /\ MaterialsGrow
      BY <1>2, <1>6, <2>2, <3>3, <3>4, <3>5 DEF CreateMaterialVersion
    <3>7. ASSUME NEW g \in Handler \ {h}, handler[g].step = "material"
          PROVE  material'[handler[g].a] = material[handler[g].a]
      <4>1. handler[g].a # q.a /\ handler[g].a \in Activity
        BY <1>0, <2>5, <3>7, LearningKnows DEF MaterialsHeld
      <4> QED
        BY <1>1, <3>5, <4>1
    <3> QED
      BY <3>6, <3>7
  <2> QED
    BY <1>6, <2>6, <2>7 DEF CreateMaterialVersion
<1> QED
  BY <1>4, <1>5, <1>6

\* A request about the catalogue or the progress keeps what the tables and the slots hold.
LEMMA LearningKept ==
    ASSUME Steppable, LearningAre, CourseFine, NEW h \in Handler, HandleLearning(h)
    PROVE  LearningAre'
<1> DEFINE q == handler[h]
           m == handler'[h]
<1>0. LearningTypeOK /\ MaterialsHeld
  BY DEF LearningAre
<1>1. Moves(h, LearningSteps)
  BY LearningMove
<1>2. LearningSteps \in Parts
  BY DEF Parts
<1>3. Typed(LearningSteps, LearningRequest)'
  BY <1>1, <1>2, LearningRequests, TypedElse DEF LearningAre
<1>4. \A g \in Handler \ {h} : handler'[g] = handler[g]
  BY <1>1 DEF Moves
<1>5. CASE CreateMaterial(h) \/ SetMaterialStatus(h) \/ CreateMaterialVersion(h)
  <2>1. m.step # "material" /\ m.step \notin RenewSteps
    BY <1>5, StatusRequests, ElseIsElse
  <2> QED
    BY <1>3, <1>4, <1>5, <2>1, MaterialWrites, MaterialsHeldNext DEF LearningAre
<1>6. ASSUME UNCHANGED material, LearningTypeOK',
             m.step = "material" =>
                /\ material[m.a] = <<>>
                /\ \A g \in Handler \ {h} : handler[g].step = "material" => handler[g].a # m.a,
             m.step \in RenewSteps =>
                /\ material[m.a] # <<>> /\ m.number <= Len(material[m.a]) + 1
      PROVE  LearningAre'
  BY <1>0, <1>3, <1>4, <1>6, MaterialsStay, MaterialsHeldNext DEF LearningAre
<1>7. CASE SetMeeting(h) \/ SetActivityType(h) \/ CreateActivity(h) \/ ChangeActivity(h)
           \/ Reorder(h) \/ SaveProgress(h) \/ StoreAggregate(h)
  <2>1. m.step # "material" /\ m.step \notin RenewSteps
    BY <1>7, MeetingRequests, CreationRequests, ChangeRequests, ProgressRequests, ElseIsElse
  <2>2. UNCHANGED material
    BY <1>7 DEF SetMeeting, SetActivityType, CreateActivity, ChangeActivity, Reorder,
                SaveProgress, StoreAggregate
  <2>3. LearningTypeOK'
    BY <1>7, CatalogWrites, ProgressWrites
  <2> QED
    BY <1>6, <2>1, <2>2, <2>3
<1>8. ASSUME UNCHANGED learningTables PROVE UNCHANGED material /\ LearningTypeOK'
  BY <1>0, <1>8 DEF learningTables, LearningTypeOK
<1>9. CASE \/ BeginMeeting(h) \/ BeginActivityType(h) \/ CountLive(h)
           \/ BeginActivity(h) \/ ChoosePlace(h) \/ CheckGate(h)
           \/ BeginActivityStatus(h) \/ BeginActivityEdit(h) \/ AskType(h) \/ AskMeeting(h)
           \/ AskContents(h) \/ AskPlace(h) \/ BeginReorder(h) \/ BeginMaterialStatus(h) \/ CheckVersionState(h)
           \/ BeginProgress(h) \/ ReadProgress(h) \/ ReadCounts(h)
  <2>1. m.step # "material" /\ m.step \notin RenewSteps
    BY <1>9, MeetingRequests, CreationRequests, ChangeRequests, StatusRequests,
       ProgressRequests, ElseIsElse
  <2>a. ASSUME BeginActivityStatus(h) PROVE UNCHANGED learningTables
    BY <2>a, Zenon DEF BeginActivityStatus
  <2>b. ASSUME BeginActivityEdit(h) PROVE UNCHANGED learningTables
    BY <2>b, Zenon DEF BeginActivityEdit
  <2>2. UNCHANGED learningTables
    BY <1>9, <2>a, <2>b DEF BeginMeeting, BeginActivityType, CountLive, BeginActivity, ChoosePlace,
         CheckGate, AskType, AskMeeting, AskContents, AskPlace, BeginReorder,
         BeginMaterialStatus, CheckVersionState, BeginProgress, ReadProgress, ReadCounts
  <2> QED
    BY <1>6, <1>8, <2>1, <2>2
<1>10. CASE BeginMaterial(h)
  <2>1. PICK a \in Existing, s \in {"DRAFT", "ARCHIVED"} :
          /\ material[a] = <<>> /\ \A g \in InFlight : At(g, "material") => handler[g].a # a
          /\ Reads(h, [step |-> "material", a |-> a, status |-> s])
    BY <1>10 DEF BeginMaterial, Receive
  <2>2. m = [step |-> "material", a |-> a, status |-> s]
    BY <2>1 DEF Reads, Steppable
  <2>3. m.step = "material" /\ m.a = a /\ m.step \notin RenewSteps
    BY <2>2 DEF RenewSteps
  <2>4. \A g \in Handler \ {h} : handler[g].step = "material" => handler[g].a # a
    BY <2>1 DEF InFlight, At
  <2>5. UNCHANGED learningTables
    BY <1>10 DEF BeginMaterial
  <2> QED
    BY <1>6, <1>8, <2>1, <2>3, <2>4, <2>5
<1>11. CASE BeginMaterialVersion(h)
  <2>1. PICK a \in Activity : \E n \in DOMAIN material[a] :
          Reads(h, [step |-> "last version", a |-> a, number |-> 0, old |-> 0])
    BY <1>11 DEF BeginMaterialVersion, Receive
  <2>2. PICK r : r = [step |-> "last version", a |-> a, number |-> 0, old |-> 0]
    OBVIOUS
  <2>3. m.step # "material" /\ m.a = a /\ m.number = 0
    <3>1. m = r
      BY <2>1, <2>2 DEF Reads, Steppable
    <3>2. r.step = "last version" /\ r.a = a /\ r.number = 0
      BY <2>2
    <3> QED
      BY <3>1, <3>2
  <2>4. material[a] \in Seq(MaterialStatus) /\ DOMAIN material[a] # {}
    <3>1. material[a] \in Seq(MaterialStatus)
      BY <1>0 DEF LearningTypeOK
    <3> QED
      BY <2>1, <3>1
  <2>5. material[a] # <<>> /\ 0 <= Len(material[a]) + 1
    BY <2>4
  <2>6. UNCHANGED learningTables
    BY <1>11 DEF BeginMaterialVersion
  <2> QED
    BY <1>6, <1>8, <2>3, <2>5, <2>6
<1>12. CASE ReadLastVersion(h)
  <2>1. q \in RenewAsked /\ material[q.a] # <<>>
    BY <1>0, <1>12, LearningKnows DEF ReadLastVersion, At, RenewSteps, MaterialsHeld
  <2>2. PICK n : n = Len(material[q.a]) + 1
    OBVIOUS
  <2>3. m = [q EXCEPT !.step = "published version", !.number = n]
    BY <1>12, <2>2 DEF ReadLastVersion, Reads, Steppable
  <2>4. m.step = "published version" /\ m.a = q.a /\ m.number = n
    BY <2>1, <2>3 DEF RenewAsked
  <2>5. n <= Len(material[q.a]) + 1
    <3>1. Len(material[q.a]) \in Nat
      BY <1>0, <2>1, LastIsNatural DEF RenewAsked
    <3> QED
      BY <2>2, <3>1
  <2>6. UNCHANGED learningTables
    BY <1>12 DEF ReadLastVersion
  <2> QED
    BY <1>6, <1>8, <2>1, <2>4, <2>5, <2>6
<1>13. CASE ReadPublishedVersion(h)
  <2>1. q \in RenewAsked /\ material[q.a] # <<>> /\ q.number <= Len(material[q.a]) + 1
    BY <1>0, <1>13, LearningKnows DEF ReadPublishedVersion, At, RenewSteps, MaterialsHeld
  <2>2. PICK n : n = Max(PublishedMaterial(q.a) \cup {0})
    OBVIOUS
  <2>3. m = [q EXCEPT !.step = "material version", !.old = n]
    BY <1>13, <2>2 DEF ReadPublishedVersion, Reads, Steppable
  <2>4. m.step = "material version" /\ m.a = q.a /\ m.number = q.number
    BY <2>1, <2>3 DEF RenewAsked
  <2>5. UNCHANGED learningTables
    BY <1>13 DEF ReadPublishedVersion
  <2> QED
    BY <1>6, <1>8, <2>1, <2>4, <2>5
<1> QED
  BY <1>5, <1>7, <1>9, <1>10, <1>11, <1>12, <1>13 DEF HandleLearning

\* No step of the whole changes that.
LEMMA LearningIsNext ==
    ASSUME Steppable, LearningAre, CourseFine, [Next]_vars
    PROVE  LearningAre'
<1>1. ASSUME UNCHANGED learningTables, Unentered(LearningSteps) PROVE LearningAre'
  <2>1. LearningSteps \in Parts
    BY DEF Parts
  <2>2. Typed(LearningSteps, LearningRequest)'
    BY <1>1, <2>1, TypedElse DEF LearningAre
  <2>3. LearningTypeOK'
    BY <1>1 DEF learningTables, LearningTypeOK, LearningAre
  <2>4. MaterialsHeld'
    <3>1. {"material"} \cup RenewSteps \subseteq LearningSteps
      BY DEF LearningSteps, RenewSteps
    <3>2. \A g \in Handler : handler'[g].step \in {"material"} \cup RenewSteps =>
                              handler'[g] = handler[g]
      BY <1>1, <3>1 DEF Unentered
    <3>3. material' = material /\ MaterialsHeld
      BY <1>1 DEF learningTables, LearningAre
    <3> QED
      BY <3>2, <3>3 DEF MaterialsHeld
  <2> QED
    BY <2>2, <2>3, <2>4 DEF LearningAre
<1>2. ASSUME NEW h \in Handler, HandleEnrollment(h) PROVE Unentered(LearningSteps)
  <2>1. LearningSteps \in Parts
    BY DEF Parts
  <2> QED
    BY <1>2, <2>1, EnrollmentsMove, MovesUnentered, PartsApart, PartsDiffer, NoPartIdle DEF Parts
<1> QED
  BY <1>1, <1>2, LearningKept, CoursewareElse

\* There is an order of the activities to begin with.
LEMMA SomeOrder ==
    /\ \E p : p \in Orders(Activity)
    /\ \A p \in Orders(Activity) : \A a \in Activity : p[a] \in Nat
<1> DEFINE n == Cardinality(Activity)
<1>1. n \in Nat
  BY LearningAssumption, FS_CardinalityType
<1>2. PICK f : f \in Bijection(1 .. n, Activity)
  <2>1. IsFiniteSet(Activity)
    BY LearningAssumption
  <2>2. PICK k \in Nat : ExistsBijection(1 .. k, Activity)
    BY <2>1, FS_NatBijection
  <2>3. n = k
    BY <2>2, FS_CountingElements
  <2> QED
    BY <2>2, <2>3 DEF ExistsBijection
<1>3. f \in [1 .. n -> Activity] /\ \A a \in Activity : \E i \in 1 .. n : f[i] = a
  BY <1>2 DEF Bijection, Surjection
<1> DEFINE p == [a \in Activity |-> CHOOSE i \in 1 .. n : f[i] = a]
<1>4. \A a \in Activity : p[a] \in 1 .. n /\ f[p[a]] = a
  BY <1>3
<1>5. p \in [Activity -> 1 .. n] /\ \A a, b \in Activity : p[a] = p[b] => a = b
  BY <1>4
<1>6. p \in Orders(Activity)
  BY <1>5 DEF Orders, IsInjective
<1>7. \A r \in Orders(Activity) : \A a \in Activity : r[a] \in Nat
  BY <1>1 DEF Orders
<1> QED
  BY <1>6, <1>7

\* It is so at the start, with any order of the activities.
LEMMA InitLearning == Init => LearningAre
<1> SUFFICES ASSUME Init PROVE LearningAre
  OBVIOUS
<1>1. LearningInit /\ \A h \in Handler : handler[h] = Idle
  BY DEF Init, RequestsInit
<1>2. Typed(LearningSteps, LearningRequest)
  BY InitTyped DEF Parts
<1>3. MaterialsHeld
  <2>1. Idle.step # "material" /\ Idle.step \notin RenewSteps
    BY DEF Idle, RenewSteps
  <2> QED
    BY <1>1, <2>1 DEF MaterialsHeld
<1>4. PICK place \in Orders(Activity) : activity = [a \in Activity |->
            IF "activity" \in calls \/ ("reorder" \notin calls /\ place[a] > 1) THEN NoActivity
            ELSE [status |-> IF "progress" \in calls THEN "PUBLISHED" ELSE "DRAFT",
                  kind |-> CHOOSE k \in ActivityType : TRUE,
                  required |-> place[a] = 1, place |-> place[a]]]
  <2>1. (CHOOSE p \in Orders(Activity) : TRUE) \in Orders(Activity)
    BY SomeOrder
  <2> QED
    BY <1>1, <2>1 DEF LearningInit
<1>5. activity \in [Activity -> ActivityRow \cup {NoActivity}]
  <2>1. PICK k : k = CHOOSE t \in ActivityType : TRUE
    OBVIOUS
  <2>2. k \in ActivityType
    BY <2>1, LearningAssumption
  <2>3. PICK s \in ActivityStatus : s = IF "progress" \in calls THEN "PUBLISHED" ELSE "DRAFT"
    BY DEF ActivityStatus
  <2>4. ASSUME NEW a \in Activity
        PROVE  [status |-> s, kind |-> k, required |-> place[a] = 1, place |-> place[a]]
                 \in ActivityRow
    <3>1. place[a] \in Nat
      BY <1>4, SomeOrder
    <3>2. PICK b \in BOOLEAN : b = (place[a] = 1)
      OBVIOUS
    <3>3. [status |-> s, kind |-> k, required |-> b, place |-> place[a]] \in ActivityRow
      BY <2>2, <3>1 DEF ActivityRow
    <3> QED
      BY <3>2, <3>3
  <2>5. activity = [a \in Activity |->
            IF "activity" \in calls \/ ("reorder" \notin calls /\ place[a] > 1) THEN NoActivity
            ELSE [status |-> s, kind |-> k, required |-> place[a] = 1, place |-> place[a]]]
    BY <1>4, <2>1, <2>3
  <2>6. \A a \in Activity : activity[a] \in ActivityRow \cup {NoActivity}
    BY <2>4, <2>5
  <2> QED
    BY <2>5, <2>6
<1>6. material \in [Activity -> Seq(MaterialStatus)]
  <2>1. \A a \in Activity : material[a] \in {<<>>, <<"PUBLISHED">>, <<"DRAFT">>}
    BY <1>1 DEF LearningInit
  <2>2. "PUBLISHED" \in MaterialStatus /\ "DRAFT" \in MaterialStatus
    BY DEF MaterialStatus, ActivityStatus
  <2>3. /\ <<>> \in Seq(MaterialStatus) /\ <<"PUBLISHED">> \in Seq(MaterialStatus)
        /\ <<"DRAFT">> \in Seq(MaterialStatus)
    BY <2>2
  <2>4. \A a \in Activity : material[a] \in Seq(MaterialStatus)
    BY <2>1, <2>3
  <2>5. material = [a \in Activity |-> material[a]]
    BY <1>1 DEF LearningInit
  <2> QED
    BY <2>4, <2>5
<1>7. meeting \in {"DRAFT", "PUBLISHED", "COMPLETED", "ARCHIVED"}
      /\ activityType \in [ActivityType -> [active: BOOLEAN, requires: BOOLEAN]]
  BY <1>1 DEF LearningInit
<1>8. progress \in [Enrollee -> [Activity -> ProgressRow \cup {NoProgress}]]
  BY <1>1 DEF LearningInit
<1>9. aggregate \in [Enrollee -> AggregateRow]
  <2>1. NoAggregate \in AggregateRow
    BY DEF NoAggregate, AggregateRow
  <2> QED
    BY <1>1, <2>1 DEF LearningInit
<1> QED
  BY <1>2, <1>3, <1>5, <1>6, <1>7, <1>8, <1>9 DEF LearningAre, LearningTypeOK

\* So it is always.
LEMMA AlwaysLearning == Spec => []LearningAre
<1>1. Init => CourseFine
  BY InitCourse
<1>2. Steppable /\ CourseFine /\ [Next]_vars => CourseFine'
  BY CourseStep DEF CourseKept
<1>3. Steppable /\ LearningAre /\ CourseFine /\ [Next]_vars => LearningAre'
  BY LearningIsNext
<1> QED
  BY <1>1, <1>2, <1>3, InitLearning, AlwaysSteppable, PTL DEF Spec

-----------------------------------------------------------------------------
(* TypeOK *)

\* What is known of the requests and of the tables of the parts.
SlotsTyped ==
    /\ Steppable /\ Staged /\ WorkTyped
    /\ Typed(FilesSteps, FileRequest) /\ Typed(MarksSteps, MarkRequest)
    /\ Typed(GradesSteps, GradeRequest) /\ Typed(AttendanceSteps, AttendanceRequest)
    /\ Typed(EnrollmentsSteps, EnrollmentRequest)
    /\ Typed(QuestionsSteps, QuestionRequest) /\ Typed(ExamsSteps, ExamAsked)
    /\ Typed(DecisionsSteps, DecisionAsked) /\ Typed(LearningSteps, LearningRequest)
    /\ InstitutionAsked

\* What TypeOK says of the tables.
TablesTyped ==
    /\ CourseworkTypeOK /\ AttendanceTypeOK /\ ExamSetupTypeOK /\ DecisionsTypeOK
    /\ LearningTypeOK /\ OrganizationsTypeOK /\ CalendarTypeOK

\* Every slot is idle or at a step of one part, whose requests are typed.
LEMMA SlotsAreTyped == SlotsTyped /\ TablesTyped => TypeOK
<1> SUFFICES ASSUME SlotsTyped, TablesTyped PROVE TypeOK
  OBVIOUS
<1> DEFINE Request == {Idle} \cup CourseworkRequest
                        \cup EnrollmentRequest \cup AttendanceRequest
                        \cup SetupRequest \cup DecisionRequest
                        \cup LearningRequest \cup OrganizationRequest
                        \cup CalendarRequest
<1>1. ASSUME NEW h \in Handler PROVE handler[h] \in Request
  <2> DEFINE q == handler[h]
             Stands(S) == q.step \in S
  <2>0. /\ Idle \in Request
        /\ \A t \in SubmissionRequest : t \in Request
        /\ \A t \in FileRequest : t \in Request
        /\ \A t \in MarkRequest : t \in Request
        /\ \A t \in GradeRequest : t \in Request
    BY DEF CourseworkRequest
  <2>a. /\ \A t \in EnrollmentRequest : t \in Request
        /\ \A t \in AttendanceRequest : t \in Request
        /\ \A t \in SetupRequest : t \in Request
        /\ \A t \in DecisionRequest : t \in Request
        /\ \A t \in LearningRequest : t \in Request
        /\ \A t \in OrganizationRequest : t \in Request
        /\ \A t \in CalendarRequest : t \in Request
    OBVIOUS
  <2> HIDE DEF Request
  <2>1. \/ q = Idle
        \/ Stands(SubmitsSteps) \/ Stands(LinksSteps) \/ Stands(AssessSteps) \/ Stands(AssignmentsSteps)
        \/ Stands(FilesSteps) \/ Stands(MarksSteps) \/ Stands(GradesSteps) \/ Stands(AttendanceSteps)
        \/ Stands(EnrollmentsSteps) \/ Stands(QuestionsSteps) \/ Stands(ExamsSteps)
        \/ Stands(DecisionsSteps) \/ Stands(LearningSteps) \/ Stands(OrganizationsSteps)
        \/ Stands(CalendarSteps)
    BY DEF SlotsTyped, Staged, Parts
  <2>2. CASE \/ Stands(SubmitsSteps) \/ Stands(LinksSteps) \/ Stands(AssessSteps)
             \/ Stands(AssignmentsSteps) \/ Stands(FilesSteps) \/ Stands(MarksSteps) \/ Stands(GradesSteps)
    BY <2>0, <2>2 DEF SlotsTyped, WorkTyped, Typed
  <2>3. CASE Stands(AttendanceSteps) \/ Stands(EnrollmentsSteps) \/ Stands(LearningSteps)
    BY <2>a, <2>3 DEF SlotsTyped, Typed
  <2>4. CASE Stands(QuestionsSteps) \/ Stands(ExamsSteps) \/ Stands(DecisionsSteps)
    BY <2>a, <2>4, SetupAsked, Entries DEF SlotsTyped, Typed
  <2>5. CASE Stands(OrganizationsSteps) \/ Stands(CalendarSteps)
    BY <2>a, <2>5 DEF SlotsTyped, InstitutionAsked, Typed
  <2> QED
    BY <2>0, <2>1, <2>2, <2>3, <2>4, <2>5
<1>2. handler \in [Handler -> Request]
  BY <1>1 DEF SlotsTyped, Steppable
<1>3. crossed \subseteq InFlight
  BY DEF SlotsTyped, Staged
<1> QED
  BY <1>2, <1>3 DEF TablesTyped, TypeOK

\* Every table keeps to its columns and every handler to the requests it answers, for any
\* numbers of slots and rows: of whatever a handler has read some queries earlier, it
\* writes back nothing that the columns do not hold, whoever wrote in between.
THEOREM AcademyTyped == Spec => []TypeOK
<1>1. FilesConfirmed => FilesTypeOK
  BY DEF FilesConfirmed
<1>2. GradesAre => FinalGradesTypeOK
  BY DEF GradesAre
<1>3. EnrollmentsAre /\ AttendanceAre =>
        /\ AttendanceTypeOK
        /\ Typed(EnrollmentsSteps, EnrollmentRequest) /\ Typed(AttendanceSteps, AttendanceRequest)
  BY DEF EnrollmentsAre, AttendanceAre, AttendanceTypeOK
<1>4. QuestionsAre /\ VersionsTyped /\ ExamsAre =>
        /\ ExamSetupTypeOK
        /\ Typed(QuestionsSteps, QuestionRequest) /\ Typed(ExamsSteps, ExamAsked)
  BY DEF QuestionsAre, VersionsTyped, ExamsAre, ExamSetupTypeOK, QuestionsTypeOK, ItemRow
<1>5. DecisionsAre => DecisionsTypeOK /\ Typed(DecisionsSteps, DecisionAsked)
  BY DEF DecisionsAre
<1>6. LearningAre => LearningTypeOK /\ Typed(LearningSteps, LearningRequest)
  BY DEF LearningAre
<1>7. InstitutionKnown => OrganizationsTypeOK /\ CalendarTypeOK
  BY DEF InstitutionKnown
<1>8. /\ Steppable /\ Staged /\ SubmissionsTypeOK /\ WorkTyped
      /\ FilesConfirmed /\ Typed(FilesSteps, FileRequest)
      /\ MarksAre /\ Typed(MarksSteps, MarkAsked)
      /\ GradesAre /\ EnrollmentsAre /\ AttendanceAre
      /\ QuestionsAre /\ VersionsTyped /\ ExamsAre /\ DecisionsAre /\ LearningAre
      /\ InstitutionKnown /\ InstitutionAsked
      => TypeOK
  BY <1>1, <1>2, <1>3, <1>4, <1>5, <1>6, <1>7, MarksAreTyped, GradesAreTyped, SlotsAreTyped
  DEF SlotsTyped, TablesTyped, CourseworkTypeOK
<1> QED
  BY <1>8, AlwaysSteppable, AlwaysStaged, WorkAlwaysTyped, FilesAlwaysConfirmed, FilesTyped,
     AlwaysMarksAre, AlwaysGradesAre, AlwaysAttendanceAre, AlwaysQuestionsAre, AlwaysExamsAre,
     AlwaysDecisionsAre, AlwaysLearning, AlwaysInstitutionAsked, PTL
=============================================================================
