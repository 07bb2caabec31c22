----------------------------- MODULE Attendance -----------------------------
(***************************************************************************)
(* Attendance in the classes of one batch: AttendanceService,              *)
(* AttendanceCorrectionsService and AttendanceSummaryService               *)
(* (attendance, attendance-corrections, attendance-summary under           *)
(* apps/api/src) with their repositories.  The summaries are a cache:      *)
(* whoever changes the roll recounts its scopes one after another from     *)
(* what the roll is by then.  A class has one subject and the batch is the *)
(* whole program, whose scopes are counted in the same way.                *)
(***************************************************************************)
EXTENDS Integers, SequencesExt, Enrollments

CONSTANTS
    Lesson,        \* attendance sessions
    ClassOf,       \* ClassOf[l]: the class whose subject the session is for
    Batch,         \* the scope of the whole batch
    Presence,      \* the statuses that are recorded
    MaxCorrections \* bound: corrections of one record

AttendanceStatus == {"PRESENT", "LATE", "EXCUSED", "SICK", "ABSENT"}
LessonStatus     == {"DRAFT", "OPEN", "CLOSED", "CANCELLED"}

ASSUME AttendanceAssumption ==
    /\ ClassOf \in [Lesson -> Class]
    /\ Presence \subseteq AttendanceStatus
    /\ Enrollee \cap Class = {} /\ Batch \notin Enrollee \cup Class
    /\ MaxCorrections \in Nat
    /\ IsFiniteSet(Enrollee) /\ IsFiniteSet(Lesson)

VARIABLES
    lesson,        \* attendance_sessions: their status
    record,        \* attendance_records, unique per session and enrollment
    correction,    \* attendance_corrections of each record
    summary        \* attendance_summaries

rollTables == <<enrolled, lesson, record, correction>>
Scope      == Enrollee \cup Class \cup {Batch}

-----------------------------------------------------------------------------
(* Counting *)

Counts(n, people, tally, percent) ==
    [total |-> n, participants |-> people, tally |-> tally, percent |-> percent]
EmptyCounts == Counts(0, 0, [s \in AttendanceStatus |-> 0], 0)

\* percentage, in hundredths, rounded half up
Percentage(a, b) == IF b <= 0 THEN 0 ELSE (20000 * a + b) \div (2 * b)

\* personalCounts: a session without a record is an absence.
PersonalTally(n, e, L) ==
    LET recorded == Cardinality({l \in L : record[l][e] # "none"})
    IN  [s \in AttendanceStatus |->
            Cardinality({l \in L : record[l][e] = s})
            + IF s = "ABSENT" THEN Max({0, n - recorded}) ELSE 0]

Attended(tally) == tally["PRESENT"] + tally["LATE"]

PersonalCounts(e, L) ==
    LET tally == PersonalTally(Cardinality(L), e, L)
    IN  Counts(Cardinality(L), 1, tally, Percentage(Attended(tally), Cardinality(L)))

\* aggregateGroup, for the sessions L and who is in which class: a member's
\* sessions are those of the own class, the records are those of all of L.
GroupCounts(L, members) ==
    LET Expected(e) == Cardinality({l \in L : ClassOf[l] = members[e]})
        tally == [s \in AttendanceStatus |->
                    SumFunction([e \in DOMAIN members |-> PersonalTally(Expected(e), e, L)[s]])]
    IN  Counts(Cardinality(L), Cardinality(DOMAIN members), tally,
               Percentage(Attended(tally), SumFunction([e \in DOMAIN members |-> Expected(e)])))

ClassesOf(L)  == {ClassOf[l] : l \in L}
PlacedIn(C)   == [e \in {e \in Enrollee : enrolled[e].class \in C} |-> enrolled[e].class]

\* The sessions that count for a scope are the closed ones.
Eligible(C) == {l \in Lesson : lesson[l] = "CLOSED" /\ ClassOf[l] \in C}

\* The classes whose sessions belong to a scope.
ClassesIn(s) == IF s = Batch THEN Class
                ELSE IF s \in Class THEN {s} ELSE {enrolled[s].class}

\* What a refresh of the scope gives when nothing happens in between.
Recount(s) ==
    LET L == Eligible(ClassesIn(s))
        members == PlacedIn(ClassesOf(L))
    IN  IF L = {} \/ members = <<>> THEN EmptyCounts
        ELSE IF s \in Enrollee THEN PersonalCounts(s, L) ELSE GroupCounts(L, members)

AttendanceInit ==
    /\ EnrollmentsInit
    /\ lesson = [l \in Lesson |-> IF "lesson" \in calls THEN "none" ELSE "OPEN"]
    /\ record = [l \in Lesson |-> [e \in Enrollee |->
                    IF "correct record" \in calls /\ "roll" \notin calls
                      THEN "PRESENT" ELSE "none"]]
    /\ correction = [l \in Lesson |-> [e \in Enrollee |-> <<>>]]
    /\ summary = [s \in Scope |-> Recount(s)]

-----------------------------------------------------------------------------
(* AttendanceService *)

\* createSession: with any status; no summary is refreshed.
CreateLesson == \E l \in Lesson, s \in LessonStatus :
    /\ "lesson" \in calls
    /\ lesson[l] = "none"
    /\ lesson' = [lesson EXCEPT ![l] = s]
    /\ WriteOutside
    /\ UNCHANGED <<enrolled, record, correction, summary>>

\* What is left to do after a change in class c: its scopes are recounted.
Refreshing(c) == [step |-> "class rows", class |-> c, whole |-> TRUE, todo |-> <<>>,
                  lessons |-> {}, members |-> <<>>, row |-> EmptyCounts]

\* updateSessionStatus
BeginLessonStatus(h) == \E l \in Lesson, to \in LessonStatus :
    /\ to \in calls
    /\ lesson[l] \notin {"none", to}
    /\ Receive(h, [step |-> "lesson status", l |-> l, to |-> to, from |-> lesson[l]])
    /\ UNCHANGED <<rollTables, summary>>

\* Mutation: only closing a session refreshes the summaries.
ClosingCounts(from, to) == to = "CLOSED"

ChangesCounts(from, to) == "CLOSED" \in {from, to}

SetLessonStatus(h) ==
    LET q == handler[h]
    IN  /\ At(h, "lesson status")
        /\ lesson' = [lesson EXCEPT ![q.l] = q.to]
        /\ Commits(h, IF ChangesCounts(q.from, q.to) THEN Refreshing(ClassOf[q.l])
                      ELSE Idle)
        /\ UNCHANGED <<enrolled, record, correction, summary>>

\* recordAttendance, bulkRecordAttendance: findSessionById
BeginRoll(h) == \E l \in Lesson, E \in (SUBSET Enrollee) \ {{}} : \E marks \in [E -> Presence] :
    /\ "roll" \in calls
    /\ lesson[l] = "OPEN"
    /\ Receive(h, [step |-> "roll call", l |-> l, marks |-> marks])
    /\ UNCHANGED <<rollTables, summary>>

\* Mutation: whoever is in the class may be marked, active or not.
AnyoneInClass(e, l) == enrolled[e].class \in {NoClass, ClassOf[l]}

\* The enrollments are active and in the session's class or in none.
MayAttend(e, l) ==
    enrolled[e].status = "ACTIVE" /\ enrolled[e].class \in {NoClass, ClassOf[l]}

CheckEnrollments(h) ==
    LET q == handler[h]
    IN  /\ At(h, "roll call")
        /\ IF \A e \in DOMAIN q.marks : MayAttend(e, q.l)
             THEN Goto(h, "record") ELSE Finish(h)
        /\ UNCHANGED <<rollTables, summary>>

\* upsertRecord, bulkUpsertRecords: one transaction, whatever the session is by now.
RecordRoll(h) ==
    LET q == handler[h]
    IN  /\ At(h, "record")
        /\ record' = [record EXCEPT ![q.l] =
                [e \in Enrollee |-> IF e \in DOMAIN q.marks THEN q.marks[e] ELSE @[e]]]
        /\ Commits(h, Refreshing(ClassOf[q.l]))
        /\ UNCHANGED <<enrolled, lesson, correction, summary>>

-----------------------------------------------------------------------------
(* AttendanceCorrectionsService *)

\* findTargetRecord: the record with its session's status
BeginCorrection(h) == \E l \in Lesson, e \in Enrollee, m \in Presence :
    /\ "correct record" \in calls
    /\ record[l][e] \notin {"none", m}
    /\ lesson[l] # "CANCELLED"
    /\ Len(correction[l][e]) < MaxCorrections
    /\ Receive(h, [step |-> "correction", l |-> l, e |-> e, from |-> record[l][e], to |-> m])
    /\ UNCHANGED <<rollTables, summary>>

\* applyCorrection: the log row and the record in one transaction.
ApplyCorrection(h) ==
    LET q == handler[h]
    IN  /\ At(h, "correction")
        /\ correction' = [correction EXCEPT ![q.l][q.e] =
                                Append(@, [from |-> q.from, to |-> q.to])]
        /\ record' = [record EXCEPT ![q.l][q.e] = q.to]
        /\ Commits(h, Refreshing(ClassOf[q.l]))
        /\ UNCHANGED <<enrolled, lesson, summary>>

-----------------------------------------------------------------------------
(* AttendanceSummaryService *)

\* refresh of one scope on request, or because a report finds no row.
BeginRefresh(h) == \E s \in Scope :
    /\ "refresh" \in calls
    /\ Receive(h, [Refreshing(NoClass) EXCEPT !.step = "refresh", !.todo = <<s>>])
    /\ UNCHANGED <<rollTables, summary>>

\* refreshForClassSubject: the persons in the class, the class, the batch
ReadClassRows(h) ==
    LET c == handler[h].class
    IN  /\ At(h, "class rows")
        /\ Reads(h, [handler[h] EXCEPT !.step = "refresh",
                        !.todo = SetToSeq(DOMAIN PlacedIn({c})) \o <<c, Batch>>])
        /\ UNCHANGED <<rollTables, summary>>

Counted(q, row) == [q EXCEPT !.step = "summary", !.row = row,
                             !.lessons = {}, !.members = <<>>]

\* calculateEnrollmentCounts starts with the class that the person is in.
ReadPlace(h) ==
    LET q == handler[h]
        e == Head(q.todo)
    IN  /\ At(h, "refresh") /\ e \in Enrollee
        /\ Reads(h, IF enrolled[e].class = NoClass THEN Counted(q, EmptyCounts)
                    ELSE [q EXCEPT !.step = "lessons", !.members = [p \in {e} |-> enrolled[e].class]])
        /\ UNCHANGED <<rollTables, summary>>

\* The closed sessions of the scope; none is the end of the count.
ReadLessons(h) ==
    LET q == handler[h]
        s == Head(q.todo)
        L == Eligible(IF s \in Enrollee THEN {q.members[s]} ELSE ClassesIn(s))
    IN  /\ IF At(h, "refresh") THEN s \notin Enrollee ELSE At(h, "lessons")
        /\ Reads(h, IF L = {} THEN Counted(q, EmptyCounts)
                    ELSE [q EXCEPT !.step = IF s \in Enrollee THEN "records" ELSE "members",
                                   !.lessons = L])
        /\ UNCHANGED <<rollTables, summary>>

ReadMembers(h) ==
    LET q == handler[h]
        members == PlacedIn(ClassesOf(q.lessons))
    IN  /\ At(h, "members")
        /\ Reads(h, IF members = <<>> THEN Counted(q, EmptyCounts)
                    ELSE [q EXCEPT !.step = "records", !.members = members])
        /\ UNCHANGED <<rollTables, summary>>

ReadRecords(h) ==
    LET q == handler[h]
        s == Head(q.todo)
    IN  /\ At(h, "records")
        /\ Reads(h, Counted(q, IF s \in Enrollee THEN PersonalCounts(s, q.lessons)
                               ELSE GroupCounts(q.lessons, q.members)))
        /\ UNCHANGED <<rollTables, summary>>

\* On to the next scope, or the answer.
NextScope(q, whole) ==
    IF Len(q.todo) = 1 THEN Idle
    ELSE [q EXCEPT !.step = "refresh", !.todo = Tail(@), !.row = EmptyCounts,
                   !.whole = @ /\ whole]

\* upsertSummary
StoreSummary(h) ==
    LET q == handler[h]
    IN  /\ At(h, "summary")
        /\ summary' = [summary EXCEPT ![Head(q.todo)] = q.row]
        /\ Commits(h, NextScope(q, TRUE))
        /\ UNCHANGED rollTables

\* refreshQuietly: a refresh that fails at any of its queries is skipped.
SkipSummary(h) ==
    LET q == handler[h]
    IN  /\ At(h, "summary") /\ q.class # NoClass
        /\ Reads(h, NextScope(q, FALSE))
        /\ UNCHANGED <<rollTables, summary>>

HandleAttendance(h) ==
    \/ BeginLessonStatus(h) \/ SetLessonStatus(h)
    \/ BeginRoll(h) \/ CheckEnrollments(h) \/ RecordRoll(h)
    \/ BeginCorrection(h) \/ ApplyCorrection(h)
    \/ BeginRefresh(h) \/ ReadClassRows(h) \/ ReadPlace(h) \/ ReadLessons(h)
    \/ ReadMembers(h) \/ ReadRecords(h) \/ StoreSummary(h) \/ SkipSummary(h)

-----------------------------------------------------------------------------
SummaryRow == [total: Nat, participants: Nat, tally: [AttendanceStatus -> Nat],
               percent: Nat]

AttendanceRequest ==
    [step: {"lesson status"}, l: Lesson, to: LessonStatus, from: LessonStatus]
    \cup [step: {"roll call", "record"}, l: Lesson,
          marks: UNION {[E -> Presence] : E \in SUBSET Enrollee}]
    \cup [step: {"correction"}, l: Lesson, e: Enrollee, from: AttendanceStatus, to: Presence]
    \cup [step: {"class rows", "refresh", "lessons", "members", "records", "summary"},
          class: Class \cup {NoClass}, whole: BOOLEAN, todo: Seq(Scope),
          lessons: SUBSET Lesson, members: UNION {[E -> Class] : E \in SUBSET Enrollee},
          row: SummaryRow]

AttendanceTypeOK ==
    /\ EnrollmentsTypeOK
    /\ lesson \in [Lesson -> LessonStatus \cup {"none"}]
    /\ record \in [Lesson -> [Enrollee -> AttendanceStatus \cup {"none"}]]
    /\ correction \in [Lesson -> [Enrollee ->
                        Seq([from: AttendanceStatus, to: AttendanceStatus])]]
    /\ summary \in [Scope -> SummaryRow]

-----------------------------------------------------------------------------
(* Properties *)

\* An enrollment has a completion date if and only if it is completed, although
\* each change writes back a date that it has read some queries earlier.
CompletedIsDated ==
    \A e \in Enrollee : enrolled[e].completed <=> enrolled[e].status = "COMPLETED"

\* Requests that no other one crosses keep the promise of the roll: no direct
\* change once a session is closed, and corrections that say what they replaced.
Roll == INSTANCE RollBook
KeepsRollBook == Roll!Init /\ [][Promised(Roll!Next, Roll!vars)]_(Roll!vars)

\* When a change of the roll or of a session is answered, and no other request has
\* crossed it and no refresh was skipped, every scope the change concerns shows
\* what a recount would give.
FreshWhenAnswered ==
    [][\A h \in Handler \ crossed :
        /\ SetLessonStatus(h) /\ handler'[h] = Idle
             => \A s \in Scope : Recount(s)' = Recount(s)
        /\ StoreSummary(h) /\ handler'[h] = Idle /\ handler[h].whole /\ handler[h].class # NoClass
             => LET c == handler[h].class
                IN  \A s \in DOMAIN PlacedIn({c}) \cup {c, Batch} : summary'[s] = Recount(s)
      ]_<<calls, lesson, summary>>
=============================================================================
