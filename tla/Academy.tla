------------------------------- MODULE Academy -------------------------------
(***************************************************************************)
(* The modules whose requests share the API, each with its own tables: a   *)
(* request is handled by one of them and may be lost at any query.         *)
(***************************************************************************)
EXTENDS Coursework, Attendance, ExamSetup, GraduationDecisions, Learning, Calendar

attendanceTables == <<rollTables, summary>>

catalogTables    == <<learningTables, institutionTables>>

vars == <<requests, courseTables, attendanceTables, setupTables, decisionTables,
          catalogTables>>

Init == /\ RequestsInit
        /\ CourseworkInit /\ AttendanceInit /\ ExamSetupInit /\ DecisionsInit
        /\ LearningInit /\ OrganizationsInit /\ CalendarInit

\* A request is lost, and of a decision perhaps the audit entry with it.
LoseRequest(h) ==
    /\ LoseDecision(h)
    /\ UNCHANGED <<courseTables, attendanceTables, setupTables, catalogTables>>

\* The calls that the other parts answer.
ClassCalls == {"enroll", "enrollment status", "transfer", "roll", "correct record",
    "refresh", "lesson", "OPEN", "CLOSED", "CANCELLED"}
SetupCalls == {"question", "question status", "kind", "version", "rewrite", "publish",
    "exam status", "setting", "blueprint", "session status", "seat"}
DecisionCalls == {"create", "approve", "correct", "revoke"}
LearningCalls == {"meeting", "activity type", "activity", "activity status", "activity edit",
    "reorder", "material", "material status", "material version", "progress"}
OrganizationCalls == {"organization", "move"}
CalendarCalls == {"schedule", "teaching", "staff"}

Operate(h) ==
    \/ /\ CourseworkHandler(h)
       /\ UNCHANGED <<attendanceTables, setupTables, decisionTables, catalogTables>>
    \/ /\ Asked(ClassCalls) /\ HandleAttendance(h)
       /\ UNCHANGED <<courseTables, setupTables, decisionTables, catalogTables>>
    \/ /\ Asked(ClassCalls) /\ HandleEnrollment(h)
       /\ UNCHANGED <<courseTables, lesson, record, correction, summary,
                      setupTables, decisionTables, catalogTables>>
    \/ /\ Asked(SetupCalls) /\ HandleSetup(h)
       /\ UNCHANGED <<courseTables, attendanceTables, decisionTables, catalogTables>>
    \/ /\ Asked(DecisionCalls) /\ HandleDecision(h)
       /\ UNCHANGED <<courseTables, attendanceTables, setupTables, catalogTables>>
    \/ /\ \/ Asked(LearningCalls) /\ HandleLearning(h) /\ UNCHANGED institutionTables
          \/ Asked(OrganizationCalls) /\ HandleOrganization(h) /\ UNCHANGED <<learningTables, booking>>
          \/ Asked(CalendarCalls) /\ HandleCalendar(h) /\ UNCHANGED <<learningTables, parent>>
       /\ UNCHANGED <<courseTables, attendanceTables, setupTables, decisionTables>>

Outside ==
    \/ /\ CourseworkOutside
       /\ UNCHANGED <<attendanceTables, setupTables, decisionTables, catalogTables>>
    \/ CreateLesson /\ UNCHANGED <<courseTables, setupTables, decisionTables, catalogTables>>
    \/ /\ DecisionsOutside
       /\ UNCHANGED <<courseTables, attendanceTables, setupTables, catalogTables>>

Next == (\E h \in Handler : Operate(h) \/ LoseRequest(h)) \/ Outside

Spec == Init /\ [][Next]_vars

\* Every table keeps to its columns and every handler to what it has received.
TypeOK ==
    /\ CourseworkTypeOK /\ AttendanceTypeOK /\ ExamSetupTypeOK /\ DecisionsTypeOK
    /\ LearningTypeOK /\ OrganizationsTypeOK /\ CalendarTypeOK
    /\ handler \in [Handler -> {Idle} \cup CourseworkRequest
                                 \cup EnrollmentRequest \cup AttendanceRequest
                                 \cup SetupRequest \cup DecisionRequest
                                 \cup LearningRequest \cup OrganizationRequest
                                 \cup CalendarRequest]
    /\ crossed \subseteq InFlight
=============================================================================
